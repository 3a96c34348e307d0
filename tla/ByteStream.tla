----------------------------- MODULE ByteStream -----------------------------
(***************************************************************************)
(* What a stream promises, whatever buffers lie in between: it is a queue  *)
(* from the side that sends to the side that gets, the program and the     *)
(* kernel, one way or the other.  Bytes arrive in the order in which they  *)
(* were sent, each once.  Some may be lost only when the stream is closed. *)
(***************************************************************************)
EXTENDS Naturals, Sequences

CONSTANT Streams

VARIABLES open,      \* the streams in use
          sent, got  \* per stream, what was put in and what has come out

vars == <<open, sent, got>>

\* `s` reaches from the empty sequence to the sequence t, or to some of it.
Starts(s, t) == Len(s) <= Len(t) /\ s = SubSeq(t, 1, Len(s))

Init == /\ open \subseteq Streams
        /\ sent = [s \in Streams |-> <<>>]
        /\ got = sent

Open(s) == /\ s \notin open
           /\ open' = open \cup {s}
           /\ sent' = [sent EXCEPT ![s] = <<>>]
           /\ got' = [got EXCEPT ![s] = <<>>]

Send(s) == /\ s \in open
           /\ Starts(sent[s], sent'[s])
           /\ sent' = [sent EXCEPT ![s] = sent'[s]]
           /\ UNCHANGED <<open, got>>

Get(s) == /\ s \in open
          /\ Starts(got[s], got'[s]) /\ Starts(got'[s], sent[s])
          /\ got' = [got EXCEPT ![s] = got'[s]]
          /\ UNCHANGED <<open, sent>>

Close(s) == /\ s \in open
            /\ open' = open \ {s}
            /\ UNCHANGED <<sent, got>>

Next == \E s \in Streams : Open(s) \/ Send(s) \/ Get(s) \/ Close(s)

Spec == Init /\ [][Next]_vars
=============================================================================
