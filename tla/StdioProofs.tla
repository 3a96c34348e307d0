---------------------------- MODULE StdioProofs -----------------------------
(***************************************************************************)
(* For every size of the table and of the buffers, and whatever the        *)
(* program and the kernel do: streams lose no byte, calls tell the truth,  *)
(* the table is sound, and the buffered streams implement queues of bytes. *)
(***************************************************************************)
EXTENDS Stdio, SequenceTheorems, FiniteSetTheorems, TLAPS

FileT == [fd : -1 .. MAX_FILES, flags : SUBSET {"R", "W", "EOF", "ERR"},
          buf : Seq(Bytes), buf_pos : Nat]

CallT == [op : {"none", "fopen", "fclose", "fflush", "clearerr", "fwrite", "fread", "exit"},
          s : -1 .. MAX_FILES, size : Nat, want : Nat, i : Nat,
          pc : {"returned", "open", "flush", "close", "copy", "fill", "fini", "gone"},
          res : Int, out : BOOLEAN]

Types == /\ streams \in [Slots -> FileT]
         /\ n_streams \in Int
         /\ call \in CallT
         /\ kfds \in SUBSET (0 .. MAX_FILES)
         /\ sent \in [Slots -> Seq(Bytes)]
         /\ got \in [Slots -> Seq(Bytes)]

\* The bounds of the buffers.
Within == \A s \in Slots : Len(Buf(s)) <= FILE_BUF_CAP /\ Pos(s) <= Len(Buf(s))

\* A struct with no flags is zero, one with flags has a direction, and only
\* the one that fopen is opening has no descriptor.
Directed(flags) == flags \cap {"R", "W"} # {}
Idle == /\ \A s \in Slots : streams[s] = Zero \/ Directed(streams[s].flags)
        /\ \A s \in Slots : streams[s].fd = -1 =>
             /\ At("open") /\ call.s = s
             /\ streams[s].flags # {} /\ Buf(s) = <<>> /\ Pos(s) = 0
        /\ At("open") => /\ call.s \in Slots /\ streams[call.s].fd = -1
                         /\ call.op = "fopen"

\* What a call in progress may rely on.
CallSound ==
    /\ call.pc \in {"flush", "close", "copy", "fill"} => call.s \in Opened
    /\ At("flush") => /\ call.op \in {"fwrite", "fflush", "fclose", "exit"}
                      /\ call.op = "fwrite" => call.size # 0
    /\ At("copy")  => call.op \in {"fwrite", "fread"} /\ call.size # 0
    /\ At("fill")  => /\ call.op = "fread" /\ call.size # 0
                      /\ Buf(call.s) = <<>> /\ Pos(call.s) = 0
    /\ At("close") => call.op = "fclose"
    /\ At("fini")  => call.op = "exit" /\ call.s \in 0 .. MAX_FILES

\* What a call already owes the program before it returns.
HandedOver(s) == "W" \in streams[s].flags => got[s] = sent[s] \/ "ERR" \in streams[s].flags

Owed == /\ AnswersAreTrue
        /\ At("close") /\ call.out /\ call.res = 0 => got[call.s] = sent[call.s]
        /\ At("fini") \/ (At("flush") /\ call.op = "exit") =>
             \A t \in Opened : t < call.s => HandedOver(t)

\* The table, at every moment.
Table == /\ n_streams = Cardinality(Taken)
         /\ {streams[s].fd : s \in Opened} = kfds
         /\ \A s, t \in Opened : s # t => streams[s].fd # streams[t].fd

IInv == /\ Types
        /\ Within
        /\ NothingLost
        /\ Idle
        /\ CallSound
        /\ Owed
        /\ Table

-----------------------------------------------------------------------------
(***************************************************************************)
(* Sequences: what is in a buffer, and what has left it.                   *)
(***************************************************************************)
Rest(b, p) == SubSeq(b, p + 1, Len(b))       \* the bytes not yet passed on

LEMMA SliceType ==
    ASSUME NEW b \in Seq(Bytes), NEW m \in Nat \ {0}, NEW n \in Nat, n <= Len(b)
    PROVE  SubSeq(b, m, n) \in Seq(Bytes)
  <1>1. \A i \in m .. n : b[i] \in Bytes
    BY ElementOfSeq, LenProperties
  <1> QED BY <1>1, SubSeqProperties

LEMMA Regroup ==
    \A s, t, u \in Seq(Bytes) : (s \o t) \o u = s \o (t \o u)
  BY ConcatAssociative

LEMMA RestEmpty ==
    \A b, g \in Seq(Bytes), p \in Nat : p >= Len(b) => g \o Rest(b, p) = g
<1> SUFFICES ASSUME NEW b \in Seq(Bytes), NEW g \in Seq(Bytes), NEW p \in Nat, p >= Len(b)
             PROVE  g \o Rest(b, p) = g
  OBVIOUS
<1>1. Rest(b, p) = <<>>
  BY SubSeqEmpty, LenProperties DEF Rest
<1> QED BY <1>1, ConcatEmptySeq

LEMMA RestOfEmpty ==
    \A g \in Seq(Bytes) : g = g \o Rest(<<>>, 0)
<1>1. <<>> \in Seq(Bytes) /\ Len(<<>>) = 0
  BY EmptySeq
<1>2. Rest(<<>>, 0) = <<>>
  BY <1>1, SubSeqEmpty DEF Rest
<1> QED BY <1>2, ConcatEmptySeq

\* Bytes leave the buffer in their order.
LEMMA RestPassed ==
    ASSUME NEW b \in Seq(Bytes), NEW p \in Nat, NEW n \in Nat, p + n <= Len(b),
           NEW g \in Seq(Bytes)
    PROVE  g \o Rest(b, p) = (g \o SubSeq(b, p + 1, p + n)) \o Rest(b, p + n)
  <1>1. Len(b) \in Nat
    BY LenProperties
  <1>2. /\ p + 1 \in 1 .. Len(b) + 1 /\ p + n \in (p + 1) - 1 .. Len(b)
        /\ Len(b) \in p + n .. Len(b)
    BY <1>1
  <1>3. SubSeq(b, p + 1, p + n) \o SubSeq(b, (p + n) + 1, Len(b)) = SubSeq(b, p + 1, Len(b))
    BY <1>2, ConcatAdjacentSubSeq
  <1>4. SubSeq(b, p + 1, p + n) \in Seq(Bytes) /\ SubSeq(b, (p + n) + 1, Len(b)) \in Seq(Bytes)
    BY <1>1, SliceType
  <1>5. g \o (SubSeq(b, p + 1, p + n) \o SubSeq(b, (p + n) + 1, Len(b)))
          = (g \o SubSeq(b, p + 1, p + n)) \o SubSeq(b, (p + n) + 1, Len(b))
    BY <1>4, Regroup
  <1> QED BY <1>3, <1>5 DEF Rest

LEMMA RestPassedOne ==
    ASSUME NEW b \in Seq(Bytes), NEW p \in Nat, p < Len(b), NEW g \in Seq(Bytes)
    PROVE  /\ b[p + 1] \in Bytes
           /\ g \o Rest(b, p) = Append(g, b[p + 1]) \o Rest(b, p + 1)
  <1>1. Len(b) \in Nat
    BY LenProperties
  <1>2. b[p + 1] \in Bytes
    BY <1>1, ElementOfSeq
  <1>3. Rest(b, p) = <<b[p + 1]>> \o Rest(b, p + 1)
    BY <1>1, SubSeqRecursiveFirst DEF Rest
  <1>4. <<b[p + 1]>> \in Seq(Bytes) /\ Rest(b, p + 1) \in Seq(Bytes)
    BY <1>1, <1>2, SliceType DEF Rest
  <1>5. Append(g, b[p + 1]) = g \o <<b[p + 1]>>
    BY <1>2, AppendIsConcat
  <1>6. g \o (<<b[p + 1]>> \o Rest(b, p + 1)) = (g \o <<b[p + 1]>>) \o Rest(b, p + 1)
    BY <1>4, Regroup
  <1> QED BY <1>2, <1>3, <1>5, <1>6

\* A byte enters the buffer at its end.
LEMMA RestGrown ==
    ASSUME NEW b \in Seq(Bytes), NEW p \in Nat, p <= Len(b),
           NEW g \in Seq(Bytes), NEW x \in Bytes
    PROVE  Append(g \o Rest(b, p), x) = g \o Rest(Append(b, x), p)
  <1>1. Len(b) \in Nat
    BY LenProperties
  <1>2. /\ Append(b, x) \in Seq(Bytes) /\ Len(Append(b, x)) = Len(b) + 1
        /\ Append(b, x)[Len(b) + 1] = x
        /\ Append(b, x) = b \o <<x>> /\ <<x>> \in Seq(Bytes)
    BY <1>1, AppendProperties, AppendIsConcat
  <1>3. Rest(b, p) \in Seq(Bytes)
    BY <1>1, SliceType DEF Rest
  <1>4. Rest(Append(b, x), p) = SubSeq(Append(b, x), p + 1, Len(b)) \o <<x>>
    <2> DEFINE c == Append(b, x)
               n == Len(b) + 1
    <2>1. c \in Seq(Bytes) /\ p + 1 \in 1 .. Len(c) /\ n \in p + 1 .. Len(c)
      BY <1>1, <1>2
    <2>2. Len(c) = n /\ c[n] = x /\ n - 1 = Len(b)
      BY <1>1, <1>2
    <2> HIDE DEF c, n
    <2>3. SubSeq(c, p + 1, n) = SubSeq(c, p + 1, n - 1) \o <<c[n]>>
      BY <2>1, SubSeqRecursiveSecond
    <2>4. Rest(c, p) = SubSeq(c, p + 1, Len(b)) \o <<x>>
      BY <2>2, <2>3 DEF Rest
    <2> QED BY <2>4 DEF c
  <1>5. SubSeq(Append(b, x), p + 1, Len(b)) = SubSeq(b, p + 1, Len(b))
    <2>1. CASE p < Len(b)
      BY <1>1, <1>2, <2>1, SubSeqOfConcat1
    <2>2. CASE p = Len(b)
      BY <1>1, <2>2, SubSeqEmpty
    <2> QED BY <1>1, <2>1, <2>2
  <1>6. Append(g \o Rest(b, p), x) = (g \o Rest(b, p)) \o <<x>>
    BY <1>3, ConcatProperties, AppendIsConcat
  <1>7. (g \o Rest(b, p)) \o <<x>> = g \o (Rest(b, p) \o <<x>>)
    BY <1>2, <1>3, Regroup
  <1>8. Rest(Append(b, x), p) = Rest(b, p) \o <<x>>
    BY <1>4, <1>5 DEF Rest
  <1> QED BY <1>6, <1>7, <1>8

\* A buffer just filled holds exactly what has been read.
LEMMA RestFilled ==
    ASSUME NEW b \in Seq(Bytes)
    PROVE  Rest(b, 0) = b
  BY SubSeqFull, LenProperties DEF Rest
-----------------------------------------------------------------------------
(***************************************************************************)
(* The initial states.                                                     *)
(***************************************************************************)
LEMMA Initially == Init => IInv
<1> SUFFICES ASSUME Init PROVE IInv
  OBVIOUS
<1> USE StdioAssumption
<1>1. {0, 1, 2} \subseteq Slots /\ Slots \subseteq Nat
  BY DEF Slots
<1>2. /\ \A s \in {0, 1, 2} : /\ streams[s] = Std(s, IF s = 0 THEN "R" ELSE "W")
                              /\ streams[s].fd = s /\ streams[s].flags # {}
      /\ \A s \in {0, 1, 2} : Directed(streams[s].flags)
      /\ \A s \in Slots \ {0, 1, 2} : streams[s] = Zero
      /\ \A s \in Slots : /\ streams[s] \in FileT
                          /\ streams[s].buf = <<>> /\ streams[s].buf_pos = 0
                          /\ streams[s].fd # -1
  <2>1. <<>> \in Seq(Bytes)
    BY EmptySeq
  <2>2. \A f \in {"R", "W"}, d \in 0 .. 2 : /\ Std(d, f) \in FileT
                                            /\ Std(d, f).fd = d /\ Std(d, f).flags = {f}
                                            /\ Std(d, f).buf = <<>> /\ Std(d, f).buf_pos = 0
    <3> SUFFICES ASSUME NEW f \in {"R", "W"}, NEW d \in 0 .. 2
                 PROVE  /\ Std(d, f) \in FileT
                        /\ Std(d, f).fd = d /\ Std(d, f).flags = {f}
                        /\ Std(d, f).buf = <<>> /\ Std(d, f).buf_pos = 0
      OBVIOUS
    <3>1. Std(d, f) = [fd |-> d, flags |-> {f}, buf |-> <<>>, buf_pos |-> 0]
      BY DEF Std
    <3>2. d \in -1 .. MAX_FILES /\ {f} \in SUBSET {"R", "W", "EOF", "ERR"}
      OBVIOUS
    <3> QED BY <2>1, <3>1, <3>2 DEF FileT
  <2>3. Zero \in FileT /\ Zero.buf = <<>> /\ Zero.buf_pos = 0 /\ Zero.fd = 0
    BY <2>1 DEF Zero, FileT
  <2>4. \A s \in Slots : streams[s] = IF s = 0 THEN Std(0, "R")
                                      ELSE IF s \in {1, 2} THEN Std(s, "W") ELSE Zero
    BY DEF Init
  <2>5. \A f \in {"R", "W"} : {f} # {} /\ Directed({f})
    BY DEF Directed
  <2>6. \A s \in {0, 1, 2} : streams[s] = Std(s, IF s = 0 THEN "R" ELSE "W")
    BY <1>1, <2>4
  <2>7. \A s \in {0, 1, 2} : /\ streams[s] \in FileT /\ streams[s].fd = s
                             /\ streams[s].flags # {} /\ Directed(streams[s].flags)
                             /\ streams[s].buf = <<>> /\ streams[s].buf_pos = 0
    <3> SUFFICES ASSUME NEW s \in {0, 1, 2}
                 PROVE  /\ streams[s] \in FileT /\ streams[s].fd = s
                        /\ streams[s].flags # {} /\ Directed(streams[s].flags)
                        /\ streams[s].buf = <<>> /\ streams[s].buf_pos = 0
      OBVIOUS
    <3>1. PICK f \in {"R", "W"} : streams[s] = Std(s, f)
      BY <2>6
    <3>2. s \in 0 .. 2
      OBVIOUS
    <3>3. /\ Std(s, f) \in FileT /\ Std(s, f).fd = s /\ Std(s, f).flags = {f}
          /\ Std(s, f).buf = <<>> /\ Std(s, f).buf_pos = 0
      BY <2>2, <3>2
    <3>4. {f} # {} /\ Directed({f})
      BY <2>5
    <3> QED BY <3>1, <3>3, <3>4
  <2>8. \A s \in Slots \ {0, 1, 2} : streams[s] = Zero
    BY <2>4
  <2> QED BY <2>3, <2>6, <2>7, <2>8
<1>3. Types
  <2>1. streams \in [Slots -> FileT]
    BY <1>2 DEF Init
  <2>2. call \in CallT
    BY DEF Init, NoCall, NewCall, CallT, NULL
  <2>3. sent \in [Slots -> Seq(Bytes)] /\ got \in [Slots -> Seq(Bytes)]
    BY EmptySeq DEF Init
  <2> QED BY <2>1, <2>2, <2>3 DEF Init, Types
<1>4. Within
  BY <1>2, EmptySeq DEF Within, Buf, Pos
<1>5. NothingLost
  <2> SUFFICES ASSUME NEW s \in Opened
               PROVE  sent[s] = got[s] \o SubSeq(Buf(s), Pos(s) + 1, Len(Buf(s)))
    BY DEF NothingLost
  <2>1. s \in Slots /\ Buf(s) = <<>> /\ Pos(s) = 0 /\ sent[s] = <<>> /\ got[s] = <<>>
    BY <1>2 DEF Init, Buf, Pos, Opened, Taken
  <2>2. <<>> \in Seq(Bytes) /\ Len(<<>>) = 0
    BY EmptySeq
  <2>3. SubSeq(<<>>, 0 + 1, 0) = <<>>
    BY SubSeqEmpty
  <2>4. <<>> \o <<>> = <<>>
    BY <2>2, ConcatEmptySeq
  <2> QED BY <2>1, <2>2, <2>3, <2>4
<1>6. Idle
  BY <1>1, <1>2 DEF Idle, Init, NoCall, NewCall, At
<1>7. CallSound
  BY DEF CallSound, Init, NoCall, NewCall, At
<1>8. Owed
  BY DEF Owed, AnswersAreTrue, Init, NoCall, NewCall, At
<1>9. Table
  <2>1. Taken = {0, 1, 2} /\ Opened = {0, 1, 2}
    <3>1. \A s \in Slots : streams[s].flags # {} <=> s \in {0, 1, 2}
      BY <1>2 DEF Zero
    <3> QED BY <1>1, <1>2, <3>1 DEF Taken, Opened
  <2>2. Cardinality({0, 1, 2}) = 3
    <3>1. IsFiniteSet({0}) /\ Cardinality({0}) = 1
      BY FS_Singleton
    <3>2. \A S, x : IsFiniteSet(S) /\ x \notin S =>
            IsFiniteSet(S \cup {x}) /\ Cardinality(S \cup {x}) = Cardinality(S) + 1
      BY FS_AddElement
    <3>3. IsFiniteSet({0} \cup {1}) /\ Cardinality({0} \cup {1}) = 2
      BY <3>1, <3>2
    <3>4. Cardinality(({0} \cup {1}) \cup {2}) = 3
      BY <3>2, <3>3
    <3>5. {0, 1, 2} = ({0} \cup {1}) \cup {2}
      OBVIOUS
    <3> QED BY <3>4, <3>5
  <2>3. {streams[s].fd : s \in Opened} = {0, 1, 2}
    BY <1>2, <2>1
  <2> QED BY <1>2, <2>1, <2>2, <2>3 DEF Table, Init
<1> QED BY <1>3, <1>4, <1>5, <1>6, <1>7, <1>8, <1>9 DEF IInv

-----------------------------------------------------------------------------
(***************************************************************************)
(* What a step does to the streams as queues of bytes.                     *)
(***************************************************************************)
Promise == [BS!Next]_(BS!vars)

LEMMA QueuesStutter ==
    ASSUME Opened' = Opened, UNCHANGED <<sent, got>>
    PROVE  Promise
  BY DEF Promise, BS!vars

LEMMA StartsConcat ==
    ASSUME NEW s \in Seq(Bytes), NEW t \in Seq(Bytes)
    PROVE  BS!Starts(s, s \o t)
<1>1. Len(s) \in Nat /\ Len(t) \in Nat
  BY LenProperties
<1>2. s \o t \in Seq(Bytes) /\ Len(s \o t) = Len(s) + Len(t)
  BY ConcatProperties
<1>3. SubSeq(s \o t, 1, Len(s)) = s
  <2>1. CASE Len(s) = 0
    <3>1. s = <<>>
      BY <2>1, EmptySeq
    <3>2. SubSeq(s \o t, 1, 0) = <<>>
      BY SubSeqEmpty
    <3> QED BY <2>1, <3>1, <3>2
  <2>2. CASE Len(s) # 0
    <3>1. SubSeq(s \o t, 1, Len(s)) = SubSeq(s, 1, Len(s))
      <4>1. 1 \in 1 .. Len(s) /\ Len(s) \in 1 .. Len(s)
        BY <1>1, <2>2
      <4> QED BY <4>1, SubSeqOfConcat1
    <3> QED BY <3>1, SubSeqFull
  <2> QED BY <2>1, <2>2
<1> QED BY <1>1, <1>2, <1>3 DEF BS!Starts

LEMMA QueueSends ==
    ASSUME NEW s \in Opened, Opened' = Opened, got' = got,
           NEW t \in Seq(Bytes), sent[s] \in Seq(Bytes), sent \in [Slots -> Seq(Bytes)],
           sent' = [sent EXCEPT ![s] = sent[s] \o t]
    PROVE  Promise
<1>1. s \in Slots
  BY DEF Opened, Taken
<1>2. sent'[s] = sent[s] \o t
  BY <1>1
<1>3. BS!Starts(sent[s], sent'[s])
  BY <1>2, StartsConcat
<1>4. BS!Send(s)
  BY <1>2, <1>3 DEF BS!Send
<1> QED BY <1>1, <1>4 DEF BS!Next, Promise

LEMMA QueueGets ==
    ASSUME NEW s \in Opened, Opened' = Opened, sent' = sent,
           NEW t \in Seq(Bytes), NEW u \in Seq(Bytes),
           got[s] \in Seq(Bytes), got \in [Slots -> Seq(Bytes)],
           got' = [got EXCEPT ![s] = got[s] \o t],
           sent[s] = (got[s] \o t) \o u
    PROVE  Promise
<1>1. s \in Slots
  BY DEF Opened, Taken
<1>2. got'[s] = got[s] \o t /\ got[s] \o t \in Seq(Bytes)
  BY <1>1, ConcatProperties
<1>3. BS!Starts(got[s], got'[s]) /\ BS!Starts(got'[s], sent[s])
  BY <1>2, StartsConcat
<1>4. BS!Get(s)
  BY <1>2, <1>3 DEF BS!Get
<1> QED BY <1>1, <1>4 DEF BS!Next, Promise

-----------------------------------------------------------------------------
(***************************************************************************)
(* Two kinds of step: one that changes no stream, and one that changes the *)
(* buffer or the flags of one open stream.  Which is left to say of each   *)
(* action is what it does to the bytes and what the call may rely on.      *)
(***************************************************************************)
LEMMA CallStep ==
    ASSUME IInv, ~At("open"), call' \in CallT, call'.pc # "open",
           UNCHANGED <<streams, n_streams, kfds, sent, got>>,
           CallSound', Owed'
    PROVE  IInv' /\ Promise
<1>1. Types' /\ Within' /\ NothingLost' /\ Table'
  BY DEF IInv, Types, Within, NothingLost, Table, Taken, Opened, Buf, Pos
<1>2. Idle'
  BY DEF IInv, Idle, At, Buf, Pos
<1>3. Opened' = Opened
  BY DEF Opened, Taken
<1> QED BY <1>1, <1>2, <1>3, QueuesStutter DEF IInv

LEMMA SlotStep ==
    ASSUME IInv, NEW s \in Opened, NEW f \in FileT,
           f.fd = streams[s].fd, Directed(f.flags),
           Len(f.buf) <= FILE_BUF_CAP, f.buf_pos <= Len(f.buf),
           streams' = [streams EXCEPT ![s] = f],
           UNCHANGED <<n_streams, kfds>>,
           sent' \in [Slots -> Seq(Bytes)], got' \in [Slots -> Seq(Bytes)],
           \A t \in Slots \ {s} : sent'[t] = sent[t] /\ got'[t] = got[t],
           sent'[s] = got'[s] \o Rest(f.buf, f.buf_pos),
           ~At("open"), call' \in CallT, call'.pc # "open"
    PROVE  /\ Types' /\ Within' /\ NothingLost' /\ Idle' /\ Table'
           /\ s \in Slots /\ Opened' = Opened
           /\ streams'[s] = f /\ \A t \in Slots \ {s} : streams'[t] = streams[t]
<1>1. s \in Slots /\ s \in Taken /\ streams[s].fd # -1 /\ f.flags # {}
  BY DEF Opened, Taken, Directed
<1>2. /\ streams' \in [Slots -> FileT]
      /\ streams'[s] = f /\ \A t \in Slots \ {s} : streams'[t] = streams[t]
  BY <1>1 DEF IInv, Types
<1>3. Taken' = Taken /\ Opened' = Opened
  BY <1>1, <1>2 DEF Taken, Opened
<1>4. Types'
  BY <1>2 DEF IInv, Types
<1>5. Within'
  BY <1>1, <1>2 DEF IInv, Within, Buf, Pos
<1>6. NothingLost'
  BY <1>1, <1>2, <1>3, ZenonT(60) DEF IInv, NothingLost, Rest, Buf, Pos, Opened, Taken
<1>7. Idle'
  BY <1>1, <1>2 DEF IInv, Idle, At, Buf, Pos
<1>8. Table'
  <2>1. \A t \in Slots : streams'[t].fd = streams[t].fd
    BY <1>1, <1>2
  <2>2. {streams'[t].fd : t \in Opened} = {streams[t].fd : t \in Opened}
    BY <2>1 DEF Opened, Taken
  <2>3. {streams'[t].fd : t \in Opened'} = kfds'
    BY <1>3, <2>2 DEF IInv, Table
  <2>4. n_streams' = Cardinality(Taken')
    BY <1>3 DEF IInv, Table
  <2>5. \A t, u \in Opened' : t # u => streams'[t].fd # streams'[u].fd
    <3>1. Opened \subseteq Slots
      BY DEF Opened, Taken
    <3>2. \A t, u \in Opened : t # u => streams[t].fd # streams[u].fd
      BY DEF IInv, Table
    <3> QED BY <1>3, <2>1, <3>1, <3>2
  <2> QED BY <2>3, <2>4, <2>5 DEF Table
<1> QED BY <1>1, <1>2, <1>3, <1>4, <1>5, <1>6, <1>7, <1>8
-----------------------------------------------------------------------------
(***************************************************************************)
(* Calls, and steps within a call, that leave the streams as they are.     *)
(***************************************************************************)
\* A stream with flags is open unless fopen is at work on it.
LEMMA FlagMeansOpen ==
    ASSUME IInv, ~At("open"), NEW s \in Slots, streams[s].flags # {}
    PROVE  s \in Opened
  BY DEF IInv, Idle, Opened, Taken

LEMMA FflushStep ==
    ASSUME IInv, NEW s \in Used, Fflush(s)
    PROVE  IInv' /\ Promise
<1>1. s \in Slots
  BY StdioAssumption DEF Slots
<1>2. /\ At("returned") /\ "W" \in streams[s].flags
      /\ call' = NewCall("fflush", s, 0, 0, "flush", TRUE)
      /\ UNCHANGED <<streams, n_streams, kfds, sent, got>>
  BY DEF Fflush, Calls
<1>3. s \in Opened
  BY <1>1, <1>2, FlagMeansOpen DEF At
<1>4. call' \in CallT /\ call'.op = "fflush" /\ call'.pc = "flush" /\ call'.s = s
  BY <1>1, <1>2, StdioAssumption DEF NewCall, CallT, Slots
<1>5. CallSound'
  BY <1>2, <1>3, <1>4 DEF CallSound, At, Opened, Taken
<1>6. Owed'
  BY <1>4 DEF Owed, AnswersAreTrue, At
<1> QED BY <1>2, <1>4, <1>5, <1>6, CallStep DEF At

LEMMA FcloseStep ==
    ASSUME IInv, NEW s \in Slots, Fclose(s)
    PROVE  IInv' /\ Promise
<1> DEFINE out == "W" \in streams[s].flags
<1>1. /\ At("returned") /\ s \in Opened
      /\ call' = NewCall("fclose", s, 0, 0, IF out THEN "flush" ELSE "close", out)
      /\ UNCHANGED <<streams, n_streams, kfds, sent, got>>
  BY DEF Fclose, Calls
<1>2. out \in BOOLEAN
  OBVIOUS
<1> HIDE DEF out
<1>3. /\ call' \in CallT /\ call'.op = "fclose" /\ call'.s = s /\ call'.out = out
      /\ call'.pc = IF out THEN "flush" ELSE "close"
  BY <1>1, <1>2, StdioAssumption DEF NewCall, CallT, Slots
<1>4. CallSound'
  BY <1>1, <1>3 DEF CallSound, At, Opened, Taken
<1>5. Owed'
  BY <1>3 DEF Owed, AnswersAreTrue, At
<1> QED BY <1>1, <1>3, <1>4, <1>5, CallStep DEF At

LEMMA TransferStep ==
    ASSUME IInv, NEW s \in Used, NEW o \in Objects, NEW op \in {"fwrite", "fread"},
           streams[s].flags # {}, Transfer(op, s, o),
           UNCHANGED <<streams, n_streams, kfds, sent, got>>
    PROVE  IInv' /\ Promise
<1> DEFINE all == o[1] * o[2]
<1>1. s \in Slots
  BY StdioAssumption DEF Slots
<1>2. o[1] \in Nat /\ o[2] \in Nat
  BY StdioAssumption
<1>3. all \in Nat /\ (all # 0 => o[1] # 0)
  BY <1>2
<1>4. /\ At("returned")
      /\ call' = NewCall(op, s, o[1], all, IF all = 0 THEN "returned" ELSE "copy", op = "fwrite")
  BY DEF Transfer, Calls
<1> HIDE DEF all
<1>5. s \in Opened
  BY <1>1, <1>4, FlagMeansOpen DEF At
<1>6. (op = "fwrite") \in BOOLEAN
  OBVIOUS
<1>7. /\ call' \in CallT /\ call'.op = op /\ call'.s = s /\ call'.want = all /\ call'.size = o[1]
      /\ call'.pc = IF all = 0 THEN "returned" ELSE "copy"
  BY <1>1, <1>2, <1>3, <1>4, <1>6, StdioAssumption DEF NewCall, CallT, Slots
<1>8. CallSound'
  BY <1>3, <1>5, <1>7 DEF CallSound, At, Opened, Taken
<1>9. Owed'
  BY <1>3, <1>7 DEF Owed, AnswersAreTrue, At
<1> QED BY <1>4, <1>7, <1>8, <1>9, CallStep DEF At

LEMMA ExitStep ==
    ASSUME IInv, Exit
    PROVE  IInv' /\ Promise
<1>1. /\ At("returned")
      /\ call' = NewCall("exit", 0, 0, 0, "fini", FALSE)
      /\ UNCHANGED <<streams, n_streams, kfds, sent, got>>
  BY DEF Exit, Calls
<1>2. call' \in CallT /\ call'.op = "exit" /\ call'.s = 0 /\ call'.pc = "fini"
  BY <1>1, StdioAssumption DEF NewCall, CallT
<1>3. CallSound'
  BY <1>2, StdioAssumption DEF CallSound, At
<1>4. Owed'
  <2>1. \A t \in Opened' : t \in Nat
    BY DEF Opened, Taken, Slots
  <2> QED BY <1>2, <2>1 DEF Owed, AnswersAreTrue, At
<1> QED BY <1>1, <1>2, <1>3, <1>4, CallStep DEF At

LEMMA BufferFullStep ==
    ASSUME IInv, BufferFull
    PROVE  IInv' /\ Promise
<1>1. /\ At("copy") /\ call.op = "fwrite" /\ call' = [call EXCEPT !.pc = "flush"]
      /\ UNCHANGED <<streams, n_streams, kfds, sent, got>>
  BY DEF BufferFull, Copying, Goto
<1>2. call' \in CallT /\ call' = [call' EXCEPT !.pc = "flush"]
      /\ call'.op = "fwrite" /\ call'.s = call.s /\ call'.pc = "flush" /\ call'.size = call.size
  BY <1>1 DEF IInv, Types, CallT
<1>3. CallSound'
  BY <1>1, <1>2 DEF IInv, CallSound, At, Opened, Taken
<1>4. Owed'
  BY <1>2 DEF Owed, AnswersAreTrue, At
<1> QED BY <1>1, <1>2, <1>3, <1>4, CallStep DEF At

LEMMA CopiedStep ==
    ASSUME IInv, Copied
    PROVE  IInv' /\ Promise
<1>1. /\ At("copy") /\ call.i >= call.want
      /\ call' = [call EXCEPT !.pc = "returned", !.res = call.i \div call.size]
      /\ UNCHANGED <<streams, n_streams, kfds, sent, got>>
  BY DEF Copied, Return
<1>2. call \in CallT /\ call.op \in {"fwrite", "fread"} /\ call.size # 0
  BY <1>1 DEF IInv, Types, CallSound
<1>3. call.i \in Nat /\ call.want \in Nat /\ call.size \in Nat
  BY <1>2 DEF CallT
<1>4. call.i \div call.size \in Int
  BY <1>2, <1>3
<1>5. /\ call' \in CallT /\ call'.pc = "returned" /\ call'.op = call.op
      /\ call'.i = call.i /\ call'.want = call.want /\ call'.size = call.size
      /\ call'.res = call.i \div call.size
  BY <1>1, <1>2, <1>4 DEF CallT
<1>6. CallSound'
  BY <1>5 DEF CallSound, At
<1>7. Owed'
  BY <1>1, <1>2, <1>3, <1>5 DEF Owed, AnswersAreTrue, At
<1> QED BY <1>1, <1>5, <1>6, <1>7, CallStep DEF At

LEMMA FiniStep ==
    ASSUME IInv, FiniFlush \/ FiniSkip \/ Gone
    PROVE  IInv' /\ Promise
<1>1. /\ At("fini") /\ UNCHANGED <<streams, n_streams, kfds, sent, got>>
      /\ call \in CallT /\ call.op = "exit" /\ call.s \in 0 .. MAX_FILES
      /\ \A t \in Opened : t < call.s => HandedOver(t)
  BY DEF FiniFlush, FiniSkip, Gone, IInv, Types, CallSound, Owed
<1>2. Opened' = Opened /\ Opened \subseteq Slots /\ Slots \subseteq Nat
  BY <1>1 DEF Opened, Taken, Slots
<1>3. \A t \in Slots : HandedOver(t)' <=> HandedOver(t)
  BY <1>1 DEF HandedOver
<1>4. CASE FiniFlush
  <2>1. /\ call' \in CallT /\ call'.op = "exit" /\ call'.s = call.s /\ call'.pc = "flush"
        /\ call.s \in Slots /\ "W" \in streams[call.s].flags
    BY <1>1, <1>4, StdioAssumption DEF FiniFlush, Goto, CallT, Slots
  <2>2. call.s \in Opened
    BY <1>1, <2>1, FlagMeansOpen DEF At
  <2>3. CallSound'
    BY <1>2, <2>1, <2>2 DEF CallSound, At
  <2>4. Owed'
    BY <1>1, <1>2, <1>3, <2>1 DEF Owed, AnswersAreTrue, At
  <2> QED BY <1>1, <2>1, <2>3, <2>4, CallStep DEF At
<1>5. CASE FiniSkip
  <2>1. /\ call' \in CallT /\ call'.op = "exit" /\ call'.s = call.s + 1 /\ call'.pc = "fini"
        /\ call'.s \in 0 .. MAX_FILES /\ "W" \notin streams[call.s].flags
    BY <1>1, <1>5, StdioAssumption DEF FiniSkip, CallT, At
  <2>2. CallSound'
    BY <2>1 DEF CallSound, At
  <2>3. \A t \in Opened : t < call'.s => HandedOver(t)
    <3>1. HandedOver(call.s)
      BY <2>1 DEF HandedOver
    <3>2. \A t \in Slots : t < call.s + 1 => t < call.s \/ t = call.s
      BY <1>1, <1>2
    <3> QED BY <1>1, <1>2, <2>1, <3>1, <3>2
  <2>4. Owed'
    BY <1>1, <1>2, <1>3, <2>1, <2>3 DEF Owed, AnswersAreTrue, At
  <2> QED BY <1>1, <2>1, <2>2, <2>4, CallStep DEF At
<1>6. CASE Gone
  <2>1. /\ call' \in CallT /\ call'.op = "exit" /\ call'.pc = "gone" /\ call.s = MAX_FILES
    BY <1>1, <1>6 DEF Gone, Goto, CallT
  <2>2. CallSound'
    BY <2>1 DEF CallSound, At
  <2>3. \A t \in Opened' : HandedOver(t)'
    BY <1>1, <1>2, <1>3, <2>1, StdioAssumption DEF Slots
  <2>4. Owed'
    BY <2>1, <2>3 DEF Owed, AnswersAreTrue, HandedOver, At
  <2> QED BY <1>1, <2>1, <2>2, <2>4, CallStep DEF At
<1> QED BY <1>4, <1>5, <1>6
-----------------------------------------------------------------------------
(***************************************************************************)
(* Steps that change the buffer or the flags of one open stream.           *)
(***************************************************************************)
\* What holds of an open stream.
LEMMA StreamOf ==
    ASSUME IInv, NEW s \in Opened
    PROVE  /\ s \in Slots /\ streams[s] \in FileT
           /\ Directed(streams[s].flags) /\ streams[s].flags \in SUBSET {"R", "W", "EOF", "ERR"}
           /\ streams[s].fd \in 0 .. MAX_FILES
           /\ Buf(s) = streams[s].buf /\ Buf(s) \in Seq(Bytes) /\ Len(Buf(s)) \in Nat
           /\ Len(Buf(s)) <= FILE_BUF_CAP
           /\ Pos(s) = streams[s].buf_pos /\ Pos(s) \in Nat /\ Pos(s) <= Len(Buf(s))
           /\ sent[s] \in Seq(Bytes) /\ got[s] \in Seq(Bytes)
           /\ sent[s] = got[s] \o Rest(Buf(s), Pos(s))
<1>1. s \in Slots /\ streams[s] \in FileT /\ streams[s].flags # {} /\ streams[s].fd # -1
  BY DEF Opened, Taken, IInv, Types
<1>2. /\ streams[s].flags \in SUBSET {"R", "W", "EOF", "ERR"} /\ streams[s].fd \in 0 .. MAX_FILES
      /\ streams[s].buf \in Seq(Bytes) /\ streams[s].buf_pos \in Nat
  BY <1>1, StdioAssumption DEF FileT
<1>3. Len(Buf(s)) \in Nat
  BY <1>2, LenProperties DEF Buf
<1>4. Directed(streams[s].flags)
  BY <1>1 DEF IInv, Idle, Zero
<1> QED BY <1>1, <1>2, <1>3, <1>4 DEF IInv, Types, Within, NothingLost, Rest, Buf, Pos

LEMMA ClearerrStep ==
    ASSUME IInv, NEW s \in Used, Clearerr(s)
    PROVE  IInv' /\ Promise
<1> DEFINE f == [streams[s] EXCEPT !.flags = @ \ {"EOF", "ERR"}]
<1>1. /\ At("returned") /\ s \in Opened /\ s \in Slots
      /\ call' = NewCall("clearerr", s, 0, 0, "returned", FALSE)
      /\ streams' = [streams EXCEPT ![s] = f]
      /\ UNCHANGED <<n_streams, kfds, sent, got>>
  BY DEF Clearerr, Calls, Opened, Taken
<1>2. /\ f \in FileT /\ f.fd = streams[s].fd /\ f.buf = Buf(s) /\ f.buf_pos = Pos(s)
      /\ Directed(f.flags)
  <2>1. Directed(streams[s].flags \ {"EOF", "ERR"})
    BY <1>1, StreamOf DEF Directed
  <2> QED BY <1>1, <2>1, StreamOf DEF FileT
<1> HIDE DEF f
<1>3. /\ call' \in CallT /\ call'.op = "clearerr" /\ call'.pc = "returned"
  BY <1>1, StdioAssumption DEF NewCall, CallT, Slots
<1>4. Types' /\ Within' /\ NothingLost' /\ Idle' /\ Table' /\ Opened' = Opened
  BY <1>1, <1>2, <1>3, StreamOf, SlotStep DEF At, IInv, Types
<1>5. CallSound' /\ Owed'
  BY <1>3 DEF CallSound, Owed, AnswersAreTrue, At
<1> QED BY <1>1, <1>4, <1>5, QueuesStutter DEF IInv

LEMMA CopyOutStep ==
    ASSUME IInv, CopyOut
    PROVE  IInv' /\ Promise
<1> DEFINE s == call.s
           byte == Len(sent[s]) + 1
           f == [streams[s] EXCEPT !.buf = Append(@, byte)]
<1>1. /\ At("copy") /\ call.op = "fwrite" /\ ~Full(s)
      /\ call' = [call EXCEPT !.i = @ + 1]
      /\ sent' = [sent EXCEPT ![s] = Append(@, byte)]
      /\ streams' = [streams EXCEPT ![s] = f]
      /\ UNCHANGED <<n_streams, kfds, got>>
  BY DEF CopyOut, Copying, Counted
<1>2. s \in Opened /\ call \in CallT /\ call.size # 0
  BY <1>1 DEF IInv, CallSound, Types, At
<1> HIDE DEF s
<1>3. byte \in Bytes
  BY <1>2, StreamOf, LenProperties DEF Bytes
<1> HIDE DEF byte
<1>4. /\ Append(Buf(s), byte) \in Seq(Bytes)
      /\ Len(Append(Buf(s), byte)) = Len(Buf(s)) + 1
  BY <1>2, <1>3, StreamOf, AppendProperties
<1>5. /\ f \in FileT /\ f.fd = streams[s].fd /\ f.buf = Append(Buf(s), byte)
      /\ f.buf_pos = Pos(s) /\ f.flags = streams[s].flags
  BY <1>2, <1>4, StreamOf DEF FileT
<1> HIDE DEF f
<1>6. Len(f.buf) <= FILE_BUF_CAP /\ f.buf_pos <= Len(f.buf)
  BY <1>1, <1>2, <1>4, <1>5, StreamOf, StdioAssumption DEF Full
<1>7. Append(sent[s], byte) = got[s] \o Rest(f.buf, f.buf_pos)
  <2>1. /\ Buf(s) \in Seq(Bytes) /\ Pos(s) \in Nat /\ Pos(s) <= Len(Buf(s)) /\ got[s] \in Seq(Bytes)
        /\ sent[s] = got[s] \o Rest(Buf(s), Pos(s))
    BY <1>2, StreamOf
  <2>2. Append(got[s] \o Rest(Buf(s), Pos(s)), byte)
          = got[s] \o Rest(Append(Buf(s), byte), Pos(s))
    BY <1>3, <2>1, RestGrown
  <2> QED BY <1>5, <2>1, <2>2
<1>8. /\ sent' \in [Slots -> Seq(Bytes)] /\ sent'[s] = Append(sent[s], byte)
      /\ \A t \in Slots \ {s} : sent'[t] = sent[t]
  <2>1. Append(sent[s], byte) \in Seq(Bytes)
    BY <1>2, <1>3, StreamOf, AppendProperties
  <2> QED BY <1>1, <1>2, <2>1, StreamOf DEF IInv, Types
<1>9. /\ call' \in CallT /\ call'.pc = "copy" /\ call'.op = "fwrite" /\ call'.s = s
      /\ call'.size = call.size
  BY <1>1, <1>2 DEF CallT, At, s
<1>10. Types' /\ Within' /\ NothingLost' /\ Idle' /\ Table' /\ Opened' = Opened
  <2>1. ~At("open")
    BY <1>1 DEF At
  <2>2. got' \in [Slots -> Seq(Bytes)] /\ got' = got
    BY <1>1 DEF IInv, Types
  <2>3. Directed(f.flags)
    BY <1>2, <1>5, StreamOf
  <2> QED BY <1>1, <1>2, <1>5, <1>6, <1>7, <1>8, <1>9, <2>1, <2>2, <2>3, SlotStep, ZenonT(60)
<1>11. CallSound'
  BY <1>2, <1>9, <1>10 DEF CallSound, At
<1>12. Owed'
  BY <1>9 DEF Owed, AnswersAreTrue, At
<1>13. Promise
  <2>1. sent[s] \in Seq(Bytes) /\ Append(sent[s], byte) = sent[s] \o <<byte>>
    BY <1>2, <1>3, StreamOf, AppendIsConcat
  <2>2. <<byte>> \in Seq(Bytes)
    BY <1>3
  <2>3. sent' = [sent EXCEPT ![s] = sent[s] \o <<byte>>]
    BY <1>1, <2>1
  <2>4. sent \in [Slots -> Seq(Bytes)]
    BY DEF IInv, Types
  <2> QED BY <1>1, <1>2, <1>10, <2>1, <2>2, <2>3, <2>4, QueueSends
<1> QED BY <1>10, <1>11, <1>12, <1>13 DEF IInv

LEMMA CopyInStep ==
    ASSUME IInv, CopyIn
    PROVE  IInv' /\ Promise
<1> DEFINE s == call.s
           byte == Buf(s)[Pos(s) + 1]
           f == [streams[s] EXCEPT !.buf_pos = @ + 1]
<1>1. /\ At("copy") /\ call.op = "fread" /\ Pos(s) # Len(Buf(s))
      /\ call' = [call EXCEPT !.i = @ + 1]
      /\ got' = [got EXCEPT ![s] = Append(@, byte)]
      /\ streams' = [streams EXCEPT ![s] = f]
      /\ UNCHANGED <<n_streams, kfds, sent>>
  BY DEF CopyIn, Copying, Counted
<1>2. s \in Opened /\ call \in CallT /\ call.size # 0
  BY <1>1 DEF IInv, CallSound, Types, At
<1> HIDE DEF s
<1>3. Pos(s) < Len(Buf(s))
  BY <1>1, <1>2, StreamOf
<1>4. byte \in Bytes /\ sent[s] = Append(got[s], byte) \o Rest(Buf(s), Pos(s) + 1)
  BY <1>2, <1>3, StreamOf, RestPassedOne, ZenonT(60)
<1> HIDE DEF byte
<1>5. /\ f \in FileT /\ f.fd = streams[s].fd /\ f.buf = Buf(s)
      /\ f.buf_pos = Pos(s) + 1 /\ f.flags = streams[s].flags
  <2>1. streams[s] \in FileT /\ streams[s].buf_pos = Pos(s) /\ streams[s].buf = Buf(s)
    BY <1>2, StreamOf
  <2>2. streams[s].buf_pos + 1 \in Nat
    BY <1>2, <2>1, StreamOf
  <2> QED BY <2>1, <2>2 DEF FileT
<1> HIDE DEF f
<1>6. Len(f.buf) <= FILE_BUF_CAP /\ f.buf_pos <= Len(f.buf)
  BY <1>2, <1>3, <1>5, StreamOf
<1>7. /\ got' \in [Slots -> Seq(Bytes)] /\ got'[s] = Append(got[s], byte)
      /\ \A t \in Slots \ {s} : got'[t] = got[t]
  <2>1. Append(got[s], byte) \in Seq(Bytes)
    BY <1>2, <1>4, StreamOf, AppendProperties
  <2> QED BY <1>1, <1>2, <2>1, StreamOf DEF IInv, Types
<1>8. /\ call' \in CallT /\ call'.pc = "copy" /\ call'.op = "fread" /\ call'.s = s
      /\ call'.size = call.size
  BY <1>1, <1>2 DEF CallT, At, s
<1>9. Types' /\ Within' /\ NothingLost' /\ Idle' /\ Table' /\ Opened' = Opened
  <2>1. ~At("open")
    BY <1>1 DEF At
  <2>2. sent' \in [Slots -> Seq(Bytes)] /\ sent' = sent
    BY <1>1 DEF IInv, Types
  <2>3. Directed(f.flags)
    BY <1>2, <1>5, StreamOf
  <2>4. sent'[s] = got'[s] \o Rest(f.buf, f.buf_pos)
    BY <1>4, <1>5, <1>7, <2>2
  <2> QED BY <1>1, <1>2, <1>5, <1>6, <1>7, <1>8, <2>1, <2>2, <2>3, <2>4, SlotStep
<1>10. CallSound'
  BY <1>2, <1>8, <1>9 DEF CallSound, At
<1>11. Owed'
  BY <1>8 DEF Owed, AnswersAreTrue, At
<1>12. Promise
  <2>1. got[s] \in Seq(Bytes) /\ Append(got[s], byte) = got[s] \o <<byte>>
    BY <1>2, <1>4, StreamOf, AppendIsConcat
  <2>2. <<byte>> \in Seq(Bytes)
    BY <1>4
  <2>3. Rest(Buf(s), Pos(s) + 1) \in Seq(Bytes)
    <3>1. Buf(s) \in Seq(Bytes) /\ Len(Buf(s)) \in Nat /\ (Pos(s) + 1) + 1 \in Nat \ {0}
      BY <1>2, StreamOf
    <3> QED BY <3>1, SliceType DEF Rest
  <2>4. got' = [got EXCEPT ![s] = got[s] \o <<byte>>]
    BY <1>1, <2>1
  <2>5. got \in [Slots -> Seq(Bytes)]
    BY DEF IInv, Types
  <2> QED BY <1>1, <1>2, <1>4, <1>9, <2>1, <2>2, <2>3, <2>4, <2>5, QueueGets
<1> QED BY <1>9, <1>10, <1>11, <1>12 DEF IInv
\* How fflush goes on in each of its callers.
LEMMA FlushResult ==
    ASSUME IInv, At("flush"), NEW res \in {0, EOF}, FlushTo(res)
    PROVE  /\ call' \in CallT /\ call'.pc \in {"returned", "copy", "close", "fini"}
           /\ call'.op = call.op /\ call'.size = call.size
           /\ call'.i = call.i /\ call'.want = call.want
           /\ call'.pc # "fini" => call'.s = call.s
           /\ call.op = "fwrite" =>
                IF res = 0 THEN call'.pc = "copy"
                           ELSE call'.pc = "returned" /\ call'.res = call.i \div call.size
           /\ call.op = "fflush" => call'.pc = "returned" /\ call'.res = res
           /\ call.op = "fclose" => call'.pc = "close" /\ call'.res = res
           /\ call.op = "exit" => call'.pc = "fini" /\ call'.s = call.s + 1
<1>1. /\ call \in CallT /\ call.s \in Slots
      /\ call.op \in {"fwrite", "fflush", "fclose", "exit"}
      /\ call.op = "fwrite" => call.size # 0
  BY DEF IInv, Types, CallSound, At, Opened, Taken
<1>2. call.i \in Nat /\ call.size \in Nat /\ call.s \in 0 .. MAX_FILES - 1
  BY <1>1 DEF CallT, Slots
<1>3. res \in Int /\ (res = EOF <=> res # 0)
  BY DEF EOF
<1>4. CASE call.op = "fwrite" /\ res = EOF
  <2>1. call.i \div call.size \in Int
    BY <1>1, <1>2, <1>4
  <2>2. call' = [call EXCEPT !.pc = "returned", !.res = call.i \div call.size]
    BY <1>3, <1>4 DEF FlushTo, Return
  <2> QED BY <1>1, <1>3, <1>4, <2>1, <2>2 DEF CallT
<1>5. CASE call.op = "fwrite" /\ res = 0
  <2>1. call' = [call EXCEPT !.pc = "copy"]
    BY <1>5, <1>3 DEF FlushTo, Goto
  <2> QED BY <1>1, <1>3, <1>5, <2>1 DEF CallT
<1>6. CASE call.op = "fflush"
  <2>1. call' = [call EXCEPT !.pc = "returned", !.res = res]
    BY <1>6 DEF FlushTo, Return
  <2> QED BY <1>1, <1>3, <1>6, <2>1 DEF CallT
<1>7. CASE call.op = "fclose"
  <2>1. call' = [call EXCEPT !.pc = "close", !.res = res]
    BY <1>7 DEF FlushTo
  <2> QED BY <1>1, <1>3, <1>7, <2>1 DEF CallT
<1>8. CASE call.op = "exit"
  <2>1. call' = [call EXCEPT !.pc = "fini", !.s = @ + 1]
    BY <1>8 DEF FlushTo
  <2>2. call.s + 1 \in -1 .. MAX_FILES
    BY <1>2, StdioAssumption
  <2> QED BY <1>1, <1>3, <1>8, <2>1, <2>2 DEF CallT
<1> QED BY <1>1, <1>3, <1>4, <1>5, <1>6, <1>7, <1>8

\* The end of fflush: all is written, or the stream is marked.
LEMMA FlushEnds ==
    ASSUME IInv, At("flush"), NEW res \in {0, EOF}, FlushTo(res),
           NEW f \in FileT, streams' = [streams EXCEPT ![call.s] = f],
           UNCHANGED <<n_streams, kfds, sent, got>>,
           f.fd = streams[call.s].fd, Directed(f.flags),
           Len(f.buf) <= FILE_BUF_CAP, f.buf_pos <= Len(f.buf),
           sent[call.s] = got[call.s] \o Rest(f.buf, f.buf_pos),
           res = 0 => got[call.s] = sent[call.s],
           res # 0 => "ERR" \in f.flags
    PROVE  IInv' /\ Promise
<1> DEFINE s == call.s
<1>1. s \in Opened /\ s \in Slots /\ call.op = "fwrite" => call.size # 0
  BY DEF IInv, CallSound, At, Opened, Taken
<1>2. /\ call' \in CallT /\ call'.pc \in {"returned", "copy", "close", "fini"}
      /\ ~At("open") /\ call'.pc # "open"
  BY FlushResult DEF At
<1>3. s \in Opened /\ s \in Slots
  BY DEF IInv, CallSound, At, Opened, Taken
<1>4. /\ Types' /\ Within' /\ NothingLost' /\ Idle' /\ Table' /\ Opened' = Opened
      /\ streams'[s] = f /\ \A t \in Slots \ {s} : streams'[t] = streams[t]
  <2>1. sent' \in [Slots -> Seq(Bytes)] /\ got' \in [Slots -> Seq(Bytes)] /\ sent' = sent /\ got' = got
    BY DEF IInv, Types
  <2> QED BY <1>2, <1>3, <2>1, SlotStep
<1>5. CallSound'
  <2>1. call.op \in {"fwrite", "fflush", "fclose", "exit"} /\ (call.op = "fwrite" => call.size # 0)
    BY DEF IInv, CallSound
  <2>2. call'.pc = "fini" => call'.s \in 0 .. MAX_FILES
    BY <1>3, <2>1, FlushResult, StdioAssumption DEF Slots
  <2> QED BY <1>2, <1>3, <1>4, <2>1, <2>2, FlushResult DEF CallSound, At
<1>6. Owed'
  <2>1. AnswersAreTrue'
    <3>1. call'.pc = "returned" /\ call'.op \in {"fwrite", "fread"} =>
            /\ call'.res = call'.i \div call'.size
            /\ streams'[call'.s].flags \cap {"EOF", "ERR"} # {}
      <4>1. call.op \in {"fwrite", "fflush", "fclose", "exit"}
        BY DEF IInv, CallSound
      <4> QED BY <1>4, <4>1, FlushResult
    <3>2. call'.pc = "returned" /\ call'.op \in {"fflush", "fclose"} /\ call'.res = 0 =>
            got'[call'.s] = sent'[call'.s]
      BY FlushResult
    <3> QED BY <1>2, <3>1, <3>2 DEF AnswersAreTrue, At
  <2>2. call'.pc = "close" /\ call'.res = 0 => got'[call'.s] = sent'[call'.s]
    <3>1. call.op \in {"fwrite", "fflush", "fclose", "exit"}
      BY DEF IInv, CallSound
    <3> QED BY <3>1, FlushResult
  <2>3. call'.pc = "fini" => \A t \in Opened' : t < call'.s => HandedOver(t)'
    <3> SUFFICES ASSUME call'.pc = "fini", NEW t \in Opened, t < call'.s
                 PROVE  HandedOver(t)'
      BY <1>4
    <3>1. call.op = "exit" /\ call'.s = s + 1
      <4>1. call.op \in {"fwrite", "fflush", "fclose", "exit"}
        BY DEF IInv, CallSound
      <4> QED BY <4>1, FlushResult
    <3>2. t \in Slots /\ (t < s \/ t = s)
      BY <1>3, <3>1 DEF Slots, Opened, Taken
    <3>3. CASE t = s
      BY <1>4, <3>3 DEF HandedOver, EOF
    <3>4. CASE t < s
      <4>1. HandedOver(t)
        BY <3>1, <3>4 DEF IInv, Owed
      <4>2. t # s
        BY <1>3, <3>2, <3>4 DEF Slots
      <4> QED BY <1>4, <3>2, <4>1, <4>2 DEF HandedOver
    <3> QED BY <3>2, <3>3, <3>4
  <2> QED BY <1>2, <2>1, <2>2, <2>3 DEF Owed, At
<1> QED BY <1>4, <1>5, <1>6, QueuesStutter DEF IInv

LEMMA WriteFailsStep ==
    ASSUME IInv, WriteFails
    PROVE  IInv' /\ Promise
<1> DEFINE f == [streams[call.s] EXCEPT !.flags = @ \cup {"ERR"}]
<1>1. /\ At("flush") /\ FlushTo(EOF) /\ streams' = [streams EXCEPT ![call.s] = f]
      /\ UNCHANGED <<n_streams, kfds, sent, got>>
  BY DEF WriteFails, SetFlag
<1>2. call.s \in Opened
  BY <1>1 DEF IInv, CallSound, At
<1>3. /\ f \in FileT /\ f.fd = streams[call.s].fd /\ f.buf = Buf(call.s)
      /\ f.buf_pos = Pos(call.s) /\ Directed(f.flags) /\ "ERR" \in f.flags
  BY <1>2, StreamOf DEF FileT, Directed
<1> HIDE DEF f
<1>4. EOF \in {0, EOF} /\ EOF # 0
  BY DEF EOF
<1> QED BY <1>1, <1>2, <1>3, <1>4, StreamOf, FlushEnds

LEMMA FlushedStep ==
    ASSUME IInv, Flushed
    PROVE  IInv' /\ Promise
<1> DEFINE f == [streams[call.s] EXCEPT !.buf = <<>>, !.buf_pos = 0]
<1>1. /\ At("flush") /\ FlushTo(0) /\ streams' = [streams EXCEPT ![call.s] = f]
      /\ Pos(call.s) >= Len(Buf(call.s))
      /\ UNCHANGED <<n_streams, kfds, sent, got>>
  BY DEF Flushed, Emptied
<1>2. call.s \in Opened
  BY <1>1 DEF IInv, CallSound, At
<1>3. <<>> \in Seq(Bytes) /\ Len(<<>>) = 0
  BY EmptySeq
<1>4. /\ f \in FileT /\ f.fd = streams[call.s].fd /\ f.buf = <<>>
      /\ f.buf_pos = 0 /\ f.flags = streams[call.s].flags
  BY <1>2, <1>3, StreamOf DEF FileT
<1> HIDE DEF f
<1>5. got[call.s] = sent[call.s]
  <2>1. /\ Buf(call.s) \in Seq(Bytes) /\ Pos(call.s) \in Nat /\ got[call.s] \in Seq(Bytes)
        /\ sent[call.s] = got[call.s] \o Rest(Buf(call.s), Pos(call.s))
    BY <1>2, StreamOf
  <2>2. got[call.s] \o Rest(Buf(call.s), Pos(call.s)) = got[call.s]
    BY <1>1, <2>1, RestEmpty
  <2> QED BY <2>1, <2>2
<1>6. sent[call.s] = got[call.s] \o Rest(<<>>, 0)
  <2>1. got[call.s] \in Seq(Bytes)
    BY <1>2, StreamOf
  <2> QED BY <1>5, <2>1, RestOfEmpty
<1>7. Len(<<>>) <= FILE_BUF_CAP /\ 0 \in {0, EOF} /\ 0 <= Len(<<>>)
  BY <1>3, StdioAssumption
<1>8. Directed(f.flags)
  BY <1>2, <1>4, StreamOf
<1> QED BY <1>1, <1>2, <1>4, <1>5, <1>6, <1>7, <1>8, FlushEnds
LEMMA WriteSomeStep ==
    ASSUME IInv, WriteSome
    PROVE  IInv' /\ Promise
<1>1. PICK nw \in 1 .. Len(Buf(call.s)) - Pos(call.s) :
        /\ got' = [got EXCEPT ![call.s] =
                     @ \o SubSeq(Buf(call.s), Pos(call.s) + 1, Pos(call.s) + nw)]
        /\ streams' = [streams EXCEPT ![call.s] = Written(@, nw)]
  BY DEF WriteSome
<1> DEFINE s == call.s
           part == SubSeq(Buf(s), Pos(s) + 1, Pos(s) + nw)
           f == [streams[s] EXCEPT !.buf_pos = @ + nw]
<1>2. /\ At("flush") /\ streams' = [streams EXCEPT ![s] = f]
      /\ got' = [got EXCEPT ![s] = @ \o part]
      /\ UNCHANGED <<n_streams, call, kfds, sent>>
  BY <1>1 DEF WriteSome, Written
<1>3. s \in Opened
  BY <1>2 DEF IInv, CallSound, At
<1>4. nw \in Nat /\ Pos(s) + nw \in Nat /\ Pos(s) + nw <= Len(Buf(s))
  BY <1>1, <1>3, StreamOf
<1>5. part \in Seq(Bytes) /\ sent[s] = (got[s] \o part) \o Rest(Buf(s), Pos(s) + nw)
  <2>1. /\ Buf(s) \in Seq(Bytes) /\ Pos(s) \in Nat /\ got[s] \in Seq(Bytes)
        /\ sent[s] = got[s] \o Rest(Buf(s), Pos(s))
    BY <1>3, StreamOf
  <2>2. Pos(s) + 1 \in Nat \ {0}
    BY <2>1
  <2>3. part \in Seq(Bytes)
    BY <1>4, <2>1, <2>2, SliceType
  <2>4. got[s] \o Rest(Buf(s), Pos(s))
          = (got[s] \o SubSeq(Buf(s), Pos(s) + 1, Pos(s) + nw)) \o Rest(Buf(s), Pos(s) + nw)
    BY <1>4, <2>1, RestPassed
  <2> QED BY <2>1, <2>3, <2>4
<1>6. got[s] \o part \in Seq(Bytes)
  BY <1>3, <1>5, StreamOf, ConcatProperties
<1> HIDE DEF part
<1>7. /\ f \in FileT /\ f.fd = streams[s].fd /\ f.buf = Buf(s)
      /\ f.buf_pos = Pos(s) + nw /\ f.flags = streams[s].flags
  <2>1. streams[s] \in FileT /\ streams[s].buf_pos = Pos(s) /\ streams[s].buf = Buf(s)
    BY <1>3, StreamOf
  <2>2. streams[s].buf_pos + nw \in Nat
    BY <1>4, <2>1
  <2> QED BY <2>1, <2>2 DEF FileT
<1> HIDE DEF f
<1>8. /\ got' \in [Slots -> Seq(Bytes)] /\ got'[s] = got[s] \o part
      /\ \A t \in Slots \ {s} : got'[t] = got[t]
  BY <1>2, <1>3, <1>6, StreamOf DEF IInv, Types
<1>9. /\ Types' /\ Within' /\ NothingLost' /\ Idle' /\ Table' /\ Opened' = Opened
      /\ s \in Slots /\ \A t \in Slots \ {s} : streams'[t] = streams[t]
  <2>1. ~At("open") /\ call' \in CallT /\ call'.pc # "open"
    BY <1>2 DEF At, IInv, Types
  <2>2. sent' \in [Slots -> Seq(Bytes)] /\ sent' = sent
    BY <1>2 DEF IInv, Types
  <2>3. Directed(f.flags) /\ Len(f.buf) <= FILE_BUF_CAP /\ f.buf_pos <= Len(f.buf)
    BY <1>3, <1>4, <1>7, StreamOf
  <2>4. sent'[s] = got'[s] \o Rest(f.buf, f.buf_pos)
    BY <1>5, <1>7, <1>8, <2>2
  <2> HIDE DEF s
  <2> QED BY <1>2, <1>3, <1>7, <1>8, <2>1, <2>2, <2>3, <2>4, SlotStep
<1>10. CallSound'
  BY <1>2, <1>9 DEF IInv, CallSound, At
<1>11. Owed'
  <2>1. \A t \in Opened : t < s /\ HandedOver(t) => HandedOver(t)'
    <3> SUFFICES ASSUME NEW t \in Opened, t < s, HandedOver(t)
                 PROVE  HandedOver(t)'
      OBVIOUS
    <3>1. t \in Slots /\ t # s
      BY <1>9 DEF Opened, Taken, Slots
    <3> QED BY <1>2, <1>8, <1>9, <3>1 DEF HandedOver
  <2>2. call.op = "exit" => \A t \in Opened : t < s => HandedOver(t)
    BY <1>2 DEF IInv, Owed
  <2>3. call.op = "exit" => \A t \in Opened' : t < call'.s => HandedOver(t)'
    BY <1>2, <1>9, <2>1, <2>2
  <2> QED BY <1>2, <2>3 DEF Owed, AnswersAreTrue, At
<1>12. Promise
  <2>1. got[s] \in Seq(Bytes) /\ Buf(s) \in Seq(Bytes) /\ Len(Buf(s)) \in Nat
    BY <1>3, StreamOf
  <2>2. Rest(Buf(s), Pos(s) + nw) \in Seq(Bytes)
    <3>1. (Pos(s) + nw) + 1 \in Nat \ {0}
      BY <1>4
    <3> QED BY <2>1, <3>1, SliceType DEF Rest
  <2>3. got \in [Slots -> Seq(Bytes)] /\ got' = [got EXCEPT ![s] = got[s] \o part] /\ sent' = sent
    BY <1>2 DEF IInv, Types
  <2> HIDE DEF s
  <2> QED BY <1>3, <1>5, <1>9, <2>1, <2>2, <2>3, QueueGets
<1> QED BY <1>9, <1>10, <1>11, <1>12 DEF IInv

LEMMA BufferEmptyStep ==
    ASSUME IInv, BufferEmpty
    PROVE  IInv' /\ Promise
<1> DEFINE s == call.s
           f == [streams[s] EXCEPT !.buf = <<>>, !.buf_pos = 0]
<1>1. /\ At("copy") /\ call.op = "fread" /\ Pos(s) = Len(Buf(s))
      /\ streams' = [streams EXCEPT ![s] = f]
      /\ call' = [call EXCEPT !.pc = "fill"]
      /\ UNCHANGED <<n_streams, kfds, sent, got>>
  BY DEF BufferEmpty, Emptied, Copying, Goto
<1>2. s \in Opened /\ call \in CallT /\ call.size # 0
  BY <1>1 DEF IInv, CallSound, Types, At
<1>3. <<>> \in Seq(Bytes) /\ Len(<<>>) = 0
  BY EmptySeq
<1>4. /\ f \in FileT /\ f.fd = streams[s].fd /\ f.buf = <<>>
      /\ f.buf_pos = 0 /\ f.flags = streams[s].flags
  BY <1>2, <1>3, StreamOf DEF FileT
<1> HIDE DEF f
<1>5. sent[s] = got[s] \o Rest(<<>>, 0)
  <2>1. /\ Buf(s) \in Seq(Bytes) /\ Pos(s) \in Nat /\ got[s] \in Seq(Bytes) /\ Len(Buf(s)) \in Nat
        /\ sent[s] = got[s] \o Rest(Buf(s), Pos(s))
    BY <1>2, StreamOf
  <2>2. Pos(s) >= Len(Buf(s))
    BY <1>1, <2>1
  <2>3. got[s] \o Rest(Buf(s), Pos(s)) = got[s]
    BY <2>1, <2>2, RestEmpty
  <2> QED BY <2>1, <2>3, RestOfEmpty
<1>6. /\ call' \in CallT /\ call'.pc = "fill" /\ call'.op = "fread" /\ call'.s = s
      /\ call'.size = call.size
  BY <1>1, <1>2 DEF CallT, At
<1>7. /\ Types' /\ Within' /\ NothingLost' /\ Idle' /\ Table' /\ Opened' = Opened
      /\ streams'[s] = f
  <2>1. ~At("open") /\ call'.pc # "open"
    BY <1>1, <1>6 DEF At
  <2>2. /\ sent' \in [Slots -> Seq(Bytes)] /\ sent' = sent
        /\ got' \in [Slots -> Seq(Bytes)] /\ got' = got
    BY <1>1 DEF IInv, Types
  <2>3. Directed(f.flags) /\ Len(f.buf) <= FILE_BUF_CAP /\ f.buf_pos <= Len(f.buf)
    BY <1>2, <1>3, <1>4, StreamOf, StdioAssumption
  <2>4. sent'[s] = got'[s] \o Rest(f.buf, f.buf_pos)
    BY <1>4, <1>5, <2>2
  <2> HIDE DEF s
  <2> QED BY <1>1, <1>2, <1>4, <1>6, <2>1, <2>2, <2>3, <2>4, SlotStep
<1>8. CallSound'
  BY <1>2, <1>4, <1>6, <1>7 DEF CallSound, At, Buf, Pos
<1>9. Owed'
  BY <1>6 DEF Owed, AnswersAreTrue, At
<1> QED BY <1>1, <1>7, <1>8, <1>9, QueuesStutter DEF IInv
\* When the buffer is to be filled, all that came in has been passed on.
LEMMA FillIsLevel ==
    ASSUME IInv, At("fill")
    PROVE  /\ call.s \in Opened /\ call \in CallT /\ call.size # 0 /\ call.op = "fread"
           /\ call.i \in Nat /\ call.size \in Nat
           /\ Buf(call.s) = <<>> /\ Pos(call.s) = 0 /\ sent[call.s] = got[call.s]
<1>1. /\ call.s \in Opened /\ call \in CallT /\ call.size # 0 /\ call.op = "fread"
      /\ Buf(call.s) = <<>> /\ Pos(call.s) = 0
  BY DEF IInv, Types, CallSound, At
<1>2. call.i \in Nat /\ call.size \in Nat
  BY <1>1 DEF CallT
<1>3. got[call.s] \in Seq(Bytes) /\ sent[call.s] = got[call.s] \o Rest(<<>>, 0)
  BY <1>1, StreamOf
<1> QED BY <1>1, <1>2, <1>3, RestOfEmpty

LEMMA ReadSomeStep ==
    ASSUME IInv, ReadSome
    PROVE  IInv' /\ Promise
<1> DEFINE s == call.s
<1>1. At("fill") /\ call' = [call EXCEPT !.pc = "copy"] /\ UNCHANGED <<n_streams, kfds, got>>
  BY DEF ReadSome, Goto
<1>2. PICK nr \in 1 .. FILE_BUF_CAP :
        LET bytes == [i \in 1 .. nr |-> Len(sent[s]) + i]
        IN  /\ streams' = [streams EXCEPT ![s].buf = bytes]
            /\ sent' = [sent EXCEPT ![s] = @ \o bytes]
  BY DEF ReadSome
<1> DEFINE bytes == [i \in 1 .. nr |-> Len(sent[s]) + i]
           f == [streams[s] EXCEPT !.buf = bytes]
<1>3. streams' = [streams EXCEPT ![s] = f] /\ sent' = [sent EXCEPT ![s] = @ \o bytes]
  BY <1>2
<1>4. /\ s \in Opened /\ call \in CallT /\ call.size # 0 /\ call.op = "fread"
      /\ Pos(s) = 0 /\ sent[s] = got[s] /\ got[s] \in Seq(Bytes) /\ sent[s] \in Seq(Bytes)
  BY <1>1, FillIsLevel, StreamOf
<1>5. /\ bytes \in Seq(Bytes) /\ Len(bytes) \in Nat /\ Len(bytes) <= FILE_BUF_CAP
  <2>1. Len(sent[s]) \in Nat /\ nr \in Nat /\ nr <= FILE_BUF_CAP
    BY <1>4, LenProperties, StdioAssumption
  <2>2. \A i \in 1 .. nr : Len(sent[s]) + i \in Bytes
    BY <2>1 DEF Bytes
  <2>3. bytes \in [1 .. nr -> Bytes]
    BY <2>2
  <2>4. bytes \in Seq(Bytes)
    <3>1. Seq(Bytes) = UNION {[1 .. n -> Bytes] : n \in Nat}
      BY SeqDef
    <3> HIDE DEF bytes
    <3> QED BY <2>1, <2>3, <3>1
  <2>5. Len(bytes) = nr
    BY <2>1, <2>3
  <2> QED BY <2>1, <2>4, <2>5
<1> HIDE DEF bytes
<1>6. /\ f \in FileT /\ f.fd = streams[s].fd /\ f.buf = bytes
      /\ f.buf_pos = 0 /\ f.flags = streams[s].flags
  BY <1>4, <1>5, StreamOf, SMTT(30) DEF FileT
<1> HIDE DEF f
<1>7. sent[s] \o bytes = got[s] \o Rest(bytes, 0) /\ sent[s] \o bytes \in Seq(Bytes)
  BY <1>4, <1>5, RestFilled, ConcatProperties
<1>8. /\ sent' \in [Slots -> Seq(Bytes)] /\ sent'[s] = sent[s] \o bytes
      /\ \A t \in Slots \ {s} : sent'[t] = sent[t]
  BY <1>3, <1>4, <1>7, StreamOf DEF IInv, Types
<1>9. /\ call' \in CallT /\ call'.pc = "copy" /\ call'.op = "fread" /\ call'.s = s
      /\ call'.size = call.size
  BY <1>1, <1>4 DEF CallT, At
<1>10. Types' /\ Within' /\ NothingLost' /\ Idle' /\ Table' /\ Opened' = Opened
  <2>1. ~At("open") /\ call'.pc # "open"
    BY <1>1, <1>9 DEF At
  <2>2. got' \in [Slots -> Seq(Bytes)] /\ got' = got
    BY <1>1 DEF IInv, Types
  <2>3. Directed(f.flags) /\ Len(f.buf) <= FILE_BUF_CAP /\ f.buf_pos <= Len(f.buf)
    BY <1>4, <1>5, <1>6, StreamOf
  <2>4. sent'[s] = got'[s] \o Rest(f.buf, f.buf_pos)
    BY <1>6, <1>7, <1>8, <2>2
  <2> HIDE DEF s
  <2> QED BY <1>1, <1>3, <1>4, <1>6, <1>8, <1>9, <2>1, <2>2, <2>3, <2>4, SlotStep
<1>11. CallSound'
  BY <1>4, <1>9, <1>10 DEF CallSound, At
<1>12. Owed'
  BY <1>9 DEF Owed, AnswersAreTrue, At
<1>13. Promise
  <2>1. sent \in [Slots -> Seq(Bytes)]
    BY DEF IInv, Types
  <2> HIDE DEF s
  <2> QED BY <1>1, <1>3, <1>4, <1>5, <1>10, <2>1, QueueSends
<1> QED BY <1>10, <1>11, <1>12, <1>13 DEF IInv

LEMMA ReadNoneStep ==
    ASSUME IInv, ReadNone
    PROVE  IInv' /\ Promise
<1>1. PICK mark \in {"EOF", "ERR"} : SetFlag(call.s, mark)
  BY DEF ReadNone
<1> DEFINE s == call.s
           f == [streams[s] EXCEPT !.flags = @ \cup {mark}]
<1>2. /\ At("fill") /\ streams' = [streams EXCEPT ![s] = f]
      /\ call' = [call EXCEPT !.pc = "returned", !.res = call.i \div call.size]
      /\ UNCHANGED <<n_streams, kfds, sent, got>>
  BY <1>1 DEF ReadNone, SetFlag, Return
<1>3. /\ s \in Opened /\ call \in CallT /\ call.op = "fread"
      /\ call.i \div call.size \in Int
  BY <1>2, FillIsLevel
<1>4. /\ f \in FileT /\ f.fd = streams[s].fd /\ f.buf = Buf(s)
      /\ f.buf_pos = Pos(s) /\ Directed(f.flags) /\ mark \in f.flags
  <2>1. /\ streams[s] \in FileT /\ streams[s].buf = Buf(s) /\ streams[s].buf_pos = Pos(s)
        /\ Directed(streams[s].flags) /\ streams[s].flags \in SUBSET {"R", "W", "EOF", "ERR"}
    BY <1>3, StreamOf
  <2>2. /\ streams[s].flags \cup {mark} \in SUBSET {"R", "W", "EOF", "ERR"}
        /\ Directed(streams[s].flags \cup {mark})
    BY <2>1 DEF Directed
  <2> QED BY <2>1, <2>2 DEF FileT
<1> HIDE DEF f
<1>5. /\ call' \in CallT /\ call'.pc = "returned" /\ call'.op = "fread" /\ call'.s = s
      /\ call'.i = call.i /\ call'.size = call.size /\ call'.res = call.i \div call.size
  BY <1>2, <1>3 DEF CallT
<1>6. /\ Types' /\ Within' /\ NothingLost' /\ Idle' /\ Table' /\ streams'[s] = f
      /\ Opened' = Opened
  <2>1. ~At("open") /\ call'.pc # "open"
    BY <1>2, <1>5 DEF At
  <2>2. /\ sent' \in [Slots -> Seq(Bytes)] /\ sent' = sent
        /\ got' \in [Slots -> Seq(Bytes)] /\ got' = got
    BY <1>2 DEF IInv, Types
  <2>3. Len(f.buf) <= FILE_BUF_CAP /\ f.buf_pos <= Len(f.buf)
        /\ sent'[s] = got'[s] \o Rest(f.buf, f.buf_pos)
    BY <1>3, <1>4, <2>2, StreamOf
  <2> HIDE DEF s
  <2> QED BY <1>2, <1>3, <1>4, <1>5, <2>1, <2>2, <2>3, SlotStep
<1>7. CallSound'
  BY <1>5 DEF CallSound, At
<1>8. Owed'
  BY <1>4, <1>5, <1>6 DEF Owed, AnswersAreTrue, At
<1> QED BY <1>2, <1>6, <1>7, <1>8, QueuesStutter DEF IInv

-----------------------------------------------------------------------------
(***************************************************************************)
(* Steps that take or give back a struct of the table.                     *)
(***************************************************************************)
LEMMA TakenFinite == IsFiniteSet(Taken)
<1>1. MAX_FILES - 1 \in Int
  BY StdioAssumption
<1>2. \A a, b \in Int : IsFiniteSet(a .. b)
  BY FS_Interval
<1>3. IsFiniteSet(Slots)
  BY <1>1, <1>2 DEF Slots
<1> QED BY <1>3, FS_Subset DEF Taken

LEMMA ZeroType == Zero \in FileT /\ Zero.flags = {} /\ Zero.fd = 0 /\ Zero.buf = <<>>
                  /\ Zero.buf_pos = 0 /\ <<>> \in Seq(Bytes) /\ Len(<<>>) = 0
<1>1. <<>> \in Seq(Bytes) /\ Len(<<>>) = 0
  BY EmptySeq
<1> QED BY <1>1, StdioAssumption DEF Zero, FileT

LEMMA FopenStep ==
    ASSUME IInv, NEW mode \in Modes, Fopen(mode)
    PROVE  IInv' /\ Promise
<1>1. CASE /\ Calls([NewCall("fopen", NULL, 0, 0, "returned", FALSE) EXCEPT !.res = NULL])
           /\ UNCHANGED <<streams, n_streams, kfds, sent, got>>
  <2>1. /\ At("returned") /\ call' \in CallT /\ call'.op = "fopen" /\ call'.pc = "returned"
    <3> DEFINE c == NewCall("fopen", NULL, 0, 0, "returned", FALSE)
    <3>1. c \in CallT /\ c.op = "fopen" /\ c.pc = "returned"
      BY StdioAssumption DEF NewCall, CallT, NULL
    <3>2. At("returned") /\ call' = [c EXCEPT !.res = NULL]
      BY <1>1 DEF Calls
    <3> HIDE DEF c
    <3> QED BY <3>1, <3>2 DEF CallT, NULL
  <2>2. CallSound' /\ Owed'
    BY <2>1 DEF CallSound, Owed, AnswersAreTrue, At
  <2> QED BY <1>1, <2>1, <2>2, CallStep DEF At
<1>2. ASSUME NEW s \in Slots, Free(s),
             streams' = [streams EXCEPT ![s] = Allocated(@, ModeFlag(mode))],
             n_streams' = n_streams + 1,
             Calls(NewCall("fopen", s, 0, 0, "open", mode # "r")),
             UNCHANGED <<kfds, sent, got>>
      PROVE  IInv' /\ Promise
  <2> DEFINE f == Allocated(streams[s], ModeFlag(mode))
  <2>1. streams[s] = Zero /\ s \notin Taken /\ s \notin Opened
    BY <1>2 DEF Free, IInv, Idle, Directed, Taken, Opened
  <2>2. /\ f \in FileT /\ f.fd = -1 /\ f.buf = <<>> /\ f.buf_pos = 0
        /\ f.flags # {} /\ Directed(f.flags)
    <3>1. f = [Zero EXCEPT !.fd = -1, !.flags = {ModeFlag(mode)}]
      BY <2>1 DEF Allocated
    <3>2. ModeFlag(mode) \in {"R", "W"}
      BY DEF ModeFlag
    <3>3. {ModeFlag(mode)} \in SUBSET {"R", "W", "EOF", "ERR"} /\ -1 \in -1 .. MAX_FILES
      BY <3>2, StdioAssumption
    <3>4. Directed({ModeFlag(mode)})
      BY <3>2 DEF Directed
    <3> QED BY <3>1, <3>3, <3>4, ZeroType DEF FileT
  <2>3. streams' = [streams EXCEPT ![s] = f]
    BY <1>2
  <2> HIDE DEF f
  <2>4. /\ streams' \in [Slots -> FileT]
        /\ streams'[s] = f /\ \A t \in Slots \ {s} : streams'[t] = streams[t]
    BY <2>2, <2>3 DEF IInv, Types
  <2>5. Taken' = Taken \cup {s} /\ Opened' = Opened
    BY <2>1, <2>2, <2>4 DEF Taken, Opened
  <2>6. /\ At("returned") /\ call' \in CallT /\ call'.op = "fopen" /\ call'.pc = "open"
        /\ call'.s = s
    <3>1. (mode # "r") \in BOOLEAN
      OBVIOUS
    <3> QED BY <1>2, <3>1, StdioAssumption DEF Calls, NewCall, CallT, Slots
  <2>7. Types'
    BY <1>2, <2>4, <2>6 DEF IInv, Types
  <2>8. Within'
    BY <2>2, <2>4, ZeroType, StdioAssumption DEF IInv, Within, Buf, Pos
  <2>9. NothingLost'
    BY <1>2, <2>1, <2>4, <2>5 DEF IInv, NothingLost, Buf, Pos, Opened, Taken
  <2>10. Idle'
    BY <2>2, <2>4, <2>6 DEF IInv, Idle, At, Buf, Pos
  <2>11. Table'
    <3>1. n_streams' = Cardinality(Taken')
      BY <1>2, <2>1, <2>5, TakenFinite, FS_AddElement DEF IInv, Table
    <3>2. \A t \in Opened : streams'[t].fd = streams[t].fd
      BY <2>1, <2>4 DEF Opened, Taken
    <3>3. {streams'[t].fd : t \in Opened} = {streams[t].fd : t \in Opened}
      BY <3>2
    <3> QED BY <1>2, <2>5, <3>1, <3>2, <3>3 DEF IInv, Table
  <2>12. CallSound' /\ Owed'
    BY <2>6 DEF CallSound, Owed, AnswersAreTrue, At
  <2> QED BY <1>2, <2>5, <2>7, <2>8, <2>9, <2>10, <2>11, <2>12, QueuesStutter DEF IInv
<1> QED BY <1>1, <1>2 DEF Fopen
LEMMA OpenOkStep ==
    ASSUME IInv, OpenOk
    PROVE  IInv' /\ Promise
<1>1. PICK fd \in 0 .. MAX_FILES : /\ fd \notin kfds /\ kfds' = kfds \cup {fd}
                                   /\ streams' = [streams EXCEPT ![call.s].fd = fd]
  BY DEF OpenOk
<1> DEFINE s == call.s
           f == [streams[s] EXCEPT !.fd = fd]
<1>2. /\ At("open") /\ streams' = [streams EXCEPT ![s] = f]
      /\ sent' = [sent EXCEPT ![s] = <<>>] /\ got' = [got EXCEPT ![s] = <<>>]
      /\ call' = [call EXCEPT !.pc = "returned", !.res = call.s] /\ n_streams' = n_streams
  BY <1>1 DEF OpenOk, Return
<1>3. /\ s \in Slots /\ streams[s].fd = -1 /\ call.op = "fopen" /\ call \in CallT
      /\ streams[s] \in FileT /\ streams[s].flags # {} /\ Directed(streams[s].flags)
      /\ streams[s].buf = <<>> /\ streams[s].buf_pos = 0
  BY <1>2, ZeroType DEF IInv, Idle, Types, Buf, Pos
<1>4. /\ f \in FileT /\ f.fd = fd /\ f.buf = <<>> /\ f.buf_pos = 0
      /\ f.flags = streams[s].flags
  BY <1>3 DEF FileT
<1> HIDE DEF f
<1>5. /\ streams' \in [Slots -> FileT]
      /\ streams'[s] = f /\ \A t \in Slots \ {s} : streams'[t] = streams[t]
  BY <1>2, <1>3, <1>4 DEF IInv, Types
<1>6. fd # -1 /\ s \notin Opened
  BY <1>3, StdioAssumption DEF Opened
<1>7. Taken' = Taken /\ Opened' = Opened \cup {s} /\ Opened \subseteq Slots
  BY <1>3, <1>4, <1>5, <1>6 DEF Taken, Opened
<1>8. /\ sent' \in [Slots -> Seq(Bytes)] /\ sent'[s] = <<>>
      /\ got' \in [Slots -> Seq(Bytes)] /\ got'[s] = <<>>
      /\ \A t \in Slots \ {s} : sent'[t] = sent[t] /\ got'[t] = got[t]
  BY <1>2, <1>3, ZeroType DEF IInv, Types
<1>9. call' \in CallT /\ call'.pc = "returned" /\ call'.op = "fopen"
  <2>1. call.s \in Int
    BY <1>3, StdioAssumption DEF Slots
  <2> QED BY <1>2, <1>3, <2>1 DEF CallT
<1>10. Types'
  BY <1>1, <1>2, <1>5, <1>8, <1>9 DEF IInv, Types
<1>11. Within'
  BY <1>4, <1>5, ZeroType, StdioAssumption DEF IInv, Within, Buf, Pos
<1>12. NothingLost'
  <2> SUFFICES ASSUME NEW t \in Opened'
               PROVE  (sent[t] = got[t] \o Rest(Buf(t), Pos(t)))'
    BY DEF NothingLost, Rest
  <2>1. CASE t = s
    <3>1. Buf(t)' = <<>> /\ Pos(t)' = 0 /\ sent'[t] = <<>> /\ got'[t] = <<>>
      BY <1>4, <1>5, <1>8, <2>1 DEF Buf, Pos
    <3> QED BY <3>1, RestOfEmpty, ZeroType
  <2>2. CASE t # s
    <3>1. t \in Opened /\ t \in Slots \ {s}
      BY <1>7, <2>2
    <3>2. sent[t] = got[t] \o Rest(Buf(t), Pos(t))
      BY <3>1 DEF IInv, NothingLost, Rest
    <3>3. Buf(t)' = Buf(t) /\ Pos(t)' = Pos(t) /\ sent'[t] = sent[t] /\ got'[t] = got[t]
      BY <1>5, <1>8, <3>1 DEF Buf, Pos
    <3> QED BY <3>2, <3>3
  <2> QED BY <2>1, <2>2
<1>13. Idle'
  BY <1>2, <1>3, <1>4, <1>5, <1>6, <1>9 DEF IInv, Idle, At, Buf, Pos
<1>14. Table'
  <2>1. n_streams' = Cardinality(Taken')
    BY <1>2, <1>7 DEF IInv, Table
  <2>2. streams'[s].fd = fd /\ \A t \in Opened : t # s /\ streams'[t].fd = streams[t].fd
    BY <1>4, <1>5, <1>6, <1>7
  <2>3. \A t \in Opened : streams[t].fd \in kfds
    BY DEF IInv, Table
  <2>4. {streams'[t].fd : t \in Opened'} = kfds'
    <3>1. {streams[t].fd : t \in Opened} = kfds
      BY DEF IInv, Table
    <3>2. {streams'[t].fd : t \in Opened \cup {s}} = {streams[t].fd : t \in Opened} \cup {fd}
      BY <2>2
    <3> QED BY <1>1, <1>7, <3>1, <3>2
  <2>5. \A t, u \in Opened' : t # u => streams'[t].fd # streams'[u].fd
    <3>1. \A t, u \in Opened : t # u => streams[t].fd # streams[u].fd
      BY DEF IInv, Table
    <3> QED BY <1>1, <1>7, <2>2, <2>3, <3>1
  <2> QED BY <2>1, <2>4, <2>5 DEF Table
<1>15. CallSound' /\ Owed'
  BY <1>9 DEF CallSound, Owed, AnswersAreTrue, At
<1>16. Promise
  <2>1. BS!Open(s)
    BY <1>2, <1>6, <1>7 DEF BS!Open
  <2> QED BY <1>3, <2>1 DEF BS!Next, Promise
<1> QED BY <1>10, <1>11, <1>12, <1>13, <1>14, <1>15, <1>16 DEF IInv

\* file_free gives back a struct, open or being opened.
LEMMA FreeStep ==
    ASSUME IInv, NEW s \in Taken, file_free(s), ~At("open") \/ call.s = s,
           kfds' = kfds \ {streams[s].fd}, UNCHANGED <<sent, got>>,
           call' \in CallT, call'.pc = "returned"
    PROVE  Types' /\ Within' /\ NothingLost' /\ Idle' /\ Table' /\ Promise
<1>1. s \in Slots /\ streams' = [streams EXCEPT ![s] = Zero] /\ n_streams' = n_streams - 1
  BY DEF Taken, file_free
<1>2. /\ streams' \in [Slots -> FileT]
      /\ streams'[s] = Zero /\ \A t \in Slots \ {s} : streams'[t] = streams[t]
  BY <1>1, ZeroType DEF IInv, Types
<1>3. Taken' = Taken \ {s} /\ Opened' = Opened \ {s} /\ Opened \subseteq Slots
  BY <1>1, <1>2, ZeroType DEF Taken, Opened
<1>4. Types'
  <2>1. n_streams' \in Int
    BY <1>1 DEF IInv, Types
  <2>2. kfds' \in SUBSET (0 .. MAX_FILES)
    BY DEF IInv, Types
  <2> QED BY <1>2, <2>1, <2>2 DEF IInv, Types
<1>5. Within'
  BY <1>2, ZeroType, StdioAssumption DEF IInv, Within, Buf, Pos
<1>6. NothingLost'
  BY <1>2, <1>3 DEF IInv, NothingLost, Buf, Pos, Opened, Taken
<1>7. Idle'
  BY <1>2, ZeroType DEF IInv, Idle, At
<1>8. Table'
  <2>1. n_streams' = Cardinality(Taken')
    <3>1. n_streams = Cardinality(Taken) /\ s \in Taken
      BY DEF IInv, Table
    <3>2. Cardinality(Taken \ {s}) = Cardinality(Taken) - 1
      BY <3>1, TakenFinite, FS_RemoveElement
    <3> QED BY <1>1, <1>3, <3>1, <3>2
  <2>2. \A t \in Opened \ {s} : streams'[t].fd = streams[t].fd
    BY <1>2, <1>3
  <2>3. /\ {streams[t].fd : t \in Opened} = kfds
        /\ \A t, u \in Opened : t # u => streams[t].fd # streams[u].fd
    BY DEF IInv, Table
  <2>4. {streams'[t].fd : t \in Opened \ {s}} = {streams[t].fd : t \in Opened \ {s}}
    BY <2>2
  <2>5. {streams[t].fd : t \in Opened \ {s}} = kfds \ {streams[s].fd}
    <3>1. CASE s \in Opened
      BY <2>3, <3>1
    <3>2. CASE s \notin Opened
      <4>1. streams[s].fd = -1
        BY <3>2 DEF Opened
      <4>2. -1 \notin kfds
        BY StdioAssumption DEF IInv, Types
      <4>3. Opened \ {s} = Opened /\ kfds \ {streams[s].fd} = kfds
        BY <3>2, <4>1, <4>2
      <4> QED BY <2>3, <4>3
    <3> QED BY <3>1, <3>2
  <2>6. \A t, u \in Opened' : t # u => streams'[t].fd # streams'[u].fd
    BY <1>3, <2>2, <2>3
  <2>7. {streams'[t].fd : t \in Opened'} = kfds'
    BY <1>3, <2>4, <2>5
  <2> QED BY <2>1, <2>6, <2>7 DEF Table
<1>9. Promise
  <2>1. CASE s \in Opened
    <3>1. BS!Close(s)
      BY <1>3, <2>1 DEF BS!Close
    <3> QED BY <1>1, <3>1 DEF BS!Next, Promise
  <2>2. CASE s \notin Opened
    BY <1>3, <2>2, QueuesStutter
  <2> QED BY <2>1, <2>2
<1> QED BY <1>4, <1>5, <1>6, <1>7, <1>8, <1>9

LEMMA OpenFailsStep ==
    ASSUME IInv, OpenFails
    PROVE  IInv' /\ Promise
<1>1. /\ At("open") /\ file_free(call.s) /\ UNCHANGED <<kfds, sent, got>>
      /\ call' = [call EXCEPT !.pc = "returned", !.res = NULL]
  BY DEF OpenFails, Return
<1>2. /\ call.s \in Taken /\ streams[call.s].fd = -1 /\ call.op = "fopen" /\ call \in CallT
  BY <1>1 DEF IInv, Idle, Types, Taken
<1>3. call' \in CallT /\ call'.pc = "returned" /\ call'.op = "fopen"
  <2>1. NULL \in Int
    BY DEF NULL
  <2> QED BY <1>1, <1>2, <2>1 DEF CallT
<1>4. kfds' = kfds \ {streams[call.s].fd}
  BY <1>1, <1>2, StdioAssumption DEF IInv, Types
<1>5. CallSound' /\ Owed'
  BY <1>3 DEF CallSound, Owed, AnswersAreTrue, At
<1> QED BY <1>1, <1>2, <1>3, <1>4, <1>5, FreeStep DEF IInv

LEMMA CloseFdStep ==
    ASSUME IInv, CloseFd
    PROVE  IInv' /\ Promise
<1>1. PICK failed \in BOOLEAN : Return(CloseRes(failed))
  BY DEF CloseFd
<1>2. /\ At("close") /\ file_free(call.s) /\ UNCHANGED <<sent, got>>
      /\ kfds' = kfds \ {streams[call.s].fd}
      /\ call' = [call EXCEPT !.pc = "returned", !.res = CloseRes(failed)]
  BY <1>1 DEF CloseFd, Return
<1>3. /\ call.s \in Taken /\ call.op = "fclose" /\ call \in CallT /\ ~At("open")
      /\ call.out /\ call.res = 0 => got[call.s] = sent[call.s]
  BY <1>2 DEF IInv, CallSound, Types, Opened, Owed, At
<1>4. CloseRes(failed) \in Int /\ (CloseRes(failed) = 0 => call.res = 0)
  BY <1>3 DEF CloseRes, EOF, CallT
<1>5. /\ call' \in CallT /\ call'.pc = "returned" /\ call'.op = "fclose" /\ call'.s = call.s
      /\ call'.out = call.out /\ call'.res = CloseRes(failed)
  BY <1>2, <1>3, <1>4 DEF CallT
<1>6. CallSound'
  BY <1>5 DEF CallSound, At
<1>7. Owed'
  BY <1>2, <1>3, <1>4, <1>5 DEF Owed, AnswersAreTrue, At
<1> QED BY <1>2, <1>3, <1>5, <1>6, <1>7, FreeStep DEF IInv
-----------------------------------------------------------------------------
(***************************************************************************)
(* Every step, and the theorems.                                           *)
(***************************************************************************)
LEMMA ProgramKeeps ==
    ASSUME IInv, Program
    PROVE  IInv' /\ Promise
<1>1. CASE \E mode \in Modes : Fopen(mode)
  BY <1>1, FopenStep
<1>2. CASE \E s \in Slots : Fclose(s)
  BY <1>2, FcloseStep
<1>3. CASE \E s \in Used : Fflush(s) \/ Clearerr(s)
  BY <1>3, FflushStep, ClearerrStep
<1>4. CASE \E s \in Used, o \in Objects : Fwrite(s, o) \/ Fread(s, o)
  <2>1. PICK s \in Used, o \in Objects : Fwrite(s, o) \/ Fread(s, o)
    BY <1>4
  <2>2. CASE Fwrite(s, o)
    BY <2>2, TransferStep DEF Fwrite
  <2>3. CASE Fread(s, o)
    BY <2>3, TransferStep DEF Fread
  <2> QED BY <2>1, <2>2, <2>3
<1>5. CASE Exit
  BY <1>5, ExitStep
<1> QED BY <1>1, <1>2, <1>3, <1>4, <1>5 DEF Program

LEMMA StepKeeps ==
    ASSUME IInv, Step
    PROVE  IInv' /\ Promise
  BY OpenOkStep, OpenFailsStep, WriteSomeStep, WriteFailsStep, FlushedStep, CloseFdStep,
     CopyOutStep, BufferFullStep, CopyInStep, BufferEmptyStep, CopiedStep,
     ReadSomeStep, ReadNoneStep, FiniStep DEF Step

LEMMA NextKeeps == IInv /\ [Next]_vars => IInv' /\ Promise
<1> SUFFICES ASSUME IInv, [Next]_vars PROVE IInv' /\ Promise
  OBVIOUS
<1>1. CASE Next
  BY <1>1, ProgramKeeps, StepKeeps DEF Next
<1>2. CASE UNCHANGED vars
  <2>1. Types' /\ Within' /\ NothingLost' /\ Idle'
    BY <1>2 DEF vars, IInv, Types, Within, NothingLost, Idle, At, Buf, Pos, Opened, Taken
  <2>2. CallSound' /\ Table'
    BY <1>2 DEF vars, IInv, CallSound, Table, At, Buf, Pos, Opened, Taken
  <2>3. Owed'
    BY <1>2 DEF vars, IInv, Owed, AnswersAreTrue, HandedOver, At, Opened, Taken
  <2>4. Opened' = Opened /\ UNCHANGED <<sent, got>>
    BY <1>2 DEF vars, Opened, Taken
  <2> QED BY <2>1, <2>2, <2>3, <2>4, QueuesStutter DEF IInv
<1> QED BY <1>1, <1>2

LEMMA Inductive == Spec => []IInv
<1>1. Init => IInv
  BY Initially
<1>2. IInv /\ [Next]_vars => IInv'
  BY NextKeeps
<1> QED BY <1>1, <1>2, PTL DEF Spec

\* Every field of the table stays within its bounds; in particular no step
\* writes beyond a buffer.
THEOREM TypeCorrect == Spec => []TypeOK
<1>1. IInv => TypeOK
  <2> SUFFICES ASSUME IInv PROVE TypeOK
    OBVIOUS
  <2>1. \A s \in Slots : /\ streams[s].fd \in -1 .. MAX_FILES
                         /\ streams[s].flags \subseteq {"R", "W", "EOF", "ERR"}
                         /\ Buf(s) \in Seq(Bytes) /\ Pos(s) \in Nat
    BY DEF IInv, Types, FileT, Buf, Pos
  <2>2. \A s \in Slots : Len(Buf(s)) <= FILE_BUF_CAP /\ Pos(s) \in 0 .. Len(Buf(s))
    BY <2>1, LenProperties DEF IInv, Within
  <2>3. /\ call.s \in -1 .. MAX_FILES
        /\ call.pc \in {"returned", "open", "flush", "close", "copy", "fill", "fini", "gone"}
    BY DEF IInv, Types, CallT
  <2> QED BY <2>1, <2>2, <2>3 DEF IInv, Types, TypeOK
<1> QED BY <1>1, Inductive, PTL

\* Whatever writes and reads do, in part or not at all, no byte of an open
\* stream is lost, doubled or moved.
THEOREM NoByteIsLost == Spec => []NothingLost
<1>1. IInv => NothingLost
  BY DEF IInv
<1> QED BY <1>1, Inductive, PTL

\* What fwrite, fread, fflush, fclose and exit answer is true.
THEOREM CallsTellTheTruth == Spec => []AnswersAreTrue
<1>1. IInv => AnswersAreTrue
  BY DEF IInv, Owed
<1> QED BY <1>1, Inductive, PTL

\* Whenever the program runs, the table agrees with itself and the kernel.
THEOREM TableIsSound == Spec => []TableSound
<1>1. IInv => TableSound
  <2> SUFFICES ASSUME IInv, At("returned") PROVE TableSound
    BY DEF TableSound
  <2>1. Taken = Opened
    BY DEF IInv, Idle, Taken, Opened, At
  <2> QED BY <2>1 DEF IInv, Table, TableSound
<1> QED BY <1>1, Inductive, PTL

\* The buffered streams implement queues of bytes.
THEOREM StreamsAreQueues == Spec => ByteStreams
<1>1. Init => BS!Init
  BY DEF Init, BS!Init, Opened, Taken
<1>2. IInv /\ [Next]_vars => [BS!Next]_(BS!vars)
  BY NextKeeps DEF Promise
<1> QED BY <1>1, <1>2, Inductive, PTL DEF Spec, ByteStreams, BS!Spec
=============================================================================
