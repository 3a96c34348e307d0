------------------------------- MODULE Stdio --------------------------------
(***************************************************************************)
(* Buffered streams (stdlib/stdio.c) over the system calls open, close,    *)
(* read and write, from _init_stdio to _fini_stdio.  A program calls the   *)
(* library, one call after another; within a call, each system call may    *)
(* succeed, succeed in part or fail.                                       *)
(*                                                                         *)
(* The bytes of a stream are its first, second, third, ...: 1, 2, 3, ...   *)
(* `sent` and `got` remember, per stream, what one side put in and what    *)
(* the other got: from the program to the kernel when it is written, from  *)
(* the kernel to the program when it is read.                              *)
(***************************************************************************)
EXTENDS Integers, Sequences, FiniteSets

CONSTANTS MAX_FILES, FILE_BUF_CAP,
          Objects,       \* the (size, count) that the program hands over
          Used,          \* the streams on which it reads and writes
          MaxBytes       \* bound: the bytes of a stream

ASSUME StdioAssumption ==
    /\ MAX_FILES \in Nat /\ MAX_FILES >= 3
    /\ FILE_BUF_CAP \in Nat \ {0}
    /\ Objects \subseteq Nat \X Nat
    /\ Used \subseteq 0 .. MAX_FILES - 1
    /\ MaxBytes \in Nat

Slots == 0 .. MAX_FILES - 1
EOF   == -1
NULL  == -1            \* as a stream: a null pointer

VARIABLES streams,     \* the table of struct file
          n_streams,
          call,        \* the library call in progress, or the last one
          kfds,        \* the descriptors that the kernel has open
          sent, got

vars == <<streams, n_streams, call, kfds, sent, got>>

-----------------------------------------------------------------------------
Zero == [fd |-> 0, flags |-> {}, buf |-> <<>>, buf_pos |-> 0]

Std(fd, flag) == [fd |-> fd, flags |-> {flag}, buf |-> <<>>, buf_pos |-> 0]

\* op, stream, size of an object, bytes wanted, bytes done, what is next, the
\* result, and whether bytes go out.
NewCall(op, s, size, want, pc, out) ==
    [op |-> op, s |-> s, size |-> size, want |-> want, i |-> 0,
     pc |-> pc, res |-> 0, out |-> out]
NoCall == NewCall("none", NULL, 0, 0, "returned", FALSE)

\* _init_stdio
Init == /\ streams = [s \in Slots |-> CASE s = 0 -> Std(0, "R")
                                        [] s \in {1, 2} -> Std(s, "W")
                                        [] OTHER -> Zero]
        /\ n_streams = 3
        /\ call = NoCall
        /\ kfds = {0, 1, 2}
        /\ sent = [s \in Slots |-> <<>>] /\ got = sent

Taken  == {s \in Slots : streams[s].flags # {}}
Opened == {s \in Taken : streams[s].fd # -1}     \* all but one that fopen is opening
Buf(s) == streams[s].buf
Pos(s) == streams[s].buf_pos

At(pc)    == call.pc = pc
Calls(c)  == At("returned") /\ call' = c
Goto(pc)  == call' = [call EXCEPT !.pc = pc]
Return(r) == call' = [call EXCEPT !.pc = "returned", !.res = r]

\* buf_pos = buf_len = 0
Emptied_not(st) == [st EXCEPT !.buf_pos = 0]               \* mutant: buf_len is kept
Emptied(st)     == [st EXCEPT !.buf = <<>>, !.buf_pos = 0]

SetFlag(s, f) == streams' = [streams EXCEPT ![s].flags = @ \cup {f}]

-----------------------------------------------------------------------------
\* fopen: file_alloc takes the first free struct, then open is called.
\* mutant: n_streams is not counted down
file_free_uncounted(s) == /\ streams' = [streams EXCEPT ![s] = Zero]
                          /\ UNCHANGED n_streams
file_free(s) == /\ streams' = [streams EXCEPT ![s] = Zero]
                /\ n_streams' = n_streams - 1

Modes == {"r", "w", "a", "other"}
ModeFlag(mode) == IF mode = "r" THEN "R" ELSE "W"

Allocated(st, flag) == [st EXCEPT !.fd = -1, !.flags = {flag}]
Free(s) == streams[s].flags = {} /\ \A t \in Slots : t < s => streams[t].flags # {}

Fopen(mode) ==
    /\ \/ /\ mode = "other" \/ n_streams = MAX_FILES \/ Taken = Slots
          /\ Calls([NewCall("fopen", NULL, 0, 0, "returned", FALSE) EXCEPT !.res = NULL])
          /\ UNCHANGED <<streams, n_streams>>
       \/ /\ mode # "other" /\ n_streams < MAX_FILES
          /\ \E s \in Slots :
               /\ Free(s)
               /\ streams' = [streams EXCEPT ![s] = Allocated(@, ModeFlag(mode))]
               /\ n_streams' = n_streams + 1
               /\ Calls(NewCall("fopen", s, 0, 0, "open", mode # "r"))
    /\ UNCHANGED <<kfds, sent, got>>

\* The kernel hands out the lowest descriptor that is free.
OpenOk ==
    /\ At("open")
    /\ \E fd \in 0 .. MAX_FILES :
         /\ fd \notin kfds /\ \A d \in 0 .. fd - 1 : d \in kfds
         /\ kfds' = kfds \cup {fd}
         /\ streams' = [streams EXCEPT ![call.s].fd = fd]
    /\ sent' = [sent EXCEPT ![call.s] = <<>>]
    /\ got' = [got EXCEPT ![call.s] = <<>>]
    /\ Return(call.s)
    /\ UNCHANGED n_streams

OpenFails == /\ At("open")
             /\ file_free(call.s)
             /\ Return(NULL)
             /\ UNCHANGED <<kfds, sent, got>>

-----------------------------------------------------------------------------
\* fflush, by itself or within fwrite, fclose and _fini_stdio.
\* mutant: fwrite goes on after a failure
FlushTo_goes_on(res) ==
    \/ call.op = "fwrite" /\ Goto("copy")
    \/ call.op = "fflush" /\ Return(res)
    \/ call.op = "fclose" /\ call' = [call EXCEPT !.pc = "close", !.res = res]
    \/ call.op = "exit"   /\ call' = [call EXCEPT !.pc = "fini", !.s = @ + 1]
FlushTo(res) ==
    \/ call.op = "fwrite" /\ res = EOF /\ Return(call.i \div call.size)
    \/ call.op = "fwrite" /\ res = 0   /\ Goto("copy")
    \/ call.op = "fflush" /\ Return(res)
    \/ call.op = "fclose" /\ call' = [call EXCEPT !.pc = "close", !.res = res]
    \/ call.op = "exit"   /\ call' = [call EXCEPT !.pc = "fini", !.s = @ + 1]

Fflush(s) == /\ "W" \in streams[s].flags
             /\ Calls(NewCall("fflush", s, 0, 0, "flush", TRUE))
             /\ UNCHANGED <<streams, n_streams, kfds, sent, got>>

Written_all(st, nw) == [st EXCEPT !.buf_pos = Len(st.buf)]   \* mutant: no short writes
Written(st, nw)     == [st EXCEPT !.buf_pos = @ + nw]

\* write takes at least one byte, or it fails.
WriteSome ==
    /\ At("flush") /\ Pos(call.s) < Len(Buf(call.s))
    /\ \E nw \in 1 .. Len(Buf(call.s)) - Pos(call.s) :
         /\ got' = [got EXCEPT ![call.s] =
                      @ \o SubSeq(Buf(call.s), Pos(call.s) + 1, Pos(call.s) + nw)]
         /\ streams' = [streams EXCEPT ![call.s] = Written(@, nw)]
    /\ UNCHANGED <<n_streams, call, kfds, sent>>

WriteFails == /\ At("flush") /\ Pos(call.s) < Len(Buf(call.s))
              /\ SetFlag(call.s, "ERR")
              /\ FlushTo(EOF)
              /\ UNCHANGED <<n_streams, kfds, sent, got>>

Flushed == /\ At("flush") /\ Pos(call.s) >= Len(Buf(call.s))
           /\ streams' = [streams EXCEPT ![call.s] = Emptied(@)]
           /\ FlushTo(0)
           /\ UNCHANGED <<n_streams, kfds, sent, got>>

-----------------------------------------------------------------------------
Fclose(s) == /\ s \in Opened
             /\ LET out == "W" \in streams[s].flags
                IN  Calls(NewCall("fclose", s, 0, 0, IF out THEN "flush" ELSE "close", out))
             /\ UNCHANGED <<streams, n_streams, kfds, sent, got>>

CloseRes_last(failed) == IF failed THEN EOF ELSE 0           \* mutant: fflush ignored
CloseRes(failed)      == IF failed THEN EOF ELSE call.res

\* Linux gives the descriptor up also when close reports an error.
CloseFd == /\ At("close")
           /\ \E failed \in BOOLEAN : Return(CloseRes(failed))
           /\ kfds' = kfds \ {streams[call.s].fd}
           /\ file_free(call.s)
           /\ UNCHANGED <<sent, got>>

\* clearerr
Clearerr(s) == /\ s \in Opened
               /\ Calls(NewCall("clearerr", s, 0, 0, "returned", FALSE))
               /\ streams' = [streams EXCEPT ![s].flags = @ \ {"EOF", "ERR"}]
               /\ UNCHANGED <<n_streams, kfds, sent, got>>

-----------------------------------------------------------------------------
\* fwrite and fread: a call for nothing returns 0 at once.
Transfer(op, s, o) ==
    Calls(NewCall(op, s, o[1], o[1] * o[2],
                  IF o[1] * o[2] = 0 THEN "returned" ELSE "copy", op = "fwrite"))

Fwrite(s, o) == /\ "W" \in streams[s].flags
                /\ Len(sent[s]) + o[1] * o[2] <= MaxBytes
                /\ Transfer("fwrite", s, o)
                /\ UNCHANGED <<streams, n_streams, kfds, sent, got>>

Fread(s, o) == /\ "R" \in streams[s].flags
               /\ Transfer("fread", s, o)
               /\ UNCHANGED <<streams, n_streams, kfds, sent, got>>

Copying(op) == At("copy") /\ call.op = op
Counted     == call' = [call EXCEPT !.i = @ + 1]

Full_late(s) == Len(Buf(s)) > FILE_BUF_CAP                  \* mutant: off by one
Full(s)      == Len(Buf(s)) = FILE_BUF_CAP

CopyOut == /\ Copying("fwrite") /\ call.i < call.want
           /\ ~Full(call.s)
           /\ LET byte == Len(sent[call.s]) + 1
              IN  /\ sent' = [sent EXCEPT ![call.s] = Append(@, byte)]
                  /\ streams' = [streams EXCEPT ![call.s].buf = Append(@, byte)]
           /\ Counted
           /\ UNCHANGED <<n_streams, kfds, got>>

BufferFull == /\ Copying("fwrite") /\ call.i < call.want
              /\ Full(call.s)
              /\ Goto("flush")
              /\ UNCHANGED <<streams, n_streams, kfds, sent, got>>

CopyIn == /\ Copying("fread") /\ call.i < call.want
          /\ Pos(call.s) # Len(Buf(call.s))
          /\ got' = [got EXCEPT ![call.s] = Append(@, Buf(call.s)[Pos(call.s) + 1])]
          /\ streams' = [streams EXCEPT ![call.s].buf_pos = @ + 1]
          /\ Counted
          /\ UNCHANGED <<n_streams, kfds, sent>>

BufferEmpty == /\ Copying("fread") /\ call.i < call.want
               /\ Pos(call.s) = Len(Buf(call.s))
               /\ streams' = [streams EXCEPT ![call.s] = Emptied(@)]
               /\ Goto("fill")
               /\ UNCHANGED <<n_streams, kfds, sent, got>>

Copied == /\ At("copy") /\ call.i >= call.want
          /\ Return(call.i \div call.size)
          /\ UNCHANGED <<streams, n_streams, kfds, sent, got>>

-----------------------------------------------------------------------------
\* ffill: read gives some bytes, or none at the end, or fails.
ReadSome ==
    /\ At("fill")
    /\ \E nr \in 1 .. FILE_BUF_CAP :
         /\ Len(sent[call.s]) + nr <= MaxBytes
         /\ LET bytes == [i \in 1 .. nr |-> Len(sent[call.s]) + i]
            IN  /\ streams' = [streams EXCEPT ![call.s].buf = bytes]
                /\ sent' = [sent EXCEPT ![call.s] = @ \o bytes]
    /\ Goto("copy")
    /\ UNCHANGED <<n_streams, kfds, got>>

ReadNone == /\ At("fill")
            /\ \E f \in {"EOF", "ERR"} : SetFlag(call.s, f)
            /\ Return(call.i \div call.size)
            /\ UNCHANGED <<n_streams, kfds, sent, got>>

-----------------------------------------------------------------------------
\* exit calls _fini_stdio, which flushes what can be written, then _exit.
Exit == /\ Calls(NewCall("exit", 0, 0, 0, "fini", FALSE))
        /\ UNCHANGED <<streams, n_streams, kfds, sent, got>>

FiniFlush == /\ At("fini") /\ call.s < MAX_FILES
             /\ "W" \in streams[call.s].flags
             /\ Goto("flush")
             /\ UNCHANGED <<streams, n_streams, kfds, sent, got>>

FiniSkip == /\ At("fini") /\ call.s < MAX_FILES
            /\ "W" \notin streams[call.s].flags
            /\ call' = [call EXCEPT !.s = @ + 1]
            /\ UNCHANGED <<streams, n_streams, kfds, sent, got>>

Gone == /\ At("fini") /\ call.s = MAX_FILES
        /\ Goto("gone")
        /\ UNCHANGED <<streams, n_streams, kfds, sent, got>>

-----------------------------------------------------------------------------
\* The program calls what C allows on a stream that it has open.
Program == \/ \E mode \in Modes : Fopen(mode)
           \/ \E s \in Slots : Fclose(s)
           \/ \E s \in Used : Fflush(s) \/ Clearerr(s)
           \/ \E s \in Used, o \in Objects : Fwrite(s, o) \/ Fread(s, o)
           \/ Exit

Step == \/ OpenOk \/ OpenFails \/ WriteSome \/ WriteFails \/ Flushed \/ CloseFd
        \/ CopyOut \/ BufferFull \/ CopyIn \/ BufferEmpty \/ Copied
        \/ ReadSome \/ ReadNone \/ FiniFlush \/ FiniSkip \/ Gone

Next == Program \/ Step

Spec == Init /\ [][Next]_vars

\* A call, once made, is executed on.
FairSpec == Spec /\ WF_vars(Step)

-----------------------------------------------------------------------------
Bytes == Nat \ {0}

\* Every field of the table within its bounds: the buffer is never overrun,
\* and buf_pos never passes buf_len.
TypeOK ==
    /\ \A s \in Slots : /\ streams[s].fd \in -1 .. MAX_FILES
                        /\ streams[s].flags \subseteq {"R", "W", "EOF", "ERR"}
                        /\ Buf(s) \in Seq(Bytes) /\ Len(Buf(s)) <= FILE_BUF_CAP
                        /\ Pos(s) \in 0 .. Len(Buf(s))
    /\ call.s \in -1 .. MAX_FILES
    /\ call.pc \in {"returned", "open", "flush", "close", "copy", "fill", "fini", "gone"}
    /\ kfds \subseteq 0 .. MAX_FILES

\* What was put into an open stream is what has come out of it and, after
\* that, what is still in its buffer: across short writes, failed writes that
\* are tried again, and short reads, no byte is lost, doubled or moved.
NothingLost ==
    \A s \in Opened : sent[s] = got[s] \o SubSeq(Buf(s), Pos(s) + 1, Len(Buf(s)))

\* A call tells the truth.  What fwrite or fread falls short of is explained
\* by ferror or feof; after fflush or fclose has returned 0 the kernel has all
\* that was written; exit leaves nothing behind but what could not be written.
AnswersAreTrue ==
    /\ At("returned") /\ call.op \in {"fwrite", "fread"} /\ call.want > 0 =>
         /\ call.res = call.i \div call.size
         /\ call.i < call.want => streams[call.s].flags \cap {"EOF", "ERR"} # {}
    /\ At("returned") /\ call.op \in {"fflush", "fclose"} /\ call.out /\ call.res = 0 =>
         got[call.s] = sent[call.s]
    /\ At("gone") => \A s \in Opened : "W" \in streams[s].flags =>
                       got[s] = sent[s] \/ "ERR" \in streams[s].flags

\* The table agrees with itself and with the kernel whenever the program runs:
\* the count is right, no two streams share a descriptor, none is leaked.
TableSound ==
    At("returned") =>
        /\ n_streams = Cardinality(Taken) /\ Taken = Opened
        /\ {streams[s].fd : s \in Opened} = kfds
        /\ \A s, t \in Opened : s # t => streams[s].fd # streams[t].fd

\* The buffer implements a queue: what the kernel has of a written stream, and
\* the program of a read one, only ever grows along what was put in.
BS == INSTANCE ByteStream WITH Streams <- Slots,
                               open <- Opened
ByteStreams == BS!Spec

\* Every call comes back, and exit ends, whatever the kernel answers: a write
\* that keeps failing is not tried forever.
CallsEnd == (call.pc \notin {"returned", "gone"}) ~> (call.pc \in {"returned", "gone"})
=============================================================================
