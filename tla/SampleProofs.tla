---------------------------- MODULE SampleProofs ----------------------------
(***************************************************************************)
(* Proofs about the sample programs.  cat copies: the device gets what the *)
(* files hold, as far as it takes it, and just the files are reported that *)
(* could not be read or have bytes that stdout's buffer did not accept.    *)
(* wc counts: its running counts are those of C!Counts of what was read,   *)
(* its rows those of the files before, and the last row theirs together.   *)
(* hexdump is sound: what was read of the files is in the dump or in the   *)
(* chunk being put together, but for less than a chunk that is lost at the *)
(* end, and what failed up to the limit was reported.                      *)
(***************************************************************************)
EXTENDS LibraryProofs

-----------------------------------------------------------------------------
(***************************************************************************)
(* The bytes of the files.                                                 *)
(***************************************************************************)
FilesIn(S) == /\ \A n \in 0 .. Len(Fs) - 1 : Fs[n + 1].data \in Seq(S)
              /\ Data(Fs, 0) = <<>>
              /\ \A n \in 0 .. Len(Fs) : Data(Fs, n) \in Seq(S)
              /\ \A n \in 0 .. Len(Fs) - 1 : Data(Fs, n + 1) = Data(Fs, n) \o Held(Fs[n + 1])
Bytes == CHOOSE S : FilesIn(S)

LEMMA BytesAre == ASSUME FilesHold(Fs) PROVE FilesIn(Bytes)
  <1>1. \E S : FilesIn(S)
    BY FilesAre DEF FilesIn
  <1> HIDE DEF FilesIn
  <1> QED BY <1>1 DEF Bytes

-----------------------------------------------------------------------------
(***************************************************************************)
(* cat                                                                     *)
(***************************************************************************)
\* What was read of all files, and how much of it stdout can accept.
Copying == pc \in {"copy", "end"}
Had     == IF Copying THEN SubSeq(This.data, 1, pos) ELSE <<>>
Came    == Data(Fs, fileno) \o Had
Limit   == Accepts(job.room)

\* File i + 1 was reported, and it has to be.
Reported(rs, i) == \E r \in Range(rs) : r[2] = i
Failed(j, i)    == \/ j.files[i + 1].fails \in {"open", "read"}
                   \/ j.files[i + 1].data # <<>> /\ Len(Data(j.files, i + 1)) > Accepts(j.room)

Phases ==
    /\ pc \in {"next", "copy", "end", "exit", "done"}
    /\ fileno \in 0 .. Len(Fs) /\ (pc \in {"exit", "done"} => fileno = Len(Fs))
    /\ Copying => /\ fileno < Len(Fs) /\ This.fails # "open" /\ pos \in 0 .. Len(This.data)
                  /\ is_open \/ (fileno = 0 /\ Len(Fs) = 1)
    /\ IF pc = "copy" THEN Len(block) <= pos ELSE block = <<>>

\* What was given to stdout (which is all but the block at hand) is on the
\* device or in the buffer, as far as it was accepted.
Given(g) == g \in Seq(Bytes) /\ Came = g \o block /\ out \o held = Take(g, Limit)

\* The buffer was emptied whenever it was full, or it is full and stuck.
Going == Len(held) = buf_len /\ \E k \in Nat : Len(out) = k * FILE_BUF_CAP
Stuck == room = 0 /\ held # <<>> /\ buf_len = FILE_BUF_CAP /\ Len(out \o held) = Limit

Buffered == /\ out \in Seq(Bytes) /\ held \in Seq(Bytes) /\ block \in Seq(Bytes)
            /\ room \in Nat /\ room + Len(out) = job.room
            /\ buf_len \in 0 .. FILE_BUF_CAP /\ (Going \/ Stuck)
            /\ \E g : Given(g)
Output   == IF pc = "done" THEN out = Take(Came, job.room) ELSE Buffered

Failures == {"open", "read", "write"}

\* Nothing is reported of a file before its turn, and the right thing after it.
Said == /\ reports \in Seq(Failures \X Nat)
        /\ \A i \in 0 .. Len(Fs) : Reported(reports, i) => (i < fileno \/ (i = fileno /\ Copying))
        /\ \A i \in 0 .. fileno - 1 : Reported(reports, i) <=> Failed(job, i)

\* The file at hand is copied until it ends or a byte is not accepted; a
\* failure of reading it is reported at its end.
AtHand == /\ pc = "copy" => /\ ~Reported(reports, fileno)
                            /\ src_err => This.fails = "read"
                            /\ Len(block) < pos => Len(Came) - Len(block) <= Limit
          /\ pc = "end"  => /\ src_err => This.fails = "read"
                            /\ Reported(reports, fileno) \/ src_err <=> Failed(job, fileno)
                            /\ pos = Len(This.data) \/ Len(Came) > Limit

Faithful == CatJob(job) /\ Phases /\ Output /\ Said /\ AtHand
CatInv   == Runs("cat") => Faithful

-----------------------------------------------------------------------------
(***************************************************************************)
(* How much stdout accepts, and what a flush does.                         *)
(***************************************************************************)
\* The device takes k full buffers, so k + 1 are accepted at least.
LEMMA AcceptsIs ==
    ASSUME NEW r \in Nat
    PROVE  /\ Accepts(r) \in Nat /\ Accepts(r) > r
           /\ \A k \in Nat : k * FILE_BUF_CAP <= r =>
                /\ k * FILE_BUF_CAP + FILE_BUF_CAP <= Accepts(r)
                /\ r < k * FILE_BUF_CAP + FILE_BUF_CAP => Accepts(r) = k * FILE_BUF_CAP + FILE_BUF_CAP
  <1> DEFINE c == FILE_BUF_CAP
             q == r \div c
  <1>1. c \in Nat \ {0}
    BY FileBufAssumption
  <1>2. Accepts(r) = (q + 1) * c
    BY DEF Accepts
  <1>3. q \in Nat /\ c * q <= r /\ r < c * q + c
    BY <1>1, QuotientIs
  <1>4. ASSUME NEW k \in Nat, r < c * k + c, c * k <= r PROVE q = k
    BY <1>1, <1>4, QuotientUnique
  <1> HIDE DEF c, q
  <1>5. Accepts(r) = c * q + c
    BY <1>1, <1>2, <1>3
  <1>6. ASSUME NEW k \in Nat, c * k <= r PROVE c * k + c <= c * q + c
    <2>1. CASE k <= q
      <3>1. q - k \in Nat /\ c * (q - k) \in Nat /\ c * (q - k) = c * q - c * k
        BY <1>1, <1>3, <2>1
      <3> QED BY <1>1, <1>3, <3>1
    <2>2. CASE q < k
      <3>1. k - q - 1 \in Nat /\ c * (k - q - 1) \in Nat /\ c * (k - q - 1) = c * k - c * q - c
        BY <1>1, <1>3, <2>2
      <3> QED BY <1>1, <1>3, <1>6, <3>1
    <2> QED BY <1>3, <2>1, <2>2
  <1>7. ASSUME NEW k \in Nat, c * k <= r
        PROVE  c * k + c <= Accepts(r) /\ (r < c * k + c => Accepts(r) = c * k + c)
    BY <1>4, <1>5, <1>6, <1>7
  <1>8. \A k \in Nat : k * c = c * k
    BY <1>1
  <1>9. Accepts(r) \in Nat /\ Accepts(r) > r
    BY <1>1, <1>3, <1>5
  <1> QED BY <1>7, <1>8, <1>9 DEF c

LEMMA TakeTake ==
    ASSUME NEW S, NEW s \in Seq(S), NEW m \in Nat, NEW n \in Nat, n <= m
    PROVE  Take(Take(s, m), n) = Take(s, n)
  <1> DEFINE t == Take(s, m)
             u == Take(t, n)
             v == Take(s, n)
  <1>1. /\ t \in Seq(S) /\ Len(t) = (IF Len(s) <= m THEN Len(s) ELSE m) /\ Len(s) \in Nat
        /\ \A i \in 1 .. Len(t) : t[i] = s[i]
    BY TakeIs
  <1> HIDE DEF t
  <1>2. /\ u \in Seq(S) /\ Len(u) = (IF Len(t) <= n THEN Len(t) ELSE n)
        /\ \A i \in 1 .. Len(u) : u[i] = t[i]
    BY <1>1, TakeIs
  <1>3. /\ v \in Seq(S) /\ Len(v) = (IF Len(s) <= n THEN Len(s) ELSE n)
        /\ \A i \in 1 .. Len(v) : v[i] = s[i]
    BY TakeIs
  <1> HIDE DEF u, v
  <1>4. Len(u) = Len(v) /\ Len(u) \in Nat /\ Len(u) <= Len(t)
    BY <1>1, <1>2, <1>3
  <1>5. \A i \in 1 .. Len(u) : u[i] = v[i]
    <2>1. \A i \in 1 .. Len(u) : i \in 1 .. Len(t)
      BY <1>1, <1>4
    <2> QED BY <1>1, <1>2, <1>3, <1>4, <2>1
  <1>6. u = v
    BY <1>2, <1>3, <1>4, <1>5, SeqEqual
  <1> QED BY <1>6 DEF t, u, v

\* What the device takes goes out, and the rest stays.
LEMMA FlushIs ==
    ASSUME NEW S, out \in Seq(S), held \in Seq(S), room \in Nat, fflush
    PROVE  /\ out' \in Seq(S) /\ held' \in Seq(S) /\ out' \o held' = out \o held
           /\ room' \in Nat /\ room' + Len(out') = room + Len(out)
           /\ out' = Take(out \o held, room + Len(out))
           /\ Len(held) <= room => out' = out \o held /\ held' = <<>> /\ buf_len' = 0
           /\ Len(held) > room => room' = 0 /\ held' # <<>> /\ buf_len' = buf_len
  <1> DEFINE n == Len(held)
             b == Take(held, room)
             h == SubSeq(held, room + 1, n)
  <1>1. /\ out' = out \o b /\ held' = h /\ room' = Max({room - n, 0})
        /\ buf_len' = IF n <= room THEN 0 ELSE buf_len
    BY DEF fflush
  <1>2. n \in Nat /\ Len(out) \in Nat
    OBVIOUS
  <1>3. b \in Seq(S) /\ Len(b) = IF n <= room THEN n ELSE room
    BY TakeIs
  <1>4. h \in Seq(S) /\ Len(h) = IF room + 1 <= n THEN n - (room + 1) + 1 ELSE 0
    <2>1. \A i \in room + 1 .. n : held[i] \in S
      OBVIOUS
    <2> QED BY <1>2, <2>1, SubSeqProperties
  <1>5. b \o h = held
    <2>1. CASE n <= room
      <3>1. b = held
        BY <2>1, TakeAll
      <3>2. h = <<>>
        BY <1>2, <2>1, SubSeqEmpty
      <3> QED BY <3>1, <3>2, ConcatEmptySeq
    <2>2. CASE room < n
      <3>1. Min({room, n}) = room
        BY <1>2, <2>2, MinOfTwo
      <3>2. b = SubSeq(held, 1, room)
        BY <3>1 DEF Take
      <3>3. 1 \in 1 .. n + 1 /\ room \in 1 - 1 .. n /\ n \in room .. n
        BY <1>2, <2>2
      <3>4. SubSeq(held, 1, room) \o h = SubSeq(held, 1, n)
        BY <3>3, ConcatAdjacentSubSeq
      <3>5. SubSeq(held, 1, n) = held
        BY SubSeqFull
      <3> QED BY <3>2, <3>4, <3>5
    <2> QED BY <1>2, <2>1, <2>2
  <1>6. Max({room - n, 0}) = IF room - n >= 0 THEN room - n ELSE 0
    BY <1>2, MaxOfTwo
  <1>7. room + Len(out) \in Nat /\ Len(out) <= room + Len(out) /\ room + Len(out) - Len(out) = room
    BY <1>2
  <1>8. Take(out \o held, room + Len(out)) = out \o Take(held, room + Len(out) - Len(out))
    BY <1>7, TakeMore
  <1>9. n <= room => b = held
    BY TakeAll
  <1>10. n > room => ~(n <= room)
    BY <1>2
  <1> HIDE DEF n, b, h
  <1>11. out \o b \in Seq(S) /\ Len(out \o b) = Len(out) + Len(b) /\ (out \o b) \o h = out \o (b \o h)
    <2>1. out \in Seq(S) /\ b \in Seq(S) /\ h \in Seq(S)
      BY <1>3, <1>4
    <2>2. out \o b \in Seq(S) /\ Len(out \o b) = Len(out) + Len(b)
      BY <2>1, ConcatProperties
    <2>3. (out \o b) \o h = out \o (b \o h)
      BY <2>1, ConcatAssociative
    <2> QED BY <2>2, <2>3
  <1>12. out' \in Seq(S) /\ held' \in Seq(S) /\ out' \o held' = out \o held
    BY <1>1, <1>4, <1>5, <1>11
  <1>13. room' \in Nat /\ room' + Len(out') = room + Len(out) /\ (n > room => room' = 0)
    BY <1>1, <1>2, <1>3, <1>6, <1>11
  <1>14. out' = Take(out \o held, room + Len(out))
    BY <1>1, <1>7, <1>8 DEF b
  <1>15. n <= room => out' = out \o held /\ held' = <<>> /\ buf_len' = 0
    <2>1. n <= room => Len(h) = 0
      BY <1>2, <1>4
    <2> QED BY <1>1, <1>4, <1>9, <2>1, EmptySeq
  <1>16. n > room => held' # <<>> /\ buf_len' = buf_len
    <2>1. n > room => Len(h) # 0
      BY <1>2, <1>4
    <2> QED BY <1>1, <1>4, <1>10, <2>1, EmptySeq
  <1> QED BY <1>12, <1>13, <1>14, <1>15, <1>16 DEF n

LEMMA ReportIs ==
    ASSUME reports \in Seq(Failures \X Nat), fileno \in Nat,
           Report("open") \/ Report("write") \/ Report("read")
    PROVE  /\ reports' \in Seq(Failures \X Nat)
           /\ \A i \in Nat : Reported(reports', i) <=> Reported(reports, i) \/ i = fileno
  <1>1. PICK r \in Failures \X Nat : r[2] = fileno /\ reports' = Append(reports, r)
    <2>1. /\ <<"open", fileno>> \in Failures \X Nat
          /\ <<"write", fileno>> \in Failures \X Nat
          /\ <<"read", fileno>> \in Failures \X Nat
      BY DEF Failures
    <2>2. \/ reports' = Append(reports, <<"open", fileno>>)
          \/ reports' = Append(reports, <<"write", fileno>>)
          \/ reports' = Append(reports, <<"read", fileno>>)
      BY DEF Report
    <2> QED BY <2>1, <2>2
  <1>2. /\ reports' \in Seq(Failures \X Nat) /\ Len(reports') = Len(reports) + 1 /\ Len(reports) \in Nat
        /\ \A i \in 1 .. Len(reports) : reports'[i] = reports[i]
        /\ reports'[Len(reports) + 1] = r
    BY <1>1, AppendProperties
  <1>3. DOMAIN reports = 1 .. Len(reports) /\ DOMAIN reports' = 1 .. Len(reports')
    BY <1>2, LenProperties
  <1>4. /\ \A x : x \in Range(reports) <=> \E i \in 1 .. Len(reports) : x = reports[i]
        /\ \A x : x \in Range(reports') <=> \E i \in 1 .. Len(reports) + 1 : x = reports'[i]
    BY <1>2, <1>3 DEF Range
  <1>5. \A i \in 1 .. Len(reports) + 1 : i \in 1 .. Len(reports) \/ i = Len(reports) + 1
    BY <1>2
  <1>6. \A i \in 1 .. Len(reports) : i \in 1 .. Len(reports) + 1
    BY <1>2
  <1>7. Len(reports) + 1 \in 1 .. Len(reports) + 1
    BY <1>2
  <1>8. \A x : x \in Range(reports') <=> x \in Range(reports) \/ x = r
    <2>1. ASSUME NEW i \in 1 .. Len(reports) + 1
          PROVE  reports'[i] \in Range(reports) \/ reports'[i] = r
      BY <1>2, <1>4, <1>5
    <2>2. ASSUME NEW i \in 1 .. Len(reports) PROVE reports[i] \in Range(reports')
      BY <1>2, <1>4, <1>6
    <2>3. r \in Range(reports')
      BY <1>2, <1>4, <1>7
    <2> QED BY <1>4, <2>1, <2>2, <2>3, ZenonT(40)
  <1>9. \A i \in Nat : Reported(reports', i) <=> Reported(reports, i) \/ i = fileno
    BY <1>1, <1>8 DEF Reported
  <1> QED BY <1>2, <1>9

-----------------------------------------------------------------------------
(***************************************************************************)
(* The steps of cat.                                                       *)
(***************************************************************************)
LEMMA JobStays ==
    ASSUME job' = job, CatJob(job)
    PROVE  /\ CatJob(job)' /\ Fs' = Fs /\ Bytes' = Bytes /\ Limit' = Limit
           /\ \A n : (Data(Fs, n))' = Data(Fs, n)
  <1>1. CatJob(job)' /\ Fs' = Fs /\ Limit' = Limit
    BY DEF Fs, CatJob, Limit
  <1>2. \A n : (Data(Fs, n))' = Data(Fs, n)
    BY <1>1 DEF Data
  <1>3. Bytes' = Bytes
    BY <1>1 DEF Bytes, FilesIn
  <1> QED BY <1>1, <1>2, <1>3

LEMMA NothingGot ==
    ASSUME NEW S, NEW d, d \in Seq(S), NEW s \in Seq(S)
    PROVE  SubSeq(d, 1, 0) = <<>> /\ s \o <<>> = s /\ s \o SubSeq(d, 1, 0) = s
  BY SubSeqEmpty, ConcatEmptySeq

\* Where the file at hand is copied: what there is of it and behind it.
LEMMA InFile ==
    ASSUME Faithful, Copying
    PROVE  /\ Len(Fs) \in Nat /\ fileno \in 0 .. Len(Fs) - 1 /\ fileno \in Nat
           /\ job.room \in Nat /\ Limit \in Nat /\ Limit > job.room /\ reports \in Seq(Failures \X Nat)
           /\ This.data \in Seq(Bytes) /\ Had \in Seq(Bytes) /\ Len(Had) = pos
           /\ pos \in 0 .. Len(This.data) /\ Len(This.data) \in Nat
           /\ Data(Fs, fileno) \in Seq(Bytes) /\ Came \in Seq(Bytes)
           /\ Data(Fs, fileno + 1) = Data(Fs, fileno) \o This.data
           /\ Len(Data(Fs, fileno + 1)) = Len(Data(Fs, fileno)) + Len(This.data)
           /\ Len(Came) = Len(Data(Fs, fileno)) + pos
  <1>1. CatJob(job) /\ Len(Fs) \in Nat /\ job.room \in Nat /\ FilesHold(Fs)
    BY DEF Faithful, CatJob, FilesHold, Fs
  <1>2. /\ fileno \in 0 .. Len(Fs) - 1 /\ fileno \in Nat /\ fileno + 1 \in 0 .. Len(Fs)
        /\ This.fails # "open" /\ pos \in 0 .. Len(This.data)
    BY <1>1 DEF Faithful, Phases
  <1>3. /\ \A n \in 0 .. Len(Fs) - 1 : Fs[n + 1].data \in Seq(Bytes)
        /\ \A n \in 0 .. Len(Fs) : Data(Fs, n) \in Seq(Bytes)
        /\ \A n \in 0 .. Len(Fs) - 1 : Data(Fs, n + 1) = Data(Fs, n) \o Held(Fs[n + 1])
    BY <1>1, BytesAre DEF FilesIn
  <1>4. /\ This.data \in Seq(Bytes) /\ Data(Fs, fileno) \in Seq(Bytes)
        /\ Data(Fs, fileno + 1) = Data(Fs, fileno) \o This.data
    <2>1. Fs[fileno + 1].data \in Seq(Bytes) /\ Data(Fs, fileno) \in Seq(Bytes)
      BY <1>1, <1>2, <1>3
    <2>2. Data(Fs, fileno + 1) = Data(Fs, fileno) \o Held(Fs[fileno + 1])
      BY <1>2, <1>3
    <2>3. Held(Fs[fileno + 1]) = This.data
      BY <1>2 DEF This, Held
    <2> QED BY <2>1, <2>2, <2>3 DEF This
  <1>5. Had \in Seq(Bytes) /\ Len(Had) = pos
    <2>1. Had = SubSeq(This.data, 1, pos)
      BY DEF Had
    <2>2. Len(This.data) \in Nat /\ \A i \in 1 .. pos : This.data[i] \in Bytes
      BY <1>2, <1>4
    <2>3. SubSeq(This.data, 1, pos) \in Seq(Bytes)
      BY <1>2, <2>2, SubSeqProperties
    <2>4. Len(SubSeq(This.data, 1, pos)) = IF 1 <= pos THEN pos - 1 + 1 ELSE 0
      BY <1>2, <2>2, SubSeqProperties
    <2>5. Len(SubSeq(This.data, 1, pos)) = pos
      BY <1>2, <2>2, <2>4
    <2> QED BY <2>1, <2>3, <2>5
  <1>6. Came \in Seq(Bytes) /\ Len(Came) = Len(Data(Fs, fileno)) + pos
    BY <1>4, <1>5, ConcatProperties DEF Came
  <1>7. Len(Data(Fs, fileno + 1)) = Len(Data(Fs, fileno)) + Len(This.data)
    BY <1>4, ConcatProperties
  <1>8. reports \in Seq(Failures \X Nat) /\ Len(This.data) \in Nat
    BY <1>4 DEF Faithful, Said
  <1>9. Limit \in Nat /\ Limit > job.room
    BY <1>1, AcceptsIs DEF Limit
  <1> QED BY <1>1, <1>2, <1>4, <1>5, <1>6, <1>7, <1>8, <1>9

\* The file at hand, and what was read of it, is the same as long as it is.
LEMMA FileAtHand ==
    ASSUME Faithful, Copying, job' = job, fileno' = fileno, Copying'
    PROVE  This' = This /\ (Data(Fs, fileno))' = Data(Fs, fileno) /\ (pos' = pos => Came' = Came)
  <1>1. Fs' = Fs /\ \A n : (Data(Fs, n))' = Data(Fs, n)
    BY JobStays DEF Faithful
  <1>2. This' = This
    BY <1>1 DEF This
  <1>3. (Data(Fs, fileno))' = Data(Fs, fileno)
    BY <1>1 DEF Data
  <1>4. pos' = pos => Had' = Had
    BY <1>2 DEF Had
  <1> QED BY <1>2, <1>3, <1>4 DEF Came

\* A step that stays with the file tells the same of the files before it.
LEMMA StaysTold ==
    ASSUME Faithful, Copying, job' = job, fileno' = fileno, Copying',
           reports' \in Seq(Failures \X Nat),
           \A i \in Nat : Reported(reports', i) => Reported(reports, i) \/ i = fileno,
           \A i \in Nat : Reported(reports, i) => Reported(reports', i)
    PROVE  Said'
  <1>1. Len(Fs) \in Nat /\ fileno \in Nat /\ CatJob(job)
    BY InFile DEF Faithful
  <1>2. Fs' = Fs
    BY <1>1, JobStays
  <1>3. /\ \A i \in 0 .. Len(Fs) : Reported(reports, i) => i < fileno \/ i = fileno
        /\ \A i \in 0 .. fileno - 1 : Reported(reports, i) <=> Failed(job, i)
    BY DEF Faithful, Said
  <1>4. \A i \in 0 .. Len(Fs) : Reported(reports', i) => i < fileno \/ i = fileno
    <2>1. \A i \in 0 .. Len(Fs) : i \in Nat
      BY <1>1
    <2> QED BY <1>3, <2>1
  <1>5. \A i \in 0 .. fileno - 1 : Reported(reports', i) <=> Failed(job', i)
    <2>1. \A i \in 0 .. fileno - 1 : i \in Nat /\ i # fileno
      BY <1>1
    <2> QED BY <1>2, <1>3, <2>1
  <1> QED BY <1>2, <1>4, <1>5 DEF Said

\* The file is left behind with what has to be said of it.
LEMMA MovesOn ==
    ASSUME CatJob(job), Said, job' = job, fileno \in 0 .. Len(Fs) - 1, fileno' = fileno + 1,
           reports' \in Seq(Failures \X Nat),
           \A i \in Nat : i # fileno => (Reported(reports', i) <=> Reported(reports, i)),
           Reported(reports', fileno) <=> Failed(job, fileno)
    PROVE  Said'
  <1>1. Len(Fs) \in Nat /\ Fs' = Fs
    BY JobStays DEF CatJob, FilesHold, Fs
  <1>2. /\ \A i \in 0 .. Len(Fs) : Reported(reports, i) => i < fileno \/ i = fileno
        /\ \A i \in 0 .. fileno - 1 : Reported(reports, i) <=> Failed(job, i)
    BY DEF Said
  <1>3. fileno \in Nat /\ \A i \in 0 .. fileno - 1 : i \in Nat /\ i # fileno
    BY <1>1
  <1>4. \A i \in 0 .. Len(Fs) : Reported(reports', i) => i < fileno'
    <2>1. \A i \in 0 .. Len(Fs) : i \in Nat /\ (i < fileno \/ i = fileno => i < fileno + 1)
      BY <1>1, <1>3
    <2> QED BY <1>2, <2>1
  <1>5. \A i \in 0 .. fileno' - 1 : i \in 0 .. fileno - 1 \/ i = fileno
    BY <1>1
  <1>6. \A i \in 0 .. fileno' - 1 : Reported(reports', i) <=> Failed(job', i)
    BY <1>2, <1>3, <1>5
  <1> QED BY <1>1, <1>4, <1>6 DEF Said

\* The stream is what it was.
LEMMA SameOutput ==
    ASSUME CatJob(job), Buffered, job' = job, Came' = Came, pc' # "done",
           UNCHANGED <<out, held, room, buf_len, block>>
    PROVE  Output'
  <1>1. Bytes' = Bytes /\ Limit' = Limit
    BY JobStays
  <1>2. Going' = Going /\ Stuck' = Stuck
    BY <1>1 DEF Going, Stuck
  <1>3. \A g : Given(g) => Given(g)'
    BY <1>1 DEF Given
  <1>4. Buffered'
    BY <1>1, <1>2, <1>3 DEF Buffered
  <1> QED BY <1>4 DEF Output

LEMMA CatOpenStep ==
    ASSUME Faithful, job' = job, CatOpen(Fs)
    PROVE  Faithful'
  <1>1. CatJob(job) /\ Len(Fs) \in Nat /\ FilesHold(Fs)
    BY DEF Faithful, CatJob, FilesHold, Fs
  <1>2. /\ pc = "next" /\ fileno \in 0 .. Len(Fs) - 1 /\ ~Copying /\ block = <<>> /\ Buffered /\ Said
        /\ pos' = 0 /\ src_err' = FALSE /\ UNCHANGED <<out, held, room, buf_len, block>>
    BY <1>1 DEF Faithful, Phases, Output, CatOpen, Copying
  <1>3. /\ \A n \in 0 .. Len(Fs) - 1 : Fs[n + 1].data \in Seq(Bytes)
        /\ \A n \in 0 .. Len(Fs) : Data(Fs, n) \in Seq(Bytes)
        /\ \A n \in 0 .. Len(Fs) - 1 : Data(Fs, n + 1) = Data(Fs, n) \o Held(Fs[n + 1])
    BY <1>1, BytesAre DEF FilesIn
  <1>4. This.data \in Seq(Bytes) /\ Data(Fs, fileno) \in Seq(Bytes)
        /\ Data(Fs, fileno + 1) = Data(Fs, fileno) \o Held(This)
    BY <1>1, <1>2, <1>3 DEF This
  <1>5. Came = Data(Fs, fileno)
    BY <1>2, <1>4, ConcatEmptySeq DEF Came, Had
  <1>6. /\ CatJob(job)' /\ Fs' = Fs
        /\ \A n : (Data(Fs, n))' = Data(Fs, n)
    BY <1>1, JobStays
  <1>7. reports \in Seq(Failures \X Nat) /\ fileno \in Nat /\ ~Reported(reports, fileno)
    BY <1>1, <1>2 DEF Said
  <1>8. CASE This.fails = "open" /\ Report("open") /\ fileno' = fileno + 1 /\ UNCHANGED <<pc, is_open>>
    <2>1. /\ reports' \in Seq(Failures \X Nat)
          /\ \A i \in Nat : Reported(reports', i) <=> Reported(reports, i) \/ i = fileno
      <3>1. Report("open")
        BY <1>8
      <3> QED BY <1>7, <3>1, ReportIs
    <2>2. Phases'
      <3>1. pc' = "next" /\ block' = <<>>
        BY <1>2, <1>8
      <3> QED BY <1>1, <1>2, <1>6, <1>8, <3>1 DEF Phases, Copying
    <2>3. Came' = Came
      <3>1. Had' = <<>>
        BY <1>2, <1>8 DEF Had, Copying
      <3>2. Data(Fs, fileno + 1) = Data(Fs, fileno)
        BY <1>4, <1>8, ConcatEmptySeq DEF Held
      <3>3. (Data(Fs, fileno))' = Data(Fs, fileno)
        BY <1>6, <1>8, <3>2 DEF Data
      <3>4. Data(Fs, fileno) \o <<>> = Data(Fs, fileno)
        BY <1>4, ConcatEmptySeq
      <3> QED BY <1>5, <3>1, <3>3, <3>4 DEF Came
    <2>4. Output'
      <3>1. pc' # "done"
        BY <1>2, <1>8
      <3> QED BY <1>1, <1>2, <2>3, <3>1, SameOutput
    <2>5. Failed(job, fileno)
      BY <1>8 DEF Failed, This, Fs
    <2>6. Said'
      <3>1. Reported(reports', fileno) <=> Failed(job, fileno)
        BY <1>7, <2>1, <2>5
      <3>2. \A i \in Nat : i # fileno => (Reported(reports', i) <=> Reported(reports, i))
        BY <2>1
      <3>3. fileno' = fileno + 1
        BY <1>8
      <3> QED BY <1>1, <1>2, <2>1, <3>1, <3>2, <3>3, MovesOn
    <2>7. AtHand'
      BY <1>2, <1>8 DEF AtHand
    <2> QED BY <1>6, <2>2, <2>4, <2>6, <2>7 DEF Faithful
  <1>9. CASE This.fails # "open" /\ is_open' = TRUE /\ Goto("copy") /\ UNCHANGED <<fileno, reports>>
    <2>1. pc' = "copy" /\ fileno' = fileno /\ reports' = reports /\ Copying' /\ This' = This
      BY <1>6, <1>9 DEF Goto, Copying, This
    <2>2. Phases'
      <3>1. Len(This.data) \in Nat /\ Len(block') <= pos'
        BY <1>2, <1>4, EmptySeq
      <3> QED BY <1>1, <1>2, <1>6, <1>9, <2>1, <3>1 DEF Phases
    <2>3. Had' = SubSeq(This.data, 1, 0)
      BY <1>2, <2>1 DEF Had
    <2>4. Came' = Came
      <3>1. (Data(Fs, fileno))' = Data(Fs, fileno)
        BY <1>6, <2>1 DEF Data
      <3> QED BY <1>4, <1>5, <2>3, <3>1, NothingGot DEF Came
    <2>5. Output'
      <3>1. pc' # "done"
        BY <2>1
      <3> QED BY <1>1, <1>2, <2>4, <3>1, SameOutput
    <2>6. \A i : Reported(reports', i) <=> Reported(reports, i)
      BY <2>1 DEF Reported
    <2>7. Said'
      <3>1. /\ \A i \in 0 .. Len(Fs) : Reported(reports, i) => i < fileno
            /\ \A i \in 0 .. fileno - 1 : Reported(reports, i) <=> Failed(job, i)
        BY <1>2 DEF Said
      <3>2. \A i \in 0 .. fileno - 1 : Reported(reports', i) <=> Failed(job', i)
        BY <2>6, <3>1
      <3> QED BY <1>6, <1>7, <2>1, <2>6, <3>1, <3>2 DEF Said
    <2>8. AtHand'
      <3>1. ~Reported(reports', fileno')
        BY <1>7, <2>1
      <3>2. ~(Len(block') < pos')
        <4>1. Len(block') = 0 /\ pos' = 0
          BY <1>2, EmptySeq
        <4> QED BY <4>1
      <3> QED BY <1>2, <2>1, <3>1, <3>2 DEF AtHand
    <2> QED BY <1>6, <2>2, <2>5, <2>7, <2>8 DEF Faithful
  <1> QED BY <1>8, <1>9 DEF CatOpen, This

\* A block is read: as much as before was given to stdout.
LEMMA ReadStep ==
    ASSUME Faithful, job' = job, CatRead(Fs)
    PROVE  Faithful'
  <1> DEFINE b == fread(This, BUF_SIZE)
             n == Len(b)
  <1>1. /\ pc = "copy" /\ Copying /\ block = <<>> /\ block' = b /\ pos' = pos + n
        /\ src_err' = (src_err \/ (n < BUF_SIZE /\ This.fails = "read"))
        /\ pc' = (IF b = <<>> THEN "end" ELSE "copy")
        /\ UNCHANGED <<fileno, is_open, reports, room, out, held, buf_len>>
    BY DEF CatRead, This, Copying, Goto, ferror
  <1>2. /\ Len(Fs) \in Nat /\ fileno \in 0 .. Len(Fs) - 1 /\ fileno \in Nat /\ job.room \in Nat
        /\ This.data \in Seq(Bytes) /\ Had \in Seq(Bytes)
        /\ pos \in 0 .. Len(This.data) /\ Len(This.data) \in Nat
        /\ Data(Fs, fileno) \in Seq(Bytes) /\ Came \in Seq(Bytes)
        /\ Len(Data(Fs, fileno + 1)) = Len(Data(Fs, fileno)) + Len(This.data)
        /\ Len(Came) = Len(Data(Fs, fileno)) + pos
        /\ reports \in Seq(Failures \X Nat)
    BY <1>1, InFile
  <1>3. /\ CatJob(job) /\ This.fails # "open" /\ Buffered /\ ~Reported(reports, fileno)
        /\ src_err => This.fails = "read"
        /\ is_open \/ (fileno = 0 /\ Len(Fs) = 1)
    BY <1>1 DEF Faithful, Phases, Output, AtHand
  <1>4. pos > 0 => Len(Came) <= Limit
    <2>1. Len(block) < pos => Len(Came) - Len(block) <= Limit
      BY <1>1 DEF Faithful, AtHand
    <2>2. Len(block) = 0
      BY <1>1, EmptySeq
    <2>3. Len(Came) \in Nat
      BY <1>2
    <2> QED BY <1>2, <2>1, <2>2, <2>3
  <1>5. CatJob(job)' /\ Fs' = Fs /\ Bytes' = Bytes /\ Limit' = Limit
    BY <1>3, JobStays
  <1>6. /\ b \in Seq(Bytes) /\ n \in 0 .. Len(This.data) - pos
        /\ (b = <<>>) <=> (pos = Len(This.data))
        /\ SubSeq(This.data, 1, pos) \o b = SubSeq(This.data, 1, pos + n)
    BY <1>2, BufAssumption, FreadIs
  <1> HIDE DEF b
  <1>7. n \in Nat /\ pos + n \in 0 .. Len(This.data) /\ (b = <<>> => n = 0)
    BY <1>2, <1>6, EmptySeq
  <1> HIDE DEF n
  <1>8. Copying' /\ pc' \in {"copy", "end"}
    BY <1>1 DEF Copying
  <1>9. This' = This /\ (Data(Fs, fileno))' = Data(Fs, fileno)
    BY <1>1, <1>8, FileAtHand
  <1>10. Came' = Came \o b /\ Len(Came \o b) = Len(Came) + n
    <2>1. Had' = Had \o b
      BY <1>1, <1>6, <1>8, <1>9 DEF Had
    <2>2. Came' = Data(Fs, fileno) \o (Had \o b)
      BY <1>9, <2>1 DEF Came
    <2>3. (Data(Fs, fileno) \o Had) \o b = Data(Fs, fileno) \o (Had \o b)
      <3>1. Data(Fs, fileno) \in Seq(Bytes) /\ Had \in Seq(Bytes) /\ b \in Seq(Bytes)
        BY <1>2, <1>6
      <3> QED BY <3>1, ConcatAssociative
    <2>4. Len(Came \o b) = Len(Came) + Len(b)
      BY <1>2, <1>6, ConcatProperties
    <2> QED BY <2>2, <2>3, <2>4 DEF n, Came
  <1>11. Phases'
    <2>1. IF pc' = "copy" THEN Len(block') <= pos' ELSE block' = <<>>
      BY <1>1, <1>2, <1>7 DEF n
    <2> QED BY <1>1, <1>2, <1>3, <1>5, <1>7, <1>8, <1>9, <2>1 DEF Phases
  <1>12. Output'
    <2>1. PICK g : Given(g)
      BY <1>3 DEF Buffered
    <2>2. g = Came
      BY <1>1, <2>1, ConcatEmptySeq DEF Given
    <2>3. Given(g)'
      BY <1>1, <1>5, <1>10, <2>1, <2>2 DEF Given
    <2>4. (Going \/ Stuck)'
      BY <1>1, <1>3, <1>5 DEF Buffered, Going, Stuck
    <2>5. Buffered'
      BY <1>1, <1>3, <1>5, <1>6, <2>3, <2>4 DEF Buffered
    <2>6. pc' # "done"
      BY <1>1
    <2> QED BY <2>5, <2>6 DEF Output
  <1>13. Said'
    BY <1>1, <1>2, <1>8, StaysTold
  <1>14. src_err' => This'.fails = "read"
    BY <1>1, <1>3, <1>9
  <1>15. ~Reported(reports', fileno')
    BY <1>1, <1>3
  <1>16. pc' = "copy" => (Len(block') < pos' => Len(Came') - Len(block') <= Limit')
    <2>1. Len(block') = n /\ Len(Came') = Len(Came) + n /\ pos' = pos + n /\ Len(Came) \in Nat
      BY <1>1, <1>2, <1>10 DEF n
    <2> QED BY <1>2, <1>4, <1>5, <1>7, <2>1
  <1>17. pc' = "end" => (src_err' <=> Failed(job', fileno')) /\ pos' = Len(This'.data)
    <2> SUFFICES ASSUME pc' = "end"
                 PROVE  (src_err' <=> Failed(job', fileno')) /\ pos' = Len(This'.data)
      OBVIOUS
    <2>1. b = <<>> /\ pos = Len(This.data) /\ n = 0
      BY <1>1, <1>6, <1>7
    <2>2. pos' = Len(This.data)
      BY <1>1, <1>2, <2>1
    <2>3. src_err' <=> This.fails = "read"
      <3>1. n < BUF_SIZE
        BY <2>1, BufAssumption
      <3> QED BY <1>1, <1>3, <3>1, Zenon
    <2>4. This.data # <<>> => ~(Len(Data(Fs, fileno + 1)) > Limit)
      <3> SUFFICES ASSUME This.data # <<>> PROVE ~(Len(Data(Fs, fileno + 1)) > Limit)
        OBVIOUS
      <3>1. Len(This.data) # 0
        BY <1>2, EmptySeq
      <3>2. pos > 0 /\ Len(Came) = Len(Data(Fs, fileno + 1))
        BY <1>2, <2>1, <3>1
      <3>3. Limit \in Nat /\ Len(Came) \in Nat
        BY <1>1, <1>2, InFile
      <3> QED BY <1>4, <3>2, <3>3
    <2>5. Failed(job, fileno) <=> This.fails = "read"
      BY <1>3, <2>4 DEF Failed, This, Fs, Limit
    <2> QED BY <1>1, <1>9, <2>2, <2>3, <2>5
  <1>18. AtHand'
    BY <1>14, <1>15, <1>16, <1>17 DEF AtHand
  <1> QED BY <1>5, <1>11, <1>12, <1>13, <1>18 DEF Faithful

\* A byte goes to the buffer: nothing was refused yet, and this is accepted.
LEMMA PutStep ==
    ASSUME Faithful, job' = job, CatPut
    PROVE  Faithful'
  <1> DEFINE x == Head(block)
  <1>1. /\ pc = "copy" /\ Copying /\ Copying' /\ block # <<>> /\ buf_len # FILE_BUF_CAP
        /\ held' = Append(held, x) /\ block' = Tail(block) /\ buf_len' = buf_len + 1
        /\ UNCHANGED <<pc, fileno, is_open, pos, reports, src_err, room, out>>
    BY DEF CatPut, Copying, files_vars
  <1>2. /\ Came \in Seq(Bytes) /\ job.room \in Nat /\ Limit \in Nat /\ fileno \in Nat
        /\ reports \in Seq(Failures \X Nat) /\ pos \in Nat
    BY <1>1, InFile
  <1>3. CatJob(job) /\ Phases /\ Buffered /\ Said /\ AtHand
    BY <1>1 DEF Faithful, Output
  <1>4. CatJob(job)' /\ Fs' = Fs /\ Bytes' = Bytes /\ Limit' = Limit
    BY <1>3, JobStays
  <1>5. This' = This /\ Came' = Came
    BY <1>1, FileAtHand
  <1>6. /\ out \in Seq(Bytes) /\ held \in Seq(Bytes) /\ block \in Seq(Bytes)
        /\ room \in Nat /\ room + Len(out) = job.room /\ buf_len \in 0 .. FILE_BUF_CAP /\ Going
        /\ FILE_BUF_CAP \in Nat
    BY <1>1, <1>3, FileBufAssumption DEF Buffered, Stuck
  <1>7. PICK k \in Nat : Len(out) = k * FILE_BUF_CAP
    BY <1>6 DEF Going
  <1>8. PICK g : Given(g)
    BY <1>3 DEF Buffered
  <1>9. g \in Seq(Bytes) /\ Came = g \o block /\ out \o held = Take(g, Limit)
    BY <1>8 DEF Given
  <1>10. /\ x \in Bytes /\ Tail(block) \in Seq(Bytes) /\ Len(Tail(block)) = Len(block) - 1
         /\ block = <<x>> \o Tail(block) /\ <<x>> \in Seq(Bytes)
    <2>1. x \in Bytes /\ Tail(block) \in Seq(Bytes) /\ Len(Tail(block)) = Len(block) - 1
      BY <1>1, <1>6, HeadTailProperties
    <2>2. Len(block) \in Nat \ {0} /\ SubSeq(block, 1, Len(block)) = block
      BY <1>1, <1>6, EmptySeq, SubSeqFull
    <2>3. 1 \in 1 .. Len(block) /\ Len(block) \in 1 .. Len(block)
      BY <2>2
    <2>4. block = <<block[1]>> \o SubSeq(block, 2, Len(block))
      BY <1>6, <2>2, <2>3, SubSeqRecursiveFirst
    <2>5. Tail(block) = SubSeq(block, 2, Len(block))
      BY <1>1, <1>6, TailIsSubSeq
    <2>6. x = block[1]
      BY <1>6, <2>2
    <2> QED BY <2>1, <2>4, <2>5, <2>6
  <1> HIDE DEF x
  <1>11. Len(g) \in Nat /\ Len(block) \in Nat /\ Len(Came) = Len(g) + Len(block)
    BY <1>6, <1>9, ConcatProperties
  <1>12. Len(out \o held) < Limit
    <2>1. Len(out \o held) = Len(out) + Len(held) /\ Len(out) \in Nat
      BY <1>6, ConcatProperties
    <2>2. Len(held) < FILE_BUF_CAP
      BY <1>1, <1>6 DEF Going
    <2>3. k * FILE_BUF_CAP <= job.room
      BY <1>6, <1>7, <2>1
    <2>4. k * FILE_BUF_CAP + FILE_BUF_CAP <= Limit
      BY <1>2, <2>3, AcceptsIs DEF Limit
    <2> DEFINE m == k * FILE_BUF_CAP
    <2>5. m = Len(out) /\ m + FILE_BUF_CAP <= Limit
      BY <1>7, <2>4
    <2> HIDE DEF m
    <2>6. Len(held) \in Nat
      BY <1>6
    <2> QED BY <1>2, <1>6, <2>1, <2>2, <2>5, <2>6
  <1>13. Len(g) < Limit /\ out \o held = g
    <2>1. Len(out \o held) = IF Len(g) <= Limit THEN Len(g) ELSE Limit
      BY <1>2, <1>9, TakeIs
    <2>2. Len(g) < Limit
      BY <1>2, <1>11, <1>12, <2>1
    <2>3. Take(g, Limit) = g
      BY <1>2, <1>9, <1>11, <2>2, TakeAll
    <2> QED BY <1>9, <2>2, <2>3
  <1>14. PICK h : h = g \o <<x>>
    OBVIOUS
  <1>15. h \in Seq(Bytes) /\ Len(h) = Len(g) + 1 /\ Take(h, Limit) = h
    <2>1. Len(<<x>>) = 1
      OBVIOUS
    <2>2. h \in Seq(Bytes) /\ Len(h) = Len(g) + 1
      BY <1>9, <1>10, <1>14, <2>1, ConcatProperties
    <2>3. Len(h) <= Limit
      BY <1>2, <1>11, <1>13, <2>2
    <2> QED BY <1>2, <2>2, <2>3, TakeAll
  <1>16. held' \in Seq(Bytes) /\ Len(held') = Len(held) + 1 /\ held' = held \o <<x>>
    BY <1>1, <1>6, <1>10, AppendProperties, AppendIsConcat
  <1>17. Given(h)'
    <2>1. Came = h \o Tail(block)
      <3>1. g \o (<<x>> \o Tail(block)) = (g \o <<x>>) \o Tail(block)
        BY <1>9, <1>10, ConcatAssociative
      <3> QED BY <1>9, <1>10, <1>14, <3>1
    <2>2. out' \o held' = h
      <3>1. (out \o held) \o <<x>> = out \o (held \o <<x>>)
        BY <1>6, <1>10, ConcatAssociative
      <3>2. out' \o held' = out \o (held \o <<x>>)
        BY <1>1, <1>16
      <3> QED BY <1>13, <1>14, <3>1, <3>2
    <2> QED BY <1>1, <1>4, <1>5, <1>15, <2>1, <2>2 DEF Given
  <1>18. Going'
    BY <1>1, <1>6, <1>16 DEF Going
  <1>19. Output'
    <2>1. buf_len' \in 0 .. FILE_BUF_CAP
      BY <1>1, <1>6
    <2>2. Buffered'
      BY <1>1, <1>4, <1>6, <1>10, <1>16, <1>17, <1>18, <2>1 DEF Buffered
    <2>3. pc' # "done"
      BY <1>1
    <2> QED BY <2>2, <2>3 DEF Output
  <1>20. Phases'
    <2>1. Len(block') <= pos'
      BY <1>1, <1>2, <1>3, <1>6, <1>10 DEF Phases
    <2> QED BY <1>1, <1>3, <1>4, <1>5, <2>1 DEF Phases
  <1>21. Said'
    BY <1>1, <1>2, StaysTold
  <1>22. AtHand'
    <2>1. Len(Came') - Len(block') <= Limit'
      BY <1>1, <1>2, <1>4, <1>5, <1>10, <1>11, <1>13
    <2>2. ~Reported(reports, fileno) /\ (src_err => This.fails = "read")
      BY <1>1, <1>3 DEF AtHand
    <2>3. pc' = "copy" /\ ~Reported(reports', fileno') /\ (src_err' => This'.fails = "read")
      BY <1>1, <1>5, <2>2
    <2> QED BY <2>1, <2>3 DEF AtHand
  <1> QED BY <1>4, <1>19, <1>20, <1>21, <1>22 DEF Faithful

\* The full buffer is written, and the next byte can come; or it is not, and
\* what comes from then on is refused.
LEMMA FlushStep ==
    ASSUME Faithful, job' = job, CatFlush
    PROVE  Faithful'
  <1>1. /\ pc = "copy" /\ Copying /\ block # <<>> /\ buf_len = FILE_BUF_CAP /\ fflush
        /\ UNCHANGED <<fileno, is_open, pos, src_err>>
    BY DEF CatFlush, Copying
  <1>2. /\ Came \in Seq(Bytes) /\ job.room \in Nat /\ Limit \in Nat /\ fileno \in Nat
        /\ reports \in Seq(Failures \X Nat) /\ pos \in 0 .. Len(This.data) /\ Len(This.data) \in Nat
        /\ Len(Data(Fs, fileno)) \in Nat
        /\ Len(Data(Fs, fileno + 1)) = Len(Data(Fs, fileno)) + Len(This.data)
        /\ Len(Came) = Len(Data(Fs, fileno)) + pos
    <2>1. Data(Fs, fileno) \in Seq(Bytes)
      BY <1>1, InFile
    <2>2. Len(Data(Fs, fileno)) \in Nat
      BY <2>1
    <2> QED BY <1>1, <2>2, InFile
  <1>3. CatJob(job) /\ Phases /\ Buffered /\ Said /\ AtHand
    BY <1>1 DEF Faithful, Output
  <1>4. CatJob(job)' /\ Fs' = Fs /\ Bytes' = Bytes /\ Limit' = Limit
    BY <1>3, JobStays
  <1>5. /\ out \in Seq(Bytes) /\ held \in Seq(Bytes) /\ block \in Seq(Bytes)
        /\ room \in Nat /\ room + Len(out) = job.room /\ FILE_BUF_CAP \in Nat \ {0}
    BY <1>3, FileBufAssumption DEF Buffered
  <1>6. /\ out' \in Seq(Bytes) /\ held' \in Seq(Bytes) /\ out' \o held' = out \o held
        /\ room' \in Nat /\ room' + Len(out') = job.room
        /\ Len(held) <= room => out' = out \o held /\ held' = <<>> /\ buf_len' = 0
        /\ Len(held) > room => room' = 0 /\ held' # <<>> /\ buf_len' = buf_len
    BY <1>1, <1>5, FlushIs
  <1>7. /\ Len(out) \in Nat /\ Len(held) \in Nat /\ Len(block) \in Nat \ {0} /\ Len(<<>>) = 0
        /\ Len(out \o held) = Len(out) + Len(held)
    BY <1>1, <1>5, ConcatProperties, EmptySeq
  <1>8. PICK g : Given(g)
    BY <1>3 DEF Buffered
  <1>9. g \in Seq(Bytes) /\ Came = g \o block /\ out \o held = Take(g, Limit)
    BY <1>8 DEF Given
  <1>10. Len(g) \in Nat /\ Len(Came) = Len(g) + Len(block)
    BY <1>5, <1>9, ConcatProperties
  <1>11. /\ This.fails # "open" /\ ~Reported(reports, fileno) /\ (src_err => This.fails = "read")
         /\ Len(block) < pos => Len(Came) - Len(block) <= Limit
    BY <1>1, <1>3 DEF Phases, AtHand
  <1>12. CASE Len(held) <= room /\ UNCHANGED <<pc, reports, block>>
    <2>1. Copying' /\ This' = This /\ Came' = Came
      <3>1. Copying'
        BY <1>1, <1>12 DEF Copying
      <3> QED BY <1>1, <3>1, FileAtHand
    <2>2. Going
      <3>1. ~Stuck
        <4>1. Len(held) # 0 \/ held = <<>>
          BY <1>5, EmptySeq
        <4> QED BY <1>7, <1>12, <4>1 DEF Stuck
      <3> QED BY <1>3, <3>1 DEF Buffered
    <2>3. Going'
      <3>1. PICK k \in Nat : Len(out) = k * FILE_BUF_CAP
        BY <2>2 DEF Going
      <3>2. Len(out') = Len(out) + FILE_BUF_CAP
        BY <1>1, <1>6, <1>7, <1>12, <2>2 DEF Going
      <3>3. k + 1 \in Nat /\ (k + 1) * FILE_BUF_CAP = k * FILE_BUF_CAP + FILE_BUF_CAP
        BY <1>5
      <3>4. Len(held') = buf_len'
        BY <1>6, <1>7, <1>12
      <3> QED BY <3>1, <3>2, <3>3, <3>4 DEF Going
    <2>4. Given(g)'
      BY <1>4, <1>6, <1>9, <1>12, <2>1 DEF Given
    <2>5. Output'
      <3>1. buf_len' \in 0 .. FILE_BUF_CAP
        BY <1>5, <1>6, <1>12
      <3>2. Buffered'
        BY <1>4, <1>5, <1>6, <1>12, <2>3, <2>4, <3>1 DEF Buffered
      <3>3. pc' # "done"
        BY <1>1, <1>12
      <3> QED BY <3>2, <3>3 DEF Output
    <2>6. Phases'
      BY <1>1, <1>3, <1>4, <1>12, <2>1 DEF Phases
    <2>7. reports' = reports /\ \A i : Reported(reports', i) <=> Reported(reports, i)
      BY <1>12 DEF Reported
    <2>8. Said'
      BY <1>1, <1>2, <2>1, <2>7, StaysTold
    <2>9. AtHand'
      <3>1. pc' = "copy" /\ ~Reported(reports', fileno') /\ (src_err' => This'.fails = "read")
        BY <1>1, <1>11, <1>12, <2>1
      <3>2. Len(block') < pos' => Len(Came') - Len(block') <= Limit'
        BY <1>1, <1>4, <1>11, <1>12, <2>1
      <3> QED BY <3>1, <3>2 DEF AtHand
    <2> QED BY <1>4, <2>5, <2>6, <2>8, <2>9 DEF Faithful
  <1>13. CASE Len(held) > room /\ Report("write") /\ block' = <<>> /\ Goto("end")
    <2>1. pc' = "end" /\ Copying' /\ This' = This /\ Came' = Came
      <3>1. pc' = "end" /\ Copying'
        BY <1>13 DEF Copying, Goto
      <3> QED BY <1>1, <3>1, FileAtHand
    <2>2. Len(out \o held) = Limit
      <3>1. CASE Stuck
        BY <3>1 DEF Stuck
      <3>2. CASE Going
        <4>1. PICK k \in Nat : Len(out) = k * FILE_BUF_CAP
          BY <3>2 DEF Going
        <4>2. Len(held) = FILE_BUF_CAP
          BY <1>1, <3>2 DEF Going
        <4> DEFINE m == k * FILE_BUF_CAP
        <4>3. m = Len(out)
          BY <4>1
        <4> HIDE DEF m
        <4>4. m <= job.room /\ job.room < m + FILE_BUF_CAP /\ Len(out \o held) = m + FILE_BUF_CAP
          BY <1>5, <1>7, <1>13, <4>2, <4>3
        <4>5. m <= job.room /\ job.room < m + FILE_BUF_CAP => Accepts(job.room) = m + FILE_BUF_CAP
          BY <1>2, AcceptsIs DEF m
        <4> QED BY <4>4, <4>5 DEF Limit
      <3> QED BY <1>3, <3>1, <3>2 DEF Buffered
    <2>3. Len(g) >= Limit
      <3>1. Len(Take(g, Limit)) = IF Len(g) <= Limit THEN Len(g) ELSE Limit
        BY <1>2, <1>9, TakeIs
      <3> QED BY <1>2, <1>9, <1>10, <2>2, <3>1
    <2>4. Len(Came) > Limit
      BY <1>2, <1>7, <1>10, <2>3
    <2>5. PICK c : c = Came
      OBVIOUS
    <2>6. Given(c)'
      <3>1. Take(c, Limit) = out \o held
        BY <1>2, <1>5, <1>9, <2>3, <2>5, TakeFull
      <3>2. c \in Seq(Bytes) /\ c = c \o <<>>
        BY <1>2, <2>5, ConcatEmptySeq
      <3> QED BY <1>4, <1>6, <1>13, <2>1, <2>5, <3>1, <3>2 DEF Given
    <2>7. Output'
      <3>1. Stuck'
        BY <1>1, <1>4, <1>6, <1>13, <2>2 DEF Stuck
      <3>2. buf_len' \in 0 .. FILE_BUF_CAP
        BY <1>1, <1>5, <1>6, <1>13
      <3>3. block' \in Seq(Bytes)'
        BY <1>13, EmptySeq
      <3>4. Buffered'
        BY <1>4, <1>6, <2>6, <3>1, <3>2, <3>3 DEF Buffered
      <3> QED BY <2>1, <3>4 DEF Output
    <2>8. Phases'
      BY <1>1, <1>3, <1>4, <1>13, <2>1 DEF Phases
    <2>9. /\ reports' \in Seq(Failures \X Nat)
          /\ \A i \in Nat : Reported(reports', i) <=> Reported(reports, i) \/ i = fileno
      <3>1. Report("write")
        BY <1>13
      <3> QED BY <1>2, <3>1, ReportIs
    <2>10. Said'
      BY <1>1, <2>1, <2>9, StaysTold
    <2>11. Failed(job, fileno)
      <3>1. This.data # <<>>
        <4>1. Len(block) <= pos
          BY <1>1, <1>3 DEF Phases
        <4>2. Len(This.data) # 0
          BY <1>2, <1>7, <4>1
        <4> QED BY <1>7, <4>2
      <3>2. Len(Data(Fs, fileno + 1)) > Limit
        BY <1>2, <2>4
      <3> QED BY <3>1, <3>2 DEF Failed, This, Fs, Limit
    <2>12. AtHand'
      <3>1. Reported(reports', fileno') /\ Failed(job', fileno')
        BY <1>1, <1>2, <2>9, <2>11
      <3>2. Len(Came') > Limit' /\ (src_err' => This'.fails = "read")
        BY <1>1, <1>4, <1>11, <2>1, <2>4
      <3> QED BY <2>1, <3>1, <3>2 DEF AtHand
    <2> QED BY <1>4, <2>7, <2>8, <2>10, <2>12 DEF Faithful
  <1> QED BY <1>12, <1>13 DEF CatFlush

\* The file is left behind.
LEMMA EndStep ==
    ASSUME Faithful, job' = job, CatEnd
    PROVE  Faithful'
  <1>1. /\ pc = "end" /\ Copying /\ pc' = (IF is_open THEN "next" ELSE "exit")
        /\ is_open' = FALSE /\ fileno' = fileno + 1
        /\ UNCHANGED <<pos, block, room, out, held, buf_len>>
        /\ (src_err /\ Report("read")) \/ (~src_err /\ reports' = reports)
    BY DEF CatEnd, Copying, Goto
  <1>2. /\ Len(Fs) \in Nat /\ fileno \in 0 .. Len(Fs) - 1 /\ fileno \in Nat /\ job.room \in Nat
        /\ Limit \in Nat /\ reports \in Seq(Failures \X Nat)
        /\ This.data \in Seq(Bytes) /\ Had \in Seq(Bytes)
        /\ Data(Fs, fileno) \in Seq(Bytes) /\ Came \in Seq(Bytes)
        /\ Data(Fs, fileno + 1) = Data(Fs, fileno) \o This.data
        /\ pos \in 0 .. Len(This.data)
    BY <1>1, InFile
  <1>3. /\ CatJob(job) /\ Phases /\ Buffered /\ Said /\ block = <<>>
        /\ (Reported(reports, fileno) \/ src_err) <=> Failed(job, fileno)
        /\ pos = Len(This.data) \/ Len(Came) > Limit
        /\ is_open \/ (fileno = 0 /\ Len(Fs) = 1)
    BY <1>1 DEF Faithful, Output, AtHand, Phases
  <1>4. /\ CatJob(job)' /\ Fs' = Fs /\ Bytes' = Bytes /\ Limit' = Limit
        /\ \A k : (Data(Fs, k))' = Data(Fs, k)
    BY <1>3, JobStays
  <1>5. ~Copying' /\ pc' \in {"next", "exit"}
    BY <1>1 DEF Copying
  <1>6. Phases'
    <2>1. pc' = "exit" => fileno' = Len(Fs)
      <3> SUFFICES ASSUME pc' = "exit" PROVE fileno' = Len(Fs)
        OBVIOUS
      <3>1. fileno = 0 /\ Len(Fs) = 1
        BY <1>1, <1>3
      <3> QED BY <1>1, <3>1
    <2>2. fileno' \in 0 .. Len(Fs)
      BY <1>1, <1>2
    <2>3. pc' # "copy" /\ block' = <<>>
      BY <1>1, <1>3
    <2> QED BY <1>4, <1>5, <2>1, <2>2, <2>3 DEF Phases
  <1>7. PICK all : all = Data(Fs, fileno + 1)
    OBVIOUS
  <1>8. all \in Seq(Bytes) /\ all = Data(Fs, fileno) \o This.data
    BY <1>2, <1>7, ConcatProperties
  <1>9. Came' = all
    <2>1. Had' = <<>>
      BY <1>5 DEF Had
    <2>2. (Data(Fs, fileno))' = Data(Fs, fileno + 1)
      BY <1>1, <1>4 DEF Data
    <2>3. Came' = all \o <<>>
      BY <1>7, <2>1, <2>2 DEF Came
    <2> QED BY <1>8, <2>3, ConcatEmptySeq
  \* What was not read of the file is not accepted anyway.
  <1>10. Take(all, Limit) = Take(Came, Limit)
    <2> DEFINE rest == SubSeq(This.data, pos + 1, Len(This.data))
    <2>1. Len(This.data) \in Nat /\ \A i \in pos + 1 .. Len(This.data) : This.data[i] \in Bytes
      BY <1>2
    <2>2. rest \in Seq(Bytes)
      BY <1>2, <2>1, SubSeqProperties
    <2>3. This.data = Had \o rest
      <3>1. Had = SubSeq(This.data, 1, pos)
        BY <1>1 DEF Had
      <3>2. /\ 1 \in 1 .. Len(This.data) + 1 /\ pos \in 1 - 1 .. Len(This.data)
            /\ Len(This.data) \in pos .. Len(This.data)
        BY <1>2, <2>1
      <3>3. SubSeq(This.data, 1, pos) \o rest = SubSeq(This.data, 1, Len(This.data))
        BY <1>2, <3>2, ConcatAdjacentSubSeq
      <3>4. SubSeq(This.data, 1, Len(This.data)) = This.data
        BY <1>2, SubSeqFull
      <3> QED BY <3>1, <3>3, <3>4
    <2>4. pos = Len(This.data) => rest = <<>>
      BY <2>1, SubSeqEmpty
    <2> HIDE DEF rest
    <2>5. all = Came \o rest
      <3>1. (Data(Fs, fileno) \o Had) \o rest = Data(Fs, fileno) \o (Had \o rest)
        <4>1. Data(Fs, fileno) \in Seq(Bytes) /\ Had \in Seq(Bytes)
          BY <1>2
        <4> QED BY <2>2, <4>1, ConcatAssociative
      <3> QED BY <1>8, <2>3, <3>1 DEF Came
    <2>6. CASE pos = Len(This.data)
      BY <1>2, <2>4, <2>5, <2>6, ConcatEmptySeq
    <2>7. CASE Len(Came) > Limit
      <3>1. Len(Came) >= Limit
        BY <1>2, <2>7
      <3> QED BY <1>2, <2>2, <2>5, <3>1, TakeFull
    <2> QED BY <1>3, <2>6, <2>7
  <1>11. Output'
    <2>1. PICK g : Given(g)
      BY <1>3 DEF Buffered
    <2>2. g = Came
      BY <1>3, <2>1, ConcatEmptySeq DEF Given
    <2>3. Given(all)'
      <3>1. all = all \o block'
        BY <1>1, <1>3, <1>8, ConcatEmptySeq
      <3>2. out' \o held' = Take(all, Limit)
        BY <1>1, <1>10, <2>1, <2>2 DEF Given
      <3> QED BY <1>4, <1>8, <1>9, <3>1, <3>2 DEF Given
    <2>4. (Going \/ Stuck)'
      BY <1>1, <1>3, <1>4 DEF Buffered, Going, Stuck
    <2>5. Buffered'
      BY <1>1, <1>3, <1>4, <2>3, <2>4 DEF Buffered
    <2> QED BY <1>5, <2>5 DEF Output
  <1>12. Said'
    <2>1. CASE src_err /\ Report("read")
      <3>1. Report("read")
        BY <2>1
      <3>2. /\ reports' \in Seq(Failures \X Nat)
            /\ \A i \in Nat : Reported(reports', i) <=> Reported(reports, i) \/ i = fileno
        BY <1>2, <3>1, ReportIs
      <3>3. Reported(reports', fileno) <=> Failed(job, fileno)
        BY <1>2, <1>3, <2>1, <3>2
      <3>4. \A i \in Nat : i # fileno => (Reported(reports', i) <=> Reported(reports, i))
        BY <3>2
      <3> QED BY <1>1, <1>2, <1>3, <3>2, <3>3, <3>4, MovesOn
    <2>2. CASE ~src_err /\ reports' = reports
      <3>1. \A i : Reported(reports', i) <=> Reported(reports, i)
        BY <2>2 DEF Reported
      <3>2. reports' \in Seq(Failures \X Nat) /\ (Reported(reports', fileno) <=> Failed(job, fileno))
        BY <1>2, <1>3, <2>2, <3>1
      <3> QED BY <1>1, <1>2, <1>3, <3>1, <3>2, MovesOn
    <2> QED BY <1>1, <2>1, <2>2
  <1>13. AtHand'
    BY <1>5 DEF AtHand
  <1> QED BY <1>4, <1>6, <1>11, <1>12, <1>13 DEF Faithful

\* The last flush: what the device still takes goes out.
LEMMA ExitStep ==
    ASSUME Faithful, job' = job, CatExit(Fs)
    PROVE  Faithful'
  <1>1. /\ fileno = Len(Fs) /\ pc \in {"next", "exit"} /\ pc' = "done" /\ fflush
        /\ UNCHANGED <<fileno, is_open, pos, reports, block, src_err>> /\ ~Copying /\ ~Copying'
    BY DEF Faithful, Phases, CatExit, Copying, Goto
  <1>2. CatJob(job) /\ Phases /\ Buffered /\ Said /\ block = <<>>
    BY <1>1 DEF Faithful, Output, Phases
  <1>3. /\ CatJob(job)' /\ Fs' = Fs /\ \A k : (Data(Fs, k))' = Data(Fs, k)
        /\ Limit \in Nat /\ Limit > job.room /\ job.room \in Nat
    <2>1. job.room \in Nat
      BY <1>2 DEF CatJob
    <2>2. Limit \in Nat /\ Limit > job.room
      BY <2>1, AcceptsIs DEF Limit
    <2> QED BY <1>2, <2>1, <2>2, JobStays
  <1>4. Phases'
    BY <1>1, <1>2, <1>3 DEF Phases
  <1>5. Came' = Came
    <2>1. Had' = Had
      BY <1>1 DEF Had
    <2>2. (Data(Fs, fileno))' = Data(Fs, fileno)
      BY <1>1, <1>3 DEF Data
    <2> QED BY <2>1, <2>2 DEF Came
  <1>6. PICK g : Given(g)
    BY <1>2 DEF Buffered
  <1>7. g = Came /\ g \in Seq(Bytes) /\ out \o held = Take(g, Limit)
    BY <1>2, <1>6, ConcatEmptySeq DEF Given
  <1>8. out' = Take(out \o held, job.room)
    BY <1>1, <1>2, FlushIs DEF Buffered
  <1>9. Take(Take(g, Limit), job.room) = Take(g, job.room)
    BY <1>3, <1>7, TakeTake
  <1>10. Output'
    BY <1>1, <1>5, <1>7, <1>8, <1>9 DEF Output
  <1>11. Said'
    BY <1>1, <1>2, <1>3 DEF Said
  <1>12. AtHand'
    BY <1>1 DEF AtHand
  <1> QED BY <1>3, <1>4, <1>10, <1>11, <1>12 DEF Faithful

-----------------------------------------------------------------------------
(***************************************************************************)
(* cat copies.                                                             *)
(***************************************************************************)
LEMMA CatBegins == Init => CatInv
  <1> SUFFICES ASSUME Init, Runs("cat") PROVE Faithful
    BY DEF CatInv
  <1>1. CatJob(job)
    BY JobsAssumption DEF Init, Runs
  <1>2. /\ fileno = 0 /\ pos = 0 /\ reports = <<>> /\ out = <<>> /\ room = job.room
        /\ block = <<>> /\ src_err = FALSE /\ held = <<>> /\ buf_len = 0
        /\ pc = IF Len(job.argv) = 1 THEN "copy" ELSE "next"
    <2>1. Entry["cat"] = "next"
      BY DEF Entry
    <2>2. job.prog = "cat"
      BY DEF Runs
    <2>3. FilesInit(IF Len(job.argv) = 1 THEN "copy" ELSE Entry["cat"])
      BY <2>2 DEF Init, Runs
    <2>4. PrintfInit(<<>>, <<>>, job.room)
      BY <2>2 DEF Init, Runs
    <2>5. block = <<>> /\ src_err = FALSE /\ held = <<>> /\ buf_len = 0
      BY DEF Init, CatInit
    <2> QED BY <2>1, <2>3, <2>4, <2>5 DEF FilesInit, PrintfInit
  <1>3. job.room \in Nat /\ Len(Fs) \in Nat /\ FilesHold(Fs)
    BY <1>1 DEF CatJob, FilesHold, Fs
  <1>4. /\ \A n \in 0 .. Len(Fs) - 1 : Fs[n + 1].data \in Seq(Bytes)
        /\ Data(Fs, 0) = <<>>
    BY <1>3, BytesAre DEF FilesIn
  <1>5. pc = "copy" => Len(Fs) = 1 /\ This.fails # "open"
    BY <1>1, <1>2 DEF CatJob, IsStdin, This, Fs
  <1>6. pc = "copy" => This.data \in Seq(Bytes)
    <2> SUFFICES ASSUME pc = "copy" PROVE This.data \in Seq(Bytes)
      OBVIOUS
    <2>1. fileno \in 0 .. Len(Fs) - 1
      <3>1. fileno = 0 /\ Len(Fs) = 1
        BY <1>2, <1>5
      <3> QED BY <3>1
    <2>2. Fs[fileno + 1].data \in Seq(Bytes)
      BY <1>4, <2>1
    <2> QED BY <2>2 DEF This
  <1>7. Phases
    <2>1. pc = "copy" => Len(This.data) \in Nat
      BY <1>6
    <2>2. pc \in {"next", "copy"} /\ (Copying => pc = "copy")
      <3>1. pc = "next" \/ pc = "copy"
        BY <1>2
      <3> QED BY <3>1 DEF Copying
    <2>3. 0 \in 0 .. Len(Fs) /\ (Len(Fs) = 1 => 0 < Len(Fs))
      <3>1. \A n \in Nat : 0 \in 0 .. n /\ (n = 1 => 0 < n)
        OBVIOUS
      <3> QED BY <1>3, <3>1
    <2>4. (pc = "copy" => 0 \in 0 .. Len(This.data)) /\ Len(block) = 0
      BY <1>2, <2>1, EmptySeq
    <2> QED BY <1>2, <1>5, <2>2, <2>3, <2>4 DEF Phases
  <1>8. Came = <<>>
    <2>1. SubSeq(This.data, 1, 0) = <<>>
      BY SubSeqEmpty
    <2>2. Had = <<>>
      BY <1>2, <2>1 DEF Had
    <2>3. <<>> \o <<>> = <<>>
      BY EmptySeq, ConcatEmptySeq
    <2> QED BY <1>2, <1>4, <2>2, <2>3 DEF Came
  <1>9. Output
    <2>1. <<>> \in Seq(Bytes) /\ Len(<<>>) = 0 /\ <<>> \o <<>> = <<>>
      BY EmptySeq, ConcatEmptySeq
    <2>2. Limit \in Nat
      BY <1>3, AcceptsIs DEF Limit
    <2>3. Take(<<>>, Limit) = <<>>
      <3>1. Len(<<>>) <= Limit
        BY <2>1, <2>2
      <3> QED BY <2>1, <2>2, <3>1, TakeAll
    <2>4. Given(<<>>)
      BY <1>2, <1>8, <2>1, <2>3 DEF Given
    <2>5. Going
      <3>1. 0 \in Nat /\ 0 = 0 * FILE_BUF_CAP
        BY FileBufAssumption
      <3> QED BY <1>2, <2>1, <3>1 DEF Going
    <2>6. Buffered
      BY <1>2, <1>3, <2>1, <2>4, <2>5, FileBufAssumption DEF Buffered
    <2> QED BY <1>2, <2>6 DEF Output
  <1>10. \A i : ~Reported(reports, i)
    BY <1>2 DEF Reported, Range
  <1>11. Said
    BY <1>2, <1>3, <1>10, EmptySeq DEF Said
  <1>12. AtHand
    <2>1. ~(Len(block) < pos)
      BY <1>2, EmptySeq
    <2> QED BY <1>2, <1>10, <2>1 DEF AtHand
  <1> QED BY <1>1, <1>7, <1>9, <1>11, <1>12 DEF Faithful

LEMMA CatGoesOn == CatInv /\ [Next]_vars => CatInv'
  <1> SUFFICES ASSUME CatInv, [Next]_vars PROVE CatInv'
    OBVIOUS
  <1>1. job' = job
    BY DEF vars, Next, Convert, Silence, FindOption, Format, Hexdump, Wc, Cat
  <1>2. CASE ~Runs("cat")
    BY <1>1, <1>2 DEF CatInv, Runs
  <1>3. CASE Runs("cat")
    <2>1. Faithful
      BY <1>3 DEF CatInv
    <2>2. CASE Next
      <3>1. cat(Fs)
        BY <1>3, <2>2 DEF Next, Convert, Silence, FindOption, Format, Hexdump, Wc, Cat, Runs, Fs
      <3>2. Faithful'
        BY <1>1, <2>1, <3>1, CatOpenStep, ReadStep, PutStep, FlushStep, EndStep, ExitStep DEF cat
      <3> QED BY <3>2 DEF CatInv
    <2>3. CASE UNCHANGED vars
      <3>1. UNCHANGED <<job, pc, fileno, is_open, pos, reports, room, out, block, src_err, held, buf_len>>
        BY <2>3 DEF vars, files_vars, printf_vars, cat_vars
      <3>2. Fs' = Fs /\ This' = This /\ Came' = Came /\ Copying' = Copying /\ CatJob(job)'
            /\ Bytes' = Bytes /\ Limit' = Limit
        <4>1. CatJob(job)' /\ Fs' = Fs /\ Bytes' = Bytes /\ Limit' = Limit
          BY <2>1, <3>1, JobStays DEF Faithful
        <4>2. This' = This /\ Copying' = Copying
          BY <3>1, <4>1 DEF This, Copying
        <4>3. Had' = Had
          BY <3>1, <4>2 DEF Had
        <4>4. Came' = Came
          BY <3>1, <4>1, <4>3 DEF Came, Data
        <4> QED BY <4>1, <4>2, <4>4
      <3>3. Phases' /\ Said' /\ AtHand'
        BY <2>1, <3>1, <3>2 DEF Faithful, Phases, Said, AtHand
      <3>4. Output'
        <4>1. CASE pc = "done"
          BY <2>1, <3>1, <3>2, <4>1 DEF Faithful, Output
        <4>2. CASE pc # "done"
          BY <2>1, <3>1, <3>2, <4>2, SameOutput DEF Faithful, Output
        <4> QED BY <4>1, <4>2
      <3> QED BY <3>2, <3>3, <3>4 DEF CatInv, Faithful
    <2> QED BY <2>2, <2>3
  <1> QED BY <1>2, <1>3

LEMMA CatInvCopies == CatInv => CatCopies
  <1> SUFFICES ASSUME CatInv, Runs("cat"), pc = "done" PROVE CatCopies
    BY DEF CatCopies, Done
  <1>1. CatJob(job) /\ Phases /\ Said /\ out = Take(Came, job.room)
    BY DEF CatInv, Faithful, Output
  <1>2. ~Copying /\ fileno = Len(Fs) /\ Len(Fs) \in Nat /\ FilesHold(Fs)
    BY <1>1 DEF Copying, Phases, CatJob, FilesHold, Fs
  <1>3. \A n \in 0 .. Len(Fs) : Data(Fs, n) \in Seq(Bytes)
    BY <1>2, BytesAre DEF FilesIn
  <1>4. Came = Everything
    <2>1. Data(Fs, fileno) \in Seq(Bytes)
      BY <1>2, <1>3
    <2> QED BY <1>2, <2>1, ConcatEmptySeq DEF Came, Had, Everything, Fs
  <1>5. out = Take(Everything, job.room)
    BY <1>1, <1>4
  <1>6. ASSUME NEW i \in DOMAIN job.files
        PROVE  (\E r \in Range(reports) : r[2] = i - 1) <=>
                  \/ job.files[i].fails \in {"open", "read"}
                  \/ job.files[i].data # <<>> /\ Len(Data(job.files, i)) > Accepts(job.room)
    <2>1. i \in 1 .. Len(Fs)
      BY <1>1 DEF CatJob, FilesHold, Fs
    <2>2. i - 1 \in 0 .. fileno - 1 /\ i - 1 + 1 = i
      BY <1>2, <2>1
    <2>3. Reported(reports, i - 1) <=> Failed(job, i - 1)
      BY <1>1, <2>2 DEF Said
    <2> QED BY <2>2, <2>3 DEF Reported, Failed
  <1> QED BY <1>5, <1>6 DEF CatCopies

\* What cat leaves on the device is what its files hold, one behind another, as
\* far as the device takes it, and it reports just the files that could not be
\* read and those with bytes that stdout's buffer did not accept: for any
\* files, blocks and buffers of any size and any room.
THEOREM CatIsFaithful == Spec => []CatCopies
  <1> QED BY CatBegins, CatGoesOn, CatInvCopies, PTL DEF Spec

-----------------------------------------------------------------------------
(***************************************************************************)
(* wc                                                                      *)
(***************************************************************************)
Newline == "\n"

-----------------------------------------------------------------------------
(***************************************************************************)
(* Of the first n bytes of d: where there are newlines, where words start, *)
(* and the length m of the longest stretch without a newline.              *)
(***************************************************************************)
Upto(P, n)        == Cardinality({i \in 1 .. n : i \in P})
NewlinesOf(d)     == {i \in Nat : d[i] = Newline}
StartsOf(d)       == {i \in Nat : d[i] \notin Spaces /\ (i = 1 \/ d[i - 1] \in Spaces)}
Unbroken(d, a, b) == \A i \in a .. b : d[i] # Newline

Longest(d, n, m) ==
    /\ m \in Nat
    /\ \A a, b \in 1 .. n : a <= b /\ Unbroken(d, a, b) => b - a + 1 <= m
    /\ m = 0 \/ \E a, b \in 1 .. n : a <= b /\ Unbroken(d, a, b) /\ b - a + 1 = m

\* The line at hand has len bytes so far.
AtLine(d, n, len) ==
    len \in 0 .. n /\ Unbroken(d, n - len + 1, n) /\ (len = n \/ d[n - len] = Newline)

\* The byte before the next one
Before(d, n) == IF n = 0 THEN " " ELSE d[n]

\* What stats, prev_char and curr_len say of the first n bytes.
Counted(st, prev, len, d, n) ==
    /\ st = [lines |-> Upto(NewlinesOf(d), n), words |-> Upto(StartsOf(d), n), bytes |-> n - len,
             max_len |-> st.max_len]
    /\ AtLine(d, n, len) /\ st.max_len \in Nat /\ Longest(d, n, int_max(st.max_len, len))
    /\ prev = Before(d, n)

\* The counts of file i, and what the first n files have together.
CountOf(fs, i) == C!Counts(fs[i].data)
LinesOf(fs)    == [i \in 1 .. Len(fs) |-> C!Counts(fs[i].data).lines]
WordsOf(fs)    == [i \in 1 .. Len(fs) |-> C!Counts(fs[i].data).words]
BytesOf(fs)    == [i \in 1 .. Len(fs) |-> Len(fs[i].data)]
Greatest(fs, m, n) == /\ m \in Nat /\ \A i \in 1 .. n : CountOf(fs, i).max_len \in 0 .. m
                      /\ m = 0 \/ \E i \in 1 .. n : CountOf(fs, i).max_len = m
TotalOf(tot, fs, n) ==
    /\ tot = [lines |-> SumOf(LinesOf(fs), n), words |-> SumOf(WordsOf(fs), n),
              bytes |-> SumOf(BytesOf(fs), n), max_len |-> tot.max_len]
    /\ Greatest(fs, tot.max_len, n)

-----------------------------------------------------------------------------
WcPlaces == {"words", "usage", "next", "count", "counted", "done", "failed"}

\* The first argi words are looked at; the others are the files, or none is.
WordsRead ==
    /\ argi \in 1 .. Len(job.argv) /\ \A i \in 2 .. argi : job.argv[i][1] = "-"
    /\ pc \notin {"words", "usage"} =>
         IF argi = Len(job.argv) THEN IsStdin(Fs) /\ pc # "next" /\ ~is_open
         ELSE Len(Fs) = Len(job.argv) - argi /\ (pc \in {"count", "counted"} => is_open)

\* The rows that were printed, and their sum.
RowsSoFar ==
    /\ fileno \in 0 .. Len(Fs) /\ rows \in Seq(Range(rows))
    /\ \A i \in 1 .. fileno : Fs[i].fails = "none"
    /\ pc # "done" => Len(rows) = fileno
    /\ \A i \in 1 .. fileno : rows[i].stats = CountOf(Fs, i)
    /\ TotalOf(total, Fs, fileno)

\* The file at hand.
Counting ==
    /\ pc = "words"   => /\ fileno = 0 /\ ~is_open /\ pos = 0
                         /\ stats = stats_zero /\ prev_char = " " /\ curr_len = 0
    /\ pc = "count"   => /\ fileno < Len(Fs) /\ This.fails # "open" /\ pos \in 0 .. Len(This.data)
                         /\ Counted(stats, prev_char, curr_len, This.data, pos)
    /\ pc = "counted" => /\ fileno < Len(Fs) /\ This.fails \notin {"open", "read"}
                         /\ stats = CountOf(Fs, fileno + 1) /\ stats.max_len \in Nat
    /\ pc = "failed"  => fileno < Len(Fs) /\ This.fails # "none"

\* All is counted; two files or more have a row of their own for their sum.
AllCounted ==
    pc = "done" =>
      /\ \A i \in 1 .. Len(Fs) : Fs[i].fails = "none" /\ rows[i].stats = CountOf(Fs, i)
      /\ Len(rows) = IF Len(Fs) > 1 THEN Len(Fs) + 1 ELSE Len(Fs)
      /\ Len(Fs) > 1 => fileno = Len(Fs) /\ rows[Len(Fs) + 1].stats = total

AsCounted == WcJob(job) /\ pc \in WcPlaces /\ WordsRead /\ RowsSoFar /\ Counting /\ AllCounted
WcInv     == Runs("wc") => AsCounted

-----------------------------------------------------------------------------
(***************************************************************************)
(* One more byte.                                                          *)
(***************************************************************************)
LEMMA UptoMore ==
    ASSUME NEW P
    PROVE  /\ Upto(P, 0) = 0
           /\ \A n \in Nat : /\ Upto(P, n) \in Nat
                             /\ Upto(P, n + 1) = Upto(P, n) + IF n + 1 \in P THEN 1 ELSE 0
  <1> DEFINE A(n) == {i \in 1 .. n : i \in P}
  <1>1. ASSUME NEW n \in Nat PROVE IsFiniteSet(A(n)) /\ Cardinality(A(n)) \in Nat
    <2>1. IsFiniteSet(1 .. n)
      BY FS_Interval
    <2>2. A(n) \subseteq 1 .. n
      OBVIOUS
    <2> HIDE DEF A
    <2>3. IsFiniteSet(A(n))
      BY <2>1, <2>2, FS_Subset
    <2> QED BY <2>3, FS_CardinalityType
  <1>2. \A n : Upto(P, n) = Cardinality(A(n))
    BY DEF Upto
  <1>3. A(0) = {}
    OBVIOUS
  <1>4. ASSUME NEW n \in Nat
        PROVE  Cardinality(A(n + 1)) = Cardinality(A(n)) + IF n + 1 \in P THEN 1 ELSE 0
    <2>1. CASE n + 1 \in P
      <3>1. A(n + 1) = A(n) \cup {n + 1} /\ n + 1 \notin A(n)
        BY <2>1
      <3> HIDE DEF A
      <3>2. Cardinality(A(n + 1)) = Cardinality(A(n)) + 1
        BY <1>1, <3>1, FS_AddElement
      <3> QED BY <2>1, <3>2
    <2>2. CASE n + 1 \notin P
      <3>1. A(n + 1) = A(n)
        BY <2>2
      <3> HIDE DEF A
      <3> QED BY <1>1, <2>2, <3>1
    <2> QED BY <2>1, <2>2
  <1> HIDE DEF A
  <1> QED BY <1>1, <1>2, <1>3, <1>4, FS_EmptySet

LEMMA LineGoesOn ==
    ASSUME NEW d, NEW n \in Nat, NEW len, NEW m, AtLine(d, n, len), Longest(d, n, m),
           d[n + 1] # Newline
    PROVE  AtLine(d, n + 1, len + 1) /\ Longest(d, n + 1, int_max(m, len + 1))
  <1> DEFINE top == int_max(m, len + 1)
  <1>1. /\ len \in 0 .. n /\ Unbroken(d, n - len + 1, n) /\ (len = n \/ d[n - len] = Newline)
    BY DEF AtLine
  <1>2. /\ m \in Nat
        /\ \A a, b \in 1 .. n : a <= b /\ Unbroken(d, a, b) => b - a + 1 <= m
        /\ m = 0 \/ \E a, b \in 1 .. n : a <= b /\ Unbroken(d, a, b) /\ b - a + 1 = m
    BY DEF Longest
  <1>3. Unbroken(d, n - len + 1, n + 1)
    <2>1. \A i \in n - len + 1 .. n + 1 : i \in n - len + 1 .. n \/ i = n + 1
      BY <1>1
    <2> QED BY <1>1, <2>1 DEF Unbroken
  <1>4. AtLine(d, n + 1, len + 1)
    <2>1. (n + 1) - (len + 1) + 1 = n - len + 1 /\ n + 1 - (len + 1) = n - len
      BY <1>1
    <2>2. len + 1 \in 0 .. n + 1 /\ (len = n => len + 1 = n + 1)
      BY <1>1
    <2> QED BY <1>1, <1>3, <2>1, <2>2 DEF AtLine
  <1>5. top \in Nat /\ top >= m /\ top >= len + 1 /\ (top = m \/ top = len + 1)
    BY <1>1, <1>2 DEF int_max
  <1> HIDE DEF top
  <1>6. ASSUME NEW a \in 1 .. n + 1, NEW b \in 1 .. n + 1, a <= b, Unbroken(d, a, b)
        PROVE  b - a + 1 <= top
    <2>1. CASE b # n + 1
      <3>1. a \in 1 .. n /\ b \in 1 .. n
        BY <1>6, <2>1
      <3>2. b - a + 1 <= m
        BY <1>2, <1>6, <3>1
      <3> QED BY <1>2, <1>5, <3>2
    <2>2. CASE b = n + 1
      <3>1. a >= n - len + 1
        <4>1. CASE len = n
          BY <4>1
        <4>2. CASE d[n - len] = Newline
          <5>1. n - len \notin a .. b
            BY <1>6, <4>2 DEF Unbroken
          <5> QED BY <1>1, <2>2, <5>1
        <4> QED BY <1>1, <4>1, <4>2
      <3> QED BY <1>1, <1>5, <2>2, <3>1
    <2> QED BY <2>1, <2>2
  <1>7. top = 0 \/ \E a, b \in 1 .. n + 1 : a <= b /\ Unbroken(d, a, b) /\ b - a + 1 = top
    <2>1. CASE top = m
      <3>1. \A a \in 1 .. n : a \in 1 .. n + 1
        OBVIOUS
      <3> QED BY <1>2, <2>1, <3>1
    <2>2. CASE top = len + 1
      <3>1. /\ n - len + 1 \in 1 .. n + 1 /\ n + 1 \in 1 .. n + 1 /\ n - len + 1 <= n + 1
            /\ n + 1 - (n - len + 1) + 1 = top
        BY <1>1, <2>2
      <3> QED BY <1>3, <3>1
    <2> QED BY <1>5, <2>1, <2>2
  <1>8. Longest(d, n + 1, top)
    BY <1>5, <1>6, <1>7 DEF Longest
  <1> QED BY <1>4, <1>8 DEF top

LEMMA LineEnds ==
    ASSUME NEW d, NEW n \in Nat, NEW m, Longest(d, n, m), d[n + 1] = Newline
    PROVE  AtLine(d, n + 1, 0) /\ Longest(d, n + 1, m)
  <1>1. AtLine(d, n + 1, 0)
    <2>1. \A i \in n + 1 - 0 + 1 .. n + 1 : FALSE
      OBVIOUS
    <2>2. 0 \in 0 .. n + 1 /\ n + 1 - 0 = n + 1
      OBVIOUS
    <2> QED BY <2>1, <2>2 DEF AtLine, Unbroken
  <1>2. /\ m \in Nat
        /\ \A a, b \in 1 .. n : a <= b /\ Unbroken(d, a, b) => b - a + 1 <= m
        /\ m = 0 \/ \E a, b \in 1 .. n : a <= b /\ Unbroken(d, a, b) /\ b - a + 1 = m
    BY DEF Longest
  <1>3. ASSUME NEW a \in 1 .. n + 1, NEW b \in 1 .. n + 1, a <= b, Unbroken(d, a, b)
        PROVE  b - a + 1 <= m
    <2>1. n + 1 \notin a .. b
      BY <1>3 DEF Unbroken
    <2>2. a \in 1 .. n /\ b \in 1 .. n
      BY <1>3, <2>1
    <2> QED BY <1>2, <1>3, <2>2
  <1>4. m = 0 \/ \E a, b \in 1 .. n + 1 : a <= b /\ Unbroken(d, a, b) /\ b - a + 1 = m
    <2>1. \A a \in 1 .. n : a \in 1 .. n + 1
      OBVIOUS
    <2> QED BY <1>2, <2>1
  <1>5. Longest(d, n + 1, m)
    BY <1>2, <1>3, <1>4 DEF Longest
  <1> QED BY <1>1, <1>5

\* The instance of CLib has operators of its own for those it extends.
LEMMA CountsInC == \A S : C!Max(S) = Max(S) /\ C!Cardinality(S) = Cardinality(S)
  BY DEF Max, C!Max, Cardinality, C!Cardinality

\* At the end of the file the counts are those of C!Counts.
LEMMA CountsAre ==
    ASSUME NEW S, NEW d \in Seq(S), NEW m, Longest(d, Len(d), m)
    PROVE  C!Counts(d) = [lines |-> Upto(NewlinesOf(d), Len(d)), words |-> Upto(StartsOf(d), Len(d)),
                          bytes |-> Len(d), max_len |-> m]
  <1>1. DOMAIN d = 1 .. Len(d) /\ Len(d) \in Nat
    BY LenProperties
  <1>2. C!Newlines(d) = {i \in 1 .. Len(d) : i \in NewlinesOf(d)}
    BY <1>1 DEF C!Newlines, NewlinesOf, Newline
  <1>3. C!WordStarts(d) = {i \in 1 .. Len(d) : i \in StartsOf(d)}
    BY <1>1 DEF C!WordStarts, StartsOf
  <1> DEFINE L == C!LineLengths(d)
  <1>4. \A x : x \in L <=> x = 0 \/ \E a, b \in 1 .. Len(d) : a <= b /\ Unbroken(d, a, b) /\ x = b - a + 1
    <2>1. \A p : p \in C!Stretches(d) <=>
                   \E a, b \in 1 .. Len(d) : p = <<a, b>> /\ a <= b /\ Unbroken(d, a, b)
      <3>1. \A p : p \in C!Stretches(d) <=> /\ p \in (1 .. Len(d)) \X (1 .. Len(d)) /\ p[1] <= p[2]
                                            /\ Unbroken(d, p[1], p[2])
        BY <1>1 DEF C!Stretches, Unbroken, Newline
      <3>2. \A p : p \in (1 .. Len(d)) \X (1 .. Len(d)) <=>
                     \E a, b \in 1 .. Len(d) : p = <<a, b>> /\ p[1] = a /\ p[2] = b
        OBVIOUS
      <3> QED BY <3>1, <3>2
    <2>2. ASSUME NEW x \in L, x # 0
          PROVE  \E a, b \in 1 .. Len(d) : a <= b /\ Unbroken(d, a, b) /\ x = b - a + 1
      <3>1. PICK p \in C!Stretches(d) : x = p[2] - p[1] + 1
        BY <2>2 DEF C!LineLengths
      <3>2. PICK a \in 1 .. Len(d), b \in 1 .. Len(d) : p = <<a, b>> /\ a <= b /\ Unbroken(d, a, b)
        BY <2>1, <3>1
      <3>3. p[1] = a /\ p[2] = b
        BY <3>2
      <3> QED BY <3>1, <3>2, <3>3
    <2>3. ASSUME NEW a \in 1 .. Len(d), NEW b \in 1 .. Len(d), a <= b, Unbroken(d, a, b)
          PROVE  b - a + 1 \in L
      <3>1. <<a, b>> \in C!Stretches(d)
        BY <2>1, <2>3
      <3>2. <<a, b>>[2] - <<a, b>>[1] + 1 \in L
        BY <3>1 DEF C!LineLengths
      <3> QED BY <3>2
    <2>4. 0 \in L
      BY DEF C!LineLengths
    <2> QED BY <2>2, <2>3, <2>4
  <1> HIDE DEF L
  <1>5. /\ m \in Nat
        /\ \A a, b \in 1 .. Len(d) : a <= b /\ Unbroken(d, a, b) => b - a + 1 <= m
        /\ m = 0 \/ \E a, b \in 1 .. Len(d) : a <= b /\ Unbroken(d, a, b) /\ b - a + 1 = m
    BY DEF Longest
  <1>6. L \subseteq Int /\ m \in L /\ \A y \in L : m >= y
    BY <1>4, <1>5
  <1>7. Max(L) = m
    BY <1>6, MaxIs
  <1>8. /\ Cardinality(C!Newlines(d)) = Upto(NewlinesOf(d), Len(d))
        /\ Cardinality(C!WordStarts(d)) = Upto(StartsOf(d), Len(d))
        /\ Max(C!LineLengths(d)) = m
    BY <1>2, <1>3, <1>7 DEF Upto, L
  <1>9. C!Counts(d) = [lines   |-> C!Cardinality(C!Newlines(d)), words |-> C!Cardinality(C!WordStarts(d)),
                       bytes   |-> Len(d), max_len |-> C!Max(C!LineLengths(d))]
    BY DEF C!Counts
  <1> QED BY <1>8, <1>9, CountsInC

LEMMA IntMax ==
    \A a, b \in Nat : /\ int_max(a, b) \in Nat /\ int_max(int_max(a, b), 0) = int_max(a, b)
                      /\ int_max(int_max(a, b), b + 1) = int_max(a, b + 1)
  BY DEF int_max

LEMMA CountedNone ==
    ASSUME NEW d
    PROVE  Counted(stats_zero, " ", 0, d, 0)
  <1>1. Upto(NewlinesOf(d), 0) = 0 /\ Upto(StartsOf(d), 0) = 0
    BY UptoMore
  <1>2. AtLine(d, 0, 0)
    <2>1. \A i \in 0 - 0 + 1 .. 0 : FALSE
      OBVIOUS
    <2> QED BY <2>1 DEF AtLine, Unbroken
  <1>3. int_max(0, 0) = 0
    BY DEF int_max
  <1>4. Longest(d, 0, 0)
    BY DEF Longest
  <1>5. stats_zero = [lines |-> 0, words |-> 0, bytes |-> 0 - 0, max_len |-> 0] /\ stats_zero.max_len = 0
    BY DEF stats_zero
  <1>6. Before(d, 0) = " "
    BY DEF Before
  <1>7. /\ stats_zero = [lines |-> Upto(NewlinesOf(d), 0), words |-> Upto(StartsOf(d), 0),
                         bytes |-> 0 - 0, max_len |-> stats_zero.max_len]
        /\ stats_zero.max_len \in Nat /\ Longest(d, 0, int_max(stats_zero.max_len, 0))
    BY <1>1, <1>3, <1>4, <1>5
  <1> QED BY <1>2, <1>6, <1>7 DEF Counted

\* get_stats' step, as a function of what it knows.
StatsAfter(st, prev, len, c) ==
    [lines   |-> st.lines + (IF c = Newline THEN 1 ELSE 0),
     words   |-> st.words + (IF c \notin Spaces /\ prev \in Spaces THEN 1 ELSE 0),
     bytes   |-> st.bytes + (IF c = Newline THEN len + 1 ELSE 0),
     max_len |-> IF c = Newline THEN int_max(st.max_len, len) ELSE st.max_len]
LineAfter(len, c) == IF c = Newline THEN 0 ELSE len + 1

LEMMA CountedMore ==
    ASSUME NEW d, NEW n \in Nat, NEW st, NEW prev, NEW len, Counted(st, prev, len, d, n)
    PROVE  Counted(StatsAfter(st, prev, len, d[n + 1]), d[n + 1], LineAfter(len, d[n + 1]), d, n + 1)
  <1> DEFINE c   == d[n + 1]
             new == StatsAfter(st, prev, len, c)
             m   == int_max(st.max_len, len)
  <1>1. /\ st = [lines |-> Upto(NewlinesOf(d), n), words |-> Upto(StartsOf(d), n), bytes |-> n - len,
                 max_len |-> st.max_len]
        /\ AtLine(d, n, len) /\ st.max_len \in Nat /\ Longest(d, n, m)
        /\ prev = Before(d, n)
    BY DEF Counted
  <1>2. st.lines = Upto(NewlinesOf(d), n) /\ st.words = Upto(StartsOf(d), n) /\ st.bytes = n - len
    BY <1>1
  <1>3. len \in 0 .. n
    BY <1>1 DEF AtLine
  <1>4. Upto(NewlinesOf(d), n + 1) = st.lines + (IF c = Newline THEN 1 ELSE 0)
    <2>1. n + 1 \in NewlinesOf(d) <=> c = Newline
      BY DEF NewlinesOf
    <2>2. Upto(NewlinesOf(d), n + 1) = Upto(NewlinesOf(d), n) + IF n + 1 \in NewlinesOf(d) THEN 1 ELSE 0
      BY UptoMore
    <2> QED BY <1>2, <2>1, <2>2
  <1>5. Upto(StartsOf(d), n + 1) = st.words + (IF c \notin Spaces /\ prev \in Spaces THEN 1 ELSE 0)
    <2>1. prev \in Spaces <=> (n + 1 = 1 \/ d[n + 1 - 1] \in Spaces)
      <3>1. CASE n = 0
        <4>1. prev = " "
          BY <1>1, <3>1 DEF Before
        <4>2. prev \in Spaces
          BY <4>1 DEF Spaces
        <4>3. n + 1 = 1
          BY <3>1
        <4> QED BY <4>2, <4>3
      <3>2. CASE n # 0
        <4>1. n + 1 - 1 = n /\ n + 1 # 1
          BY <3>2
        <4>2. prev = d[n]
          BY <1>1, <3>2 DEF Before
        <4> QED BY <4>1, <4>2
      <3> QED BY <3>1, <3>2
    <2>2. n + 1 \in StartsOf(d) <=> c \notin Spaces /\ prev \in Spaces
      BY <2>1 DEF StartsOf
    <2>3. Upto(StartsOf(d), n + 1) = Upto(StartsOf(d), n) + IF n + 1 \in StartsOf(d) THEN 1 ELSE 0
      BY UptoMore
    <2> QED BY <1>2, <2>2, <2>3
  <1>6. Before(d, n + 1) = c
    <2>1. n + 1 # 0
      OBVIOUS
    <2> QED BY <2>1 DEF Before
  <1> HIDE DEF c
  <1>7. CASE c = Newline
    <2>1. new = [lines |-> Upto(NewlinesOf(d), n + 1), words |-> Upto(StartsOf(d), n + 1),
                 bytes |-> n + 1 - 0, max_len |-> m]
      <3>1. st.bytes + (len + 1) = n + 1 - 0
        BY <1>2, <1>3
      <3> QED BY <1>4, <1>5, <1>7, <3>1 DEF StatsAfter
    <2>2. m \in Nat /\ int_max(m, 0) = m
      BY <1>1, <1>3, IntMax
    <2>3. AtLine(d, n + 1, 0) /\ Longest(d, n + 1, m)
      BY <1>1, <1>7, LineEnds DEF c
    <2>4. LineAfter(len, c) = 0
      BY <1>7 DEF LineAfter
    <2> HIDE DEF new, m
    <2>5. new.max_len = m
      BY <2>1
    <2>6. Counted(new, c, 0, d, n + 1)
      BY <1>6, <2>1, <2>2, <2>3, <2>5 DEF Counted
    <2> QED BY <2>4, <2>6 DEF new, c
  <1>8. CASE c # Newline
    <2>1. new = [lines |-> Upto(NewlinesOf(d), n + 1), words |-> Upto(StartsOf(d), n + 1),
                 bytes |-> (n + 1) - (len + 1), max_len |-> st.max_len]
      <3>1. st.bytes + 0 = (n + 1) - (len + 1)
        BY <1>2, <1>3
      <3> QED BY <1>4, <1>5, <1>8, <3>1 DEF StatsAfter
    <2>2. int_max(m, len + 1) = int_max(st.max_len, len + 1)
      BY <1>1, <1>3, IntMax
    <2>3. AtLine(d, n + 1, len + 1) /\ Longest(d, n + 1, int_max(m, len + 1))
      BY <1>1, <1>8, LineGoesOn DEF c
    <2>4. LineAfter(len, c) = len + 1
      BY <1>8 DEF LineAfter
    <2> HIDE DEF new, m
    <2>5. new.max_len = st.max_len
      BY <2>1
    <2>6. Counted(new, c, len + 1, d, n + 1)
      BY <1>1, <1>6, <2>1, <2>2, <2>3, <2>5 DEF Counted
    <2> QED BY <2>4, <2>6 DEF new, c
  <1> QED BY <1>7, <1>8

StatsWhole(st, len) == [lines |-> st.lines, words |-> st.words, bytes |-> st.bytes + len,
                        max_len |-> int_max(st.max_len, len)]

\* Ended changes two fields, one after the other.
LEMMA TwoFields ==
    ASSUME NEW l, NEW w, NEW b, NEW m, NEW x, NEW y
    PROVE  [[lines |-> l, words |-> w, bytes |-> b, max_len |-> m] EXCEPT !.bytes = x, !.max_len = y]
             = [lines |-> l, words |-> w, bytes |-> x, max_len |-> y]
  <1> DEFINE r == [lines |-> l, words |-> w, bytes |-> b, max_len |-> m]
             e == [r EXCEPT !.bytes = x]
  <1>1. e = [lines |-> l, words |-> w, bytes |-> x, max_len |-> m]
    OBVIOUS
  <1>2. [r EXCEPT !.bytes = x, !.max_len = y] = [e EXCEPT !.max_len = y]
    OBVIOUS
  <1>3. [[lines |-> l, words |-> w, bytes |-> x, max_len |-> m] EXCEPT !.max_len = y]
          = [lines |-> l, words |-> w, bytes |-> x, max_len |-> y]
    OBVIOUS
  <1> HIDE DEF e
  <1> QED BY <1>1, <1>2, <1>3

LEMMA CountedAll ==
    ASSUME NEW S, NEW d \in Seq(S), NEW st, NEW prev, NEW len, Counted(st, prev, len, d, Len(d))
    PROVE  StatsWhole(st, len) = C!Counts(d) /\ StatsWhole(st, len).max_len \in Nat
  <1> DEFINE m == int_max(st.max_len, len)
  <1>1. /\ st = [lines |-> Upto(NewlinesOf(d), Len(d)), words |-> Upto(StartsOf(d), Len(d)),
                 bytes |-> Len(d) - len, max_len |-> st.max_len]
        /\ AtLine(d, Len(d), len) /\ st.max_len \in Nat /\ Longest(d, Len(d), m)
    BY DEF Counted
  <1>2. st.lines = Upto(NewlinesOf(d), Len(d)) /\ st.words = Upto(StartsOf(d), Len(d)) /\ st.bytes = Len(d) - len
    BY <1>1
  <1>3. len \in 0 .. Len(d) /\ Len(d) \in Nat
    BY <1>1 DEF AtLine
  <1>4. st.bytes + len = Len(d)
    BY <1>2, <1>3
  <1>5. m \in Nat
    BY <1>1 DEF Longest
  <1>6. C!Counts(d) = [lines |-> Upto(NewlinesOf(d), Len(d)), words |-> Upto(StartsOf(d), Len(d)),
                       bytes |-> Len(d), max_len |-> m]
    BY <1>1, CountsAre
  <1> HIDE DEF m
  <1>7. StatsWhole(st, len) = [lines |-> st.lines, words |-> st.words, bytes |-> st.bytes + len, max_len |-> m]
    BY DEF StatsWhole, m
  <1> QED BY <1>2, <1>4, <1>5, <1>6, <1>7

\* stats_accum
Added(tot, st) == [lines |-> tot.lines + st.lines, words |-> tot.words + st.words,
                   bytes |-> tot.bytes + st.bytes, max_len |-> int_max(tot.max_len, st.max_len)]

LEMMA TotalMore ==
    ASSUME NEW fs, Len(fs) \in Nat, NEW n \in 0 .. Len(fs) - 1, NEW tot, NEW st,
           TotalOf(tot, fs, n), st = CountOf(fs, n + 1), st.max_len \in Nat
    PROVE  TotalOf(Added(tot, st), fs, n + 1)
  <1> DEFINE m == int_max(tot.max_len, st.max_len)
  <1>1. /\ tot.lines = SumOf(LinesOf(fs), n) /\ tot.words = SumOf(WordsOf(fs), n)
        /\ tot.bytes = SumOf(BytesOf(fs), n)
        /\ tot.max_len \in Nat /\ \A i \in 1 .. n : CountOf(fs, i).max_len \in 0 .. tot.max_len
        /\ tot.max_len = 0 \/ \E i \in 1 .. n : CountOf(fs, i).max_len = tot.max_len
    BY DEF TotalOf, Greatest
  <1>2. n \in Nat /\ n + 1 \in 1 .. Len(fs)
    OBVIOUS
  <1>3. LinesOf(fs)[n + 1] = st.lines /\ WordsOf(fs)[n + 1] = st.words /\ BytesOf(fs)[n + 1] = st.bytes
    <2>1. C!Counts(fs[n + 1].data).bytes = Len(fs[n + 1].data)
      BY DEF C!Counts
    <2> QED BY <1>2, <2>1 DEF LinesOf, WordsOf, BytesOf, CountOf
  <1>4. /\ SumOf(LinesOf(fs), n + 1) = tot.lines + st.lines
        /\ SumOf(WordsOf(fs), n + 1) = tot.words + st.words
        /\ SumOf(BytesOf(fs), n + 1) = tot.bytes + st.bytes
    BY <1>1, <1>2, <1>3, SumIs, ZenonT(60)
  <1>5. m \in Nat /\ m >= tot.max_len /\ m >= st.max_len /\ (m = tot.max_len \/ m = st.max_len)
    BY <1>1 DEF int_max
  <1>6. \A i \in 1 .. n + 1 : i \in 1 .. n \/ i = n + 1
    BY <1>2
  <1>7. \A i \in 1 .. n : i \in 1 .. n + 1
    BY <1>2
  <1>8. n + 1 \in 1 .. n + 1
    BY <1>2
  <1> HIDE DEF m
  <1>9. Greatest(fs, m, n + 1)
    <2>1. \A i \in 1 .. n : CountOf(fs, i).max_len \in 0 .. m
      <3>1. \A k \in 0 .. tot.max_len : k \in 0 .. m
        BY <1>1, <1>5
      <3> QED BY <1>1, <3>1
    <2>2. CountOf(fs, n + 1).max_len \in 0 .. m
      <3>1. st.max_len \in 0 .. m
        BY <1>5
      <3> QED BY <3>1
    <2>3. \A i \in 1 .. n + 1 : CountOf(fs, i).max_len \in 0 .. m
      BY <1>6, <2>1, <2>2
    <2>4. m = 0 \/ \E i \in 1 .. n + 1 : CountOf(fs, i).max_len = m
      <3>1. CASE m = tot.max_len
        BY <1>1, <1>7, <3>1
      <3>2. CASE m = st.max_len
        BY <1>8, <3>2
      <3> QED BY <1>5, <3>1, <3>2
    <2> QED BY <1>5, <2>3, <2>4 DEF Greatest
  <1>10. Added(tot, st) = [lines |-> SumOf(LinesOf(fs), n + 1), words |-> SumOf(WordsOf(fs), n + 1),
                           bytes |-> SumOf(BytesOf(fs), n + 1), max_len |-> m]
    BY <1>4 DEF Added, m
  <1>11. Added(tot, st).max_len = m
    BY <1>10
  <1> QED BY <1>9, <1>10, <1>11 DEF TotalOf

LEMMA TotalNone == \A fs : TotalOf(stats_zero, fs, 0)
  <1> SUFFICES ASSUME NEW fs PROVE TotalOf(stats_zero, fs, 0)
    OBVIOUS
  <1>1. /\ SumOf(LinesOf(fs), 0) = 0 /\ SumOf(WordsOf(fs), 0) = 0 /\ SumOf(BytesOf(fs), 0) = 0
    BY SumIs
  <1>2. stats_zero.max_len = 0
    BY DEF stats_zero
  <1>3. Greatest(fs, 0, 0)
    BY DEF Greatest
  <1>4. stats_zero = [lines |-> 0, words |-> 0, bytes |-> 0, max_len |-> 0]
    BY DEF stats_zero
  <1> QED BY <1>1, <1>2, <1>3, <1>4 DEF TotalOf

-----------------------------------------------------------------------------
(***************************************************************************)
(* A step of the program keeps the invariant.                              *)
(***************************************************************************)
LEMMA JobIs ==
    ASSUME AsCounted
    PROVE  /\ Len(Fs) \in Nat /\ DOMAIN Fs = 1 .. Len(Fs) /\ Len(job.argv) \in Nat
           /\ fileno \in Nat /\ fileno <= Len(Fs) /\ argi \in 1 .. Len(job.argv)
           /\ \A i \in 1 .. Len(Fs) : Fs[i].fails \in {"none", "open", "read", "close"}
           /\ fileno < Len(Fs) => /\ fileno + 1 \in 1 .. Len(Fs)
                                  /\ This.data \in Seq(Range(This.data)) /\ Len(This.data) \in Nat
                                  /\ This.fails \in {"none", "open", "read", "close"}
  <1>1. /\ Len(Fs) \in Nat /\ DOMAIN Fs = 1 .. Len(Fs) /\ Len(job.argv) \in Nat
        /\ \A i \in 1 .. Len(Fs) : /\ Fs[i].data \in Seq(Range(Fs[i].data))
                                   /\ Fs[i].fails \in {"none", "open", "read", "close"}
    BY DEF AsCounted, WcJob, FilesHold, Fs
  <1>2. fileno \in 0 .. Len(Fs) /\ argi \in 1 .. Len(job.argv)
    BY DEF AsCounted, RowsSoFar, WordsRead
  <1>3. fileno < Len(Fs) => fileno + 1 \in 1 .. Len(Fs)
    BY <1>1, <1>2
  <1>4. fileno < Len(Fs) => This.data \in Seq(Range(This.data))
    BY <1>1, <1>3 DEF This
  <1>5. fileno < Len(Fs) => Len(This.data) \in Nat
    BY <1>4, LenProperties
  <1>6. fileno < Len(Fs) => This.fails \in {"none", "open", "read", "close"}
    BY <1>1, <1>3 DEF This
  <1> QED BY <1>1, <1>2, <1>3, <1>4, <1>5, <1>6

\* The rows stay as long as no file is finished.
LEMMA RowsStay ==
    ASSUME RowsSoFar, job' = job, UNCHANGED <<fileno, rows, total>>, pc # "done" \/ pc' = pc
    PROVE  RowsSoFar'
  BY DEF RowsSoFar, Fs

LEMMA ArgsStep ==
    ASSUME AsCounted, job' = job, WcArgs(job.argv)
    PROVE  AsCounted'
  <1>1. /\ pc = "words" /\ argi < Len(job.argv) /\ job.argv[argi + 1][1] = "-"
        /\ \/ argi' = argi + 1 /\ pc' = pc
           \/ argi' = argi /\ pc' = "usage"
        /\ UNCHANGED <<fileno, is_open, pos, stats, prev_char, curr_len, rows, total>>
    BY DEF WcArgs, AtWcOptions, Goto
  <1>2. argi \in 1 .. Len(job.argv) /\ Len(job.argv) \in Nat
    BY JobIs
  <1>3. WcJob(job) /\ WordsRead /\ RowsSoFar /\ Counting
    BY DEF AsCounted
  <1>4. pc' \in {"words", "usage"}
    BY <1>1
  <1>5. WordsRead'
    <2>1. argi' \in 1 .. Len(job.argv)
      BY <1>1, <1>2
    <2>2. \A i \in 2 .. argi + 1 : job.argv[i][1] = "-"
      <3>1. \A i \in 2 .. argi : job.argv[i][1] = "-"
        BY <1>3 DEF WordsRead
      <3>2. \A i \in 2 .. argi + 1 : i \in 2 .. argi \/ i = argi + 1
        BY <1>2
      <3> QED BY <1>1, <3>1, <3>2
    <2>3. \A i \in 2 .. argi' : i \in 2 .. argi + 1
      BY <1>1, <1>2
    <2> QED BY <1>4, <2>1, <2>2, <2>3 DEF WordsRead
  <1>6. RowsSoFar'
    BY <1>1, <1>3, RowsStay
  <1>7. Counting'
    BY <1>1, <1>3, <1>4 DEF Counting
  <1>8. AllCounted'
    BY <1>4 DEF AllCounted
  <1> QED BY <1>3, <1>4, <1>5, <1>6, <1>7, <1>8 DEF AsCounted, WcPlaces

LEMMA OperandsStep ==
    ASSUME AsCounted, job' = job, WcOperands(job.argv)
    PROVE  AsCounted'
  <1>1. /\ pc = "words" /\ ~(argi < Len(job.argv) /\ job.argv[argi + 1][1] = "-")
        /\ pc' = IF argi >= Len(job.argv) THEN "count" ELSE "next"
        /\ UNCHANGED <<fileno, is_open, pos, argi, stats, prev_char, curr_len, rows, total>>
    BY DEF WcOperands, AtWcOptions, Goto
  <1>2. argi \in 1 .. Len(job.argv) /\ Len(job.argv) \in Nat
    BY JobIs
  <1>3. WcJob(job) /\ WordsRead /\ RowsSoFar
    BY DEF AsCounted
  <1>4. /\ fileno = 0 /\ ~is_open /\ pos = 0
        /\ stats = stats_zero /\ prev_char = " " /\ curr_len = 0
    BY <1>1 DEF AsCounted, Counting
  <1>5. PICK k \in 1 .. Len(job.argv) :
           /\ \A i \in 2 .. k : job.argv[i][1] = "-"
           /\ k < Len(job.argv) => job.argv[k + 1][1] # "-" /\ Len(Fs) = Len(job.argv) - k
           /\ k = Len(job.argv) => IsStdin(Fs)
    BY <1>3 DEF WcJob, Fs
  \* The words of options are those before the first operand.
  <1>6. argi = k
    <2>1. \A i \in 2 .. argi : job.argv[i][1] = "-"
      BY <1>3 DEF WordsRead
    <2>2. ~(argi < k)
      <3> SUFFICES ASSUME argi < k PROVE FALSE
        OBVIOUS
      <3>1. argi + 1 \in 2 .. k /\ argi < Len(job.argv)
        BY <1>2
      <3> QED BY <1>1, <1>5, <3>1
    <2>3. ~(argi > k)
      <3> SUFFICES ASSUME argi > k PROVE FALSE
        OBVIOUS
      <3>1. k + 1 \in 2 .. argi /\ k < Len(job.argv)
        BY <1>2
      <3> QED BY <1>5, <2>1, <3>1
    <2> QED BY <1>2, <2>2, <2>3
  <1>7. \/ argi = Len(job.argv) /\ pc' = "count" /\ IsStdin(Fs)
        \/ argi # Len(job.argv) /\ pc' = "next" /\ Len(Fs) = Len(job.argv) - argi
    <2>1. argi >= Len(job.argv) <=> argi = Len(job.argv)
      BY <1>2
    <2>2. argi # Len(job.argv) => argi < Len(job.argv)
      BY <1>2
    <2> QED BY <1>1, <1>5, <1>6, <2>1, <2>2
  <1>8. pc' \in {"count", "next"}
    BY <1>7
  <1>9. WordsRead'
    BY <1>1, <1>3, <1>4, <1>7 DEF WordsRead, Fs
  <1>10. RowsSoFar'
    BY <1>1, <1>3, RowsStay
  <1>11. Counting'
    <2>1. pc' = "count" => Len(Fs) = 1 /\ Fs[1].fails # "open"
      BY <1>7 DEF IsStdin
    <2>2. fileno = 0
      BY <1>4
    <2>3. ASSUME Len(Fs) = 1, Fs[1].fails # "open" PROVE fileno < Len(Fs) /\ This.fails # "open"
      <3>1. fileno + 1 = 1 /\ fileno < Len(Fs)
        BY <2>2, <2>3
      <3> QED BY <2>3, <3>1 DEF This
    <2>4. pc' = "count" => fileno < Len(Fs) /\ This.fails # "open"
      BY <2>1, <2>3
    <2>5. pc' = "count" => 0 \in 0 .. Len(This.data)
      BY <2>4, JobIs
    <2>6. Counted(stats, prev_char, curr_len, This.data, pos)
      BY <1>4, CountedNone
    <2>7. Fs' = Fs /\ This' = This
      BY <1>1 DEF Fs, This
    <2> QED BY <1>1, <1>4, <1>8, <2>4, <2>5, <2>6, <2>7 DEF Counting
  <1>12. AllCounted'
    BY <1>8 DEF AllCounted
  <1> QED BY <1>3, <1>8, <1>9, <1>10, <1>11, <1>12 DEF AsCounted, WcPlaces

LEMMA WcOpenStep ==
    ASSUME AsCounted, job' = job, WcOpen(Len(job.argv) - argi, Fs)
    PROVE  AsCounted'
  <1>1. /\ pc = "next" /\ fileno < Len(job.argv) - argi
        /\ \/ This.fails = "open" /\ pc' = "failed" /\ UNCHANGED is_open
           \/ This.fails # "open" /\ is_open' = TRUE /\ pc' = "count"
        /\ pos' = 0 /\ stats' = stats_zero /\ prev_char' = " " /\ curr_len' = 0
        /\ UNCHANGED <<fileno, argi, rows, total>>
    BY DEF WcOpen, StopWith, Goto, This
  <1>2. WcJob(job) /\ WordsRead /\ RowsSoFar
    BY DEF AsCounted
  <1>3. argi # Len(job.argv) /\ Len(Fs) = Len(job.argv) - argi
    BY <1>1, <1>2 DEF WordsRead
  <1>4. fileno < Len(Fs) /\ pc' \in {"failed", "count"} /\ (pc' = "count" => is_open')
    BY <1>1, <1>3
  <1>5. WordsRead'
    BY <1>1, <1>2, <1>3, <1>4 DEF WordsRead, Fs
  <1>6. RowsSoFar'
    BY <1>1, <1>2, RowsStay
  <1>7. Counting'
    <2>1. 0 \in 0 .. Len(This.data)
      BY <1>4, JobIs
    <2>2. Counted(stats', prev_char', curr_len', This.data, pos')
      BY <1>1, CountedNone
    <2>3. Fs' = Fs /\ This' = This
      BY <1>1 DEF Fs, This
    <2>4. (pc' = "count" => This.fails # "open") /\ (pc' = "failed" => This.fails # "none")
      BY <1>1
    <2> QED BY <1>1, <1>4, <2>1, <2>2, <2>3, <2>4 DEF Counting
  <1>8. AllCounted'
    BY <1>4 DEF AllCounted
  <1> QED BY <1>2, <1>4, <1>5, <1>6, <1>7, <1>8 DEF AsCounted, WcPlaces

LEMMA CharStep ==
    ASSUME AsCounted, job' = job, WcChar(Fs)
    PROVE  AsCounted'
  <1> DEFINE c == This.data[pos + 1]
  <1>1. /\ pc = "count" /\ pos < Len(This.data)
        /\ stats' = StatsAfter(stats, prev_char, curr_len, c)
        /\ prev_char' = c /\ curr_len' = LineAfter(curr_len, c) /\ pos' = pos + 1
        /\ UNCHANGED <<pc, fileno, is_open, argi, rows, total>>
    BY DEF WcChar, WordStarted, StatsAfter, LineAfter, This, Newline
  <1>2. WcJob(job) /\ WordsRead /\ RowsSoFar
    BY DEF AsCounted
  <1>3. /\ fileno < Len(Fs) /\ This.fails # "open" /\ pos \in 0 .. Len(This.data)
        /\ Counted(stats, prev_char, curr_len, This.data, pos)
    BY <1>1 DEF AsCounted, Counting
  <1> HIDE DEF c
  <1>4. pos \in Nat /\ pos' \in 0 .. Len(This.data)
    <2>1. Len(This.data) \in Nat
      BY <1>3, JobIs
    <2> QED BY <1>1, <1>3, <2>1
  <1>5. Counted(stats', prev_char', curr_len', This.data, pos')
    BY <1>1, <1>3, <1>4, CountedMore DEF c
  <1>6. WordsRead'
    BY <1>1, <1>2 DEF WordsRead, Fs
  <1>7. RowsSoFar'
    BY <1>1, <1>2, RowsStay
  <1>8. Counting'
    <2>1. Fs' = Fs /\ This' = This
      BY <1>1 DEF Fs, This
    <2> QED BY <1>1, <1>3, <1>4, <1>5, <2>1 DEF Counting
  <1>9. AllCounted'
    BY <1>1 DEF AllCounted
  <1> QED BY <1>1, <1>2, <1>6, <1>7, <1>8, <1>9 DEF AsCounted, WcPlaces

LEMMA EofStep ==
    ASSUME AsCounted, job' = job, WcEof(Fs)
    PROVE  AsCounted'
  <1>1. /\ pc = "count" /\ pos = Len(This.data)
        /\ \/ This.fails = "read" /\ pc' = "failed"
           \/ This.fails # "read" /\ stats' = Ended /\ pc' = "counted"
        /\ UNCHANGED <<fileno, is_open, argi, rows, total>>
    BY DEF WcEof, StopWith, Goto, This, ferror
  <1>2. WcJob(job) /\ WordsRead /\ RowsSoFar
    BY DEF AsCounted
  <1>3. /\ fileno < Len(Fs) /\ This.fails # "open"
        /\ Counted(stats, prev_char, curr_len, This.data, pos)
    BY <1>1 DEF AsCounted, Counting
  <1>4. This.data \in Seq(Range(This.data))
    BY <1>3, JobIs
  <1>5. Ended = StatsWhole(stats, curr_len)
    <2>1. \E l, w, b, m : stats = [lines |-> l, words |-> w, bytes |-> b, max_len |-> m]
      BY <1>3 DEF Counted
    <2>2. PICK l, w, b, m : stats = [lines |-> l, words |-> w, bytes |-> b, max_len |-> m]
      BY <2>1
    <2>3. stats.lines = l /\ stats.words = w /\ stats.bytes = b /\ stats.max_len = m
      BY <2>2
    <2>4. Ended = [stats EXCEPT !.bytes = b + curr_len, !.max_len = int_max(m, curr_len)]
      BY <2>3 DEF Ended
    <2>5. Ended = [lines |-> l, words |-> w, bytes |-> b + curr_len, max_len |-> int_max(m, curr_len)]
      BY <2>2, <2>4, TwoFields
    <2> QED BY <2>3, <2>5 DEF StatsWhole
  <1>6. Ended = CountOf(Fs, fileno + 1) /\ Ended.max_len \in Nat
    <2>1. StatsWhole(stats, curr_len) = C!Counts(This.data) /\ StatsWhole(stats, curr_len).max_len \in Nat
      BY <1>1, <1>3, <1>4, CountedAll
    <2> QED BY <1>5, <2>1 DEF CountOf, This
  <1>7. pc' \in {"failed", "counted"} /\ (pc' = "counted" => This.fails # "read" /\ stats' = Ended)
    BY <1>1
  <1>8. WordsRead'
    BY <1>1, <1>2, <1>7 DEF WordsRead, Fs
  <1>9. RowsSoFar'
    BY <1>1, <1>2, RowsStay
  <1>10. Counting'
    <2>1. Fs' = Fs /\ This' = This
      BY <1>1 DEF Fs, This
    <2>2. pc' = "failed" => This.fails # "none"
      BY <1>1
    <2>3. pc' = "counted" => /\ This.fails \notin {"open", "read"}
                             /\ stats' = CountOf(Fs, fileno + 1) /\ stats'.max_len \in Nat
      BY <1>3, <1>6, <1>7
    <2> QED BY <1>1, <1>3, <1>7, <2>1, <2>2, <2>3 DEF Counting
  <1>11. AllCounted'
    BY <1>7 DEF AllCounted
  <1> QED BY <1>2, <1>7, <1>8, <1>9, <1>10, <1>11 DEF AsCounted, WcPlaces

LEMMA CloseStep ==
    ASSUME AsCounted, job' = job, WcClose(Fs)
    PROVE  AsCounted'
  <1>1. /\ pc = "counted" /\ is_open /\ ~is_open'
        /\ \/ /\ This.fails = "close" /\ pc' = "failed"
              /\ UNCHANGED <<fileno, rows, total>>
           \/ /\ This.fails # "close" /\ pc' = "next"
              /\ \E r : r.stats = stats /\ rows' = Append(rows, r)
              /\ total' = Added(total, stats) /\ fileno' = fileno + 1
        /\ UNCHANGED argi
    BY DEF WcClose, StopWith, Goto, This, Row, Added
  <1>2. WcJob(job) /\ WordsRead /\ RowsSoFar
    BY DEF AsCounted
  <1>3. /\ fileno < Len(Fs) /\ This.fails \notin {"open", "read"}
        /\ stats = CountOf(Fs, fileno + 1) /\ stats.max_len \in Nat
    BY <1>1 DEF AsCounted, Counting
  <1>4. pc' \in {"failed", "next"} /\ (pc' = "failed" => This.fails # "none")
    BY <1>1
  <1>5. WordsRead'
    <2>1. argi # Len(job.argv)
      BY <1>1, <1>2 DEF WordsRead
    <2> QED BY <1>1, <1>2, <1>4, <2>1 DEF WordsRead, Fs
  <1>6. AllCounted'
    BY <1>4 DEF AllCounted
  <1>7. CASE This.fails = "close"
    <2>1. pc' = "failed" /\ UNCHANGED <<fileno, rows, total>>
      BY <1>1, <1>7
    <2>2. RowsSoFar'
      BY <1>1, <1>2, <2>1, RowsStay
    <2>3. Fs' = Fs /\ This' = This
      BY <2>1 DEF Fs, This
    <2>4. Counting'
      BY <1>3, <1>7, <2>1, <2>3 DEF Counting
    <2> QED BY <1>2, <1>4, <1>5, <1>6, <2>2, <2>4 DEF AsCounted, WcPlaces
  <1>8. CASE This.fails # "close"
    <2>1. pc' = "next" /\ total' = Added(total, stats) /\ fileno' = fileno + 1
      BY <1>1, <1>8
    <2>2. PICK r : r.stats = stats /\ rows' = Append(rows, r)
      BY <1>1, <1>8
    <2>3. This.fails = "none"
      <3>1. This.fails \in {"none", "open", "read", "close"}
        BY <1>3, JobIs
      <3> QED BY <1>3, <1>8, <3>1
    <2>4. /\ rows \in Seq(Range(rows)) /\ Len(rows) = fileno
          /\ \A i \in 1 .. fileno : Fs[i].fails = "none" /\ rows[i].stats = CountOf(Fs, i)
          /\ TotalOf(total, Fs, fileno)
      BY <1>1, <1>2 DEF RowsSoFar
    <2>5. /\ rows' \in Seq(Range(rows')) /\ Len(rows') = fileno + 1
          /\ \A i \in 1 .. fileno : rows'[i] = rows[i]
          /\ rows'[fileno + 1] = r
      BY <2>2, <2>4, OneMore
    <2>6. Len(Fs) \in Nat /\ fileno \in Nat
      BY JobIs
    <2>7. fileno + 1 \in 0 .. Len(Fs) /\ fileno \in 0 .. Len(Fs) - 1
      BY <1>3, <2>6
    <2>8. TotalOf(total', Fs, fileno + 1)
      BY <1>3, <2>1, <2>4, <2>6, <2>7, TotalMore
    <2>9. \A i \in 1 .. fileno + 1 : i \in 1 .. fileno \/ i = fileno + 1
      BY <2>6
    <2>10. \A i \in 1 .. fileno + 1 : Fs[i].fails = "none" /\ rows'[i].stats = CountOf(Fs, i)
      BY <1>3, <2>2, <2>3, <2>4, <2>5, <2>9 DEF This
    <2>11. RowsSoFar'
      <3>1. Fs' = Fs
        BY DEF Fs
      <3> QED BY <2>1, <2>5, <2>7, <2>8, <2>10, <3>1 DEF RowsSoFar
    <2>12. Counting'
      BY <2>1 DEF Counting
    <2> QED BY <1>2, <1>4, <1>5, <1>6, <2>11, <2>12 DEF AsCounted, WcPlaces
  <1> QED BY <1>7, <1>8

LEMMA StdinStep ==
    ASSUME AsCounted, job' = job, WcStdin
    PROVE  AsCounted'
  <1>1. /\ pc = "counted" /\ ~is_open /\ pc' = "done"
        /\ \E r : r.stats = stats /\ rows' = Append(rows, r)
        /\ UNCHANGED <<fileno, is_open, argi, total>>
    BY DEF WcStdin, Goto, Row
  <1>2. PICK r : r.stats = stats /\ rows' = Append(rows, r)
    BY <1>1
  <1>3. WcJob(job) /\ WordsRead /\ RowsSoFar
    BY DEF AsCounted
  <1>4. /\ fileno < Len(Fs) /\ This.fails \notin {"open", "read"} /\ stats = CountOf(Fs, fileno + 1)
    BY <1>1 DEF AsCounted, Counting
  <1>5. Len(Fs) = 1 /\ Fs[1].fails \in {"none", "read"}
    <2>1. IsStdin(Fs)
      BY <1>1, <1>3 DEF WordsRead
    <2> QED BY <2>1 DEF IsStdin
  <1>6. fileno = 0 /\ fileno + 1 = 1
    <2>1. fileno \in Nat
      BY JobIs
    <2> QED BY <1>4, <1>5, <2>1
  <1>7. rows \in Seq(Range(rows)) /\ Len(rows) = fileno /\ TotalOf(total, Fs, fileno)
    BY <1>1, <1>3 DEF RowsSoFar
  <1>8. rows' \in Seq(Range(rows')) /\ Len(rows') = 1 /\ rows'[1] = r
    <2>1. Len(rows) = 0 /\ Len(rows) + 1 = 1
      BY <1>6, <1>7
    <2>2. rows' \in Seq(Range(rows')) /\ Len(rows') = Len(rows) + 1 /\ rows'[Len(rows) + 1] = r
      BY <1>2, <1>7, OneMore
    <2> QED BY <2>1, <2>2
  <1>9. Fs' = Fs
    BY DEF Fs
  <1>10. WordsRead'
    BY <1>1, <1>3, <1>9 DEF WordsRead
  <1>11. RowsSoFar'
    <2>1. fileno' = 0 /\ 0 \in 0 .. Len(Fs) /\ \A i \in 1 .. 0 : FALSE
      BY <1>1, <1>5, <1>6
    <2>2. TotalOf(total', Fs', fileno')
      BY <1>1, <1>7, <1>9
    <2> QED BY <1>1, <1>8, <1>9, <2>1, <2>2 DEF RowsSoFar
  <1>12. Counting'
    BY <1>1 DEF Counting
  <1>13. AllCounted'
    <2>1. Fs[1].fails = "none" /\ rows'[1].stats = CountOf(Fs, 1)
      BY <1>2, <1>4, <1>5, <1>6, <1>8 DEF This
    <2>2. \A i \in 1 .. Len(Fs) : i = 1
      BY <1>5
    <2>3. \A i \in 1 .. Len(Fs) : Fs[i].fails = "none" /\ rows'[i].stats = CountOf(Fs, i)
      BY <2>1, <2>2
    <2>4. ~(Len(Fs) > 1)
      BY <1>5
    <2> QED BY <1>5, <1>8, <1>9, <2>3, <2>4 DEF AllCounted
  <1> QED BY <1>1, <1>3, <1>10, <1>11, <1>12, <1>13 DEF AsCounted, WcPlaces

LEMMA TotalStep ==
    ASSUME AsCounted, job' = job, WcTotal(Len(job.argv) - argi)
    PROVE  AsCounted'
  <1> DEFINE r == Row("total", total)
  <1>1. /\ pc = "next" /\ fileno = Len(job.argv) - argi /\ pc' = "done"
        /\ rows' = IF fileno > 1 THEN Append(rows, r) ELSE rows
        /\ UNCHANGED <<fileno, is_open, argi, total>>
    BY DEF WcTotal, Goto
  <1>2. WcJob(job) /\ WordsRead /\ RowsSoFar
    BY DEF AsCounted
  <1>3. Len(Fs) = fileno /\ Len(Fs) \in Nat
    BY <1>1, <1>2, JobIs DEF WordsRead
  <1>4. /\ rows \in Seq(Range(rows)) /\ Len(rows) = fileno
        /\ \A i \in 1 .. fileno : Fs[i].fails = "none"
        /\ \A i \in 1 .. fileno : rows[i].stats = CountOf(Fs, i)
        /\ TotalOf(total, Fs, fileno)
    BY <1>1, <1>2 DEF RowsSoFar
  <1>5. r.stats = total
    BY DEF Row
  <1> HIDE DEF r
  <1>6. /\ rows' \in Seq(Range(rows'))
        /\ \A i \in 1 .. fileno : rows'[i] = rows[i]
        /\ Len(rows') = IF fileno > 1 THEN fileno + 1 ELSE fileno
        /\ fileno > 1 => rows'[fileno + 1] = r
    <2>1. CASE fileno > 1
      <3>1. rows' = Append(rows, r)
        BY <1>1, <2>1
      <3> QED BY <1>4, <2>1, <3>1, OneMore
    <2>2. CASE ~(fileno > 1)
      <3>1. rows' = rows
        BY <1>1, <2>2
      <3> QED BY <1>4, <2>2, <3>1
    <2> QED BY <2>1, <2>2
  <1>7. Fs' = Fs
    BY DEF Fs
  <1>8. WordsRead'
    BY <1>1, <1>2, <1>7 DEF WordsRead
  <1>9. \A i \in 1 .. fileno : rows'[i].stats = CountOf(Fs, i)
    BY <1>4, <1>6
  <1>10. RowsSoFar'
    <2>1. fileno \in 0 .. Len(Fs)
      BY <1>3
    <2>2. TotalOf(total', Fs', fileno')
      BY <1>1, <1>4, <1>7
    <2> QED BY <1>1, <1>4, <1>6, <1>7, <1>9, <2>1, <2>2 DEF RowsSoFar
  <1>11. Counting'
    BY <1>1 DEF Counting
  <1>12. AllCounted'
    BY <1>1, <1>3, <1>4, <1>5, <1>6, <1>7, <1>9 DEF AllCounted
  <1> QED BY <1>1, <1>2, <1>8, <1>10, <1>11, <1>12 DEF AsCounted, WcPlaces

-----------------------------------------------------------------------------
(***************************************************************************)
(* wc counts right.                                                        *)
(***************************************************************************)
LEMMA WcBegins == Init => WcInv
  <1> SUFFICES ASSUME Init, Runs("wc") PROVE AsCounted
    BY DEF WcInv
  <1>1. WcJob(job)
    BY JobsAssumption DEF Init, Runs
  <1>2. job.prog = "wc"
    BY DEF Runs
  <1>3. /\ pc = "words" /\ fileno = 0 /\ is_open = FALSE /\ pos = 0
        /\ argi = 1 /\ stats = stats_zero /\ prev_char = " " /\ curr_len = 0
        /\ total = stats_zero /\ rows = <<>>
    <2>1. Entry["wc"] = "words"
      BY DEF Entry
    <2>2. FilesInit(Entry["wc"]) /\ WcInit
      BY <1>2 DEF Init, Runs
    <2> QED BY <2>1, <2>2 DEF FilesInit, WcInit
  <1>4. Len(Fs) \in Nat /\ Len(job.argv) \in Nat /\ \E k \in 1 .. Len(job.argv) : TRUE
    BY <1>1 DEF WcJob, FilesHold, Fs
  <1>5. WordsRead
    <2>1. 1 \in 1 .. Len(job.argv) /\ \A i \in 2 .. 1 : FALSE
      BY <1>4
    <2> QED BY <1>3, <2>1 DEF WordsRead
  <1>6. RowsSoFar
    <2>1. 0 \in 0 .. Len(Fs) /\ \A i \in 1 .. 0 : FALSE
      BY <1>4
    <2>2. rows \in Seq(Range(rows)) /\ Len(rows) = 0
      BY <1>3, EmptySeq
    <2> QED BY <1>3, <2>1, <2>2, TotalNone DEF RowsSoFar
  <1>7. Counting /\ AllCounted
    BY <1>3 DEF Counting, AllCounted
  <1> QED BY <1>1, <1>3, <1>5, <1>6, <1>7 DEF AsCounted, WcPlaces

LEMMA WcGoesOn == WcInv /\ [Next]_vars => WcInv'
  <1> SUFFICES ASSUME WcInv, [Next]_vars PROVE WcInv'
    OBVIOUS
  <1>1. job' = job
    BY DEF vars, Next, Convert, Silence, FindOption, Format, Hexdump, Wc, Cat
  <1>2. CASE ~Runs("wc")
    BY <1>1, <1>2 DEF WcInv, Runs
  <1>3. CASE Runs("wc")
    <2>1. AsCounted
      BY <1>3 DEF WcInv
    <2>2. CASE Next
      <3>1. wc(job.argv, Fs)
        BY <1>3, <2>2 DEF Next, Convert, Silence, FindOption, Format, Hexdump, Wc, Cat, Runs, Fs
      <3>2. AsCounted'
        BY <1>1, <2>1, <3>1, ArgsStep, OperandsStep, WcOpenStep, CharStep, EofStep, CloseStep,
           StdinStep, TotalStep DEF wc
      <3> QED BY <3>2 DEF WcInv
    <2>3. CASE UNCHANGED vars
      <3>1. UNCHANGED <<job, pc, fileno, is_open, pos, argi, stats, prev_char, curr_len, total, rows>>
        BY <2>3 DEF vars, files_vars, wc_vars
      <3>2. AsCounted'
        BY <2>1, <3>1 DEF AsCounted, WordsRead, RowsSoFar, Counting, AllCounted, This, Fs
      <3> QED BY <3>2 DEF WcInv
    <2> QED BY <2>2, <2>3
  <1> QED BY <1>2, <1>3

LEMMA WcInvCounts == WcInv => WcCounts
  <1> SUFFICES ASSUME WcInv, Runs("wc"), pc \in {"done", "failed"} PROVE WcCounts
    BY DEF WcCounts
  <1> DEFINE bad  == {i \in DOMAIN Fs : Fs[i].fails # "none"}
             good == IF bad = {} THEN Len(Fs) ELSE Min(bad) - 1
             sum  == [lines   |-> Together(LinesOf(Fs)), words |-> Together(WordsOf(Fs)),
                      bytes   |-> Together(BytesOf(Fs)),
                      max_len |-> Max({C!Counts(Fs[i].data).max_len : i \in 1 .. Len(Fs)})]
  <1>1. AsCounted
    BY DEF WcInv
  <1>2. /\ Len(Fs) \in Nat /\ DOMAIN Fs = 1 .. Len(Fs) /\ fileno \in Nat /\ fileno <= Len(Fs)
    BY <1>1, JobIs
  <1>3. RowsSoFar /\ Counting /\ AllCounted
    BY <1>1 DEF AsCounted
  <1>4. /\ (pc = "failed") = (bad # {})
        /\ Len(rows) = IF bad = {} /\ Len(Fs) > 1 THEN good + 1 ELSE good
        /\ \A i \in 1 .. good : rows[i].stats = CountOf(Fs, i)
    <2>1. CASE pc = "done"
      <3>1. /\ \A i \in 1 .. Len(Fs) : Fs[i].fails = "none" /\ rows[i].stats = CountOf(Fs, i)
            /\ Len(rows) = IF Len(Fs) > 1 THEN Len(Fs) + 1 ELSE Len(Fs)
        BY <1>3, <2>1 DEF AllCounted
      <3>2. bad = {}
        BY <1>2, <3>1
      <3>3. good = Len(Fs)
        BY <3>2
      <3> HIDE DEF bad, good
      <3> QED BY <2>1, <3>1, <3>2, <3>3
    <2>2. CASE pc = "failed"
      <3>1. fileno < Len(Fs) /\ This.fails # "none"
        BY <1>3, <2>2 DEF Counting
      <3>2. /\ \A i \in 1 .. fileno : Fs[i].fails = "none" /\ rows[i].stats = CountOf(Fs, i)
            /\ Len(rows) = fileno
        BY <1>3, <2>2 DEF RowsSoFar
      <3>3. fileno + 1 \in bad
        BY <1>2, <3>1 DEF This
      <3>4. \A i \in bad : fileno + 1 <= i
        <4> SUFFICES ASSUME NEW i \in bad, ~(fileno + 1 <= i) PROVE FALSE
          OBVIOUS
        <4>1. i \in 1 .. Len(Fs) /\ Fs[i].fails # "none"
          BY <1>2
        <4>2. i \in 1 .. fileno
          BY <1>2, <4>1
        <4> QED BY <3>2, <4>1, <4>2
      <3>5. bad \subseteq Int
        BY <1>2
      <3> HIDE DEF bad
      <3>6. Min(bad) = fileno + 1
        BY <3>3, <3>4, <3>5, MinIs
      <3>7. bad # {} /\ good = fileno
        <4>1. bad # {}
          BY <3>3
        <4>2. good = Min(bad) - 1
          BY <4>1
        <4> HIDE DEF good
        <4>3. good = fileno
          BY <1>2, <3>6, <4>2
        <4> QED BY <4>1, <4>3
      <3> HIDE DEF good
      <3> QED BY <2>2, <3>2, <3>7
    <2> QED BY <2>1, <2>2
  <1>5. ASSUME Len(rows) > good PROVE rows[good + 1].stats = sum
    <2>1. bad = {} /\ Len(Fs) > 1
      <3> HIDE DEF bad
      <3>1. good \in Int
        <4>1. CASE bad = {}
          BY <1>2, <4>1
        <4>2. CASE bad # {}
          <5>1. pc = "failed"
            BY <1>4, <4>2
          <5>2. Len(rows) = fileno
            BY <1>3, <5>1 DEF RowsSoFar
          <5>3. Len(rows) = good
            BY <1>4, <4>2
          <5> QED BY <1>2, <5>2, <5>3
        <4> QED BY <4>1, <4>2
      <3> HIDE DEF good
      <3> QED BY <1>4, <1>5, <3>1
    <2>2. good = Len(Fs) /\ pc = "done"
      BY <1>4, <2>1
    <2>3. fileno = Len(Fs) /\ rows[Len(Fs) + 1].stats = total
      BY <1>3, <2>1, <2>2 DEF AllCounted
    <2>4. TotalOf(total, Fs, Len(Fs))
      BY <1>3, <2>3 DEF RowsSoFar
    <2>5. /\ Len(LinesOf(Fs)) = Len(Fs) /\ Len(WordsOf(Fs)) = Len(Fs) /\ Len(BytesOf(Fs)) = Len(Fs)
      BY <1>2 DEF LinesOf, WordsOf, BytesOf
    <2>6. /\ Together(LinesOf(Fs)) = SumOf(LinesOf(Fs), Len(Fs))
          /\ Together(WordsOf(Fs)) = SumOf(WordsOf(Fs), Len(Fs))
          /\ Together(BytesOf(Fs)) = SumOf(BytesOf(Fs), Len(Fs))
      BY <2>5, TogetherIs
    <2>7. Max({C!Counts(Fs[i].data).max_len : i \in 1 .. Len(Fs)}) = total.max_len
      <3> DEFINE M == {C!Counts(Fs[i].data).max_len : i \in 1 .. Len(Fs)}
      <3>1. /\ total.max_len \in Nat
            /\ \A i \in 1 .. Len(Fs) : C!Counts(Fs[i].data).max_len \in 0 .. total.max_len
            /\ total.max_len = 0 \/ \E i \in 1 .. Len(Fs) : C!Counts(Fs[i].data).max_len = total.max_len
        BY <2>4 DEF TotalOf, Greatest, CountOf
      <3>2. M \subseteq Int /\ \A y \in M : total.max_len >= y
        BY <3>1
      <3>3. total.max_len \in M
        <4>1. CASE total.max_len = 0
          <5>1. 1 \in 1 .. Len(Fs)
            BY <1>2, <2>1
          <5>2. C!Counts(Fs[1].data).max_len = 0
            BY <3>1, <4>1, <5>1
          <5> QED BY <4>1, <5>1, <5>2
        <4>2. CASE \E i \in 1 .. Len(Fs) : C!Counts(Fs[i].data).max_len = total.max_len
          BY <4>2
        <4> QED BY <3>1, <4>1, <4>2
      <3> HIDE DEF M
      <3>4. Max(M) = total.max_len
        BY <3>2, <3>3, MaxIs
      <3> QED BY <3>4 DEF M
    <2>8. total = sum
      <3>1. total = [lines |-> SumOf(LinesOf(Fs), Len(Fs)), words |-> SumOf(WordsOf(Fs), Len(Fs)),
                     bytes |-> SumOf(BytesOf(Fs), Len(Fs)), max_len |-> total.max_len]
        BY <2>4 DEF TotalOf
      <3> QED BY <2>6, <2>7, <3>1, Zenon
    <2> QED BY <2>2, <2>3, <2>8
  <1> QED BY <1>4, <1>5 DEF WcCounts, CountOf, LinesOf, WordsOf, BytesOf, Fs

\* wc's rows are the counts of its files, lines, words, bytes and the longest
\* line, and of them together, up to the first file that fails: for any files
\* and any options.
THEOREM WcIsRight == Spec => []WcCounts
  <1> QED BY WcBegins, WcGoesOn, WcInvCounts, PTL DEF Spec

-----------------------------------------------------------------------------
(***************************************************************************)
(* hexdump: the bytes of the files, and how what was dumped grows.         *)
(***************************************************************************)
Begins(s, t) == \E r \in Seq(Bytes) : t = s \o r

LEMMA BeginsIs ==
    ASSUME NEW s \in Seq(Bytes), NEW t, Begins(s, t)
    PROVE  t \in Seq(Bytes) /\ Len(s) <= Len(t) /\ Len(s) \in Nat /\ Len(t) \in Nat /\ s = Take(t, Len(s))
  <1>1. PICK r \in Seq(Bytes) : t = s \o r
    BY DEF Begins
  <1>2. t \in Seq(Bytes) /\ Len(t) = Len(s) + Len(r) /\ Len(s) \in Nat /\ Len(r) \in Nat
    BY <1>1, ConcatProperties
  <1>3. Take(t, Len(s)) = Take(s, Len(s))
    BY <1>1, <1>2, TakeFull
  <1>4. Take(s, Len(s)) = s
    BY <1>2, TakeAll
  <1> QED BY <1>2, <1>3, <1>4

LEMMA BeginsMore ==
    ASSUME NEW s \in Seq(Bytes), NEW t \in Seq(Bytes), NEW u \in Seq(Bytes), Begins(s, t)
    PROVE  Begins(s, t \o u)
  <1>1. PICK r \in Seq(Bytes) : t = s \o r
    BY DEF Begins
  <1>2. (s \o r) \o u = s \o (r \o u) /\ r \o u \in Seq(Bytes)
    BY <1>1, ConcatAssociative, ConcatProperties
  <1> QED BY <1>1, <1>2 DEF Begins

LEMMA BeginsItself == ASSUME NEW s \in Seq(Bytes) PROVE Begins(s, s)
  <1>1. s \o <<>> = s /\ <<>> \in Seq(Bytes)
    BY ConcatEmptySeq, EmptySeq
  <1> QED BY <1>1 DEF Begins

LEMMA BeginsOfBegins ==
    ASSUME NEW s \in Seq(Bytes), NEW t, NEW u, Begins(s, t), Begins(t, u)
    PROVE  Begins(s, u)
  <1>1. t \in Seq(Bytes)
    BY BeginsIs
  <1>2. PICK q \in Seq(Bytes) : u = t \o q
    BY DEF Begins
  <1> QED BY <1>1, <1>2, BeginsMore

LEMMA DataBegins ==
    ASSUME FilesHold(Fs), NEW n \in 0 .. Len(Fs), NEW m \in n .. Len(Fs)
    PROVE  Begins(Data(Fs, n), Data(Fs, m)) /\ Len(Data(Fs, n)) \in Nat /\ Len(Data(Fs, n)) <= Len(Data(Fs, m))
  <1> DEFINE T == {k \in Nat : n + k <= Len(Fs) => Begins(Data(Fs, n), Data(Fs, n + k))}
  <1>1. FilesIn(Bytes) /\ Len(Fs) \in Nat /\ \A i \in 0 .. Len(Fs) : Data(Fs, i) \in Seq(Bytes)
    BY BytesAre DEF FilesHold, FilesIn
  <1>2. \A i \in 0 .. Len(Fs) - 1 : Held(Fs[i + 1]) \in Seq(Bytes)
    BY <1>1, EmptySeq DEF FilesIn, Held
  <1> HIDE DEF Bytes
  <1>3. 0 \in T
    <2>1. Begins(Data(Fs, n), Data(Fs, n)) /\ n + 0 = n
      <3>1. Data(Fs, n) \in Seq(Bytes)
        BY <1>1
      <3> QED BY <1>1, <3>1, BeginsItself
    <2> QED BY <2>1
  <1>4. ASSUME NEW k \in Nat, k \in T PROVE k + 1 \in T
    <2> SUFFICES ASSUME n + (k + 1) <= Len(Fs) PROVE Begins(Data(Fs, n), Data(Fs, n + (k + 1)))
      OBVIOUS
    <2>1. Begins(Data(Fs, n), Data(Fs, n + k))
      BY <1>1, <1>4
    <2>2. PICK i \in 0 .. Len(Fs) - 1 : i = n + k /\ i + 1 = n + (k + 1) /\ i \in 0 .. Len(Fs)
      BY <1>1
    <2>3. Data(Fs, i + 1) = Data(Fs, i) \o Held(Fs[i + 1])
      BY <1>1, <2>2 DEF FilesIn
    <2>4. Begins(Data(Fs, n), Data(Fs, i) \o Held(Fs[i + 1]))
      BY <1>1, <1>2, <2>1, <2>2, BeginsMore
    <2> QED BY <2>2, <2>3, <2>4
  <1> HIDE DEF T
  <1>5. m - n \in T
    <2>1. \A k \in Nat : k \in T
      BY <1>3, <1>4, Induct
    <2> QED BY <1>1, <2>1
  <1>6. Begins(Data(Fs, n), Data(Fs, m))
    <2>1. m - n \in Nat /\ n + (m - n) = m
      BY <1>1
    <2> QED BY <1>1, <1>5, <2>1 DEF T
  <1> QED BY <1>1, <1>6, BeginsIs

LEMMA DumpGrows ==
    ASSUME NEW S, dump \in Seq(Range(dump)), \A i \in 1 .. Len(dump) : dump[i].bytes \in Seq(S),
           NEW x, x.bytes \in Seq(S), dump' = Append(dump, x)
    PROVE  Dumped' = Dumped \o x.bytes /\ Dumped \in Seq(S)
  <1> DEFINE n == Len(dump)
             s == [i \in DOMAIN dump |-> dump[i].bytes]
             t == [i \in DOMAIN dump' |-> dump'[i].bytes]
             b == x.bytes
             c == Append(s, b)
  <1>1. /\ n \in Nat /\ DOMAIN dump = 1 .. n /\ DOMAIN dump' = 1 .. n + 1
        /\ dump'[n + 1] = x /\ \A i \in 1 .. n : dump'[i] = dump[i]
    <2>1. /\ dump' \in Seq(Range(dump')) /\ n \in Nat /\ Len(dump') = n + 1
          /\ dump'[n + 1] = x /\ \A i \in 1 .. n : dump'[i] = dump[i]
      BY OneMore
    <2> QED BY <2>1, LenProperties
  <1> HIDE DEF n
  <1>2. s \in Seq(Seq(S)) /\ Len(s) = n /\ \A i \in 1 .. n : s[i] = dump[i].bytes
    <2>1. s \in [1 .. n -> Seq(S)]
      BY <1>1 DEF n
    <2>2. s \in Seq(Seq(S)) /\ DOMAIN s = 1 .. n
      BY <1>1, <2>1, SeqDef
    <2>3. Len(s) = n
      BY <1>1, <2>2, LenProperties
    <2> QED BY <1>1, <2>2, <2>3
  <1>3. \A i \in 1 .. n + 1 : t[i] = IF i = n + 1 THEN b ELSE dump[i].bytes
    BY <1>1
  <1>4. t \in Seq(Seq(S)) /\ Len(t) = n + 1
    <2>1. t \in [1 .. n + 1 -> Seq(S)]
      <3>1. \A i \in 1 .. n + 1 : t[i] \in Seq(S)
        BY <1>1, <1>3 DEF n
      <3> QED BY <1>1, <3>1
    <2>2. t \in Seq(Seq(S)) /\ DOMAIN t = 1 .. n + 1
      BY <1>1, <2>1, SeqDef
    <2> QED BY <1>1, <2>2, LenProperties
  <1>5. Dumped = FlattenSeq(s) /\ Dumped' = FlattenSeq(t)
    BY DEF Dumped
  <1> HIDE DEF s, t
  <1>6. c \in Seq(Seq(S)) /\ Len(c) = n + 1 /\ c[n + 1] = b /\ \A i \in 1 .. n : c[i] = s[i]
    BY <1>2, AppendProperties
  <1> HIDE DEF c
  <1>7. \A i \in 1 .. n + 1 : t[i] = c[i]
    <2>1. \A i \in 1 .. n + 1 : i # n + 1 => i \in 1 .. n
      BY <1>1
    <2> QED BY <1>2, <1>3, <1>6, <2>1
  <1>8. t = c
    <2>1. t \in Seq(Seq(S)) /\ c \in Seq(Seq(S)) /\ Len(t) = Len(c)
      BY <1>4, <1>6
    <2>2. \A i \in 1 .. Len(t) : t[i] = c[i]
      BY <1>4, <1>7
    <2> QED BY <2>1, <2>2, SeqEqual
  <1>9. FlattenSeq(c) = FlattenSeq(s) \o b
    BY <1>2, FlattenMore DEF c
  <1>10. FlattenSeq(s) \in Seq(S)
    BY <1>2, FlattenIn
  <1> QED BY <1>5, <1>8, <1>9, <1>10

-----------------------------------------------------------------------------
(***************************************************************************)
(* What was read of the files, what of it counts, and what is lost.        *)
(***************************************************************************)
N        == nfiles(job.argv)
Open     == Opened(job.argv)
Seen     == Data(Fs, fileno) \o (IF Open THEN SubSeq(This.data, 1, pos) ELSE <<>>)

\* The bytes of the chunk being read
Kept     == IF pc \in {"open", "close"} THEN buf \o part ELSE IF pc \in {"read", "chunk"} THEN buf ELSE <<>>
Taken   == Dumped \o Kept

Room     == IF offset + CHUNK_SIZE > conf.limit THEN conf.limit - offset ELSE CHUNK_SIZE
AtEnd    == N > 0 /\ fileno = N /\ ~is_open
AtEof    == N = 0 /\ pc \in {"chunk", "done"} /\ want > 0
Reading  == pc \in {"open", "read", "close", "chunk"}

\* Where the program is, and which file is open
Where == /\ N \in Nat /\ Len(Fs) \in Nat /\ fileno \in 0 .. Len(Fs) /\ is_open \in BOOLEAN
         /\ IF N = 0 THEN IsStdin(Fs) /\ fileno = 0 /\ ~is_open ELSE Len(Fs) = N
         /\ is_open => fileno < N /\ This.fails # "open"
         /\ Open => pos \in 0 .. Len(This.data)
         /\ pc = "open" => N > 0 /\ ~is_open
         /\ pc = "read" => Open
         /\ pc = "close" => is_open
         /\ pc = "close" \/ AtEof => pos = Len(This.data)
         /\ pc = "chunk" /\ want > 0 => AtEnd \/ AtEof
         /\ pc = "done" => offset >= conf.limit \/ AtEnd \/ AtEof

\* The bytes that are counted, and those that the limit leaves
Counts == /\ conf.limit \in Nat /\ offset \in 0 .. conf.limit /\ offset = Len(Dumped) /\ want \in Nat
          /\ Reading => offset < conf.limit /\ want = Room - Len(buf)
          /\ pc \in {"open", "close"} \/ (pc = "chunk" /\ want > 0) => Len(part) < want
          /\ N = 0 /\ pc = "loop" => want = 0
          /\ N = 0 /\ pc \in {"read", "chunk"} /\ want > 0 => buf = <<>>

\* All that was seen is in the dump or the chunk, but for less than a chunk
\* at the end
IsLost(lost) == /\ lost \in Seq(Bytes) /\ Seen = Taken \o lost /\ Len(lost) < CHUNK_SIZE
                /\ lost # <<>> => (AtEnd \/ AtEof) /\ (pc = "open" => buf = <<>> /\ part = <<>>)
Whole == /\ buf \in Seq(Bytes) /\ part \in Seq(Bytes)
         /\ dump \in Seq(Range(dump)) /\ \A i \in 1 .. Len(dump) : dump[i].bytes \in Seq(Bytes)
         /\ \E lost : IsLost(lost)

\* The chunks of the dump are full but the last.
AllFull == offset = Len(dump) * CHUNK_SIZE /\ \A i \in 1 .. Len(dump) : Len(dump[i].bytes) = CHUNK_SIZE
Full == /\ \A i \in 1 .. Len(dump) : /\ dump[i].at = (i - 1) * CHUNK_SIZE
                                     /\ i < Len(dump) => Len(dump[i].bytes) = CHUNK_SIZE
        /\ \/ offset >= conf.limit
           \/ AllFull
           \/ (AtEnd \/ AtEof) /\ (pc \in {"open", "chunk"} => buf = <<>>)

\* What failed was reported, and is up to the limit.
Met  == pc = "close" \/ AtEof
Told == /\ reports \in Seq(Range(reports))
        /\ (reports # <<>>) <=> \/ \E i \in 1 .. fileno : Fs[i].fails # "none"
                                \/ Met /\ This.fails = "read"
        /\ fileno > 0 => Len(Data(Fs, fileno)) < conf.limit
        /\ Met => Len(Data(Fs, fileno + 1)) < conf.limit

Places == {"loop", "open", "read", "close", "chunk", "done"}
Works == pc \in Places /\ Where /\ Counts /\ Whole /\ Full /\ Told

\* While the options are read: where getopt is, and the words it takes
Ahead(i, k) == LET words == Tail(job.argv)
               IN  /\ Place(words, optind, curr_arg, i, k)
                   /\ 1 + C!Options(words, OptionSpec).used = i + Rest(words, OptionSpec, i, k).used
Fresh   == /\ fileno = 0 /\ is_open = FALSE /\ pos = 0 /\ reports = <<>>
           /\ offset = 0 /\ want = 0 /\ buf = <<>> /\ part = <<>> /\ dump = <<>>
Arguing == /\ pc = "args" /\ conf \in [limit : Nat, canonical : BOOLEAN] /\ Fresh
           /\ complaints \in Seq(Range(complaints))
           /\ \E i, k \in Nat : Ahead(i, k)

HexInv == Runs("hexdump") => HexJob(job) /\ (pc = "usage" \/ Arguing \/ Works)

-----------------------------------------------------------------------------
(***************************************************************************)
(* What was read is where the files begin.                                 *)
(***************************************************************************)
LEMMA AtFile ==
    ASSUME HexJob(job), Where
    PROVE  /\ FilesHold(Fs) /\ FilesIn(Bytes) /\ Len(Fs) \in Nat /\ fileno \in 0 .. Len(Fs)
           /\ Data(Fs, fileno) \in Seq(Bytes) /\ Everything = Data(Fs, Len(Fs)) /\ Everything \in Seq(Bytes)
           /\ Open => /\ fileno \in 0 .. Len(Fs) - 1 /\ This.data \in Seq(Bytes) /\ Len(This.data) \in Nat
                      /\ pos \in 0 .. Len(This.data) /\ This.fails # "open"
                      /\ Data(Fs, fileno + 1) = Data(Fs, fileno) \o This.data
  <1>1. FilesHold(Fs) /\ FilesIn(Bytes)
    BY BytesAre DEF HexJob, Fs
  <1>2. Len(Fs) \in Nat /\ fileno \in 0 .. Len(Fs) /\ N \in Nat
    BY DEF Where
  <1>3. \A n \in 0 .. Len(Fs) : Data(Fs, n) \in Seq(Bytes)
    BY <1>1 DEF FilesIn
  <1>4. ASSUME Open
        PROVE  fileno \in 0 .. Len(Fs) - 1 /\ This.fails # "open" /\ pos \in 0 .. Len(This.data)
    <2>1. pos \in 0 .. Len(This.data)
      BY <1>4 DEF Where
    <2>2. CASE N = 0
      <3>1. IsStdin(Fs) /\ fileno = 0
        BY <2>2 DEF Where
      <3>2. Len(Fs) = 1 /\ This.fails \in {"none", "read"}
        BY <3>1 DEF IsStdin, This
      <3> QED BY <2>1, <3>1, <3>2
    <2>3. CASE N # 0
      <3>1. is_open /\ fileno < N /\ Len(Fs) = N /\ This.fails # "open"
        BY <1>4, <2>3 DEF Open, Opened, N, Where
      <3> QED BY <1>2, <2>1, <3>1
    <2> QED BY <2>2, <2>3
  <1>5. ASSUME Open
        PROVE  This.data \in Seq(Bytes) /\ Data(Fs, fileno + 1) = Data(Fs, fileno) \o This.data
    <2>1. This.data \in Seq(Bytes) /\ Data(Fs, fileno + 1) = Data(Fs, fileno) \o Held(This)
      BY <1>1, <1>4, <1>5 DEF FilesIn, This
    <2>2. Held(This) = This.data
      BY <1>4, <1>5 DEF Held
    <2> QED BY <2>1, <2>2
  <1>6. Everything = Data(Fs, Len(Fs)) /\ Everything \in Seq(Bytes)
    <2>1. Len(Fs) \in 0 .. Len(Fs)
      BY <1>2
    <2> QED BY <1>3, <2>1 DEF Everything, Fs
  <1>7. Open => Len(This.data) \in Nat
    BY <1>5, LenProperties
  <1> QED BY <1>1, <1>2, <1>3, <1>4, <1>5, <1>6, <1>7

LEMMA SeenIs ==
    ASSUME HexJob(job), Where
    PROVE  /\ Seen \in Seq(Bytes) /\ Len(Seen) \in Nat /\ Begins(Seen, Everything)
           /\ Open => /\ Len(Seen) = Len(Data(Fs, fileno)) + pos
                      /\ pos = Len(This.data) => Seen = Data(Fs, fileno + 1)
           /\ ~Open => Seen = Data(Fs, fileno)
           /\ AtEnd \/ AtEof => Seen = Everything
  <1> DEFINE before == Data(Fs, fileno)
             d      == This.data
  <1>1. FilesHold(Fs) /\ Len(Fs) \in Nat /\ fileno \in 0 .. Len(Fs) /\ before \in Seq(Bytes)
    BY AtFile
  <1>2. Everything = Data(Fs, Len(Fs)) /\ Everything \in Seq(Bytes)
    BY AtFile
  <1>3. CASE ~Open
    <2>1. Seen = before
      <3>1. before \o <<>> = before
        BY <1>1, ConcatEmptySeq
      <3> QED BY <1>3, <3>1 DEF Seen
    <2>2. Begins(before, Everything)
      <3>1. Len(Fs) \in fileno .. Len(Fs)
        BY <1>1
      <3> QED BY <1>1, <1>2, <3>1, DataBegins
    <2>3. AtEnd => fileno = Len(Fs)
      BY <1>1 DEF AtEnd, Where
    <2>4. ~AtEof
      BY <1>3 DEF AtEof, Open, Opened, N
    <2> QED BY <1>1, <1>2, <1>3, <2>1, <2>2, <2>3, <2>4, LenProperties
  <1>4. CASE Open
    <2> DEFINE a == SubSeq(d, 1, pos)
               b == SubSeq(d, pos + 1, Len(d))
    <2>1. /\ fileno \in 0 .. Len(Fs) - 1 /\ d \in Seq(Bytes) /\ pos \in 0 .. Len(d) /\ Len(d) \in Nat
          /\ Data(Fs, fileno + 1) = before \o d
      BY <1>4, AtFile
    <2> HIDE DEF before, d
    <2>2. a \in Seq(Bytes) /\ Len(a) = pos /\ b \in Seq(Bytes) /\ a \o b = d /\ (pos = Len(d) => a = d)
      <3>1. \A i \in 1 .. Len(d) : d[i] \in Bytes
        BY <2>1, ElementOfSeq
      <3>2. a \in Seq(Bytes) /\ b \in Seq(Bytes)
        BY <2>1, <3>1, SubSeqProperties
      <3>3. Len(a) = pos
        <4>1. Len(a) = IF 1 <= pos THEN pos - 1 + 1 ELSE 0
          BY <2>1, <3>1, SubSeqProperties
        <4> QED BY <2>1, <4>1
      <3>4. SubSeq(d, 1, Len(d)) = d
        BY <2>1, SubSeqFull
      <3>5. a \o b = SubSeq(d, 1, Len(d))
        <4>1. 1 \in 1 .. Len(d) + 1 /\ pos \in 1 - 1 .. Len(d) /\ Len(d) \in pos .. Len(d)
          BY <2>1
        <4> QED BY <2>1, <4>1, ConcatAdjacentSubSeq
      <3> QED BY <3>2, <3>3, <3>4, <3>5
    <2>3. Seen = before \o a
      BY <1>4 DEF Seen, before, d
    <2> HIDE DEF a, b
    <2>4. Seen \in Seq(Bytes) /\ Len(Seen) = Len(before) + pos /\ Len(Seen) \in Nat
      BY <1>1, <2>2, <2>3, ConcatProperties, LenProperties
    <2>5. Begins(Seen, Data(Fs, fileno + 1))
      <3>1. (before \o a) \o b = before \o (a \o b)
        <4> DEFINE S == Bytes
        <4>1. before \in Seq(S) /\ a \in Seq(S) /\ b \in Seq(S)
          BY <1>1, <2>2 DEF before
        <4> HIDE DEF S
        <4> QED BY <4>1, ConcatAssociative
      <3>2. Data(Fs, fileno + 1) = Seen \o b
        BY <2>1, <2>2, <2>3, <3>1
      <3> QED BY <2>2, <3>2 DEF Begins
    <2>6. Begins(Seen, Everything)
      <3>1. fileno + 1 \in 0 .. Len(Fs) /\ Len(Fs) \in fileno + 1 .. Len(Fs)
        BY <1>1, <2>1
      <3>2. Begins(Data(Fs, fileno + 1), Everything)
        BY <1>1, <1>2, <3>1, DataBegins
      <3> QED BY <2>4, <2>5, <3>2, BeginsOfBegins
    <2>7. pos = Len(d) => Seen = Data(Fs, fileno + 1)
      BY <2>1, <2>2, <2>3
    <2>8. ~AtEnd
      BY <1>4 DEF AtEnd, Open, Opened, N
    <2>9. AtEof => pos = Len(d) /\ fileno + 1 = Len(Fs)
      BY DEF AtEof, Where, IsStdin, d
    <2> QED BY <1>2, <1>4, <2>4, <2>6, <2>7, <2>8, <2>9 DEF before, d
  <1> QED BY <1>3, <1>4

-----------------------------------------------------------------------------
(***************************************************************************)
(* What holds at every step.                                               *)
(***************************************************************************)
\* hexdump's own steps leave its job and the options alone.
Still == UNCHANGED <<job, getopt_vars>>

LEMMA StillThere ==
    ASSUME Still PROVE job' = job /\ Fs' = Fs /\ Bytes' = Bytes /\ N' = N
  <1>1. job' = job /\ optind' = optind
    BY DEF Still, getopt_vars
  <1>2. Fs' = Fs
    BY <1>1 DEF Fs
  <1>3. Bytes' = Bytes
    BY <1>2 DEF Bytes, FilesIn
  <1>4. N' = N
    BY <1>1 DEF N, nfiles, Argc
  <1> QED BY <1>1, <1>2, <1>3, <1>4

Sound == HexJob(job) /\ Where /\ Counts /\ Whole

LEMMA TakenIs ==
    ASSUME Sound
    PROVE  /\ Dumped \in Seq(Bytes) /\ Kept \in Seq(Bytes) /\ Taken \in Seq(Bytes) /\ Seen \in Seq(Bytes)
           /\ buf \in Seq(Bytes) /\ part \in Seq(Bytes) /\ Len(buf) \in Nat /\ Len(part) \in Nat
           /\ Len(Kept) \in Nat /\ Len(Seen) \in Nat /\ offset \in Nat /\ Len(Taken) = offset + Len(Kept)
           /\ offset + Len(Kept) <= Len(Seen) /\ Len(Seen) <= Len(Everything) /\ Len(Everything) \in Nat
  <1>1. /\ buf \in Seq(Bytes) /\ part \in Seq(Bytes) /\ dump \in Seq(Range(dump))
        /\ \A i \in 1 .. Len(dump) : dump[i].bytes \in Seq(Bytes)
    BY DEF Sound, Whole
  <1>2. Dumped \in Seq(Bytes)
    <2> DEFINE s == [i \in DOMAIN dump |-> dump[i].bytes]
    <2>1. Len(dump) \in Nat /\ DOMAIN dump = 1 .. Len(dump)
      BY <1>1, LenProperties
    <2>2. s \in [1 .. Len(dump) -> Seq(Bytes)]
      BY <1>1, <2>1
    <2>3. s \in Seq(Seq(Bytes))
      BY <2>1, <2>2, SeqDef
    <2>4. FlattenSeq(s) \in Seq(Bytes)
      <3> HIDE DEF s
      <3> QED BY <2>3, FlattenIn
    <2> QED BY <2>4 DEF Dumped
  <1>3. Kept \in Seq(Bytes)
    <2>1. buf \o part \in Seq(Bytes) /\ <<>> \in Seq(Bytes)
      BY <1>1, ConcatProperties, EmptySeq
    <2> QED BY <1>1, <2>1 DEF Kept
  <1>4. offset \in Nat /\ offset = Len(Dumped)
    BY DEF Sound, Counts
  <1>5. Taken \in Seq(Bytes) /\ Len(Taken) = offset + Len(Kept)
    BY <1>2, <1>3, <1>4, ConcatProperties DEF Taken
  <1>6. Seen \in Seq(Bytes) /\ Begins(Seen, Everything)
    BY SeenIs DEF Sound
  <1>7. Len(Seen) <= Len(Everything) /\ Len(Seen) \in Nat /\ Len(Everything) \in Nat
    BY <1>6, BeginsIs
  <1>8. Begins(Taken, Seen)
    <2>1. PICK lost : IsLost(lost)
      BY DEF Sound, Whole
    <2> QED BY <2>1 DEF IsLost, Begins
  <1>9. Len(Taken) <= Len(Seen)
    BY <1>5, <1>8, BeginsIs
  <1>10. Len(buf) \in Nat /\ Len(part) \in Nat /\ Len(Kept) \in Nat
    BY <1>1, <1>3, LenProperties
  <1> QED BY <1>1, <1>2, <1>3, <1>4, <1>5, <1>6, <1>7, <1>9, <1>10

\* The room that a chunk has is that of the code: the sum does not wrap.
LEMMA RoomIs ==
    ASSUME Sound, offset < conf.limit
    PROVE  /\ Wanted = Room /\ Room \in 1 .. CHUNK_SIZE /\ offset + Room <= conf.limit
           /\ CHUNK_SIZE \in Nat \ {0} /\ conf.limit \in Nat
           /\ Room # CHUNK_SIZE => offset + Room = conf.limit
  <1>1. CHUNK_SIZE \in Nat \ {0}
    BY ChunkAssumption
  <1>2. offset \in Nat /\ conf.limit \in Nat
    BY DEF Sound, Counts
  <1>3. offset + CHUNK_SIZE <= ULONG_MAX
    <2>1. Len(Everything) + CHUNK_SIZE <= ULONG_MAX
      BY DEF Sound, HexJob, Everything
    <2>2. offset <= Len(Everything) /\ Len(Everything) \in Nat
      <3>1. offset + Len(Kept) <= Len(Seen) /\ Len(Seen) <= Len(Everything) /\ Len(Everything) \in Nat
            /\ Len(Kept) \in Nat /\ Len(Seen) \in Nat
        BY TakenIs
      <3> QED BY <1>2, <3>1
    <2>3. ULONG_MAX \in Nat
      BY MaximumIs
    <2> QED BY <1>1, <1>2, <2>1, <2>2, <2>3
  <1>4. Unsigned(offset + CHUNK_SIZE, LONG_BITS) = offset + CHUNK_SIZE
    <2>1. ULONG_MAX \in Nat /\ ULONG_MAX + 1 = 2 ^ LONG_BITS
      BY MaximumIs
    <2>2. \A m \in Nat : \A x \in 0 .. m : x % (m + 1) = x
      OBVIOUS
    <2>3. offset + CHUNK_SIZE \in 0 .. ULONG_MAX
      BY <1>1, <1>2, <1>3, <2>1
    <2> QED BY <2>1, <2>2, <2>3 DEF Unsigned
  <1>5. Wanted = Room
    BY <1>4 DEF Wanted, Room
  <1> QED BY <1>1, <1>2, <1>5 DEF Room

LEMMA NothingLost ==
    ASSUME Sound, ~AtEnd, ~AtEof PROVE Seen = Taken
  <1>1. PICK lost : IsLost(lost)
    BY DEF Sound, Whole
  <1>2. lost = <<>> /\ Seen = Taken \o lost
    BY <1>1 DEF IsLost
  <1>3. Taken \o <<>> = Taken
    BY TakenIs, ConcatEmptySeq
  <1> QED BY <1>2, <1>3

\* What a step leaves as it was
LEMMA AllKept ==
    ASSUME Still, Whole, dump' = dump,
           buf' \in Seq(Bytes), part' \in Seq(Bytes), Taken' \in Seq(Bytes), Seen' = Taken'
    PROVE  Whole'
  <1>1. Bytes' = Bytes
    BY StillThere
  <1>2. CHUNK_SIZE \in Nat \ {0}
    BY ChunkAssumption
  <1>3. <<>> \in Seq(Bytes) /\ Taken' = Taken' \o <<>> /\ Len(<<>>) = 0
    <2> DEFINE s == Taken'
    <2>1. s \in Seq(Bytes)
      OBVIOUS
    <2> HIDE DEF s
    <2>2. s \o <<>> = s /\ <<>> \in Seq(Bytes)
      BY <2>1, ConcatEmptySeq, EmptySeq
    <2> QED BY <2>2 DEF s
  <1>4. Seen' = Taken' \o <<>>
    BY <1>3
  <1>5. \E lost : IsLost(lost)'
    <2>1. ASSUME NEW lost, lost = <<>> PROVE IsLost(lost)'
      <3>1. Len(lost) < CHUNK_SIZE
        BY <1>2, <1>3, <2>1
      <3>2. lost \in Seq(Bytes') /\ Seen' = Taken' \o lost
        BY <1>1, <1>3, <1>4, <2>1
      <3> QED BY <2>1, <3>1, <3>2 DEF IsLost
    <2> QED BY <2>1
  <1> QED BY <1>1, <1>5 DEF Whole

\* A step that stays in its file
SameFile == Open' = Open /\ This' = This /\ Seen' = Seen /\ AtEnd' = AtEnd

LEMMA SameFileIs == ASSUME Still, UNCHANGED <<fileno, is_open, pos>> PROVE SameFile
  <1>1. Fs' = Fs /\ N' = N /\ job' = job
    BY StillThere
  <1>2. Open' = Open
    BY <1>1 DEF Open, Opened, N
  <1>3. This' = This
    BY <1>1 DEF This
  <1>4. Seen' = Seen
    BY <1>1, <1>2, <1>3 DEF Seen
  <1> QED BY <1>1, <1>2, <1>3, <1>4 DEF SameFile, AtEnd

LEMMA SameDump ==
    ASSUME Full, dump' = dump, offset' = offset, conf' = conf,
           (AtEnd \/ AtEof) /\ (pc \in {"open", "chunk"} => buf = <<>>) =>
             (AtEnd \/ AtEof)' /\ (pc' \in {"open", "chunk"} => buf' = <<>>)
    PROVE  Full'
  BY DEF Full, AllFull

LEMMA SameTold ==
    ASSUME Still, Told, reports' = reports, fileno' = fileno, conf' = conf, Met' <=> Met
    PROVE  Told'
  <1>1. Fs' = Fs
    BY StillThere
  <1> QED BY <1>1 DEF Told, This

-----------------------------------------------------------------------------
(***************************************************************************)
(* The steps, one after another.                                           *)
(***************************************************************************)
LEMMA NextChunkStep ==
    ASSUME HexJob(job), Works, Still, NextChunk(job.argv) PROVE Works'
  <1>1. job' = job /\ Fs' = Fs /\ Bytes' = Bytes /\ N' = N
    BY StillThere
  <1>2. /\ pc = "loop" /\ offset < conf.limit /\ want' = Wanted /\ buf' = <<>> /\ part' = <<>>
        /\ pc' = (IF Open THEN "read" ELSE "open")
        /\ UNCHANGED <<fileno, is_open, pos, reports, conf, offset, dump>>
    BY DEF NextChunk, Goto, Open
  <1>3. SameFile /\ Dumped' = Dumped /\ ~AtEof /\ ~AtEof'
    BY <1>2, SameFileIs DEF AtEof, Dumped
  <1>4. Sound
    BY DEF Works, Sound
  <1>5. Wanted = Room /\ Room \in 1 .. CHUNK_SIZE /\ CHUNK_SIZE \in Nat
    BY <1>2, <1>4, RoomIs
  <1>6. Room' = Room
    BY <1>2 DEF Room
  <1>7. Where'
    <2>1. ~Open => N > 0 /\ ~is_open
      BY DEF Open, Opened, N, Works, Where
    <2> QED BY <1>1, <1>2, <1>3, <2>1 DEF Works, Where, SameFile
  <1>8. Counts'
    <2>1. want' \in Nat /\ want' = Room' - Len(buf') /\ Len(buf') = 0 /\ Len(part') = 0 /\ want' > 0
      BY <1>2, <1>5, <1>6
    <2> QED BY <1>1, <1>2, <1>3, <2>1 DEF Works, Counts, Reading, SameFile
  <1>9. Whole'
    <2>1. Taken' = Taken
      <3>1. Kept = <<>>
        BY <1>2 DEF Kept
      <3>2. <<>> \o <<>> = <<>>
        OBVIOUS
      <3>3. Kept' = <<>>
        BY <1>2, <3>2 DEF Kept
      <3> QED BY <1>3, <3>1, <3>3 DEF Taken
    <2>2. PICK lost : IsLost(lost)
      BY DEF Works, Whole
    <2>3. IsLost(lost)'
      BY <1>1, <1>2, <1>3, <2>1, <2>2 DEF IsLost, SameFile
    <2>4. \E l : IsLost(l)'
      BY <2>3
    <2>5. <<>> \in Seq(Bytes)
      BY EmptySeq
    <2> QED BY <1>1, <1>2, <2>4, <2>5 DEF Works, Whole
  <1>10. Full'
    BY <1>2, <1>3, SameDump DEF Works, SameFile
  <1>11. Told'
    <2>1. ~Met /\ ~Met'
      BY <1>2, <1>3 DEF Met
    <2> QED BY <1>2, <2>1, SameTold DEF Works
  <1>12. pc' \in Places
    BY <1>2 DEF Places
  <1> QED BY <1>7, <1>8, <1>9, <1>10, <1>11, <1>12 DEF Works

LEMMA AtLimitStep ==
    ASSUME HexJob(job), Works, Still, AtLimit PROVE Works'
  <1>1. job' = job /\ Fs' = Fs /\ Bytes' = Bytes /\ N' = N
    BY StillThere
  <1>2. /\ pc = "loop" /\ offset >= conf.limit /\ pc' = "done"
        /\ UNCHANGED <<fileno, is_open, pos, reports, conf, offset, want, buf, part, dump>>
    BY DEF AtLimit, Goto, ChunkVars
  <1>3. SameFile /\ Dumped' = Dumped /\ ~AtEof /\ ~AtEof'
    <2>1. N = 0 => want = 0
      BY <1>2 DEF Works, Counts
    <2> QED BY <1>1, <1>2, <2>1, SameFileIs DEF AtEof, Dumped
  <1>4. Where'
    BY <1>1, <1>2, <1>3 DEF Works, Where, SameFile
  <1>5. Counts'
    BY <1>1, <1>2, <1>3 DEF Works, Counts, Reading, SameFile
  <1>6. Whole'
    <2>1. Kept = <<>> /\ Kept' = <<>>
      BY <1>2 DEF Kept
    <2>2. Taken' = Taken
      BY <1>3, <2>1 DEF Taken
    <2>3. PICK lost : IsLost(lost)
      BY DEF Works, Whole
    <2>4. IsLost(lost)'
      BY <1>1, <1>2, <1>3, <2>2, <2>3 DEF IsLost, SameFile
    <2>5. \E l : IsLost(l)'
      BY <2>4
    <2> QED BY <1>1, <1>2, <2>5 DEF Works, Whole
  <1>7. Full'
    BY <1>2, <1>3, SameDump DEF Works, SameFile
  <1>8. Told'
    <2>1. ~Met /\ ~Met'
      BY <1>2, <1>3 DEF Met
    <2> QED BY <1>2, <2>1, SameTold DEF Works
  <1>9. pc' \in Places
    BY <1>2 DEF Places
  <1> QED BY <1>4, <1>5, <1>6, <1>7, <1>8, <1>9 DEF Works

LEMMA OpenNextStep ==
    ASSUME HexJob(job), Works, Still, OpenNext(job.argv, Fs) PROVE Works'
  <1>1. job' = job /\ Fs' = Fs /\ Bytes' = Bytes /\ N' = N
    BY StillThere
  <1>2. /\ pc = "open" /\ fileno < N /\ This.fails # "open" /\ is_open' = TRUE /\ pos' = 0
        /\ want' = want - Len(part) /\ buf' = buf \o part /\ part' = <<>> /\ pc' = "read"
        /\ UNCHANGED <<fileno, reports, conf, offset, dump>>
    BY DEF OpenNext, Resumed, Goto, Stream, This, N, Fs
  <1>3. Sound
    BY DEF Works, Sound
  <1>4. N > 0 /\ N \in Nat /\ Len(Fs) = N /\ ~Open /\ ~AtEnd /\ ~AtEof /\ ~AtEnd' /\ ~AtEof' /\ Open'
    BY <1>1, <1>2 DEF Works, Where, Open, Opened, N, AtEnd, AtEof
  <1>5. This' = This /\ Dumped' = Dumped /\ Room' = Room
    BY <1>1, <1>2 DEF This, Dumped, Room
  <1>6. Len(This.data) \in Nat /\ Data(Fs, fileno) \in Seq(Bytes)
    <2>1. FilesIn(Bytes) /\ fileno \in 0 .. Len(Fs) - 1 /\ fileno \in 0 .. Len(Fs)
      BY <1>2, <1>3, <1>4, AtFile DEF Sound, Where
    <2>2. This.data \in Seq(Bytes) /\ Data(Fs, fileno) \in Seq(Bytes)
      BY <2>1 DEF FilesIn, This
    <2> QED BY <2>2, LenProperties
  <1>7. /\ Len(part) < want /\ want = Room - Len(buf) /\ want \in Nat /\ offset < conf.limit
        /\ Len(buf) \in Nat /\ Len(part) \in Nat
    <2>1. Len(buf) \in Nat /\ Len(part) \in Nat
      BY <1>3, TakenIs
    <2> QED BY <1>2, <2>1 DEF Works, Counts, Reading
  <1>8. buf' \in Seq(Bytes) /\ Len(buf') = Len(buf) + Len(part) /\ Kept = buf'
    BY <1>2, <1>3, TakenIs, ConcatProperties DEF Kept
  <1>9. Where'
    BY <1>1, <1>2, <1>4, <1>5, <1>6 DEF Works, Where
  <1>10. Counts'
    <2>1. want' \in Nat /\ want' = Room - Len(buf')
      <3>1. Room \in Nat
        BY <1>3, <1>7, RoomIs
      <3> QED BY <1>2, <1>7, <1>8, <3>1
    <2> QED BY <1>1, <1>2, <1>4, <1>5, <1>7, <2>1 DEF Works, Counts, Reading
  <1>11. Whole'
    <2>1. Taken' = Taken /\ Taken \in Seq(Bytes) /\ Seen = Taken
      <3>1. Kept' = Kept
        BY <1>2, <1>8 DEF Kept
      <3> QED BY <1>3, <1>4, <1>5, <3>1, TakenIs, NothingLost DEF Taken
    <2>2. Seen = Data(Fs, fileno)
      BY <1>3, <1>4, SeenIs DEF Sound
    <2>3. Seen' = Data(Fs, fileno)
      <3>1. SubSeq(This.data, 1, 0) = <<>>
        BY SubSeqEmpty
      <3>2. Seen' = Data(Fs, fileno) \o SubSeq(This.data, 1, 0)
        BY <1>1, <1>2, <1>4, <1>5 DEF Seen
      <3>3. Data(Fs, fileno) \o <<>> = Data(Fs, fileno)
        BY <1>6, ConcatEmptySeq
      <3> QED BY <3>1, <3>2, <3>3
    <2>4. part' \in Seq(Bytes) /\ Seen' = Taken'
      BY <1>2, <2>1, <2>2, <2>3, EmptySeq
    <2> QED BY <1>2, <1>8, <2>1, <2>4, AllKept DEF Works
  <1>12. Full'
    BY <1>2, <1>4, SameDump DEF Works
  <1>13. Told'
    <2>1. ~Met /\ ~Met'
      BY <1>2, <1>4 DEF Met
    <2> QED BY <1>2, <2>1, SameTold DEF Works
  <1>14. pc' \in Places
    BY <1>2 DEF Places
  <1> QED BY <1>9, <1>10, <1>11, <1>12, <1>13, <1>14 DEF Works

LEMMA CannotOpenStep ==
    ASSUME HexJob(job), Works, Still, CannotOpen(job.argv, Fs) PROVE Works'
  <1>1. job' = job /\ Fs' = Fs /\ Bytes' = Bytes /\ N' = N
    BY StillThere
  <1>2. /\ pc = "open" /\ fileno < N /\ This.fails = "open" /\ fileno' = fileno + 1
        /\ reports' = Append(reports, <<"open", fileno>>) /\ pc' = "open"
        /\ UNCHANGED <<is_open, pos, conf, offset, want, buf, part, dump>>
    BY DEF CannotOpen, Report, Stream, This, N, Fs, ChunkVars
  <1>3. Sound
    BY DEF Works, Sound
  <1>4. /\ N > 0 /\ N \in Nat /\ Len(Fs) = N /\ ~Open /\ ~AtEnd /\ ~AtEof /\ ~AtEof' /\ ~Open' /\ ~is_open
        /\ fileno \in 0 .. Len(Fs) - 1
    BY <1>1, <1>2 DEF Works, Where, Open, Opened, N, AtEnd, AtEof
  <1>5. Dumped' = Dumped /\ Room' = Room /\ Kept' = Kept
    BY <1>2 DEF Dumped, Room, Kept
  <1>6. Data(Fs, fileno + 1) = Data(Fs, fileno) /\ Data(Fs, fileno) \in Seq(Bytes)
    <2>1. FilesIn(Bytes) /\ fileno \in 0 .. Len(Fs)
      BY <1>3, AtFile DEF Sound
    <2>2. Data(Fs, fileno + 1) = Data(Fs, fileno) \o <<>> /\ Data(Fs, fileno) \in Seq(Bytes)
      BY <1>2, <1>4, <2>1 DEF FilesIn, Held, This
    <2>3. Data(Fs, fileno) \o <<>> = Data(Fs, fileno)
      BY <2>2, ConcatEmptySeq
    <2> QED BY <2>2, <2>3
  <1>7. Where'
    BY <1>1, <1>2, <1>4 DEF Works, Where
  <1>8. Counts'
    BY <1>1, <1>2, <1>4, <1>5 DEF Works, Counts, Reading
  <1>9. Taken' = Taken /\ Taken \in Seq(Bytes) /\ Seen = Taken
    BY <1>3, <1>4, <1>5, TakenIs, NothingLost DEF Taken
  <1>10. Seen = Data(Fs, fileno)
    BY <1>3, <1>4, SeenIs DEF Sound
  <1>11. Whole'
    <2>1. Seen' = Data(Fs, fileno)
      <3>1. Seen' = Data(Fs, fileno + 1) \o <<>>
        BY <1>1, <1>2, <1>4 DEF Seen
      <3>2. Data(Fs, fileno) \o <<>> = Data(Fs, fileno)
        BY <1>6, ConcatEmptySeq
      <3> QED BY <1>6, <3>1, <3>2
    <2>2. part' \in Seq(Bytes) /\ buf' \in Seq(Bytes)
      BY <1>2, <1>3, TakenIs
    <2> QED BY <1>2, <1>9, <1>10, <2>1, <2>2, AllKept DEF Works
  <1>12. Full'
    BY <1>2, <1>4, SameDump DEF Works
  <1>13. Told'
    <2>1. ~Met /\ ~Met'
      BY <1>2, <1>4 DEF Met
    <2>2. reports' \in Seq(Range(reports')) /\ reports' # <<>>
      <3>1. reports \in Seq(Range(reports))
        BY DEF Works, Told
      <3>2. reports' \in Seq(Range(reports')) /\ Len(reports') = Len(reports) + 1 /\ Len(reports) \in Nat
        BY <1>2, <3>1, OneMore
      <3> QED BY <3>2
    <2>3. fileno + 1 \in 1 .. fileno + 1 /\ Fs[fileno + 1].fails # "none"
      BY <1>2, <1>4 DEF This
    <2>4. Len(Data(Fs, fileno + 1)) < conf.limit
      <3>1. Len(Taken) = offset + Len(Kept) /\ Len(Kept) = Len(buf) + Len(part)
        <4>1. buf \in Seq(Bytes) /\ part \in Seq(Bytes) /\ Kept = buf \o part
          BY <1>2, <1>3, TakenIs DEF Kept
        <4> QED BY <1>3, <4>1, TakenIs, ConcatProperties
      <3>2. offset + Room <= conf.limit /\ Room \in Nat /\ conf.limit \in Nat /\ offset < conf.limit
        <4>1. offset < conf.limit
          BY <1>2 DEF Works, Counts, Reading
        <4> QED BY <1>3, <4>1, RoomIs
      <3>3. Len(part) < want /\ want = Room - Len(buf)
        BY <1>2 DEF Works, Counts, Reading
      <3>4. Len(buf) \in Nat /\ Len(part) \in Nat /\ offset \in Nat
        BY <1>3, TakenIs
      <3>5. offset + (Len(buf) + Len(part)) < conf.limit
        BY <3>2, <3>3, <3>4
      <3> QED BY <1>6, <1>9, <1>10, <3>1, <3>5
    <2> QED BY <1>1, <1>2, <2>1, <2>2, <2>3, <2>4 DEF Told
  <1>14. pc' \in Places
    BY <1>2 DEF Places
  <1> QED BY <1>7, <1>8, <1>11, <1>12, <1>13, <1>14 DEF Works

LEMMA NoNextStep ==
    ASSUME HexJob(job), Works, Still, NoNext(job.argv) PROVE Works'
  <1>1. job' = job /\ Fs' = Fs /\ Bytes' = Bytes /\ N' = N
    BY StillThere
  <1>2. /\ pc = "open" /\ fileno = N /\ pc' = "chunk"
        /\ UNCHANGED <<fileno, is_open, pos, reports, conf, offset, want, buf, part, dump>>
    BY DEF NoNext, Goto, N, ChunkVars
  <1>3. Sound
    BY DEF Works, Sound
  <1>4. SameFile /\ Dumped' = Dumped /\ Room' = Room /\ N > 0 /\ AtEnd /\ AtEnd' /\ ~AtEof /\ ~AtEof'
    <2>1. N > 0 /\ ~is_open
      BY <1>2 DEF Works, Where
    <2>2. SameFile
      BY <1>2, SameFileIs
    <2> QED BY <1>1, <1>2, <2>1, <2>2 DEF AtEnd, AtEof, Dumped, Room
  <1>5. Where'
    BY <1>1, <1>2, <1>4 DEF Works, Where, SameFile
  <1>6. Counts'
    BY <1>1, <1>2, <1>4 DEF Works, Counts, Reading
  <1>7. Whole'
    <2>1. PICK lost : IsLost(lost)
      BY DEF Works, Whole
    <2>2. lost \in Seq(Bytes) /\ Len(lost) < CHUNK_SIZE /\ Seen = Taken \o lost
          /\ (lost # <<>> => part = <<>>)
      BY <1>2, <2>1 DEF IsLost
    <2>3. /\ buf \in Seq(Bytes) /\ part \in Seq(Bytes) /\ Dumped \in Seq(Bytes)
          /\ Len(buf) \in Nat /\ Len(part) \in Nat
      BY <1>3, TakenIs
    <2>4. part \o lost \in Seq(Bytes) /\ Len(part \o lost) < CHUNK_SIZE
      <3>1. Len(part \o lost) = Len(part) + Len(lost) /\ part \o lost \in Seq(Bytes) /\ Len(lost) \in Nat
        BY <2>2, <2>3, ConcatProperties, LenProperties
      <3>2. Len(part) < CHUNK_SIZE
        <4>1. Len(part) < want /\ want = Room - Len(buf) /\ offset < conf.limit
          BY <1>2 DEF Works, Counts, Reading
        <4>2. Room \in 1 .. CHUNK_SIZE /\ CHUNK_SIZE \in Nat
          BY <1>3, <4>1, RoomIs
        <4> QED BY <2>3, <4>1, <4>2
      <3>3. CASE lost = <<>>
        <4>1. Len(lost) = 0
          BY <3>3
        <4> QED BY <2>3, <3>1, <3>2, <4>1
      <3>4. CASE lost # <<>>
        <4>1. Len(part) = 0
          BY <2>2, <3>4
        <4> QED BY <2>2, <3>1, <4>1
      <3> QED BY <3>3, <3>4
    <2>5. Taken \o lost = Taken' \o (part \o lost)
      <3>1. Taken = Dumped \o (buf \o part) /\ Taken' = Dumped \o buf
        BY <1>2, <1>4 DEF Taken, Kept
      <3> DEFINE S == Bytes
                 d == Dumped
      <3>2. d \in Seq(S) /\ buf \in Seq(S) /\ part \in Seq(S) /\ lost \in Seq(S)
        BY <2>2, <2>3
      <3> HIDE DEF S, d
      <3>3. part \o lost \in Seq(S) /\ buf \o part \in Seq(S)
        BY <3>2, ConcatProperties
      <3>4. (d \o (buf \o part)) \o lost = d \o ((buf \o part) \o lost)
        BY <3>2, <3>3, ConcatAssociative
      <3>5. (buf \o part) \o lost = buf \o (part \o lost)
        BY <3>2, ConcatAssociative
      <3>6. (d \o buf) \o (part \o lost) = d \o (buf \o (part \o lost))
        BY <3>2, <3>3, ConcatAssociative
      <3>7. (d \o (buf \o part)) \o lost = (d \o buf) \o (part \o lost)
        BY <3>4, <3>5, <3>6
      <3> QED BY <3>1, <3>7 DEF d
    <2>6. \E l : IsLost(l)'
      <3>1. Seen' = Taken' \o (part \o lost)
        BY <1>4, <2>2, <2>5 DEF SameFile
      <3>2. ASSUME NEW l, l = part \o lost PROVE IsLost(l)'
        BY <1>1, <1>2, <1>4, <2>4, <3>1, <3>2 DEF IsLost
      <3> QED BY <3>2
    <2> QED BY <1>1, <1>2, <2>6 DEF Works, Whole
  <1>8. Full'
    BY <1>2, <1>4, SameDump DEF Works
  <1>9. Told'
    <2>1. ~Met /\ ~Met'
      BY <1>2, <1>4 DEF Met
    <2> QED BY <1>2, <2>1, SameTold DEF Works
  <1>10. pc' \in Places
    BY <1>2 DEF Places
  <1> QED BY <1>5, <1>6, <1>7, <1>8, <1>9, <1>10 DEF Works

\* What fread gives goes on where the bytes that were seen end.
ReadsOn(bytes) ==
    /\ bytes \in Seq(Bytes) /\ Len(bytes) \in Nat /\ Len(bytes) <= want
    /\ pos + Len(bytes) \in 0 .. Len(This.data) /\ (Len(bytes) < want => pos + Len(bytes) = Len(This.data))
    /\ Data(Fs, fileno) \o SubSeq(This.data, 1, pos + Len(bytes)) = Dumped \o (buf \o bytes)
    /\ Len(Dumped \o (buf \o bytes)) = offset + Len(buf) + Len(bytes)
    /\ Dumped \o (buf \o bytes) \in Seq(Bytes) /\ buf \o bytes \in Seq(Bytes)
    /\ Dumped \o (buf \o bytes) = (Dumped \o buf) \o bytes
    /\ Len(buf \o bytes) = Len(buf) + Len(bytes)

LEMMA ReadIsOn ==
    ASSUME Sound, pc = "read", want > 0 PROVE ReadsOn(fread(This, want)) /\ Open /\ ~AtEnd /\ ~AtEof
  <1> DEFINE bytes == fread(This, want)
             d     == This.data
             n     == pos + Len(bytes)
             S     == Bytes
             before == Data(Fs, fileno)
             dumped == Dumped
  <1>1. want \in Nat \ {0} /\ Open /\ ~AtEnd /\ ~AtEof
    <2>1. Open /\ want \in Nat
      BY DEF Sound, Where, Counts
    <2> QED BY <2>1 DEF AtEnd, AtEof, Open, Opened, N
  <1>2. d \in Seq(S) /\ Len(d) \in Nat /\ pos \in 0 .. Len(d) /\ before \in Seq(S)
    BY <1>1, AtFile DEF Sound
  <1>3. /\ bytes \in Seq(S) /\ Len(bytes) = (IF pos + want <= Len(d) THEN want ELSE Len(d) - pos)
        /\ SubSeq(d, 1, pos) \o bytes = SubSeq(d, 1, n)
    BY <1>1, <1>2, FreadIs
  <1>4. Seen = before \o SubSeq(d, 1, pos) /\ Seen = Taken
    BY <1>1, NothingLost DEF Seen
  <1>5. Taken = dumped \o buf
    BY DEF Taken, Kept
  <1>6. /\ dumped \in Seq(S) /\ buf \in Seq(S) /\ Len(dumped) = offset /\ Len(buf) \in Nat /\ offset \in Nat
    <2>1. Dumped \in Seq(Bytes) /\ buf \in Seq(Bytes) /\ Len(buf) \in Nat /\ offset \in Nat
      BY TakenIs
    <2>2. Len(Dumped) = offset
      BY DEF Sound, Counts
    <2> QED BY <2>1, <2>2
  <1> HIDE DEF bytes, d, S, before, dumped
  <1>7. Len(bytes) \in Nat /\ Len(bytes) <= want /\ n \in 0 .. Len(d) /\ (Len(bytes) < want => n = Len(d))
    BY <1>1, <1>2, <1>3
  <1>8. /\ buf \o bytes \in Seq(S) /\ Len(buf \o bytes) = Len(buf) + Len(bytes)
        /\ dumped \o (buf \o bytes) \in Seq(S) /\ Len(dumped \o (buf \o bytes)) = offset + (Len(buf) + Len(bytes))
    <2> DEFINE c == buf \o bytes
    <2>1. c \in Seq(S) /\ Len(c) = Len(buf) + Len(bytes)
      BY <1>3, <1>6, ConcatProperties
    <2> HIDE DEF c
    <2>2. dumped \o c \in Seq(S) /\ Len(dumped \o c) = Len(dumped) + Len(c)
      <3>1. dumped \in Seq(S) /\ c \in Seq(S)
        BY <1>6, <2>1
      <3> QED BY <3>1, ConcatProperties
    <2> QED BY <1>6, <2>1, <2>2 DEF c
  <1>9. dumped \o (buf \o bytes) = (dumped \o buf) \o bytes
    <2>1. dumped \in Seq(S) /\ buf \in Seq(S) /\ bytes \in Seq(S)
      BY <1>3, <1>6
    <2> QED BY <2>1, ConcatAssociative, SMTT(40)
  <1>10. before \o SubSeq(d, 1, n) = (before \o SubSeq(d, 1, pos)) \o bytes
    <2>1. SubSeq(d, 1, pos) \in Seq(S)
      <3>1. \A i \in 1 .. pos : d[i] \in S
        BY <1>2
      <3>2. 1 \in Int /\ pos \in Int
        BY <1>2
      <3> QED BY <3>1, <3>2, SubSeqProperties
    <2> DEFINE a == SubSeq(d, 1, pos)
    <2>2. a \in Seq(S) /\ a \o bytes = SubSeq(d, 1, n)
      BY <1>3, <2>1
    <2> HIDE DEF a, n
    <2>3. (before \o a) \o bytes = before \o (a \o bytes)
      <3>1. before \in Seq(S) /\ a \in Seq(S) /\ bytes \in Seq(S)
        BY <1>2, <1>3, <2>2
      <3> QED BY <3>1, ConcatAssociative
    <2> QED BY <2>2, <2>3 DEF a
  <1>11. before \o SubSeq(d, 1, n) = dumped \o (buf \o bytes)
    BY <1>4, <1>5, <1>9, <1>10
  <1>12. Len(dumped \o (buf \o bytes)) = offset + Len(buf) + Len(bytes)
    BY <1>6, <1>7, <1>8
  <1> QED BY <1>1, <1>3, <1>7, <1>8, <1>9, <1>11, <1>12 DEF ReadsOn, bytes, d, S, before, dumped

LEMMA ReadAllStep ==
    ASSUME HexJob(job), Works, Still, ReadAll(job.argv, Fs) PROVE Works'
  <1> DEFINE bytes == fread(This, want)
  <1>1. job' = job /\ Fs' = Fs /\ Bytes' = Bytes /\ N' = N
    BY StillThere
  <1>2. /\ pc = "read" /\ want > 0 /\ Len(bytes) = want /\ want' = 0 /\ buf' = buf \o bytes /\ pos' = pos + want
        /\ UNCHANGED <<pc, fileno, is_open, reports, conf, offset, part, dump>>
    BY DEF ReadAll, Stream, This, Fs
  <1>3. Sound
    BY DEF Works, Sound
  <1>4. ReadsOn(bytes) /\ Open /\ ~AtEnd /\ ~AtEof
    BY <1>2, <1>3, ReadIsOn
  <1> HIDE DEF bytes
  <1>5. Open' /\ ~AtEnd' /\ ~AtEof' /\ This' = This /\ Dumped' = Dumped /\ Room' = Room
    BY <1>1, <1>2, <1>4 DEF Open, Opened, N, AtEnd, AtEof, This, Dumped, Room
  <1>6. Where'
    <2>1. pos' \in 0 .. Len(This.data)
      BY <1>2, <1>4 DEF ReadsOn
    <2> QED BY <1>1, <1>2, <1>4, <1>5, <2>1 DEF Works, Where
  <1>7. Counts'
    <2>1. want = Room - Len(buf) /\ Len(buf') = Len(buf) + want
      BY <1>2, <1>4 DEF Works, Counts, Reading, ReadsOn
    <2>2. Len(buf) \in Nat /\ Room \in Nat
      <3>1. offset < conf.limit
        BY <1>2 DEF Works, Counts, Reading
      <3> QED BY <1>3, <3>1, TakenIs, RoomIs
    <2>3. want' = Room - Len(buf') /\ want' \in Nat
      BY <1>2, <2>1, <2>2
    <2> QED BY <1>1, <1>2, <1>5, <2>3 DEF Works, Counts, Reading
  <1>8. Whole'
    <2>1. Taken' = Dumped \o (buf \o bytes)
      BY <1>2, <1>5 DEF Taken, Kept
    <2>2. Seen' = Data(Fs, fileno) \o SubSeq(This.data, 1, pos + Len(bytes))
      BY <1>1, <1>2, <1>5 DEF Seen
    <2>3. Seen' = Taken' /\ Taken' \in Seq(Bytes) /\ buf' \in Seq(Bytes)
      BY <1>2, <1>4, <2>1, <2>2 DEF ReadsOn
    <2>4. part' \in Seq(Bytes)
      BY <1>2, <1>3, TakenIs
    <2> QED BY <1>2, <2>3, <2>4, AllKept DEF Works
  <1>9. Full'
    BY <1>2, <1>4, SameDump DEF Works
  <1>10. Told'
    <2>1. ~Met /\ ~Met'
      BY <1>2, <1>4, <1>5 DEF Met
    <2> QED BY <1>2, <2>1, SameTold DEF Works
  <1>11. pc' \in Places
    BY <1>2 DEF Places
  <1> QED BY <1>6, <1>7, <1>8, <1>9, <1>10, <1>11 DEF Works

LEMMA ReadShortStep ==
    ASSUME HexJob(job), Works, Still, ReadShort(job.argv, Fs) PROVE Works'
  <1> DEFINE bytes == fread(This, want)
  <1>1. job' = job /\ Fs' = Fs /\ Bytes' = Bytes /\ N' = N
    BY StillThere
  <1>2. /\ pc = "read" /\ want > 0 /\ Len(bytes) < want /\ part' = bytes /\ pos' = pos + Len(bytes)
        /\ ReportIf(This, "read") /\ pc' = (IF N = 0 THEN "chunk" ELSE "close")
        /\ UNCHANGED <<fileno, is_open, conf, offset, want, buf, dump>>
    BY DEF ReadShort, Stream, This, Fs, Goto, N
  <1>3. Sound
    BY DEF Works, Sound
  <1>4. ReadsOn(bytes) /\ Open /\ ~AtEnd /\ ~AtEof
    BY <1>2, <1>3, ReadIsOn
  <1> HIDE DEF bytes
  <1>5. /\ Open' /\ ~AtEnd' /\ (AtEof' <=> N = 0) /\ This' = This /\ Dumped' = Dumped /\ Room' = Room
        /\ Met' /\ N \in Nat
    BY <1>1, <1>2, <1>4 DEF Open, Opened, N, AtEnd, AtEof, This, Dumped, Room, Met, Works, Where
  <1>6. /\ Len(buf) \in Nat /\ Len(bytes) \in Nat /\ Room \in 1 .. CHUNK_SIZE /\ want = Room - Len(buf)
        /\ offset + Room <= conf.limit /\ offset \in Nat /\ conf.limit \in Nat /\ offset < conf.limit
        /\ CHUNK_SIZE \in Nat
    <2>1. offset < conf.limit /\ want = Room - Len(buf)
      BY <1>2 DEF Works, Counts, Reading
    <2> QED BY <1>3, <1>4, <2>1, TakenIs, RoomIs DEF ReadsOn
  <1>7. Where'
    <2>1. pos' = Len(This.data) /\ pos' \in 0 .. Len(This.data)
      BY <1>2, <1>4 DEF ReadsOn
    <2>2. N # 0 => is_open
      BY <1>4 DEF Open, Opened, N
    <2> QED BY <1>1, <1>2, <1>4, <1>5, <2>1, <2>2 DEF Works, Where
  <1>8. Counts'
    <2>1. N = 0 => buf = <<>>
      BY <1>2 DEF Works, Counts
    <2> QED BY <1>1, <1>2, <1>5, <2>1 DEF Works, Counts, Reading
  <1>9. Seen' = Dumped \o (buf \o bytes)
    <2>1. Seen' = Data(Fs, fileno) \o SubSeq(This.data, 1, pos + Len(bytes))
      BY <1>1, <1>2, <1>5 DEF Seen
    <2> QED BY <1>4, <2>1 DEF ReadsOn
  <1>10. bytes \in Seq(Bytes) /\ buf \in Seq(Bytes)
    BY <1>3, <1>4, TakenIs DEF ReadsOn
  <1>11. Whole'
    <2>1. CASE N = 0
      <3>1. Taken' = Dumped \o buf
        BY <1>2, <1>5, <2>1 DEF Taken, Kept
      <3>2. Seen' = Taken' \o bytes
        BY <1>4, <1>9, <3>1 DEF ReadsOn
      <3>3. Len(bytes) < CHUNK_SIZE
        BY <1>2, <1>6
      <3>4. ASSUME NEW l, l = bytes PROVE IsLost(l)'
        BY <1>1, <1>2, <1>5, <1>10, <2>1, <3>2, <3>3, <3>4 DEF IsLost
      <3>5. \E l : IsLost(l)'
        BY <3>4
      <3> QED BY <1>1, <1>2, <1>10, <3>5 DEF Works, Whole
    <2>2. CASE N # 0
      <3>1. Taken' = Dumped \o (buf \o bytes)
        BY <1>2, <1>5, <2>2 DEF Taken, Kept
      <3>2. Taken' \in Seq(Bytes) /\ Seen' = Taken'
        BY <1>4, <1>9, <3>1 DEF ReadsOn
      <3> QED BY <1>2, <1>10, <3>2, AllKept DEF Works
    <2> QED BY <2>1, <2>2
  <1>12. Full'
    BY <1>2, <1>4, SameDump DEF Works
  <1>13. Told'
    <2>1. /\ reports \in Seq(Range(reports)) /\ (fileno > 0 => Len(Data(Fs, fileno)) < conf.limit)
          /\ (reports # <<>> <=> \E i \in 1 .. fileno : Fs[i].fails # "none")
      <3>1. ~Met
        BY <1>2, <1>4 DEF Met
      <3> QED BY <3>1 DEF Works, Told
    <2>2. reports' \in Seq(Range(reports')) /\ (reports' # <<>> <=> reports # <<>> \/ This.fails = "read")
      <3>1. CASE This.fails = "read"
        <4>1. reports' = Append(reports, <<"read", fileno>>)
          BY <1>2, <3>1 DEF ReportIf, Report
        <4>2. reports' \in Seq(Range(reports')) /\ Len(reports') = Len(reports) + 1 /\ Len(reports) \in Nat
          BY <2>1, <4>1, OneMore
        <4> QED BY <3>1, <4>2
      <3>2. CASE This.fails # "read"
        <4>1. reports' = reports
          BY <1>2, <3>2 DEF ReportIf
        <4> QED BY <2>1, <3>2, <4>1
      <3> QED BY <3>1, <3>2
    <2>3. Len(Data(Fs, fileno + 1)) < conf.limit
      <3>1. Data(Fs, fileno + 1) = Data(Fs, fileno) \o This.data /\ This.data \in Seq(Bytes)
        BY <1>3, <1>4, AtFile DEF Sound
      <3>2. SubSeq(This.data, 1, pos + Len(bytes)) = This.data
        <4>1. pos + Len(bytes) = Len(This.data)
          BY <1>2, <1>4 DEF ReadsOn
        <4> QED BY <3>1, <4>1, SubSeqFull
      <3>3. Data(Fs, fileno + 1) = Dumped \o (buf \o bytes)
        BY <1>4, <3>1, <3>2 DEF ReadsOn
      <3>4. Len(Data(Fs, fileno + 1)) = offset + Len(buf) + Len(bytes)
        BY <1>4, <3>3 DEF ReadsOn
      <3> QED BY <1>2, <1>6, <3>4
    <2> QED BY <1>1, <1>2, <1>5, <2>1, <2>2, <2>3 DEF Told
  <1>14. pc' \in Places
    BY <1>2 DEF Places
  <1> QED BY <1>7, <1>8, <1>11, <1>12, <1>13, <1>14 DEF Works

LEMMA CloseThisStep ==
    ASSUME HexJob(job), Works, Still, CloseThis(job.argv, Fs) PROVE Works'
  <1>1. job' = job /\ Fs' = Fs /\ Bytes' = Bytes /\ N' = N
    BY StillThere
  <1>2. /\ pc = "close" /\ ReportIf(This, "close") /\ is_open' = FALSE /\ fileno' = fileno + 1 /\ pc' = "open"
        /\ UNCHANGED <<pos, conf, offset, want, buf, part, dump>>
    BY DEF CloseThis, Stream, This, Fs, Goto, ChunkVars
  <1>3. Sound
    BY DEF Works, Sound
  <1>4. /\ is_open /\ Open /\ ~AtEnd /\ ~AtEof /\ N \in Nat /\ N > 0 /\ Len(Fs) = N /\ fileno < N
        /\ fileno \in 0 .. Len(Fs) - 1 /\ This.fails # "open" /\ pos = Len(This.data)
    <2>1. is_open /\ Open /\ ~AtEnd /\ ~AtEof /\ N \in Nat /\ Len(Fs) \in Nat
      BY <1>2 DEF Works, Where, Open, Opened, N, AtEnd, AtEof
    <2> QED BY <1>2, <2>1 DEF Works, Where
  <1>5. ~Open' /\ ~AtEof' /\ ~Met' /\ Met /\ Dumped' = Dumped /\ Room' = Room /\ Kept' = Kept
    BY <1>1, <1>2, <1>4 DEF Open, Opened, N, AtEof, Met, Dumped, Room, Kept
  <1>6. Seen = Data(Fs, fileno + 1) /\ Seen \in Seq(Bytes)
    BY <1>3, <1>4, SeenIs DEF Sound
  <1>7. Where'
    <2>1. fileno' \in 0 .. Len(Fs) /\ Len(Fs) \in Nat /\ N # 0
      BY <1>2, <1>4
    <2>2. is_open' \in BOOLEAN /\ ~is_open'
      BY <1>2
    <2> QED BY <1>1, <1>2, <1>4, <1>5, <2>1, <2>2 DEF Where
  <1>8. Counts'
    BY <1>1, <1>2, <1>4, <1>5 DEF Works, Counts, Reading
  <1>9. Whole'
    <2>1. Taken' = Taken /\ Taken \in Seq(Bytes) /\ Seen = Taken /\ part \in Seq(Bytes) /\ buf \in Seq(Bytes)
      BY <1>3, <1>4, <1>5, TakenIs, NothingLost DEF Taken
    <2>2. Seen' = Data(Fs, fileno + 1) \o <<>>
      BY <1>1, <1>2, <1>5 DEF Seen
    <2>3. Data(Fs, fileno + 1) \o <<>> = Data(Fs, fileno + 1)
      BY <1>6, ConcatEmptySeq
    <2>4. Seen' = Taken'
      BY <1>6, <2>1, <2>2, <2>3
    <2> QED BY <1>2, <2>1, <2>4, AllKept DEF Works
  <1>10. Full'
    BY <1>2, <1>4, SameDump DEF Works
  <1>11. Told'
    <2>1. /\ reports \in Seq(Range(reports)) /\ Len(Data(Fs, fileno + 1)) < conf.limit
          /\ (reports # <<>> <=> (\E i \in 1 .. fileno : Fs[i].fails # "none") \/ This.fails = "read")
      BY <1>5 DEF Works, Told
    <2>2. reports' \in Seq(Range(reports')) /\ (reports' # <<>> <=> reports # <<>> \/ This.fails = "close")
      <3>1. CASE This.fails = "close"
        <4>1. reports' = Append(reports, <<"close", fileno>>)
          BY <1>2, <3>1 DEF ReportIf, Report
        <4>2. reports' \in Seq(Range(reports')) /\ Len(reports') = Len(reports) + 1 /\ Len(reports) \in Nat
          BY <2>1, <4>1, OneMore
        <4> QED BY <3>1, <4>2
      <3>2. CASE This.fails # "close"
        <4>1. reports' = reports
          BY <1>2, <3>2 DEF ReportIf
        <4> QED BY <2>1, <3>2, <4>1
      <3> QED BY <3>1, <3>2
    <2>3. This.fails \in {"none", "read", "close"}
      <3>1. FilesHold(Fs) /\ fileno + 1 \in 1 .. Len(Fs)
        BY <1>3, <1>4, AtFile DEF Sound
      <3> QED BY <1>4, <3>1 DEF FilesHold, This
    <2>4. (\E i \in 1 .. fileno + 1 : Fs[i].fails # "none")
            <=> (\E i \in 1 .. fileno : Fs[i].fails # "none") \/ This.fails # "none"
      <3>1. \A i \in 1 .. fileno + 1 : i \in 1 .. fileno \/ i = fileno + 1
        BY <1>4
      <3>2. fileno + 1 \in 1 .. fileno + 1 /\ \A i \in 1 .. fileno : i \in 1 .. fileno + 1
        BY <1>4
      <3> QED BY <3>1, <3>2 DEF This
    <2>5. reports' # <<>> <=> \E i \in 1 .. fileno' : Fs'[i].fails # "none"
      BY <1>1, <1>2, <2>1, <2>2, <2>3, <2>4
    <2>6. Len(Data(Fs', fileno')) < conf'.limit
      BY <1>1, <1>2, <2>1
    <2> QED BY <1>5, <2>2, <2>5, <2>6 DEF Told
  <1>12. pc' \in Places
    BY <1>2 DEF Places
  <1> QED BY <1>7, <1>8, <1>9, <1>10, <1>11, <1>12 DEF Works

LEMMA ChunkFullStep ==
    ASSUME HexJob(job), Works, Still, ChunkFull PROVE Works'
  <1>1. job' = job /\ Fs' = Fs /\ Bytes' = Bytes /\ N' = N
    BY StillThere
  <1>2. /\ pc = "read" /\ want = 0 /\ pc' = "chunk"
        /\ UNCHANGED <<fileno, is_open, pos, reports, conf, offset, want, buf, part, dump>>
    BY DEF ChunkFull, Goto, ChunkVars
  <1>3. Sound
    BY DEF Works, Sound
  <1>4. SameFile /\ Dumped' = Dumped /\ Room' = Room /\ Kept' = Kept /\ ~AtEnd /\ ~AtEof /\ ~AtEof' /\ Open
    <2>1. Open
      BY <1>2 DEF Works, Where
    <2> QED BY <1>2, <2>1, SameFileIs DEF Open, Opened, N, AtEnd, AtEof, Dumped, Room, Kept
  <1>5. Where'
    BY <1>1, <1>2, <1>4 DEF Works, Where, SameFile
  <1>6. Counts'
    BY <1>1, <1>2, <1>4 DEF Works, Counts, Reading
  <1>7. Whole'
    <2>1. Taken' = Taken /\ Taken \in Seq(Bytes) /\ Seen' = Taken /\ part \in Seq(Bytes) /\ buf \in Seq(Bytes)
      BY <1>3, <1>4, TakenIs, NothingLost DEF Taken, SameFile
    <2> QED BY <1>2, <2>1, AllKept DEF Works
  <1>8. Full'
    BY <1>2, <1>4, SameDump DEF Works
  <1>9. Told'
    <2>1. ~Met /\ ~Met'
      BY <1>2, <1>4 DEF Met
    <2> QED BY <1>2, <2>1, SameTold DEF Works
  <1>10. pc' \in Places
    BY <1>2 DEF Places
  <1> QED BY <1>5, <1>6, <1>7, <1>8, <1>9, <1>10 DEF Works

LEMMA NoChunkStep ==
    ASSUME HexJob(job), Works, Still, NoChunk PROVE Works'
  <1>1. job' = job /\ Fs' = Fs /\ Bytes' = Bytes /\ N' = N
    BY StillThere
  <1>2. /\ pc = "chunk" /\ buf = <<>> /\ pc' = "done"
        /\ UNCHANGED <<fileno, is_open, pos, reports, conf, offset, want, buf, part, dump>>
    BY DEF NoChunk, Goto, ChunkVars
  <1>3. Sound
    BY DEF Works, Sound
  <1>4. SameFile /\ Dumped' = Dumped /\ Kept = <<>> /\ Kept' = <<>> /\ (AtEof' <=> AtEof)
    BY <1>1, <1>2, SameFileIs DEF AtEof, Dumped, Kept
  <1>5. AtEnd \/ AtEof
    <2>1. want = Room - Len(buf) /\ offset < conf.limit /\ Len(buf) = 0
      BY <1>2 DEF Works, Counts, Reading
    <2>2. Room \in 1 .. CHUNK_SIZE /\ CHUNK_SIZE \in Nat
      BY <1>3, <2>1, RoomIs
    <2>3. want > 0
      BY <2>1, <2>2
    <2> QED BY <1>2, <2>3 DEF Works, Where
  <1>6. Where'
    BY <1>1, <1>2, <1>4, <1>5 DEF Works, Where, SameFile
  <1>7. Counts'
    BY <1>1, <1>2, <1>4 DEF Works, Counts, Reading
  <1>8. Whole'
    <2>1. Taken' = Taken
      BY <1>4 DEF Taken
    <2>2. PICK lost : IsLost(lost)
      BY DEF Works, Whole
    <2>3. IsLost(lost)'
      BY <1>1, <1>2, <1>4, <2>1, <2>2 DEF IsLost, SameFile
    <2>4. \E l : IsLost(l)'
      BY <2>3
    <2> QED BY <1>1, <1>2, <2>4 DEF Works, Whole
  <1>9. Full'
    BY <1>2, <1>4, SameDump DEF Works, SameFile
  <1>10. Told'
    <2>1. Met <=> Met'
      BY <1>2, <1>4 DEF Met
    <2> QED BY <1>2, <2>1, SameTold DEF Works
  <1>11. pc' \in Places
    BY <1>2 DEF Places
  <1> QED BY <1>6, <1>7, <1>8, <1>9, <1>10, <1>11 DEF Works

LEMMA PrintChunkStep ==
    ASSUME HexJob(job), Works, Still, PrintChunk PROVE Works'
  <1> DEFINE line == [at |-> offset, bytes |-> buf, text |-> conf.canonical]
             n    == Len(dump)
  <1>1. job' = job /\ Fs' = Fs /\ Bytes' = Bytes /\ N' = N
    BY StillThere
  <1>2. /\ pc = "chunk" /\ buf # <<>> /\ dump' = Append(dump, line) /\ offset' = offset + Len(buf) /\ pc' = "loop"
        /\ UNCHANGED <<fileno, is_open, pos, reports, conf, want, buf, part>>
    BY DEF PrintChunk, Goto
  <1>3. Sound
    BY DEF Works, Sound
  <1>4. line.at = offset /\ line.bytes = buf
    OBVIOUS
  <1> HIDE DEF line
  <1>5. SameFile /\ Kept = buf /\ Kept' = <<>> /\ ~AtEof /\ ~AtEof' /\ (N = 0 => want = 0)
    <2>1. N = 0 => want = 0
      BY <1>2 DEF Works, Counts
    <2> QED BY <1>2, <2>1, SameFileIs DEF AtEof, Kept
  <1>6. /\ n \in Nat /\ n + 1 \in Nat /\ Len(dump') = n + 1 /\ dump' \in Seq(Range(dump')) /\ dump'[n + 1] = line
        /\ \A i \in 1 .. n : dump'[i] = dump[i]
    <2>1. dump \in Seq(Range(dump))
      BY DEF Works, Whole
    <2> QED BY <1>2, <2>1, OneMore
  <1>7. Dumped' = Dumped \o buf /\ Dumped \in Seq(Bytes) /\ buf \in Seq(Bytes) /\ part \in Seq(Bytes)
    <2>1. /\ dump \in Seq(Range(dump)) /\ \A i \in 1 .. Len(dump) : dump[i].bytes \in Seq(Bytes)
          /\ buf \in Seq(Bytes) /\ part \in Seq(Bytes)
      BY DEF Works, Whole
    <2>2. line.bytes \in Seq(Bytes)
      BY <1>4, <2>1
    <2>3. Dumped' = Dumped \o line.bytes /\ Dumped \in Seq(Bytes)
      BY <1>2, <2>1, <2>2, DumpGrows
    <2> QED BY <1>4, <2>1, <2>3
  <1> HIDE DEF n
  <1>8. /\ offset < conf.limit /\ want = Room - Len(buf) /\ want \in Nat /\ Room \in 1 .. CHUNK_SIZE
        /\ offset + Room <= conf.limit /\ (Room # CHUNK_SIZE => offset + Room = conf.limit)
        /\ CHUNK_SIZE \in Nat \ {0} /\ conf.limit \in Nat /\ offset \in Nat /\ offset = Len(Dumped)
        /\ Len(buf) \in Nat /\ Len(Dumped \o buf) = offset + Len(buf)
    <2>1. offset < conf.limit /\ want = Room - Len(buf) /\ want \in Nat /\ offset = Len(Dumped)
      BY <1>2 DEF Works, Counts, Reading
    <2>2. Len(buf) \in Nat /\ offset \in Nat
      BY <1>3, TakenIs
    <2>3. Len(Dumped \o buf) = Len(Dumped) + Len(buf)
      BY <1>7, ConcatProperties
    <2> QED BY <1>3, <2>1, <2>2, <2>3, RoomIs
  <1>9. Where'
    BY <1>1, <1>2, <1>5 DEF Works, Where, SameFile
  <1>10. Counts'
    <2>1. offset' \in 0 .. conf.limit /\ offset' = Len(Dumped')
      BY <1>2, <1>7, <1>8
    <2> QED BY <1>1, <1>2, <1>5, <1>8, <2>1 DEF Counts, Reading
  <1>11. Whole'
    <2>1. Taken' = Taken
      <3>1. (Dumped \o buf) \o <<>> = Dumped \o buf
        <4> DEFINE s == Dumped \o buf
        <4>1. s \in Seq(Bytes)
          BY <1>7, ConcatProperties
        <4> HIDE DEF s
        <4>2. s \o <<>> = s
          BY <4>1, ConcatEmptySeq
        <4> QED BY <4>2 DEF s
      <3> QED BY <1>5, <1>7, <3>1 DEF Taken
    <2>2. PICK lost : IsLost(lost)
      BY DEF Works, Whole
    <2>3. IsLost(lost)'
      BY <1>1, <1>2, <1>5, <2>1, <2>2 DEF IsLost, SameFile
    <2>4. \E l : IsLost(l)'
      BY <2>3
    <2>5. \A i \in 1 .. Len(dump') : dump'[i].bytes \in Seq(Bytes)
      <3>1. \A i \in 1 .. n : dump[i].bytes \in Seq(Bytes)
        BY DEF Works, Whole, n
      <3>2. \A i \in 1 .. n + 1 : i \in 1 .. n \/ i = n + 1
        BY <1>6
      <3> QED BY <1>4, <1>6, <1>7, <3>1, <3>2
    <2> QED BY <1>1, <1>2, <1>6, <1>7, <2>4, <2>5 DEF Whole
  <1>12. Full'
    <2>1. /\ \A i \in 1 .. n : /\ dump[i].at = (i - 1) * CHUNK_SIZE
                               /\ Len(dump[i].bytes) = CHUNK_SIZE
          /\ offset = n * CHUNK_SIZE
      <3>1. /\ offset = n * CHUNK_SIZE /\ \A i \in 1 .. n : Len(dump[i].bytes) = CHUNK_SIZE
        <4>1. ~(offset >= conf.limit)
          BY <1>8
        <4>2. ~((AtEnd \/ AtEof) /\ (pc \in {"open", "chunk"} => buf = <<>>))
          BY <1>2
        <4>3. Full
          BY DEF Works
        <4>4. AllFull
          BY <4>1, <4>2, <4>3 DEF Full
        <4> QED BY <4>4 DEF AllFull, n
      <3>2. \A i \in 1 .. n : dump[i].at = (i - 1) * CHUNK_SIZE
        BY DEF Works, Full, n
      <3> QED BY <3>1, <3>2
    <2>2. \A i \in 1 .. n + 1 : i \in 1 .. n \/ (i = n + 1 /\ i - 1 = n)
      BY <1>6
    <2>3. \A i \in 1 .. n + 1 : /\ dump'[i].at = (i - 1) * CHUNK_SIZE
                                /\ i < n + 1 => Len(dump'[i].bytes) = CHUNK_SIZE
      <3>1. ASSUME NEW i \in 1 .. n
            PROVE  dump'[i].at = (i - 1) * CHUNK_SIZE /\ Len(dump'[i].bytes) = CHUNK_SIZE
        BY <1>6, <2>1
      <3>2. ASSUME NEW i \in 1 .. n + 1, i = n + 1, i - 1 = n
            PROVE  dump'[i].at = (i - 1) * CHUNK_SIZE /\ ~(i < n + 1)
        BY <1>4, <1>6, <2>1, <3>2
      <3> QED BY <2>2, <3>1, <3>2
    <2>4. \/ offset' >= conf.limit
          \/ offset' = (n + 1) * CHUNK_SIZE /\ \A i \in 1 .. n + 1 : Len(dump'[i].bytes) = CHUNK_SIZE
          \/ AtEnd
      <3>1. CASE want > 0
        BY <1>2, <1>5, <3>1 DEF Works, Where
      <3>2. CASE want = 0 /\ Room # CHUNK_SIZE
        BY <1>2, <1>8, <3>2
      <3>3. CASE want = 0 /\ Room = CHUNK_SIZE
        <4>1. Len(buf) = CHUNK_SIZE
          BY <1>8, <3>3
        <4>2. offset' = (n + 1) * CHUNK_SIZE
          BY <1>2, <1>6, <1>8, <2>1, <4>1
        <4>3. \A i \in 1 .. n + 1 : Len(dump'[i].bytes) = CHUNK_SIZE
          BY <1>4, <1>6, <2>1, <2>2, <4>1
        <4> QED BY <4>2, <4>3
      <3> QED BY <1>8, <3>1, <3>2, <3>3
    <2> QED BY <1>2, <1>5, <1>6, <2>3, <2>4 DEF Full, AllFull, SameFile
  <1>13. Told'
    <2>1. ~Met /\ ~Met'
      BY <1>2, <1>5 DEF Met
    <2> QED BY <1>2, <2>1, SameTold DEF Works
  <1>14. pc' \in Places
    BY <1>2 DEF Places
  <1> QED BY <1>9, <1>10, <1>11, <1>12, <1>13, <1>14 DEF Works

-----------------------------------------------------------------------------
(***************************************************************************)
(* The options, before the files are read.                                 *)
(***************************************************************************)
LEMMA OptionSpecIs == IsSpec(OptionSpec)
  <1> DEFINE S == {"C", "n", ":", End}
  <1>1. /\ OptionSpec \in Seq(S) /\ Len(OptionSpec) = 4 /\ OptionSpec # <<>>
        /\ OptionSpec[1] = "C" /\ OptionSpec[2] = "n" /\ OptionSpec[3] = ":" /\ OptionSpec[4] = End
    BY DEF OptionSpec
  <1> HIDE DEF S
  <1>2. OptionSpec \in Seq(Range(OptionSpec))
    BY <1>1, SeqOfRange
  <1>3. DOMAIN OptionSpec = 1 .. 4
    BY <1>1, LenProperties
  <1>4. End # "C" /\ End # "n" /\ End # ":" /\ STOP \notin {"C", "n", ":", End} /\ "?" # End
    BY DEF End, STOP
  <1>5. \A i \in 1 .. 4 : i = 1 \/ i = 2 \/ i = 3 \/ i = 4
    OBVIOUS
  <1>6. Range(OptionSpec) \subseteq {"C", "n", ":", End}
    BY <1>1, <1>3, <1>5 DEF Range
  <1>7. \A i \in 1 .. 4 : OptionSpec[i] = End <=> i = 4
    BY <1>1, <1>4, <1>5
  <1>8. \A i, j \in 1 .. 3 : OptionSpec[i] = OptionSpec[j] => i = j
    <2>1. \A i \in 1 .. 3 : i = 1 \/ i = 2 \/ i = 3
      OBVIOUS
    <2> QED BY <1>1, <2>1
  <1>9. IsWord(OptionSpec)
    BY <1>1, <1>2, <1>4, <1>6, <1>7 DEF IsWord
  <1>10. "?" \notin Range(OptionSpec)
    BY <1>4, <1>6
  <1> QED BY <1>1, <1>8, <1>9, <1>10 DEF IsSpec

LEMMA HexBegins == Init => HexInv
  <1> SUFFICES ASSUME Init, Runs("hexdump") PROVE HexJob(job) /\ Arguing
    BY DEF HexInv
  <1> DEFINE words == Tail(job.argv)
             all   == C!Options(words, OptionSpec)
  <1>1. HexJob(job)
    BY JobsAssumption DEF Init, Runs
  <1>2. /\ pc = "args" /\ Fresh /\ optind = 1 /\ curr_arg = NULL /\ complaints = <<>>
        /\ conf = [limit |-> ULONG_MAX, canonical |-> FALSE]
    <2>1. Entry["hexdump"] = "args"
      BY DEF Entry
    <2>2. FilesInit(Entry["hexdump"]) /\ GetoptInit /\ HexdumpInit
      BY DEF Init, Runs
    <2> QED BY <2>1, <2>2 DEF FilesInit, GetoptInit, HexdumpInit, Fresh
  <1>3. AllWords(words) /\ Len(words) \in Nat
    BY <1>1, OperandsOf DEF HexJob, AllWords
  <1>4. all = From(words, OptionSpec)[1]
    BY OptionsAre
  <1>5. Ahead(1, 2)
    BY <1>2, <1>3, <1>4 DEF Ahead, Place, Rest
  <1>6. \E i, k \in Nat : Ahead(i, k)
    <2>1. 1 \in Nat /\ 2 \in Nat
      OBVIOUS
    <2> QED BY <1>5, <2>1
  <1>7. complaints \in Seq(Range(complaints))
    BY <1>2, EmptySeq
  <1>8. conf \in [limit : Nat, canonical : BOOLEAN]
    BY <1>2, MaximumIs
  <1> QED BY <1>1, <1>2, <1>6, <1>7, <1>8 DEF Arguing

\* The limit that an argument gives
LEMMA LimitIs ==
    ASSUME NEW S, optarg' \in Seq(S), ~LengthLimit.erange
    PROVE  LengthLimit.val \in Nat
  <1> DEFINE s == SubSeq(optarg', 1, Len(optarg') - 1)
             n == C!Number(s, 10)
  <1>1. s \in Seq(S)
    <2> DEFINE o == optarg'
    <2>1. o \in Seq(S) /\ Len(o) \in Nat
      BY LenProperties
    <2> HIDE DEF o
    <2>2. \A i \in 1 .. Len(o) - 1 : o[i] \in S
      BY <2>1
    <2>3. 1 \in Int /\ Len(o) - 1 \in Int
      BY <2>1
    <2>4. SubSeq(o, 1, Len(o) - 1) \in Seq(S)
      BY <2>2, <2>3, SubSeqProperties
    <2> QED BY <2>4 DEF o
  <1>2. LengthLimit = strtoul(s, 10)
    BY DEF LengthLimit
  <1> HIDE DEF s
  <1>3. s \in Seq(Range(s)) /\ 10 \in {0} \cup 2 .. 36
    BY <1>1, SeqOfRange
  <1>4. LengthLimit = C!ToULong(s, 10) /\ n.val \in Int
    BY <1>2, <1>3, StrtoulIs, StrtolIs
  <1>5. LengthLimit.val = IF n.val \in -ULONG_MAX .. ULONG_MAX THEN n.val % (ULONG_MAX + 1) ELSE ULONG_MAX
    BY <1>4 DEF C!ToULong
  <1> HIDE DEF n
  <1>6. ULONG_MAX \in Nat
    BY MaximumIs
  <1>7. \A m \in Nat : \A x \in Int : x % (m + 1) \in Nat
    OBVIOUS
  <1> QED BY <1>4, <1>5, <1>6, <1>7

\* The options are read: the files are next.
LEMMA WorkBegins ==
    ASSUME HexJob(job), Arguing, job' = job, Fresh', conf' = conf, pc' = "loop",
           optind' = 1 + C!Options(Tail(job.argv), OptionSpec).used
    PROVE  Works'
  <1> DEFINE operands == Len(job.argv) - 1 - C!Options(Tail(job.argv), OptionSpec).used
  <1>1. Fs' = Fs /\ Bytes' = Bytes
    <2>1. Fs' = Fs
      BY DEF Fs
    <2> QED BY <2>1 DEF Bytes, FilesIn
  <1>2. /\ FilesHold(Fs) /\ Len(Fs) \in Nat
        /\ IF operands = 0 THEN IsStdin(Fs) ELSE Len(Fs) = operands
    BY DEF HexJob, Fs, FilesHold
  <1>3. N' = operands
    <2>1. Len(job.argv) \in Nat
      BY LenProperties DEF HexJob, AreWords
    <2>2. C!Options(Tail(job.argv), OptionSpec).used \in Nat
      <3>1. AllWords(Tail(job.argv))
        BY OperandsOf DEF HexJob
      <3>2. 1 \in 1 .. Len(Tail(job.argv)) + 1
        BY <3>1 DEF AllWords
      <3> QED BY <3>1, <3>2, OptionsAre, FromTyped DEF Listed
    <2>3. N' = Len(job.argv) - optind'
      BY DEF N, nfiles, Argc
    <2> QED BY <2>1, <2>2, <2>3
  <1> HIDE DEF operands
  <1>4. N' \in Nat
    BY <1>2, <1>3
  <1>5. /\ fileno' = 0 /\ is_open' = FALSE /\ pos' = 0 /\ reports' = <<>> /\ offset' = 0 /\ want' = 0
        /\ buf' = <<>> /\ part' = <<>> /\ dump' = <<>>
    BY DEF Fresh
  <1>6. /\ ~AtEof' /\ ~Met' /\ (Open' <=> N' = 0) /\ Kept' = <<>> /\ conf'.limit \in Nat
    BY <1>5 DEF AtEof, Met, Open, Opened, N, Kept, Arguing
  <1>7. Dumped' = <<>>
    <2> DEFINE s == [i \in DOMAIN dump' |-> dump'[i].bytes]
    <2>1. s = <<>>
      BY <1>5
    <2>2. FlattenSeq(<<>>) = <<>>
      BY DEF FlattenSeq
    <2> HIDE DEF s
    <2>3. FlattenSeq(s) = <<>>
      BY <2>1, <2>2
    <2> QED BY <2>3 DEF Dumped, s
  <1>8. Where'
    <2>1. Open' => Len(This'.data) \in Nat
      <3>1. ASSUME N' = 0 PROVE Len(This'.data) \in Nat
        <4>1. Len(Fs) = 1
          BY <1>2, <1>3, <3>1 DEF IsStdin
        <4>2. 1 \in 1 .. Len(Fs) /\ This' = Fs[1]
          BY <1>1, <1>5, <4>1 DEF This
        <4>3. This'.data \in Seq(Range(This'.data))
          BY <1>2, <4>2 DEF FilesHold
        <4> QED BY <4>3, LenProperties
      <3> QED BY <1>6, <3>1
    <2>2. Open' => pos' \in 0 .. Len(This'.data)
      BY <1>5, <2>1
    <2>3. fileno' \in 0 .. Len(Fs) /\ fileno' = 0
      BY <1>2, <1>5
    <2>4. is_open' \in BOOLEAN /\ ~is_open'
      BY <1>5
    <2>5. IF N' = 0 THEN IsStdin(Fs) ELSE Len(Fs) = N'
      BY <1>2, <1>3
    <2> QED BY <1>1, <1>2, <1>4, <1>6, <2>2, <2>3, <2>4, <2>5 DEF Where
  <1>9. Counts'
    <2>1. Len(Dumped') = 0
      BY <1>7
    <2> QED BY <1>5, <1>6, <2>1 DEF Counts, Reading
  <1>10. Whole'
    <2>1. <<>> \in Seq(Bytes) /\ <<>> \in Seq(Range(<<>>)) /\ Len(<<>>) = 0 /\ <<>> \o <<>> = <<>>
      BY EmptySeq
    <2>2. Seen' = <<>>
      <3>1. Data(Fs, 0) = <<>>
        BY <1>2, BytesAre DEF FilesIn
      <3>2. SubSeq(This'.data, 1, 0) = <<>>
        BY SubSeqEmpty
      <3>3. Seen' = Data(Fs, 0) \o (IF Open' THEN SubSeq(This'.data, 1, 0) ELSE <<>>)
        BY <1>1, <1>5 DEF Seen
      <3> QED BY <2>1, <3>1, <3>2, <3>3
    <2>3. Taken' = <<>>
      BY <1>6, <1>7, <2>1 DEF Taken
    <2>4. CHUNK_SIZE \in Nat \ {0}
      BY ChunkAssumption
    <2>5. ASSUME NEW l, l = <<>> PROVE IsLost(l)'
      <3>1. Seen' = Taken' \o l /\ Len(l) < CHUNK_SIZE /\ l \in Seq(Bytes')
        BY <1>1, <2>1, <2>2, <2>3, <2>4, <2>5
      <3> QED BY <2>5, <3>1 DEF IsLost
    <2>6. \E l : IsLost(l)'
      BY <2>5
    <2>7. \A i \in 1 .. Len(dump') : dump'[i].bytes \in Seq(Bytes)
      BY <1>5, <2>1
    <2> QED BY <1>1, <1>5, <2>1, <2>6, <2>7 DEF Whole
  <1>11. Full'
    <2>1. Len(dump') = 0 /\ \A i \in 1 .. 0 : FALSE
      BY <1>5
    <2>2. CHUNK_SIZE \in Nat
      BY ChunkAssumption
    <2>3. offset' = Len(dump') * CHUNK_SIZE
      BY <1>5, <2>1, <2>2
    <2>4. AllFull'
      BY <2>1, <2>3 DEF AllFull
    <2> QED BY <2>1, <2>4 DEF Full
  <1>12. Told'
    <2>1. <<>> \in Seq(Range(<<>>)) /\ \A i \in 1 .. 0 : FALSE
      BY EmptySeq
    <2> QED BY <1>5, <1>6, <2>1 DEF Told
  <1>13. pc' \in Places
    BY DEF Places
  <1> QED BY <1>8, <1>9, <1>10, <1>11, <1>12, <1>13 DEF Works

LEMMA ParseStep ==
    ASSUME HexJob(job), Arguing, ParseOption(job.argv), job' = job
    PROVE  pc' = "usage" \/ Arguing' \/ Works'
  <1> DEFINE words == Tail(job.argv)
             all   == C!Options(words, OptionSpec)
  <1>1. AreWords(job.argv) /\ IsSpec(OptionSpec) /\ complaints \in Seq(Range(complaints))
    BY OptionSpecIs DEF HexJob, Arguing
  <1>2. PICK i \in Nat, k \in Nat : Ahead(i, k)
    BY DEF Arguing
  <1>3. /\ Place(words, optind, curr_arg, i, k)
        /\ 1 + all.used = i + Rest(words, OptionSpec, i, k).used
    BY <1>2 DEF Ahead
  <1>4. Fresh' /\ pc = "args" /\ conf \in [limit : Nat, canonical : BOOLEAN]
    BY DEF Arguing, Fresh, ParseOption, ChunkVars
  <1>5. getopt(job.argv, OptionSpec)
    BY DEF ParseOption
  <1>6. CASE Stop(job.argv)
    <2>1. optind' = i + Rest(words, OptionSpec, i, k).used /\ retval' = STOP
      BY <1>1, <1>3, <1>6, StopsAt
    <2>2. pc' = "loop" /\ conf' = conf
      <3>1. STOP # "C" /\ STOP # "n"
        BY DEF STOP
      <3> QED BY <2>1, <3>1 DEF ParseOption, Goto
    <2>3. optind' = 1 + all.used
      BY <1>3, <2>1
    <2> QED BY <1>4, <2>2, <2>3, WorkBegins
  <1>7. CASE Option(job.argv, OptionSpec)
    <2>1. /\ Finds(words, OptionSpec, i, k, Got, optind', curr_arg')
          /\ Rest(words, OptionSpec, i, k) = InWord(words, OptionSpec, i, k)
          /\ retval' # STOP /\ Warned(OptionSpec)
      <3>1. Place(words, optind, curr_arg, i, k)
        BY <1>3
      <3>2. /\ Finds(words, OptionSpec, i, k, Got, optind', curr_arg')
            /\ Rest(words, OptionSpec, i, k) = InWord(words, OptionSpec, i, k)
            /\ retval' # STOP /\ Warned(OptionSpec) /\ UNCHANGED opterr
        BY <1>1, <1>7, <3>1, OptionFinds
      <3> QED BY <3>2
    <2>2. PICK i2 \in Nat, k2 \in Nat :
             /\ Place(words, optind', curr_arg', i2, k2) /\ Got \in Items(words)
             /\ i + InWord(words, OptionSpec, i, k).used = i2 + Rest(words, OptionSpec, i2, k2).used
      BY <2>1 DEF Finds
    <2>3. complaints' \in Seq(Range(complaints'))
      BY <2>1 DEF Warned
    <2>4. Ahead(i2, k2)'
      <3>1. 1 + all.used = i2 + Rest(words, OptionSpec, i2, k2).used
        BY <1>3, <2>1, <2>2
      <3> QED BY <2>2, <3>1 DEF Ahead
    <2>5. \E j, l \in Nat : Ahead(j, l)'
      BY <2>4
    <2>6. pc' = "usage" \/ (pc' = "args" /\ conf' \in [limit : Nat, canonical : BOOLEAN])
      <3>1. CASE retval' = "C" /\ conf' = [conf EXCEPT !.canonical = TRUE] /\ pc' = pc
        BY <1>4, <3>1
      <3>2. CASE ~LengthLimit.erange /\ conf' = [conf EXCEPT !.limit = LengthLimit.val] /\ pc' = pc
        <4>1. optarg' \in Seq(CharsOf(words))
          BY <2>2 DEF Got, Items
        <4>2. LengthLimit.val \in Nat
          BY <3>2, <4>1, LimitIs
        <4> QED BY <1>4, <3>2, <4>2
      <3>3. CASE pc' = "usage"
        BY <3>3
      <3> QED BY <2>1, <3>1, <3>2, <3>3 DEF ParseOption, Goto
    <2> QED BY <1>4, <2>3, <2>5, <2>6 DEF Arguing
  <1> QED BY <1>5, <1>6, <1>7 DEF getopt

-----------------------------------------------------------------------------
(***************************************************************************)
(* The invariant, and what it says of the dump in the end.                 *)
(***************************************************************************)
LEMMA WorksOn ==
    ASSUME HexJob(job), Works, hexdump(job.argv, Fs), job' = job
    PROVE  Works'
  <1>1. ~ParseOption(job.argv)
    BY DEF ParseOption, Works, Places
  <1>2. Still
    BY <1>1 DEF hexdump, Still
  <1> QED BY <1>1, <1>2, NextChunkStep, AtLimitStep, OpenNextStep, CannotOpenStep, NoNextStep, ReadAllStep,
             ReadShortStep, CloseThisStep, ChunkFullStep, PrintChunkStep, NoChunkStep DEF hexdump

LEMMA HexGoesOn == HexInv /\ [Next]_vars => HexInv'
  <1> SUFFICES ASSUME HexInv, [Next]_vars PROVE HexInv'
    OBVIOUS
  <1>1. job' = job
    BY DEF vars, Next, Convert, Silence, FindOption, Format, Hexdump, Wc, Cat
  <1>2. CASE ~Runs("hexdump")
    BY <1>1, <1>2 DEF HexInv, Runs
  <1>3. CASE Runs("hexdump")
    <2>1. HexJob(job) /\ (pc = "usage" \/ Arguing \/ Works)
      BY <1>3 DEF HexInv
    <2>2. CASE Next
      <3>1. hexdump(job.argv, Fs)
        BY <1>3, <2>2 DEF Next, Convert, Silence, FindOption, Format, Hexdump, Wc, Cat, Runs, Fs
      <3>2. pc # "usage"
        BY <3>1 DEF hexdump, ParseOption, NextChunk, AtLimit, OpenNext, CannotOpen, NoNext, ReadAll, ReadShort,
                    CloseThis, ChunkFull, PrintChunk, NoChunk
      <3>3. CASE Arguing
        <4>1. ParseOption(job.argv)
          BY <3>1, <3>3 DEF Arguing, hexdump, NextChunk, AtLimit, OpenNext, CannotOpen, NoNext, ReadAll, ReadShort,
                            CloseThis, ChunkFull, PrintChunk, NoChunk
        <4>2. pc' = "usage" \/ Arguing' \/ Works'
          BY <1>1, <2>1, <3>3, <4>1, ParseStep
        <4> QED BY <1>1, <2>1, <4>2 DEF HexInv
      <3>4. CASE Works
        <4>1. Works'
          BY <1>1, <2>1, <3>1, <3>4, WorksOn
        <4> QED BY <1>1, <2>1, <4>1 DEF HexInv
      <3> QED BY <2>1, <3>2, <3>3, <3>4
    <2>3. CASE UNCHANGED vars
      <3>1. /\ UNCHANGED <<job, pc, fileno, is_open, pos, reports, optind, curr_arg, complaints>>
            /\ UNCHANGED <<conf, offset, want, buf, part, dump>>
        BY <2>3 DEF vars, files_vars, getopt_vars, hexdump_vars
      <3>2. Still
        BY <2>3 DEF vars, Still
      <3>3. Arguing => Arguing'
        BY <3>1 DEF Arguing, Fresh, Ahead
      <3>4. ASSUME Works PROVE Works'
        <4>1. /\ Fs' = Fs /\ Bytes' = Bytes /\ N' = N /\ SameFile /\ Dumped' = Dumped
              /\ Kept' = Kept /\ Room' = Room /\ (AtEof' <=> AtEof) /\ (Met' <=> Met)
          BY <3>1, <3>2, StillThere, SameFileIs DEF Dumped, Kept, Room, AtEof, Met
        <4>2. Where'
          BY <3>1, <3>4, <4>1 DEF Works, Where, SameFile
        <4>3. Counts'
          BY <3>1, <3>4, <4>1 DEF Works, Counts, Reading
        <4>4. Whole'
          <5>1. PICK lost : IsLost(lost)
            BY <3>4 DEF Works, Whole
          <5>2. IsLost(lost)'
            BY <3>1, <4>1, <5>1 DEF IsLost, Taken, SameFile
          <5>3. \E l : IsLost(l)'
            BY <5>2
          <5> QED BY <3>1, <3>4, <4>1, <5>3 DEF Works, Whole
        <4>5. Full'
          BY <3>1, <3>4, <4>1, SameDump DEF Works, SameFile
        <4>6. Told'
          BY <3>1, <3>2, <3>4, <4>1, SameTold DEF Works
        <4> QED BY <3>1, <3>4, <4>2, <4>3, <4>4, <4>5, <4>6 DEF Works
      <3> QED BY <1>1, <2>1, <3>1, <3>3, <3>4 DEF HexInv
    <2> QED BY <2>2, <2>3
  <1> QED BY <1>2, <1>3

\* In the end the first files are those that were met up to the limit.
LEMMA ReportsAre ==
    ASSUME HexJob(job), Works, pc = "done"
    PROVE  (reports # <<>>) <=> \E i \in 1 .. Len(Fs) :
                                  /\ Fs[i].fails # "none"
                                  /\ Len(Data(Fs, IF Fs[i].fails = "open" THEN i - 1 ELSE i)) < conf.limit
  <1> DEFINE UpTo(i)  == IF Fs[i].fails = "open" THEN i - 1 ELSE i
             Length(n) == Len(Data(Fs, n))
  <1>1. Sound
    BY DEF Works, Sound
  <1>2. /\ FilesHold(Fs) /\ Len(Fs) \in Nat /\ fileno \in 0 .. Len(Fs) /\ conf.limit \in Nat
        /\ \A i \in 1 .. Len(Fs) : Fs[i].fails \in {"none", "open", "read", "close"}
    BY <1>1, AtFile DEF Sound, Counts, FilesHold
  <1>3. \A n \in 0 .. Len(Fs) : \A m \in n .. Len(Fs) :
           Length(n) \in Nat /\ Length(m) \in Nat /\ Length(n) <= Length(m)
    <2> TAKE n \in 0 .. Len(Fs)
    <2> TAKE m \in n .. Len(Fs)
    <2>1. m \in 0 .. Len(Fs) /\ m \in m .. Len(Fs)
      BY <1>2
    <2> QED BY <1>2, <2>1, DataBegins
  <1>4. /\ (reports # <<>>) <=> (\E i \in 1 .. fileno : Fs[i].fails # "none") \/ (AtEof /\ This.fails = "read")
        /\ fileno > 0 => Length(fileno) < conf.limit
        /\ AtEof => Length(fileno + 1) < conf.limit
    BY DEF Works, Told, Met
  <1>5. AtEof => IsStdin(Fs) /\ fileno = 0
    BY DEF Works, Where, AtEof
  <1>6. offset >= conf.limit \/ fileno = Len(Fs) \/ AtEof
    BY DEF Works, Where, AtEnd
  <1>7. offset >= conf.limit => /\ Open => /\ fileno \in 0 .. Len(Fs) - 1 /\ This.fails # "open"
                                           /\ Length(fileno + 1) >= conf.limit
                                /\ ~Open => Length(fileno) >= conf.limit
    <2> SUFFICES ASSUME offset >= conf.limit
                 PROVE  /\ Open => /\ fileno \in 0 .. Len(Fs) - 1 /\ This.fails # "open"
                                   /\ Length(fileno + 1) >= conf.limit
                        /\ ~Open => Length(fileno) >= conf.limit
      OBVIOUS
    <2>1. offset <= Len(Seen) /\ Len(Seen) \in Nat /\ offset \in Nat
      <3>1. offset + Len(Kept) <= Len(Seen) /\ Len(Kept) \in Nat /\ Len(Seen) \in Nat /\ offset \in Nat
        BY <1>1, TakenIs
      <3> QED BY <3>1
    <2>2. CASE ~Open
      <3>1. Seen = Data(Fs, fileno)
        BY <1>1, <2>2, SeenIs DEF Sound
      <3> QED BY <1>2, <2>1, <2>2, <3>1
    <2>3. CASE Open
      <3>1. /\ fileno \in 0 .. Len(Fs) - 1 /\ This.data \in Seq(Bytes) /\ Len(This.data) \in Nat
            /\ pos \in 0 .. Len(This.data) /\ This.fails # "open" /\ Data(Fs, fileno) \in Seq(Bytes)
            /\ Data(Fs, fileno + 1) = Data(Fs, fileno) \o This.data
        BY <1>1, <2>3, AtFile DEF Sound
      <3>2. Length(fileno + 1) = Length(fileno) + Len(This.data) /\ Length(fileno) \in Nat
        BY <3>1, ConcatProperties, LenProperties
      <3>3. Len(Seen) = Length(fileno) + pos
        BY <1>1, <2>3, SeenIs DEF Sound
      <3>4. Length(fileno + 1) >= conf.limit
        <4> DEFINE l == Length(fileno)
                   m == Length(fileno + 1)
                   s == Len(Seen)
                   e == Len(This.data)
        <4>1. m = l + e /\ l \in Nat /\ s = l + pos /\ e \in Nat /\ pos \in 0 .. e /\ offset <= s /\ offset \in Nat
          BY <2>1, <3>1, <3>2, <3>3
        <4> HIDE DEF l, m, s, e
        <4>2. m >= conf.limit
          BY <1>2, <4>1
        <4> QED BY <4>2 DEF m
      <3> QED BY <2>3, <3>1, <3>4
    <2> QED BY <2>2, <2>3
  <1> HIDE DEF Length
  <1>8. ASSUME reports # <<>>
        PROVE  \E i \in 1 .. Len(Fs) : Fs[i].fails # "none" /\ Length(UpTo(i)) < conf.limit
    <2>1. CASE \E i \in 1 .. fileno : Fs[i].fails # "none"
      <3>1. PICK i \in 1 .. fileno : Fs[i].fails # "none"
        BY <2>1
      <3>2. i \in 1 .. Len(Fs) /\ UpTo(i) \in 0 .. Len(Fs) /\ fileno \in UpTo(i) .. Len(Fs) /\ fileno > 0
        BY <1>2
      <3>3. Length(UpTo(i)) <= Length(fileno) /\ Length(UpTo(i)) \in Nat /\ Length(fileno) \in Nat
        <4> HIDE DEF UpTo
        <4> QED BY <1>3, <3>2
      <3>4. Length(UpTo(i)) < conf.limit
        <4> HIDE DEF UpTo
        <4> QED BY <1>2, <1>4, <3>2, <3>3
      <3> QED BY <3>1, <3>2, <3>4
    <2>2. CASE AtEof /\ This.fails = "read"
      <3>1. Fs[1].fails = "read" /\ 1 \in 1 .. Len(Fs) /\ fileno + 1 = 1
        BY <1>5, <2>2 DEF IsStdin, This
      <3>2. UpTo(1) = 1
        BY <3>1
      <3>3. Length(UpTo(1)) < conf.limit
        BY <1>4, <2>2, <3>1, <3>2
      <3> QED BY <3>1, <3>3
    <2> QED BY <1>4, <1>8, <2>1, <2>2
  <1>9. ASSUME NEW i \in 1 .. Len(Fs), Fs[i].fails # "none", Length(UpTo(i)) < conf.limit
        PROVE  reports # <<>>
    <2>1. CASE i \in 1 .. fileno
      BY <1>4, <1>9, <2>1
    <2>2. CASE i \notin 1 .. fileno /\ AtEof
      <3>1. i = 1 /\ fileno = 0 /\ Fs[1].fails \in {"none", "read"}
        <4>1. Len(Fs) = 1 /\ fileno = 0 /\ Fs[1].fails \in {"none", "read"}
          BY <1>5, <2>2 DEF IsStdin
        <4>2. i = 1
          BY <4>1
        <4> QED BY <4>1, <4>2
      <3>2. This.fails = "read"
        BY <1>9, <3>1 DEF This
      <3> QED BY <1>4, <2>2, <3>2
    <2>3. CASE i \notin 1 .. fileno /\ ~AtEof
      <3>1. i >= fileno + 1 /\ fileno # Len(Fs) /\ offset >= conf.limit
        BY <1>2, <1>6, <2>3
      <3>2. UpTo(i) \in 0 .. Len(Fs) /\ UpTo(i) >= fileno
        BY <1>2, <3>1
      <3>3. CASE Open
        <4>1. fileno + 1 \in 0 .. Len(Fs) /\ UpTo(i) \in fileno + 1 .. Len(Fs)
          <5>1. i = fileno + 1 => UpTo(i) = i
            BY <1>7, <3>1, <3>3 DEF This
          <5>2. i # fileno + 1 => UpTo(i) >= fileno + 1
            BY <1>2, <3>1
          <5> HIDE DEF UpTo
          <5> QED BY <1>2, <1>7, <3>1, <3>2, <3>3, <5>1, <5>2
        <4> HIDE DEF UpTo
        <4>2. Length(fileno + 1) <= Length(UpTo(i)) /\ Length(UpTo(i)) \in Nat /\ Length(fileno + 1) \in Nat
          BY <1>3, <4>1
        <4> QED BY <1>2, <1>7, <1>9, <3>1, <3>3, <4>2
      <3>4. CASE ~Open
        <4> HIDE DEF UpTo
        <4>1. UpTo(i) \in fileno .. Len(Fs)
          BY <1>2, <3>2
        <4>2. Length(fileno) <= Length(UpTo(i)) /\ Length(UpTo(i)) \in Nat /\ Length(fileno) \in Nat
          BY <1>2, <1>3, <4>1
        <4> QED BY <1>2, <1>7, <1>9, <3>1, <3>4, <4>2
      <3> QED BY <3>3, <3>4
    <2> QED BY <2>1, <2>2, <2>3
  <1> QED BY <1>8, <1>9 DEF Length

LEMMA HexInvSound == HexInv => DumpSound
  <1> SUFFICES ASSUME HexInv, Done("hexdump") PROVE
         /\ Dumped = Take(Everything, Len(Dumped)) /\ Len(Dumped) <= conf.limit
         /\ Len(Dumped) > Min({Len(Everything), conf.limit}) - CHUNK_SIZE
         /\ \A i \in DOMAIN dump : /\ dump[i].at = (i - 1) * CHUNK_SIZE
                                   /\ i < Len(dump) => Len(dump[i].bytes) = CHUNK_SIZE
         /\ (reports # <<>>) = \E i \in DOMAIN Fs :
                                 LET upTo == IF Fs[i].fails = "open" THEN i - 1 ELSE i
                                 IN  Fs[i].fails # "none" /\ Len(Data(Fs, upTo)) < conf.limit
    BY DEF DumpSound, Fs
  <1>1. HexJob(job) /\ Works /\ pc = "done"
    BY DEF HexInv, Done, Arguing
  <1>2. Sound
    BY <1>1 DEF Works, Sound
  <1>3. Kept = <<>> /\ Taken = Dumped
    <2>1. Kept = <<>>
      BY <1>1 DEF Kept
    <2>2. Dumped \in Seq(Bytes)
      BY <1>2, TakenIs
    <2>3. Dumped \o <<>> = Dumped
      BY <2>2, ConcatEmptySeq
    <2> QED BY <2>1, <2>3 DEF Taken
  <1>4. /\ Dumped \in Seq(Bytes) /\ offset \in Nat /\ conf.limit \in Nat /\ Len(Everything) \in Nat
        /\ CHUNK_SIZE \in Nat \ {0} /\ Len(Dumped) = offset /\ offset <= conf.limit
    <2>1. Dumped \in Seq(Bytes) /\ offset \in Nat /\ Len(Everything) \in Nat
      BY <1>2, TakenIs
    <2>2. conf.limit \in Nat /\ Len(Dumped) = offset /\ offset \in 0 .. conf.limit
      BY <1>2 DEF Sound, Counts
    <2> QED BY <2>1, <2>2, ChunkAssumption
  <1>5. PICK lost : IsLost(lost)
    BY <1>2 DEF Sound, Whole
  <1>6. lost \in Seq(Bytes) /\ Seen = Dumped \o lost /\ Len(lost) < CHUNK_SIZE /\ Len(lost) \in Nat
    BY <1>3, <1>5, LenProperties DEF IsLost
  <1>7. Dumped = Take(Everything, Len(Dumped))
    <2>1. Begins(Dumped, Seen)
      BY <1>6 DEF Begins
    <2>2. Begins(Seen, Everything)
      BY <1>2, SeenIs DEF Sound
    <2>3. Begins(Dumped, Everything)
      BY <1>4, <2>1, <2>2, BeginsOfBegins
    <2> QED BY <1>4, <2>3, BeginsIs
  <1>8. Len(Dumped) > Min({Len(Everything), conf.limit}) - CHUNK_SIZE
    <2>1. Min({Len(Everything), conf.limit}) = IF Len(Everything) <= conf.limit THEN Len(Everything) ELSE conf.limit
      BY <1>4, MinOfTwo
    <2>2. CASE offset >= conf.limit
      BY <1>4, <2>1, <2>2
    <2>3. CASE AtEnd \/ AtEof
      <3>1. Seen = Everything
        BY <1>2, <2>3, SeenIs DEF Sound
      <3>2. Len(Seen) = Len(Dumped) + Len(lost)
        BY <1>4, <1>6, ConcatProperties
      <3> QED BY <1>4, <1>6, <2>1, <3>1, <3>2
    <2> QED BY <1>1, <2>2, <2>3 DEF Works, Where
  <1>9. \A i \in DOMAIN dump : /\ dump[i].at = (i - 1) * CHUNK_SIZE
                               /\ i < Len(dump) => Len(dump[i].bytes) = CHUNK_SIZE
    <2>1. DOMAIN dump = 1 .. Len(dump)
      BY <1>2, LenProperties DEF Sound, Whole
    <2> QED BY <1>1, <2>1 DEF Works, Full
  <1>10. (reports # <<>>) = \E i \in DOMAIN Fs :
                              LET upTo == IF Fs[i].fails = "open" THEN i - 1 ELSE i
                              IN  Fs[i].fails # "none" /\ Len(Data(Fs, upTo)) < conf.limit
    <2>1. DOMAIN Fs = 1 .. Len(Fs)
      BY <1>1 DEF HexJob, FilesHold, Fs
    <2>2. (reports # <<>>) <=> \E i \in DOMAIN Fs :
                                 /\ Fs[i].fails # "none"
                                 /\ Len(Data(Fs, IF Fs[i].fails = "open" THEN i - 1 ELSE i)) < conf.limit
      BY <1>1, <2>1, ReportsAre
    <2> QED BY <2>2
  <1> QED BY <1>4, <1>7, <1>8, <1>9, <1>10

\* The dump of any files begins as they do, in full chunks up to the limit, and
\* misses less than a chunk at the end; the status is that of what was met.
THEOREM DumpIsSound == Spec => []DumpSound
  <1> QED BY HexBegins, HexGoesOn, HexInvSound, PTL DEF Spec
=============================================================================
