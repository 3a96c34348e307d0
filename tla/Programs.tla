------------------------------ MODULE Programs ------------------------------
(***************************************************************************)
(* Programs over the library: three that call one function each, as the    *)
(* tests in tests/good/stdlib do, and the samples hexdump, wc and cat.     *)
(* A job is a program with its arguments and its files.                    *)
(***************************************************************************)
EXTENDS Hexdump, FileTools, SequencesExt

CONSTANT Jobs      \* several sets of jobs, as a sequence

C == INSTANCE CLib WITH Least <- LONG_MIN, Greatest <- LONG_MAX, Most <- ULONG_MAX,
                        Blank <- Spaces, Weight <- DigitOf

-----------------------------------------------------------------------------
\* Files hold sequences.  Without operands the one file is stdin, which is
\* open and stays so.
FilesHold(fs) == /\ Len(fs) \in Nat /\ DOMAIN fs = 1 .. Len(fs)
                 /\ \A i \in 1 .. Len(fs) : /\ fs[i].data \in Seq(Range(fs[i].data))
                                            /\ fs[i].fails \in {"none", "open", "read", "close"}
IsStdin(fs)   == Len(fs) = 1 /\ fs[1].fails \in {"none", "read"}

\* The bytes of the first n files, without those that cannot be opened.
Data(fs, n) == FlattenSeq([i \in 1 .. n |-> IF fs[i].fails = "open" THEN <<>> ELSE fs[i].data])

CatJob(j) == FilesHold(j.files) /\ j.room \in Nat /\ (Len(j.argv) = 1 => IsStdin(j.files))

\* The first k words are the program's name and its options.
WcJob(j) == /\ FilesHold(j.files) /\ Len(j.argv) \in Nat
            /\ \E k \in 1 .. Len(j.argv) :
                 /\ \A i \in 2 .. k : j.argv[i][1] = "-"
                 /\ k < Len(j.argv) => j.argv[k + 1][1] # "-" /\ Len(j.files) = Len(j.argv) - k
                 /\ k = Len(j.argv) => IsStdin(j.files)

\* A word ends with its only NUL.  No option is "?", and a letter that a
\* specification has twice takes an argument each time or never.
IsWord(w)    == /\ w \in Seq(Range(w)) /\ w # <<>> /\ STOP \notin Range(w)
                /\ \A i \in 1 .. Len(w) : w[i] = End <=> i = Len(w)
IsSpec(spec) == /\ IsWord(spec) /\ "?" \notin Range(spec)
                /\ \A i, j \in 1 .. Len(spec) - 1 :
                      spec[i] = spec[j] => (spec[i + 1] = ":" <=> spec[j + 1] = ":")
AreWords(argv) == /\ argv \in Seq(Range(argv)) /\ argv # <<>>
                  /\ \A i \in 1 .. Len(argv) : IsWord(argv[i])
OptJob(j)    == AreWords(j.argv) /\ IsSpec(j.spec)

NumJob(j)    == j.text \in Seq(Range(j.text)) /\ j.base \in {0} \cup 2 .. 36

\* A directive of printf, with its flags as written and its numbers in decimal.
\* An argument is a value, or any int or long with the bits of one.
Spelled(d) == IF d.conv = "text" THEN d.val
              ELSE <<"%">> \o d.written \o d.wide \o d.dotted \o (IF d.long THEN <<"l">> ELSE <<>>) \o <<d.conv>>
Passed(d)  == (IF d.star THEN <<d.starred>> ELSE <<>>)
              \o (IF d.conv \in {"text", "%"} THEN <<>> ELSE <<d.arg>>)

IsDecimal(t, n) == t \in Seq({Lower[i] : i \in 1 .. 10}) /\ n = C!Positional(t, 10)
IsPrecision(d)  == \/ d.dotted = <<>> /\ d.precision = NoPrecision /\ ~d.star
                   \/ /\ d.conv = "s" /\ d.dotted = <<".", "*">> /\ d.star
                      /\ d.starred \in Int /\ d.precision = Signed(d.starred, INT_BITS)
                   \/ /\ d.conv = "s" /\ d.dotted # <<>> /\ d.dotted = <<".">> \o Tail(d.dotted) /\ ~d.star
                      /\ IsDecimal(Tail(d.dotted), d.precision)
Carries(d) ==
    LET bits == IF d.long THEN LONG_BITS ELSE INT_BITS
    IN  \/ d.conv \in {"d", "i"} /\ d.arg \in Int /\ d.val = Signed(d.arg, bits)
        \/ d.conv \in {"u", "o", "x", "X"} /\ d.arg \in Int /\ d.val = Unsigned(d.arg, bits)
        \/ /\ d.conv \in {"s", "c", "p"} /\ ~d.long /\ d.arg = d.val
           /\ d.conv = "s" => d.val \in Seq(Range(d.val)) /\ d.val # NULL_STR
           /\ d.conv = "p" => d.val \in Nat
        \/ d.conv \in {"%", "n"} /\ ~d.long /\ d.written = <<>> /\ d.wide = <<>>
IsDirective(d) == /\ d.written \in Seq(FlagChars) /\ d.flags = Range(d.written)
                  /\ IsDecimal(d.wide, d.width) /\ (d.wide # <<>> => d.wide[1] # "0")
                  /\ d.long \in BOOLEAN /\ d.star \in BOOLEAN /\ IsPrecision(d) /\ Carries(d)
IsText(d)      == d.conv = "text" /\ d.val \in Seq(Range(d.val)) /\ d.val # <<>> /\ "%" \notin Range(d.val) /\ ~d.star

\* Two texts in a row are one.
PrintJob(j) == LET ds == j.directives
               IN  /\ ds \in Seq(Range(ds)) /\ j.room \in Nat
                   /\ \A i \in 1 .. Len(ds) : IsText(ds[i]) \/ IsDirective(ds[i])
                   /\ \A i \in 1 .. Len(ds) - 1 : ds[i].conv # "text" \/ ds[i + 1].conv # "text"
                   /\ j.format = FlattenSeq([i \in 1 .. Len(ds) |-> Spelled(ds[i])])
                   /\ j.args = FlattenSeq([i \in 1 .. Len(ds) |-> Passed(ds[i])])

\* The words behind the options name the files, which offsets can count.
HexJob(j) == /\ FilesHold(j.files) /\ AreWords(j.argv)
             /\ LET operands == Len(j.argv) - 1 - C!Options(Tail(j.argv), OptionSpec).used
                IN  IF operands = 0 THEN IsStdin(j.files) ELSE Len(j.files) = operands
             /\ Len(Data(j.files, Len(j.files))) + CHUNK_SIZE <= ULONG_MAX

ASSUME JobsAssumption ==
    \A k \in DOMAIN Jobs : \A j \in Jobs[k] : /\ j.prog = "cat" => CatJob(j)
                                              /\ j.prog = "wc" => WcJob(j)
                                              /\ j.prog = "getopt" => OptJob(j)
                                              /\ j.prog = "numbers" => NumJob(j)
                                              /\ j.prog = "printf" => PrintJob(j)
                                              /\ j.prog = "hexdump" => HexJob(j)

-----------------------------------------------------------------------------
VARIABLES job,
          answers,     \* of strtol, strtoul and atoi
          options_found

vars == <<job, answers, options_found, files_vars, getopt_vars, hexdump_vars, wc_vars, cat_vars,
          printf_vars>>

Runs(p) == job.prog = p

\* Where a program begins.
Entry == [numbers |-> "convert", getopt |-> "options", printf |-> "print", hexdump |-> "args",
          wc |-> "words", cat |-> "next"]

Init == /\ \E k \in DOMAIN Jobs : job \in Jobs[k]
        /\ answers = <<>> /\ options_found = <<>>
        /\ FilesInit(IF Runs("cat") /\ Len(job.argv) = 1 THEN "copy" ELSE Entry[job.prog])
        /\ GetoptInit /\ HexdumpInit /\ WcInit /\ CatInit
        /\ IF Runs("printf") THEN PrintfInit(job.format, job.args, job.room)
                             ELSE PrintfInit(<<>>, <<>>, IF Runs("cat") THEN job.room ELSE 0)

-----------------------------------------------------------------------------
Convert == /\ Runs("numbers") /\ pc = "convert"
           /\ answers' = <<strtol(job.text, job.base), strtoul(job.text, job.base), atoi(job.text)>>
           /\ Goto("done")
           /\ UNCHANGED <<job, options_found, fileno, is_open, pos, reports, getopt_vars, hexdump_vars, wc_vars,
                          cat_vars, printf_vars>>

\* A program may switch getopt's messages off before it calls it.
Silence == /\ Runs("getopt") /\ pc = "options" /\ options_found = <<>> /\ opterr
           /\ opterr' = FALSE
           /\ UNCHANGED <<job, answers, options_found, files_vars, optind, curr_arg, retval, optopt, optarg,
                          complaints, hexdump_vars, wc_vars, cat_vars, printf_vars>>

FindOption == /\ Runs("getopt") /\ pc = "options"
              /\ getopt(job.argv, job.spec)
              /\ \/ retval' = STOP /\ Goto("done") /\ UNCHANGED options_found
                 \/ /\ retval' # STOP /\ UNCHANGED pc
                    /\ options_found' = Append(options_found,
                                          [ret |-> retval', opt |-> optopt', arg |-> optarg'])
              /\ UNCHANGED <<job, answers, fileno, is_open, pos, reports, hexdump_vars, wc_vars, cat_vars,
                             printf_vars>>

Format == /\ Runs("printf") /\ pc = "print"
          /\ \/ _vfprintf /\ UNCHANGED pc
             \/ fmt = <<>> /\ Goto("done") /\ UNCHANGED printf_vars
          /\ UNCHANGED <<job, answers, options_found, fileno, is_open, pos, reports, getopt_vars, hexdump_vars, wc_vars,
                         cat_vars>>

Hexdump == /\ Runs("hexdump") /\ hexdump(job.argv, job.files)
           /\ UNCHANGED <<job, answers, options_found, wc_vars, cat_vars, printf_vars>>

Wc == /\ Runs("wc") /\ wc(job.argv, job.files)
      /\ UNCHANGED <<job, answers, options_found, getopt_vars, hexdump_vars, cat_vars, printf_vars>>

Cat == /\ Runs("cat") /\ cat(job.files)
       /\ UNCHANGED <<job, answers, options_found, getopt_vars, hexdump_vars, wc_vars, fmt, ap, nw, stored>>

Next == Convert \/ Silence \/ FindOption \/ Format \/ Hexdump \/ Wc \/ Cat

Spec == Init /\ [][Next]_vars

-----------------------------------------------------------------------------
Done(p) == Runs(p) /\ pc = "done"

\* strtol and strtoul take the longest number that the text begins with, stop
\* behind it, and answer the nearest value and ERANGE when it does not fit;
\* atoi agrees with them as far as an int reaches.
NumbersAsC ==
    Done("numbers") =>
      /\ answers[1] = C!ToLong(job.text, job.base)
      /\ answers[2] = C!ToULong(job.text, job.base)
      /\ LET n == C!Number(job.text, 10).val
         IN  n = Signed(n, INT_BITS) => answers[3] = n

\* The calls of getopt find the options of the words, clusters, arguments and
\* errors, one after another and none twice, and stop at the first operand.
\* Messages are given for what is wrong, unless they are switched off.
OptionsAsPosix ==
    Done("getopt") =>
      LET all == C!Options(Tail(job.argv), job.spec)
          bad == {i \in DOMAIN options_found : options_found[i].ret = "?"}
      IN  /\ options_found = all.found
          /\ optind = 1 + all.used
          /\ Len(complaints) = IF opterr /\ job.spec[1] # ":" THEN Cardinality(bad) ELSE 0

\* printf writes what its directives say and counts it, also for %n; on a
\* stream that fails it writes as much as goes and returns -1.
PrintedAsC ==
    Done("printf") =>
      LET text == C!Text(job.directives)
      IN  /\ out = Take(text, job.room)
          /\ nw = IF Len(text) > job.room THEN -1 ELSE Len(text)
          /\ stored = C!Stored(job.directives, job.room)

-----------------------------------------------------------------------------
Everything  == Data(job.files, Len(job.files))
Dumped      == FlattenSeq([i \in DOMAIN dump |-> dump[i].bytes])

\* The dump begins as the files do, in full chunks at their offsets, up to
\* the limit.  Less than a chunk is missing at the end (see OutputComplete).  The
\* status is that of all that was met up to the limit.
DumpSound ==
    Done("hexdump") =>
      /\ Dumped = Take(Everything, Len(Dumped)) /\ Len(Dumped) <= conf.limit
      /\ Len(Dumped) > Min({Len(Everything), conf.limit}) - CHUNK_SIZE
      /\ \A i \in DOMAIN dump : /\ dump[i].at = (i - 1) * CHUNK_SIZE
                                /\ i < Len(dump) => Len(dump[i].bytes) = CHUNK_SIZE
      /\ (reports # <<>>) = \E i \in DOMAIN job.files :
                              LET upTo == IF job.files[i].fails = "open" THEN i - 1 ELSE i
                              IN  /\ job.files[i].fails # "none"
                                  /\ Len(Data(job.files, upTo)) < conf.limit

\* The sum of numbers, one after another
Together(ns) == LET sum[n \in 0 .. Len(ns)] == IF n = 0 THEN 0 ELSE sum[n - 1] + ns[n] IN sum[Len(ns)]

\* wc's rows are the counts of C!Counts of the files, and of them together,
\* up to the first file that fails.
WcCounts ==
    (Runs("wc") /\ pc \in {"done", "failed"}) =>
      LET fs   == job.files
          bad  == {i \in DOMAIN fs : fs[i].fails # "none"}
          good == IF bad = {} THEN Len(fs) ELSE Min(bad) - 1
      IN  /\ (pc = "failed") = (bad # {})
          /\ Len(rows) = IF bad = {} /\ Len(fs) > 1 THEN good + 1 ELSE good
          /\ \A i \in 1 .. good : rows[i].stats = C!Counts(fs[i].data)
          /\ Len(rows) > good =>
               rows[good + 1].stats = [lines   |-> Together([i \in 1 .. Len(fs) |-> C!Counts(fs[i].data).lines]),
                                       words   |-> Together([i \in 1 .. Len(fs) |-> C!Counts(fs[i].data).words]),
                                       bytes   |-> Together([i \in 1 .. Len(fs) |-> Len(fs[i].data)]),
                                       max_len |-> Max({C!Counts(fs[i].data).max_len : i \in 1 .. Len(fs)})]

\* What stdout accepts for a device that takes so many bytes: its buffer is
\* written when it is full and a byte more comes, so it gets stuck at the first
\* multiple of its size beyond what the device takes.
Accepts(takes) == (takes \div FILE_BUF_CAP + 1) * FILE_BUF_CAP

\* What cat leaves on the device is what the files hold as far as there is room.
\* Reported are just the files that could not be read and those with bytes that
\* stdout did not accept, which need not be the file whose bytes are lost.
CatCopies ==
    Done("cat") =>
      LET fs == job.files
      IN  /\ out = Take(Everything, job.room)
          /\ \A i \in DOMAIN fs :
                (\E r \in Range(reports) : r[2] = i - 1) =
                   \/ fs[i].fails \in {"open", "read"}
                   \/ fs[i].data # <<>> /\ Len(Data(fs, i)) > Accepts(job.room)

\* A program that reports nothing has put out everything: hexdump each byte
\* read, up to the limit, cat each byte of the files.
OutputComplete ==
    reports = <<>> =>
      /\ Done("hexdump") => Dumped = Take(Everything, conf.limit)
      /\ Done("cat") => out = Everything
=============================================================================
