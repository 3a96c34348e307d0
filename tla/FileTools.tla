----------------------------- MODULE FileTools ------------------------------
(***************************************************************************)
(* The sample programs wc and cat (samples/wc.c, samples/cat.c).  wc stops *)
(* at the first failure; cat goes on with the next file, and writes by way *)
(* of the buffer of stdout to a device with `room` for so many bytes.      *)
(***************************************************************************)
EXTENDS Files, Printf

CONSTANTS BUF_SIZE,      \* cat's blocks
          FILE_BUF_CAP   \* the buffer of stdout

ASSUME BufAssumption     == BUF_SIZE \in Nat \ {0}
ASSUME FileBufAssumption == FILE_BUF_CAP \in Nat \ {0}

VARIABLES options, argi,                  \* wc: the options, the next word
          stats, prev_char, curr_len,     \* wc: the file at hand
          total, rows,
          block,      \* cat: what of the last block fwrite has not taken yet
          src_err,    \* FFLG_ERR of the file at hand
          held,       \* what is in stdout's buffer and not written yet
          buf_len     \* how full the buffer is

wc_vars  == <<options, argi, stats, prev_char, curr_len, total, rows>>
cat_vars == <<block, src_err, held, buf_len>>

stats_zero == [lines |-> 0, words |-> 0, bytes |-> 0, max_len |-> 0]

WcInit == /\ options = {} /\ argi = 1
          /\ stats = stats_zero /\ prev_char = " " /\ curr_len = 0
          /\ total = stats_zero /\ rows = <<>>

StopWith(what) == Report(what) /\ Goto("failed")

-----------------------------------------------------------------------------
\* arg_parse, a word a step: "-" and "--" are words of options too.
WcOptions == {"l", "w", "c", "L"}

AtWcOptions(argv) == argi < Len(argv) /\ argv[argi + 1][1] = "-"

WcArgs(argv) ==
    /\ pc = "words" /\ AtWcOptions(argv)
    /\ LET given == {argv[argi + 1][i] : i \in 2 .. Len(argv[argi + 1]) - 1}
       IN  \/ given \subseteq WcOptions /\ options' = options \cup given /\ argi' = argi + 1 /\ UNCHANGED pc
           \/ ~(given \subseteq WcOptions) /\ Goto("usage") /\ UNCHANGED <<options, argi>>
    /\ UNCHANGED <<fileno, is_open, pos, reports, stats, prev_char, curr_len, total, rows>>

WcOperands(argv) ==
    /\ pc = "words" /\ ~AtWcOptions(argv)
    /\ options' = IF options = {} THEN {"l", "w", "c"} ELSE options
    /\ Goto(IF argi >= Len(argv) THEN "count" ELSE "next")
    /\ UNCHANGED <<fileno, is_open, pos, reports, argi, stats, prev_char, curr_len, total, rows>>

\* open_file
WcOpen(n, fs) ==
    /\ pc = "next" /\ fileno < n
    /\ \/ fs[fileno + 1].fails = "open" /\ StopWith("open") /\ UNCHANGED is_open
       \/ fs[fileno + 1].fails # "open" /\ is_open' = TRUE /\ Goto("count") /\ UNCHANGED reports
    /\ pos' = 0
    /\ stats' = stats_zero /\ prev_char' = " " /\ curr_len' = 0
    /\ UNCHANGED <<fileno, options, argi, total, rows>>

-----------------------------------------------------------------------------
int_max(a, b) == IF a < b THEN b ELSE a

\* get_stats, a character a step
WordStarted(c) == c \notin Spaces /\ prev_char \in Spaces
WcChar(fs) ==
    LET f == fs[fileno + 1]
        c == f.data[pos + 1]
        newline == c = "\n"
    IN  /\ pc = "count" /\ pos < Len(f.data)
        /\ stats' = [lines   |-> stats.lines + (IF newline THEN 1 ELSE 0),
                     words   |-> stats.words + (IF WordStarted(c) THEN 1 ELSE 0),
                     bytes   |-> stats.bytes + (IF newline THEN curr_len + 1 ELSE 0),
                     max_len |-> IF newline THEN int_max(stats.max_len, curr_len) ELSE stats.max_len]
        /\ prev_char' = c
        /\ curr_len' = IF newline THEN 0 ELSE curr_len + 1
        /\ pos' = pos + 1
        /\ UNCHANGED <<pc, fileno, is_open, reports, options, argi, total, rows>>

\* The last line, with or without its newline
\* mutant: its length is not looked at
Ended_short == [stats EXCEPT !.bytes = @ + curr_len]
Ended       == [stats EXCEPT !.bytes = @ + curr_len, !.max_len = int_max(@, curr_len)]

WcEof(fs) ==
    LET f == fs[fileno + 1]
    IN  /\ pc = "count" /\ pos = Len(f.data)
        /\ \/ ferror(f) /\ StopWith("read") /\ UNCHANGED stats
           \/ ~ferror(f) /\ stats' = Ended /\ Goto("counted") /\ UNCHANGED reports
        /\ UNCHANGED <<fileno, is_open, pos, options, argi, prev_char, curr_len, total, rows>>

\* close_file, print_row and stats_accum; stdin is not closed and has no label.
Row(label, s) == [label |-> label, options |-> options, stats |-> s]

WcClose(fs) ==
    /\ pc = "counted" /\ is_open
    /\ is_open' = FALSE
    /\ \/ fs[fileno + 1].fails = "close" /\ StopWith("close") /\ UNCHANGED <<fileno, total, rows>>
       \/ /\ fs[fileno + 1].fails # "close"
          /\ rows' = Append(rows, Row(fileno + 1, stats))
          /\ total' = [lines |-> total.lines + stats.lines, words |-> total.words + stats.words,
                       bytes |-> total.bytes + stats.bytes,
                       max_len |-> int_max(total.max_len, stats.max_len)]
          /\ fileno' = fileno + 1 /\ Goto("next") /\ UNCHANGED reports
    /\ UNCHANGED <<pos, options, argi, stats, prev_char, curr_len>>

WcStdin == /\ pc = "counted" /\ ~is_open
           /\ rows' = Append(rows, Row("none", stats))
           /\ Goto("done")
           /\ UNCHANGED <<fileno, is_open, pos, reports, options, argi, stats, prev_char, curr_len, total>>

WcTotal(n) == /\ pc = "next" /\ fileno = n
              /\ rows' = IF n > 1 THEN Append(rows, Row("total", total)) ELSE rows
              /\ Goto("done")
              /\ UNCHANGED <<fileno, is_open, pos, reports, options, argi, stats, prev_char, curr_len, total>>

wc(argv, fs) == \/ WcArgs(argv) \/ WcOperands(argv)
                \/ WcOpen(Len(argv) - argi, fs) \/ WcChar(fs) \/ WcEof(fs) \/ WcClose(fs)
                \/ WcStdin \/ WcTotal(Len(argv) - argi)

-----------------------------------------------------------------------------
\* cat: a file that cannot be opened is passed over.
CatInit == block = <<>> /\ src_err = FALSE /\ held = <<>> /\ buf_len = 0

CatOpen(fs) ==
    /\ pc = "next" /\ fileno < Len(fs)
    /\ pos' = 0 /\ src_err' = FALSE
    /\ \/ fs[fileno + 1].fails = "open" /\ Report("open") /\ fileno' = fileno + 1 /\ UNCHANGED <<pc, is_open>>
       \/ fs[fileno + 1].fails # "open" /\ is_open' = TRUE /\ Goto("copy") /\ UNCHANGED <<fileno, reports>>
    /\ UNCHANGED <<block, room, out, held, buf_len>>

\* A block is read; a short one may have met the end or an error.
CatRead(fs) ==
    LET f == fs[fileno + 1]
    IN  /\ pc = "copy" /\ block = <<>>
        /\ block' = fread(f, BUF_SIZE)
        /\ pos' = pos + Len(block')
        /\ src_err' = (src_err \/ (Len(block') < BUF_SIZE /\ ferror(f)))
        /\ IF block' = <<>> THEN Goto("end") ELSE UNCHANGED pc
        /\ UNCHANGED <<fileno, is_open, reports, room, out, held, buf_len>>

\* fwrite's loop: a byte goes to stdout's buffer, or the full buffer out first.
CatPut == /\ pc = "copy" /\ block # <<>> /\ buf_len # FILE_BUF_CAP
          /\ held' = Append(held, Head(block)) /\ block' = Tail(block)
          /\ buf_len' = buf_len + 1
          /\ UNCHANGED <<files_vars, src_err, room, out>>

\* The kernel takes what the device has room for and refuses the rest, which
\* stays in a buffer that is as full as before.
\* mutant: the buffer is emptied whether or not all of it went out
fflush_clears ==
    /\ out' = out \o Take(held, room) /\ held' = <<>>
    /\ room' = Max({room - Len(held), 0}) /\ buf_len' = 0
fflush ==
    /\ out' = out \o Take(held, room)
    /\ held' = SubSeq(held, room + 1, Len(held))
    /\ room' = Max({room - Len(held), 0})
    /\ buf_len' = IF Len(held) <= room THEN 0 ELSE buf_len

\* A short answer of fwrite ends the file's copying.
CatFlush ==
    /\ pc = "copy" /\ block # <<>> /\ buf_len = FILE_BUF_CAP
    /\ fflush
    /\ \/ Len(held) <= room /\ UNCHANGED <<pc, reports, block>>
       \/ Len(held) > room /\ Report("write") /\ block' = <<>> /\ Goto("end")
    /\ UNCHANGED <<fileno, is_open, pos, src_err>>

\* fclose's answer is not looked at; stdin is the last and only one.
CatEnd == /\ pc = "end"
          /\ \/ src_err /\ Report("read")
             \/ ~src_err /\ UNCHANGED reports
          /\ is_open' = FALSE /\ fileno' = fileno + 1
          /\ Goto(IF is_open THEN "next" ELSE "exit")
          /\ UNCHANGED <<pos, block, src_err, room, out, held, buf_len>>

\* The exit status is 0 whatever was reported, and _fini_stdio does not look at
\* the answer of its fflush.
CatExit(fs) == /\ pc = "exit" \/ (pc = "next" /\ fileno = Len(fs))
               /\ fflush
               /\ Goto("done")
               /\ UNCHANGED <<fileno, is_open, pos, reports, block, src_err>>

cat(fs) == CatOpen(fs) \/ CatRead(fs) \/ CatPut \/ CatFlush \/ CatEnd \/ CatExit(fs)
=============================================================================
