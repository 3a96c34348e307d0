------------------------------- MODULE Files --------------------------------
(***************************************************************************)
(* The files that the sample programs work through, one after another, by  *)
(* the library's streams.  Module Stdio shows what is relied on here: fread *)
(* gives all that was asked for, or what there is up to the end or to an   *)
(* error, and ferror tells which.  A file may fail to open, fail where its *)
(* data ends, or fail to close.                                            *)
(***************************************************************************)
EXTENDS Integers, Sequences, FiniteSetsExt

VARIABLES pc,          \* where the program is
          fileno,      \* the file at hand, from 0
          is_open,
          pos,         \* what was read of it
          reports      \* the failures that were reported, with their files

files_vars == <<pc, fileno, is_open, pos, reports>>

\* What can fail: "open", "read" or "close", or "none" does.
File(data, fails) == [data |-> data, fails |-> fails]

FilesInit(start) == pc = start /\ fileno = 0 /\ is_open = FALSE /\ pos = 0 /\ reports = <<>>

Goto(place)  == pc' = place
Report(what) == reports' = Append(reports, <<what, fileno>>)

fread(f, want) == SubSeq(f.data, pos + 1, Min({pos + want, Len(f.data)}))
ferror(f)      == f.fails = "read"

\* The failure of what was just called, if it is the one that f has.
ReportIf(f, what) == IF f.fails = what THEN Report(what) ELSE UNCHANGED reports
=============================================================================
