------------------------------- MODULE Getopt -------------------------------
(***************************************************************************)
(* Options of a command line (stdlib/getopt.c), one call of getopt a step. *)
(* The place within a word of several options is kept in a static from     *)
(* call to call.  Words are sequences of characters that end with NUL; the *)
(* word with C's index i is Arg(argv, i).                                  *)
(***************************************************************************)
EXTENDS Integers, SequencesExt

VARIABLES optind, opterr,
          curr_arg,      \* what is left of the word of options; NULL if none is
          retval,        \* what the last call returned
          optopt, optarg,
          complaints     \* the messages on stderr

getopt_vars == <<optind, opterr, curr_arg, retval, optopt, optarg, complaints>>

NULL == <<>>       \* a null pointer: every word has at least its NUL
End  == "\\0"
STOP == "-1"       \* as a return value: -1

Argc(argv)   == Len(argv)
Arg(argv, i) == argv[i + 1]

\* _init_getopt
GetoptInit == /\ optind = 1 /\ opterr = TRUE
              /\ curr_arg = NULL
              /\ retval = End /\ optopt = End /\ optarg = NULL
              /\ complaints = <<>>

-----------------------------------------------------------------------------
\* Does the next word hold options?  Not the word "-".
AtOptions(argv) == /\ optind < Argc(argv)
                   /\ Arg(argv, optind)[1] = "-" /\ Arg(argv, optind)[2] # End
DashDash == <<"-", "-", End>>

\* The end of the options, with or without "--".
Stop(argv) ==
    /\ curr_arg = NULL
    /\ \/ ~AtOptions(argv) /\ UNCHANGED optind
       \/ AtOptions(argv) /\ Arg(argv, optind) = DashDash /\ optind' = optind + 1
    /\ retval' = STOP
    /\ UNCHANGED <<opterr, curr_arg, optopt, optarg, complaints>>

\* strchr(spec, opt) finds opt, with a colon behind it or not.
Known(spec, opt)   == opt \in Range(spec) \ {End}
TakesArg(spec, opt) == LET at == CHOOSE i \in 1 .. Len(spec) :
                                   spec[i] = opt /\ \A j \in 1 .. i - 1 : spec[j] # opt
                       IN  spec[at + 1] = ":"

\* A word is left behind when its last option is taken.
Left(rest) == IF rest = <<End>> THEN NULL ELSE rest

Complain(spec, what) ==
    complaints' = IF spec[1] # ":" /\ opterr THEN Append(complaints, what) ELSE complaints

Unknown(spec, opt, rest, ind) ==
    /\ ~Known(spec, opt)
    /\ retval' = "?" /\ optarg' = NULL
    /\ curr_arg' = Left(rest) /\ optind' = ind
    /\ Complain(spec, <<"illegal option", opt>>)

Flag(spec, opt, rest, ind) ==
    /\ Known(spec, opt) /\ ~TakesArg(spec, opt)
    /\ retval' = opt /\ optarg' = NULL
    /\ curr_arg' = Left(rest) /\ optind' = ind
    /\ UNCHANGED complaints

ArgInWord(spec, opt, rest, ind) ==
    /\ Known(spec, opt) /\ TakesArg(spec, opt) /\ rest # <<End>>
    /\ retval' = opt /\ optarg' = rest
    /\ curr_arg' = NULL /\ optind' = ind
    /\ UNCHANGED complaints

\* mutant: the argument's word is looked at again
ArgIsWord_again(argv, spec, opt, rest, ind) ==
    /\ Known(spec, opt) /\ TakesArg(spec, opt) /\ rest = <<End>> /\ ind < Argc(argv)
    /\ retval' = opt /\ optarg' = Arg(argv, ind)
    /\ curr_arg' = NULL /\ optind' = ind
    /\ UNCHANGED complaints
ArgIsWord(argv, spec, opt, rest, ind) ==
    /\ Known(spec, opt) /\ TakesArg(spec, opt) /\ rest = <<End>> /\ ind < Argc(argv)
    /\ retval' = opt /\ optarg' = Arg(argv, ind)
    /\ curr_arg' = NULL /\ optind' = ind + 1
    /\ UNCHANGED complaints

ArgMissing(argv, spec, opt, rest, ind) ==
    /\ Known(spec, opt) /\ TakesArg(spec, opt) /\ rest = <<End>> /\ ind >= Argc(argv)
    /\ retval' = IF spec[1] = ":" THEN ":" ELSE "?"
    /\ optarg' = NULL
    /\ curr_arg' = Left(rest) /\ optind' = ind
    /\ Complain(spec, <<"option requires an argument", opt>>)

Option(argv, spec) ==
    /\ curr_arg # NULL \/ (AtOptions(argv) /\ Arg(argv, optind) # DashDash)
    /\ LET word == IF curr_arg # NULL THEN curr_arg ELSE Tail(Arg(argv, optind))
           ind  == IF curr_arg # NULL THEN optind ELSE optind + 1
           opt  == Head(word)
           rest == Tail(word)
       IN  /\ optopt' = opt
           /\ \/ Unknown(spec, opt, rest, ind) \/ Flag(spec, opt, rest, ind)
              \/ ArgInWord(spec, opt, rest, ind) \/ ArgIsWord(argv, spec, opt, rest, ind)
              \/ ArgMissing(argv, spec, opt, rest, ind)
    /\ UNCHANGED opterr

getopt(argv, spec) == Stop(argv) \/ Option(argv, spec)
=============================================================================
