------------------------------ MODULE Hexdump -------------------------------
(***************************************************************************)
(* The sample program hexdump (samples/hexdump.c): its options by getopt   *)
(* and strtoul, its files put together to chunks.  Of a line of the dump   *)
(* only its offset and its bytes are kept.                                 *)
(***************************************************************************)
EXTENDS Files, Numbers, Getopt

CONSTANT CHUNK_SIZE

ASSUME ChunkAssumption == CHUNK_SIZE \in Nat \ {0}

VARIABLES conf,        \* limit, canonical
          offset,
          want, buf,   \* read_chunk: the bytes still wanted, those it counts
          part,        \* and those of the last fread
          dump

hexdump_vars == <<conf, offset, want, buf, part, dump>>

HexdumpInit == /\ conf = [limit |-> ULONG_MAX, canonical |-> FALSE]
               /\ offset = 0 /\ want = 0 /\ buf = <<>> /\ part = <<>> /\ dump = <<>>

ChunkVars == <<offset, want, buf, part, dump>>

-----------------------------------------------------------------------------
\* argparse, an option a step
OptionSpec  == <<"C", "n", ":", End>>
LengthLimit == strtoul(SubSeq(optarg', 1, Len(optarg') - 1), 10)

ParseOption(argv) ==
    /\ pc = "args"
    /\ getopt(argv, OptionSpec)
    /\ \/ retval' = "C" /\ conf' = [conf EXCEPT !.canonical = TRUE] /\ UNCHANGED pc
       \/ /\ retval' = "n" /\ ~LengthLimit.erange /\ LengthLimit.end = Len(optarg') - 1
          /\ conf' = [conf EXCEPT !.limit = LengthLimit.val] /\ UNCHANGED pc
       \/ /\ retval' = "n" /\ (LengthLimit.erange \/ LengthLimit.end # Len(optarg') - 1)
          /\ Goto("usage") /\ UNCHANGED conf
       \/ retval' \notin {"C", "n", STOP} /\ Goto("usage") /\ UNCHANGED conf
       \/ retval' = STOP /\ Goto("loop") /\ UNCHANGED conf
    /\ UNCHANGED <<fileno, is_open, pos, reports, ChunkVars>>

\* The operands that are left name the files; without any it is stdin.
nfiles(argv)       == Argc(argv) - optind
Stream(argv, fs)   == fs[fileno + 1]
Opened(argv)       == is_open \/ nfiles(argv) = 0

-----------------------------------------------------------------------------
\* The head of hexdump's loop and of read_chunk
Wanted == IF Unsigned(offset + CHUNK_SIZE, LONG_BITS) > conf.limit THEN conf.limit - offset
          ELSE CHUNK_SIZE

NextChunk(argv) == /\ pc = "loop" /\ offset < conf.limit
                   /\ want' = Wanted /\ buf' = <<>> /\ part' = <<>>
                   /\ Goto(IF Opened(argv) THEN "read" ELSE "open")
                   /\ UNCHANGED <<fileno, is_open, pos, reports, conf, offset, dump>>

AtLimit == /\ pc = "loop" /\ offset >= conf.limit
           /\ Goto("done")
           /\ UNCHANGED <<fileno, is_open, pos, reports, conf, ChunkVars>>

\* open_next.  With a file at last, the bytes of the one before are counted.
\* mutant: they are not
Resumed_empty == want' = want /\ buf' = buf
Resumed       == want' = want - Len(part) /\ buf' = buf \o part

OpenNext(argv, fs) ==
    /\ pc = "open" /\ fileno < nfiles(argv) /\ Stream(argv, fs).fails # "open"
    /\ is_open' = TRUE /\ pos' = 0
    /\ Resumed /\ part' = <<>>
    /\ Goto("read")
    /\ UNCHANGED <<fileno, reports, conf, offset, dump>>

CannotOpen(argv, fs) ==
    /\ pc = "open" /\ fileno < nfiles(argv) /\ Stream(argv, fs).fails = "open"
    /\ Report("open") /\ fileno' = fileno + 1
    /\ UNCHANGED <<pc, is_open, pos, conf, ChunkVars>>

\* No file follows: read_chunk leaves its loop before the last fread counts.
NoNext(argv) == /\ pc = "open" /\ fileno = nfiles(argv)
                /\ Goto("chunk")
                /\ UNCHANGED <<fileno, is_open, pos, reports, conf, ChunkVars>>

ReadAll(argv, fs) ==
    LET bytes == fread(Stream(argv, fs), want)
    IN  /\ pc = "read" /\ want > 0 /\ Len(bytes) = want
        /\ want' = 0 /\ buf' = buf \o bytes /\ pos' = pos + want
        /\ UNCHANGED <<pc, fileno, is_open, reports, conf, offset, part, dump>>

\* The file is at its end, or failed.
ReadShort(argv, fs) ==
    LET f     == Stream(argv, fs)
        bytes == fread(f, want)
    IN  /\ pc = "read" /\ want > 0 /\ Len(bytes) < want
        /\ part' = bytes
        /\ pos' = pos + Len(bytes)
        /\ ReportIf(f, "read")
        /\ Goto(IF nfiles(argv) = 0 THEN "chunk" ELSE "close")
        /\ UNCHANGED <<fileno, is_open, conf, offset, want, buf, dump>>

\* next_file
CloseThis(argv, fs) ==
    /\ pc = "close"
    /\ ReportIf(Stream(argv, fs), "close")
    /\ is_open' = FALSE /\ fileno' = fileno + 1
    /\ Goto("open")
    /\ UNCHANGED <<pos, conf, ChunkVars>>

ChunkFull == /\ pc = "read" /\ want = 0
             /\ Goto("chunk")
             /\ UNCHANGED <<fileno, is_open, pos, reports, conf, ChunkVars>>

\* format_chunk
PrintChunk == /\ pc = "chunk" /\ buf # <<>>
              /\ dump' = Append(dump, [at |-> offset, bytes |-> buf, text |-> conf.canonical])
              /\ offset' = offset + Len(buf)
              /\ Goto("loop")
              /\ UNCHANGED <<fileno, is_open, pos, reports, conf, want, buf, part>>

NoChunk == /\ pc = "chunk" /\ buf = <<>>
           /\ Goto("done")
           /\ UNCHANGED <<fileno, is_open, pos, reports, conf, ChunkVars>>

\* The exit status says whether a failure was reported.
hexdump(argv, fs) ==
    \/ ParseOption(argv)
    \/ /\ \/ NextChunk(argv) \/ AtLimit
          \/ OpenNext(argv, fs) \/ CannotOpen(argv, fs) \/ NoNext(argv)
          \/ ReadAll(argv, fs) \/ ReadShort(argv, fs) \/ CloseThis(argv, fs) \/ ChunkFull
          \/ PrintChunk \/ NoChunk
       /\ UNCHANGED getopt_vars
=============================================================================
