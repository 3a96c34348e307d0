# smolcc in TLA+

smolcc is a C compiler for a subset of C, in one file (`compiler/smolcc1.c`),
which compiles itself for AArch64 Linux; beside it are a small C library
(`stdlib/`), scripts that drive the assembler and linker, samples and tests.
This directory holds TLA+ modules of it, TLC configurations that check them on
small instances, and proofs for all instances that TLAPS checks. Paths below
are relative to the repository; line numbers without a file are of
`compiler/smolcc1.c`.

The program is sequential. What is hard about it is not interleaving but state
that outlives the function that set it: tables that a recursive parser mutates
on the way down and up, one pass that relies on flags another pass may still
change, one accumulator register that every sub-expression wants, buffers that
survive failed system calls, statics that outlive the call that set them, and
inputs that end or fail anywhere. The properties are about these.

## Contents

1. Inventory of the system
2. The modules
3. The runs
4. The proofs
5. Where the program departs from C
6. What is not modelled, and the plan

## 1. Inventory

### The compiler

| Part (lines) | State | Operations | What makes it correct |
|---|---|---|---|
| Output (17-75) | none | `writef` and friends | text reaches the file; results of `write` are ignored |
| Arena, strings (80-165) | `arena`, `arena_len`, list of interned strings | `alloc`, `mem_clone`, `intern` | blocks never overlap, are zero when handed out; a text (a name, or the bytes of a string literal) has one address for ever |
| Types (170-365) | list of interned types | `mk_*_ty`, `intern_ty`, `ty_size`, predicates | equal types are one object; sizes and alignments are right |
| Symbols (370-560) | chain of scopes, each a list of symbols; `curr_func` | `push_scope`, `pop_scope`, `lookup`, `declare`, `forward_struct` | an identifier means what C says; storage and definedness agree with C's linkage; members have places of their own |
| Analysis (565-955) | the tree being rewritten | `elab_*`, `eval`, conversions | types, lvalues and implicit conversions as in C; folding agrees with running |
| Lexer (957-1108) | the read buffer, the next character and its place, the token | `peek_char`, `skip_chr`, `next_chr`, `lex` | longest match over any cut of the input; literals' values and ranges |
| Parser (1110-1610) | `curr_loop`, `curr_func`, the token | `p_expr`, `p_stmt`, `p_struct`, `p_enum`, `p_decl` | the tree is C's; a `break` has its own loop; scopes are balanced on every path |
| Code (1612-2060) | counters of labels and loops | `emit_*` | the code computes what the tree means; arguments arrive, named or not; labels are unique; the frame is sound |
| `main` (2062-2108) | position in the file scope | two passes | every symbol in use has a definition or is global |

The parser calls the analysis for each expression as it completes it, and
declares symbols as it meets declarators; nothing is emitted before the whole
file is parsed. `main` then walks the file scope, and the code generator reads
the flags that later declarations may have changed. Everything lives in the
arena and nothing is ever freed. An error anywhere (`err_at`, `die`) ends the
compiler with status 1.

### The library, and around it

| Part | State | Operations | What makes it correct |
|---|---|---|---|
| `stdlib/stdio.c` | table of `struct file`, `n_streams` | `fopen`, `fclose`, `fflush`, `fwrite`, `fread`, `clearerr`, init and fini | bytes are neither lost nor doubled over short and failing system calls; answers are true; no leaks |
| `stdlib/stdio_printf.c` | the output's count and failure | `printf` family (no `snprintf`) | C's conversions; the count returned, also when the stream fails |
| `stdlib/stdlib.c`, `string.c`, `ctype.c` | none | `strtol`, `memmove`, `strncpy`, ... | as in C at the boundaries |
| `stdlib/getopt.c` | `optind`, a static place within the word | `getopt` | clusters, arguments, `--`, from call to call |
| `stdlib/errno.c`, `syscall.c`, `syscall_core.s`, `crt.s` | `errno` | system calls, start-up, exit | init before `main`, fini after |
| `scripts/` | temporary files | driver, test runner, formatters | stages in order, exit codes kept |
| `Makefile`, `mk/` | built files | three bootstrap stages | nothing stale |
| `samples/` | counters; `hexdump`'s chunk and place in the list of files | `cat`, `wc`, `hexdump` | each byte of each file counts once, over failures of any file |
| `tests/` | - | clients | - |

`fopen`, `fwrite` and the others use only the system calls; `printf` goes to
`fwrite`; `crt.s` calls `_init_stdio`, `main`, and `exit`, which calls
`_fini_stdio`.

Hazards, each at its line and with the properties that cover it, are in
`PROJECT.json`.

## 2. The modules

| Module | Models | Kind |
|---|---|---|
| `Arena` | `alloc`, `mem_clone`, `intern` on an arena of bytes | state machine |
| `ArenaProofs` | | proofs |
| `Layout` | `declare`'s offsets, nested `p_struct`, frames in `p_decl` and `emit_func` | state machine |
| `LayoutProofs` | | proofs |
| `CLinkage` | C's rules for file-scope names of one translation unit | abstract specification |
| `Linkage` | scopes, `declare`, prototypes, `main`'s walk, addressing; implements `CLinkage` | state machine |
| `LinkageProofs` | | proofs |
| `CTypes` | types, sizes, predicates, ranges of integers | operators |
| `Elab` | `elab_expr` and conversions, `eval` | operators |
| `Codegen` | `emit_expr` and everything under it; the frame, prologue and epilogue of `emit_func` | operators |
| `CMeaning` | what C says an expression does, with the calls it makes | reference definition |
| `Machine` | the AArch64 core at work on `Codegen`'s output, held to `CMeaning` | state machine |
| `CControl` | C's statements, run on their text | reference definition |
| `StmtGen` | `p_stmt`, `emit_stmt`, `emit_func`'s labels, run and held to `CControl` | state machine |
| `ByteStream` | what a stream promises: a queue of bytes | abstract specification |
| `Stdio` | `stdio.c` over failing system calls; implements `ByteStream` | state machine |
| `StdioProofs` | | proofs |
| `CTokens` | C's tokens, by longest match on a whole text | reference definition |
| `Lexer` | `peek_char` to `lex`, over a file descriptor | state machine |
| `LexerProofs` | | proofs |
| `Parser` | `p_expr`, and `p_decl` for the names of types | operators |
| `CGrammar` | C's grammar of expressions, and the trees of a text | reference definition |
| `Source` | `Lexer` and `Parser` at work on texts, held to `CTokens` and `CGrammar` | state machine |
| `Numbers` | `strtol`, `strtoul`, `atoi` | operators |
| `Getopt` | a call of `getopt` | operators |
| `Printf` | `p_fmt`, the conversions, padding, `%n`, on a stream that may fail | operators |
| `CLib` | what C and POSIX say of these | reference definition |
| `Files` | files that can be opened, read to an error and closed, or not | operators |
| `Hexdump`, `FileTools` | `hexdump`; `wc` and `cat` | operators |
| `Programs` | all these at work on their inputs, held to `CLib` and to the whole of the files | state machine |
| `LibraryProofs`, `PrintfProofs`, `SampleProofs` | | proofs |

`MC*` modules give TLC its constants. Operators that end in `_something` and
carry a comment "mutant" are plausible bugs: a wrong version of the definition
after them, which some property must refute (see `PROJECT.json`). They are used
by nothing else.

**Arena.** `mem` is a function from addresses to bytes, so that zeroing,
alignment and overlap are not assumed but follow from what `alloc` writes.
Actions: `Alloc`, `AllocDies` (out of room: `die`), writes into blocks by their
owners, and `intern` in its found and new cases, with its two allocations.
`blocks` and `interned` are history: who owns what, and what `intern` was given
and answered. A text is a sequence of bytes with its length, NULs included: the
parser interns string literals as well as names (1187), so two texts may agree
up to a NUL.

**Layout.** An owner is a struct tag or the function; `size`, `align` and
`members` are the fields of its symbol. `declare` is one operator for fields,
parameters and locals, as in the source. The parser's recursion is the stack
`open`, so bodies nest in any way. A struct closed without members divides by
its alignment 0 (`CloseEmptyStruct`); the behaviour ends there.

**Linkage.** `syms` holds every symbol, `scopes` the chain of scopes, as
indices into it. The parser is free: any order of declarations, blocks,
prototypes, tags, enumerators and uses that the bounds allow. `refs` are the
`Expr_Var` and `Expr_Func` nodes, each with the function whose code holds it;
the second pass (`EmitSym`) makes labels. The refinement mapping to `CLinkage`
forgets scopes and passes: the declarations so far, the labels, whether the
file is finished or refused.

**Elab, Codegen, Machine.** A tree is a record with the node's kind, type,
operands and value. `Elab` rewrites it as `elab_expr` does, with every cast it
inserts; `Codegen` yields the instructions as records; `Machine` executes them.
Memory is bytes, registers are numbers below 2^16, and a byte has
`ByteBits = 2` bits: `char` is -2..1, `int` (4 bytes) -128..127, `long` (8
bytes) -2^15..2^15 - 1, and `movk` moves a quarter. All widths in bytes are the
source's. This keeps values within what TLC can compute with while every
boundary between char, int and long is there. Labels within an expression are
distances to jump. `is_signed` of a pointer type is never set (344), hence
`ptr_is_signed` is either.

A function of the file (`Funcs`: parameters, locals and the expression it
returns) is compiled with the prologue and epilogue of `emit_func` around it
and put before the code of the tree; `bl` and `ret` go there and back. The
stack is memory from `sp` up: pushes, frames, parameters, saved registers and
locals are bytes in it, bytes that come into use are not clear, and what is
below `sp` cannot be reached. `FrameOf` has the offsets that `p_decl` and
`declare` compute, and `FramesAssumption` says that the instances use them. A
function of another file (`f`) clobbers every register but x29 and returns a
value in w0 or x0 with the rest clear, as smolcc's own do.

`CMeaning` is written from C's rules and knows nothing of registers: a value,
a memory, and whether behaviour is defined. Undefined expressions are excused.
Each call has objects of its own, at addresses that no memory has, and a list
of the arguments without a name; `va_arg` takes the first, which must have the
type asked for. The two machines agree in the caller's memory and in the
result, not in where the objects of a call are.
Signed overflow wraps, and operands are evaluated left to right, as smolcc
compiles both on purpose; the arithmetic of `void *` counts as undefined.

**StmtGen.** `p_stmt` passes `curr_loop` and the number of loops made from
statement to statement and returns `struct stmt`s chained by `sub` and `next`;
`emit_stmt` gives out numbers as the source's counters do. A file has two
functions, so that counters and `curr_loop` carry over from the first. The code
then runs with each condition true or false at each evaluation, and `todo`, the
rest of the program that `CControl` still has to run, must ask for the same
expression at every step.

**Stdio.** `call` is the library call in progress (operation, stream, place in
the loop, next step). Each system call is one step with all its outcomes: a
write of one byte up to all, or a failure; a read of one byte up to a full
buffer, the end, or a failure; a `close` that fails still frees the descriptor,
as on Linux. `sent` and `got` are history, renewed when a stream is opened. The
refinement mapping: a stream of `ByteStream` is open when its struct is in use
and has a descriptor.

**Lexer, Parser, Source.** `Lexer` reads a text a character a step; each
`read()` returns what it likes, from one byte to a full buffer, or fails. The
buffer, the position in it, and the place of the character are the source's
statics. What is read is compared with `CTokens`, which cuts the whole text by
the rule of longest match and knows neither buffer nor look-ahead. `Parser` is
`p_expr` on a sequence of tokens: the same climbing by numbers, the same
rewriting of `>`, `>=`, `[]` and `->`, the same places where it gives up.
`CGrammar` derives trees from C's productions, left recursion and all; a text
has exactly one tree or none, and `p_expr` must find that one.

**Programs.** A job is one function of the library, or one program, and its
input (`JobsAssumption` says what every input satisfies); the actions are its
calls (`getopt`), parts (`printf`), conversions, characters (`wc`), blocks
(`hexdump`), and blocks and the bytes of blocks (`cat`). A job of `printf` is a sequence of directives, each a record
of what it says (flags, width, precision, conversion, value) together with how
it is written; its format and its arguments are these written and passed one
after another (`Spelled`, `Passed`). `C!Text` reads the records, `_vfprintf`
only the characters and arguments. Files have bytes and places where
`open`, a read or `fclose` fails. The stream of `printf` takes so many
characters and fails then. `cat` writes through the buffer of `stdout`
(`held`, `buf_len`) as `fwrite` and `fflush` do: a byte goes to the buffer, the
full buffer is written before the next byte comes (`CatFlush`), and once more at
exit (`CatExit`, which is `_fini_stdio`). The device has room for so many bytes,
takes part of a write when the rest does not fit, and refuses from then on; so
`cat` learns of it up to a buffer later, perhaps in another file, or never. The
references see the input whole: the numbers in
it, the options by the rules of POSIX, the text that each directive prints, the
bytes of all files one after the other.

## 3. The runs

| Run | Checks | Bounds |
|---|---|---|
| `arena` | `BlocksApart`, `NamesIntact`, `NamesCanonical`, `FreshBlocksZero` | 58 bytes, blocks of 0 and 12, texts empty, `1`, `12`, and with NUL (here 0) `10`, `102`, `103` |
| `layout` | `MembersApart`, `LayoutAligned`, `FrameSound`, `ReservedSizesFinal` | two tags, one function; widths 1 and 8; arrays of 0 and 3; up to 3 members |
| `linkage` | `AddressesResolve`, `LabelsUnique`, `LinkageAsInC` | 2 names, 3 symbols, 3 scopes deep, 3 file-scope declarations, all storage classes |
| `scopes` | `OneMeaning`, `LocalsInOwnFrame`, `OuterScopesUntouched` | 2 names, 4 symbols, 4 scopes deep, no storage classes written |
| `expr` | `ResultIsMeaning`, `EffectsAsMeant`, `StackBalanced`, `FoldAgrees`, `UpperHalfClear` | the trees and functions of `MCMachine`, three memories |
| `stmt` | `RunsAsWritten`, `LabelsSound`, `StraysRefused` | every statement in every loop, two loops deep, two functions |
| `stdio` | `NothingLost`, `AnswersAreTrue`, `TableSound`, `ByteStreams`, `CallsEnd` | 4 structs, buffers of 2, 5 bytes a stream, 4 kinds of object |
| `source` | `TokensAsC`, `TreeAsGrammar` | texts of up to 3 of 19 characters and some longer ones; token sequences of up to 3 and all pairs of operators; buffer of 2, tokens of 3, literals up to 255, 2 parameters |
| `programs` | `NumbersAsC`, `OptionsAsPosix`, `PrintedAsC`, `DumpSound`, `WcCounts`, `CatCopies` | 6-bit `long`, 4-bit `int`; chunks of 3 bytes; `cat`'s blocks of 2, its `stdout` of 3; see below |
| `tentative`, `deviations`, `output` | one property each, violated | see section 5 |

`TypeOK` is checked by each run that has one.

Why the bounds are enough. *arena*: three strings fit, and the arena runs out
in every position, including between the two allocations of `intern`; the
texts include the empty one, prefixes, two of equal length, and three that agree
up to a NUL, two of them in length too. *layout*: two
tags are what it takes for a body inside another and for a member of the outer
tag; 1 and 8 are the extreme alignments; `StructsOrFrame` splits the instances
in those about structs and those about a frame, which meet only in the size of
a member. *linkage*: a name conflicts with an earlier declaration of itself,
and three declarations are enough for a static, an extern and a definition of
one name; the second name is the function that uses it. *scopes*: four levels
are file, parameters, body and an inner block, and four symbols allow each
level to shadow the one outside. *expr*: every binary operator on every pair of
the six integer types in memory, constants on both sides of each `movk` and
immediate boundary, each cast after each cast, and operators nested where the
accumulator is at stake (calls in calls, effects in what `&&`, `||` and `?:`
skip, struct copies inside pointers). Memories hold 0, negative values, values
whose low half is 0 and values that do not fit the narrower type. The seven
functions have parameters of every width, call themselves, one another and a
function of another file, write through a pointer into the caller's frame, hand
their `va_list` on, and are variadic with six saved registers, with one and
with none; calls have up to eight arguments, with calls among them, and one too
few, too many or of a wrong type. *stmt*: a
jump crosses at most the inner loop and reaches the outer one. *stdio*: one
struct beyond the standard three makes `fopen` find the table full, and find a
free place in its middle after an `fclose`; two bytes of buffer and five of
stream make it fill, drain in part, fail and fill again. Calls for reading and
writing use one struct (`Used`); they meet other streams only in the table.
*source*: `lex` looks at three characters at most, two of them past the buffer's
end when it is of 2; three characters are every operator and every cut of it,
and the longer texts have literals at and past the limits, escapes, comments
and names at the limit. Precedence is a relation between two operators, so all
pairs, and each operator between two others, are what climbing can get wrong.
*programs*: numbers are all texts of three characters over signs, spaces,
digits, letters and `x`, and every number near the limits in bases 8, 10 and 16
with each sign, read in bases 0, 2, 8, 10, 16 and 36; command lines are up to
three of twelve words with four option strings; directives have up to two
flags, widths 0, 1, 4 and 12, and every conversion, on streams with room for 1,
4 and 100 characters, and formats are of up to four parts; files are up to
three, of up to three bytes, each of which may fail once. A chunk of three is
filled by one, two or three files, and a block of two splits a file. For `cat`
one or two files have up to five bytes each and the device room for 0 to 10:
blocks of two and a buffer of three are out of step, so the buffer fills at each
place in a block and in a file, the device is full within a buffer, at its end
or not at all, and the refusal is met in the file whose bytes are lost, in the
next one, in both or at exit.

`CHECK_DEADLOCK FALSE` stands where the program really ends.

**Fairness.** Only `stdio` needs it. `FairSpec` says that a call, once made, is
executed on: the code is sequential and every step of a call is a statement or
a system call that returns (`WF_vars(Step)`). Nothing is assumed of the
program, which may stop calling, nor of which outcome the kernel chooses;
`CallsEnd` holds even when every write fails or takes one byte. A kernel that
answers 0 to a write of bytes for ever is excluded: `fflush` would not end.

## 4. The proofs

TLAPS proves, with no bound on any constant:

| Module | Theorems | Assumptions |
|---|---|---|
| `ArenaProofs` | `TypeCorrect`, `BlocksNeverOverlap`, `NamesStayIntact`, `NamesAreCanonical`, `AllocReturnsZeroes` | capacity, sizes and header length are natural numbers, texts finite sequences of bytes, NULs among them |
| `LayoutProofs` | `TypeCorrect`, `MembersNeverOverlap`, `LayoutIsAligned`, `FrameIsSound`, `SizesAreFinal`, `CompleteStructsStay` | the function is not a tag, widths are 1, 4 or 8, array lengths are integers |
| `LinkageProofs` | `TypeCorrect`, `NamesMeanOneThing`, `LocalsStayInTheirFrame`, `LabelsAreUnique`, `AddressesAlwaysResolve`, `OuterScopesStay`, `CompilerLinksAsC` | the storage classes a file may write are C's; for the last theorem also `~LateTentative`, which it states |
| `StdioProofs` | `TypeCorrect`, `NoByteIsLost`, `CallsTellTheTruth`, `TableIsSound`, `StreamsAreQueues` | at least the three standard streams, a buffer of at least a byte |
| `LexerProofs` | `LexerIsRight` | a buffer of at least a byte, tokens of at least three characters (an ellipsis), `ULONG_MAX` a natural number; an input is a finite sequence of characters, none of which is EOF (the byte 0xFF may be, and becomes EOF where `char` is signed) |
| `LibraryProofs` | `GetoptIsRight` | `OptJob`: every word ends at its only NUL, and holds no -1; `?` is no option; a letter that stands twice in the option string takes an argument both times or neither |
| | `NumbersAreRight` | `NumJob`: the text is a finite sequence, the base is 0 or from 2 to 36; `PowersAssumption`: `2^n` is twice `2^(n-1)`, and not less for a `long` than for an `int`, at the two widths (the provers know no laws of powers) |
| `PrintfProofs` | `PrintfIsRight` | `PrintJob`: a directive is text without `%`, or has flags, a decimal width that does not begin with `0`, a precision only for `s` (digits, `*`, or none after the dot), and an argument with the bits of its value; two texts in a row are written as one; pointers are natural numbers and a string is not the null pointer; `PowersAssumption` |
| `SampleProofs` | `CatIsFaithful` | blocks and a buffer of `stdout` of at least a byte; `CatJob`: files are finite sequences and fail at `open`, `read` or `close` or not at all, standard input is one file that is open |
| | `WcIsRight` | `WcJob`: files as for `cat`; options come before the names of files |
| | `DumpIsSound` | a chunk of at least a byte; `HexJob`: words as for `getopt`, files as for `cat`, as many as there are operands (or standard input alone), and their length together with a chunk is at most `ULONG_MAX` |

The kinds of job are conjuncts of `JobsAssumption` in `Programs`, and TLC
evaluates them for the inputs of the run.

**Arena.** The invariants the run checks are not inductive: that blocks are
apart depends on where the next one goes. `IInv` adds `Below` (all blocks end
at or below `arena_len`, which is under the capacity while the compiler lives),
`Clean` (everything above is still zero), and `Owned` (a string's characters
are a block that only `intern` writes) and `Asked` (each string on the list is
the answer for some text). A new block starts at or above
`arena_len`, so it is apart from all others and zero; a write into a block
touches no other block, in particular no name. `NamesIntact`, over `interned`,
has the length and every byte of what was asked for; with it a string that
`Matches` a text was made for that text (`FoundStays`), also when another one
agrees with it up to a NUL. The mutant of `Matches` that stops at a NUL, as
`strcmp` would, is refuted by `NamesCanonical`.

**Layout.** `IInv` adds `Aligned` (only an owner without bytes has alignment
0), `Covers` (an owner's alignment is at least each member's; alignments are 1,
4 or 8, so it is a multiple) and `FramePhases` (no member of the frame before
it is opened, none below the 16 bytes of the frame record after). One lemma on
`declare` serves fields, parameters and locals. `SizesAreFinal` rests on the
action property `CompleteStructsStay`: once a struct's size is set, no step
touches its size, alignment or members, since only an owner on `open` is written
to, and a complete struct is not opened again; so a type that was complete when
an object of it was reserved has the same size for ever.

**Linkage.** `IInv` has nine parts. `Table` is the symbol table by itself: in
each open scope two symbols with one name are a tag and something else, no
symbol is in two scopes, objects with linkage are in the file scope and places
in a frame are not. `declare` is one lemma on tables (`Growing`): a name is
either new in its scope, or its symbol agrees with what is declared and changes
only in `storage` and `is_defined`. `Shape` ties the depth of the chain to what
is open, `Frames` says that the scopes of a body hold places of this body's
frame only (a parameter list in front of a body included, which is why
`ParamsApart` is needed: `p_decl` declares the parameters twice), `Resolved`
that each reference was made by the function whose frame it names, `Emission`
that the labels are those of the symbols that `main` has passed. A label is
unique because `main` passes each symbol of the file scope once and `Table` has
one symbol for a name there. `AsDeclared` is the glue to C: a symbol of the file
scope sums up all declarations of its name so far. With it each step of the
compiler is a step of `CLinkage` or stutters, and at the end the labels are the
definitions that C needs. This last part needs `~LateTentative`: after
`extern int x; int x;` the symbol does not sum up its declarations, as the run
`tentative` shows. Everything else is proved with and without such files.

**Stdio.** `IInv` is `Types`, `Within` (`buf_pos <= buf_len <= FILE_BUF_CAP`),
`NothingLost`, `Idle` (a struct without flags is all zero, and only the one
that `fopen` is opening has descriptor -1), `CallSound` (what a call in
progress may take for granted, such as an open stream and a size that is not
0), `Owed` (the answers, and what is due before they are given: after a flush
that succeeded the kernel has everything, after one that failed in `exit` the
stream is marked) and `Table` (count, descriptors, one to one, at every
moment). `Idle` is why a recycled struct starts with an empty buffer;
`Within` is why `fwrite`'s test `buf_len == FILE_BUF_CAP` is enough.
`StreamsAreQueues` is the refinement that the run `stdio` checks
(`Spec => BS!Spec`): each step's lemma shows the invariant and that the step
sends, gets, opens, closes or leaves the queue alone. The lemmas on sequences
(`RestGrown`, `RestPassed`, ...) say what is in a buffer and what has left it.

**Lexer.** `TokensAsC` speaks of the moment when the lexer is done; before, the
text is not known, since what has not been read may turn out to be anything.
The invariant `LexInv` therefore speaks of every text that may still come
(`Seen`: what was received, and any beginning of what follows; after EOF only
what was received): at the place p of such a text t, `Held(t, p)` says that the
tokens made, followed by those that `CTokens` finds in t from the beginning b of
the token at hand, are all tokens of t, and that the characters from b to p are
what the lexer's mode and variables say of them. Some things hold of all t at
once and some only of the one that comes in the end: `InSuffix` says that the
digits stop at d in every t, `RightSoFar` that nothing is wrong with a literal
up to p. `InputTyped`, `CharOk` and `PosOk` tie `chr` and `chr_pos` to the
buffer and its position, and `DotsOk` and `LastSeen` carry what `peek_char` saw
behind two dots to the two `next_chr` that follow, across a refill.

The reference looks for the longest token, and for its least fault, in the whole
text; the lexer decides a character at a time. `NumberGoes`, `WordGoes` and
`SymGoes` say which texts can be a token of each kind, so that the place where
the lexer stops is that of the longest; `EscapedStep`, `UnitsStep` and
`CharsIs` follow a literal character by character, and `LiteralComplaints` and
`PlainWrong` show that the complaint that comes first in the code is the first
in the text, with the one about a value before the one about the length.
`Horner` relates a literal's value so far to `Worth`, and `OverflowsIs` the test
before the multiplication to the limit. There is one lemma for each action
(`BeginStep` to `BootStep`), and `HeldStep` has them all. The theorem is about
`LexSpec`, in which the parser only takes the tokens; `Source`, which the run
checks, adds the tree the parser makes of them, and takes the same steps.

A failing `read` behind two dots is the one case left out, as in the property:
the token is cut there, and the rest of the input may still come.

**Programs.** What the references say of the whole input is said with `CHOOSE`n
recursive functions and folds over sequences, so these proofs are inductions
over data. `LibraryProofs` begins with the means: `Induct` (a set of numbers that has 0,
and with each number the next, has all; shown by its least missing element),
that a recursive function over the length of a sequence exists and satisfies
its equation (for concatenations and sums), and how these grow by one file.

*cat.* `Buffered` is the centre. What was given to `stdout`, which is all that
was read but for the block at hand, is on the device or in the buffer, one
behind the other, as far as it was accepted (`Given`): the bytes refused later
are the end of `out \o held`, and nothing is lost, doubled or out of order
between the two. The buffer is `Going`, every full one before it having been
written whole, or it is `Stuck`: full, with something in it that the device has
no room for. How much is accepted in all follows from the room alone
(`Accepts`): the first multiple of the buffer's size beyond it, since the buffer
is only written when it is full (`AcceptsIs`). That is what `Said` and `AtHand`
need to tell which files are reported, none before its turn: those that failed,
and those not empty that end beyond that limit, from the one at hand when the
buffer gets stuck. `FlushIs` says what one flush does, whole or in part, for
`CatFlush` and `CatExit`; there is one lemma for each action.

*wc.* Its invariant relates counting character by character, with a flag for
being inside a word and the length of the line so far, to counting positions in
the file at once: `Upto(P, n)` is the number of positions up to n in P,
`Longest` is the greatest length of a stretch without a newline and `AtLine`
the length of the one being read. `RowsSoFar` has the rows of the files before,
`AllCounted` the totals, and `WordsRead` says that options come before files.

*getopt.* `FoundSoFar` says that the options returned so far, followed by what
`C!Options` finds from the present place (word and character), are all that
`C!Options` finds, and `SaidSoFar` that there is a complaint for each `?`
unless complaints are off. The reference looks at whole words (the letters up
to the first that takes an argument, the rest of the word or the next word),
while `getopt` keeps a pointer into a word from call to call: `LetterFirst`,
`ArgFirst` and `WordIsOver` take the reference's account of a word apart letter
by letter. That `C!Options` is defined at all, and returns options of its
alphabet, is an induction downwards from the last word (`FromIs`, `FromTyped`).

*Numbers.* `Parsed` names the three places `try_parse` finds (sign, first digit,
end); `EndsAre` shows that the end is that of the longest number C sees: a
shorter one is a prefix, a longer one would hold the character that stopped the
loop, and after `0x` without a hexadecimal digit only the `0` is a number.
`HasRead` is the loop's invariant: what was read is the value of the digits so
far while that fits, and stays marked once it does not, since
`r.n > (ULONG_MAX - d) / base` is just `r.n * base + d > ULONG_MAX`
(`DivisionFits`). The rest is the limits of the types.

*printf.* `AtPart` is the invariant: for some i, what the first i directives
print has gone to the stream as far as that takes it (`Streams`), `%n` has
stored the counts of those among them, in their order, and, while nothing
failed, the count is the length of that text and what is left of the format and
of the arguments is what the directives behind the i-th are written and passed
as (`Awaits`). Once a part did not fit, the format is abandoned and the result
is -1. A step of `_vfprintf` is taken apart as the source is: `p_fmt` finds
the places where flags, width, precision and `l` end, each by a search for the
first character that does not belong, and the lemmas on `Begins` show that
these are the places where they were written (hence the condition that a width
does not begin with the flag `0`, and that a text ends at `%` or at the end).
Digits made from the last to the first by division are those that `C!InDigits`
takes by powers of the base (`PlaceIs` and what follows it); a negative number
is printed by the magnitude of its successor, so that the least `int` and `long`
come out right; the padding of `fmt_num_core` and `fmt_str_core` is C's for each
combination of flags.

*hexdump.* Its invariant has two halves. While options are read, `Arguing`
holds: nothing is dumped yet and `Ahead` says where `getopt` is among the words
and that the operands follow, which `getopt`'s lemmas carry from call to call.
From then on it is `Works`: `Whole` says that all bytes read so far are those in
the dump and those in the chunk at hand, but for less than a chunk dropped at
the end (138), and only there; `Full` that every chunk but the last is full and
stands at a multiple of `CHUNK_SIZE`, also where one file ends and the next
begins in the middle of it; `Counts` that `offset` is what was dumped and that
the chunk is never given more room than the limit leaves; `Told` that something
was reported just when a file passed so far failed. `RoomIs` is where the bound
on the files' length is needed: the source adds a chunk to `offset`, as an
`unsigned long`, before it compares with the limit.

**Only model-checked.** `CallsEnd` is liveness, out of the prover's reach. The
properties of `Machine` and `StmtGen`, and `TreeAsGrammar` of `Source`, are about
`Elab`, `Codegen`, `CMeaning`, `CControl`, `Parser` and `CGrammar`, which recur
over trees by `RECURSIVE` operators, and tlapm has no SMT backend where one is
in reach.

## 5. Where the program departs from C

README.md:33 of the repository claims that semantic analysis "follows C
semantics fairly closely, with some simplifications", that conversions,
pointer arithmetic and the like "are supported in their basic form", and that
scope, storage classes and linkage "are properly handled". The passing runs
leave out the inputs below, by the named definitions and nothing else; a run
shows each.

| Input | What happens | Run | Left out by |
|---|---|---|---|
| `extern int x; int x;` | the symbol stays extern, and no label is emitted (declare keeps the first storage class; 2097) | `tentative` | `LateTentative = FALSE` |
| `c + l`, narrow beside wide | computed as `int` (700) | `deviations`: `MCNarrowWide` | `Agree` |
| `p[-1]` | `w0`'s zero high half enters the address (1858) | `MCNegIndex` | indices are not negative |
| `!l` | only the low half is tested (1795) | `MCNotWide` | `Inner` under `Not` is of int type |
| `l \|\| i` where `l` decides | the low half of `l` is tested as an int (1850) | `MCOrWide` | `Wide` operands of `\|\|` are in no pair |
| `(int)-c` | unary operators do not promote (815) | `MCNarrowUnary` | `Wide` operands of unary operators and shifts |
| `a = (i, b)` for structs | `die`: "unreachable" (1726) | `MCStructComma` | no comma on the right of a struct assignment |
| `cat` to a device that gets full | what it refuses is lost without a word when it is found in the last flush (stdlib/stdio.c:257), as up to 1024 bytes are; found earlier, the file at hand is blamed | `output`: `MCCats` | `CatCopies` is about what `stdout` accepts, `OutputComplete` about all |
| `hexdump` of files whose last chunk is short | the bytes of the last short read are neither dumped nor counted (samples/hexdump.c:138); tests/good/samples/hexdump-text.txt expects them | `output`: `MCHexdumps` | `DumpSound` allows for the tail, `OutputComplete` does not |

The run `deviations` checks the union of these sets and stops at the first it
finds; each set by itself violates `ResultIsMeaning` too, which giving it to
`Exprs` shows. So it is with the two sets of jobs of `output`, given to `Jobs`:
a file of one byte that `hexdump` drops, and one of one byte that `cat` sends
to a device that takes none.

Smaller observations, not counted as errors and without a run:

- Types: `struct s { int n; struct s in; };` is accepted, and `in` has the size
  that `s` had by then (483). `ReservedSizesFinal` speaks of the types that were
  complete when an object of them was reserved.
- Streams: `fread` asks the kernel again after the end of file was seen (the
  flag is kept, not consulted); `fopen` leaves `errno` alone when the table is
  full; `stderr` is buffered and appears at exit; an `fwrite` that fails part
  way through an object has taken its first bytes.
- Lexer: a `read` that fails behind the two dots of what may be `...` is taken
  for the end of the file; `010` is ten; suffixes are `u` before `l`. `CTokens`
  says the same of the last two.
- Parser: the right operand of `,` is parsed at the level of `,`, so commas nest
  to the right; an assignment to what is no lvalue is refused later, by `elab`;
  `f(void)` is refused as a parameter of a bad type. Arguments beyond those
  named are not promoted; as registers hold them extended, `va_arg` reads the
  promoted value.
- `getopt`: an option string with `:` in it accepts the option `-:`; a call
  after the one that passed `--` would go on with options. `strtol` takes an
  invalid base for 36.
- `printf`: the precision of integers and of a null string is ignored, and so
  is the width of `%%`; `strchr(s, 0)` answers 0, where C has it find the
  terminator.
- Programs: `hexdump -n ''` and `-n -1` are accepted; `cat` exits with 0 always
  and ignores `fclose`; `wc` has printed the rows before the file that fails,
  and counts in `int`.

## 6. What is not modelled, and the plan

Deliberate limits of the modules so far:

- Linkage: parameters that are functions; names declared as functions inside
  blocks have no linkage with the file scope; initialisers are not parsed, so
  that a local is in scope within its own initialiser (1603) is not covered.
- Layout: sizes are unbounded integers, where the source has `int`.
- Types are values: that `intern_ty` makes equal types one object is assumed.
- Machine: a function's body is one return statement; locals are scalars and
  `va_list`s; stack arguments are refused by the parser (at most eight); a
  callee from another compiler may leave junk above w0 in x0, which the test of
  `f() && l` would read.
- Source: a byte 0xFF, which is the end of the file where `char` is signed, is
  in no text; names of types have no struct, enum, `va_list` or function in
  them; keywords as names of members, which the parser accepts, and a repeated
  `unsigned`.
- printf: widths and the count are natural numbers, where the source has
  `unsigned int` and `int`; the run and `PrintfIsRight` are therefore about
  outputs whose width and length an `int` can hold, which is where C defines the
  result.
- Programs: the layout of what `hexdump` and `wc` print, messages, precision of
  integers, null strings, invalid bases; `printf`'s stream is taken as unbuffered
  with a limit (buffers are `Stdio`'s), so -1 and the count are those of a stream
  that refuses at once; `hexdump` and `wc` write to one that takes all; the
  device of `cat` never gets room again; a file fails at most once.
- StmtGen: expressions are names, so the labels within `&&`, `||` and `?:` are
  not among those counted; a loop without a condition has a step.
- Stdio: streams used against their direction, which C leaves undefined; the
  table and the position of files in the kernel; `errno`.
- Output, driver, build, samples and tests: shell, make and text.

Order of what is next:

1. **Types**: a module of `ty_eq` and `intern_ty` with recursion through
   pointers, functions and tags: one object per type, also for types that
   mention a struct still incomplete. Proof: interning is canonical.
2. **Declarators**: `p_decl` and `p_declarator` in full, with parameters that
   are functions, in `Parser`, and the initialisers of locals and globals
   (`elab_init`) in `Elab` and `Linkage`.
3. **Statements with expressions**: `StmtGen`'s trees over `Machine`'s
   expressions, one counter of labels for both.
4. **Build and driver**: the stages and their dependencies, the pipeline's
   failures.
