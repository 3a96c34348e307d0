------------------------------- MODULE Arena --------------------------------
(***************************************************************************)
(* The compiler's only allocator and the string table built on it          *)
(* (compiler/smolcc1.c: alloc, mem_clone, intern).  Memory is handed out   *)
(* by bumping arena_len and is never given back; every other part of the   *)
(* compiler relies on three promises that are written nowhere: blocks      *)
(* never overlap, a new block is all zero, and equal names have one        *)
(* address, so that lookup_in may compare names with ==.                   *)
(***************************************************************************)
EXTENDS Integers, Sequences, FiniteSets

CONSTANTS Cap,      \* Arena_Cap, the size of the arena in bytes
          Sizes,    \* the sizes the compiler asks alloc for
          HdrLen,   \* sizeof(struct string)
          Texts     \* the identifiers and string literals: literals may hold NULs

ASSUME CapAssumption   == Cap \in Nat
ASSUME SizesAssumption == Sizes \subseteq Nat
ASSUME HdrAssumption   == HdrLen \in Nat \ {0}
ASSUME TextsAssumption == Texts \subseteq Seq(Nat)

VARIABLES arena_len,  \* first byte not handed out, before alignment
          mem,        \* the bytes of arena[]; a static array, so zero at start
          blocks,     \* every block handed out: [at, len, use]
          strings,    \* the list of struct string: [chars, len]
          interned,   \* history: what intern was given and has returned, [text, str]
          aborted     \* die() was called

vars == <<arena_len, mem, blocks, strings, interned, aborted>>

Addr == 0 .. Cap - 1

\* Mutants: rounding down, and a bump that goes backwards.
align_up_floor(n, align) == (n \div align) * align
EndOf_backwards(at, n) == at - n

align_up(n, align) == ((n + align - 1) \div align) * align

\* The end of a block of n bytes, and the test that die() guards.
EndOf(at, n) == at + n
Fits(end)    == ~(end >= Cap)

\* Where the next block starts; the mutant reuses the tail of the last one.
NextAt_reuses == align_up_floor(arena_len, 8)
NextAt        == align_up(arena_len, 8)

Bytes(b) == b.at .. (b.at + b.len - 1)

Init == /\ arena_len = 0
        /\ mem = [a \in Addr |-> 0]
        /\ blocks = {}
        /\ strings = {}
        /\ interned = {}
        /\ aborted = FALSE

(***************************************************************************)
(* alloc(n) for a struct of the compiler: a symbol, a scope, an            *)
(* expression, a statement.  A leaf expression asks for 0 bytes of subs.   *)
(***************************************************************************)
Alloc(n) ==
    /\ ~aborted
    /\ arena_len' = EndOf(NextAt, n)
    /\ Fits(arena_len')
    /\ blocks' = blocks \cup {[at |-> NextAt, len |-> n, use |-> "obj"]}
    /\ UNCHANGED <<mem, strings, interned, aborted>>

AllocDies(n) ==
    /\ ~aborted
    /\ arena_len' = EndOf(NextAt, n)
    /\ ~Fits(arena_len')
    /\ aborted' = TRUE
    /\ UNCHANGED <<mem, blocks, strings, interned>>

(***************************************************************************)
(* The owner of a struct writes its fields: the bytes of its own block.    *)
(***************************************************************************)
Fill(b) ==
    /\ ~aborted
    /\ b.use = "obj"
    /\ mem' = [a \in Addr |-> IF a \in Bytes(b) THEN 1 ELSE mem[a]]
    /\ UNCHANGED <<arena_len, blocks, strings, interned, aborted>>

\* len == str->len && mem_eq(str->chars, s, len)
\* mutant: the comparison ends at a NUL
Matches_to_nul(str, t) ==
    \A i \in 1 .. Len(t) + 1 :
        (\A k \in 1 .. i - 1 : mem[str.chars + k - 1] # 0) =>
            mem[str.chars + i - 1] = IF i <= Len(t) THEN t[i] ELSE 0
Matches(str, t) == /\ str.len = Len(t)
                   /\ \A i \in 1 .. Len(t) : mem[str.chars + i - 1] = t[i]

InternFound(t) ==
    /\ ~aborted
    /\ \E str \in strings : /\ Matches(str, t)
                            /\ interned' = interned \cup {[text |-> t, str |-> str]}
    /\ UNCHANGED <<arena_len, mem, blocks, strings, aborted>>

\* Where the two blocks of a new string go: its header, then its characters.
HdrEnd      == EndOf(NextAt, HdrLen)
CharsAt     == align_up(HdrEnd, 8)
CharsEnd(t) == EndOf(CharsAt, Len(t) + 1)

\* mem_clone copies len + 1 bytes, the terminating NUL included.
Cloned(t) == [a \in Addr |->
                IF a \in NextAt .. HdrEnd - 1 THEN 1
                ELSE IF a \in CharsAt .. (CharsAt + Len(t) - 1)
                       THEN t[a - CharsAt + 1]
                ELSE IF a = CharsAt + Len(t) THEN 0 ELSE mem[a]]

\* The list node of a new string
StringFor(t) == [chars |-> CharsAt, len |-> Len(t)]

InternNew(t) ==
    /\ ~aborted
    /\ ~\E str \in strings : Matches(str, t)
    /\ Fits(HdrEnd) /\ Fits(CharsEnd(t))
    /\ arena_len' = CharsEnd(t)
    /\ blocks' = blocks \cup
                   {[at |-> NextAt, len |-> HdrLen, use |-> "header"],
                    [at |-> CharsAt, len |-> Len(t) + 1, use |-> "chars"]}
    /\ mem' = Cloned(t)
    /\ LET str == StringFor(t)
       IN  /\ strings' = strings \cup {str}
           /\ interned' = interned \cup {[text |-> t, str |-> str]}
    /\ UNCHANGED aborted

InternDies(t) ==
    /\ ~aborted
    /\ ~\E str \in strings : Matches(str, t)
    /\ ~(Fits(HdrEnd) /\ Fits(CharsEnd(t)))
    /\ arena_len' = IF Fits(HdrEnd) THEN CharsEnd(t) ELSE HdrEnd
    /\ aborted' = TRUE
    /\ UNCHANGED <<mem, blocks, strings, interned>>

Next == \/ \E n \in Sizes : Alloc(n) \/ AllocDies(n)
        \/ \E b \in blocks : Fill(b)
        \/ \E t \in Texts : InternFound(t) \/ InternNew(t) \/ InternDies(t)

Spec == Init /\ [][Next]_vars

-----------------------------------------------------------------------------

BlockRec  == [at : Nat, len : Nat, use : {"obj", "header", "chars"}]
StringRec == [chars : Nat, len : Nat]

\* Every variable has its type.
TypeOK == /\ arena_len \in Nat
          /\ mem \in [Addr -> Nat]
          /\ blocks \subseteq BlockRec
          /\ strings \subseteq StringRec
          /\ interned \subseteq [text : Seq(Nat), str : strings]
          /\ aborted \in BOOLEAN

\* alloc never hands out a byte twice, nor one outside the arena, and every
\* block starts on 8 bytes: two structs of the compiler never share memory.
BlocksApart ==
    /\ \A b \in blocks : /\ b.at + b.len < Cap
                         /\ b.at % 8 = 0
    /\ \A b, c \in blocks :
         b # c => b.at + b.len <= c.at \/ c.at + c.len <= b.at

\* What intern returned holds the text it was given, every byte of it and a NUL
\* behind, whatever the owners of other blocks write and however often the text
\* was found again: later comparisons, the symbol table and emit_str_literals
\* all read it long after it was cloned.
NamesIntact ==
    \A p \in interned :
        /\ p.str.len = Len(p.text)
        /\ \A i \in 1 .. p.str.len : mem[p.str.chars + i - 1] = p.text[i]
        /\ mem[p.str.chars + p.str.len] = 0

\* Equal names have one address: lookup_in compares `sym->name == name`, which
\* is right only if intern answers the same text with the same string for ever.
OneAddressPerName ==
    \A p, q \in interned : p.text = q.text => p.str = q.str

\* Different names have different addresses, so that == on the characters'
\* address never confuses two identifiers, nor are two literals made one that
\* are equal only up to a NUL.
AddressIdentifiesName ==
    \A p, q \in interned : p.str.chars = q.str.chars => p.text = q.text

\* So == on addresses is == on names, both ways, as all of the compiler has it.
NamesCanonical == OneAddressPerName /\ AddressIdentifiesName

\* A block is all zero when alloc hands it out: add_sym, push_scope and mk_expr
\* set only some fields and rely on the others (is_defined, size, next) being 0.
FreshBlocksZero ==
    [][ \A b \in blocks' \ blocks :
          b.use = "obj" => \A a \in Bytes(b) : mem'[a] = 0 ]_vars
=============================================================================
