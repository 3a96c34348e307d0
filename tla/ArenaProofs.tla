---------------------------- MODULE ArenaProofs -----------------------------
(***************************************************************************)
(* For every arena size, every set of block sizes and every set of texts:  *)
(* blocks are disjoint and zero when handed out, and interned texts keep   *)
(* their bytes, NULs among them, and are unique.                           *)
(***************************************************************************)
EXTENDS Arena, TLAPS

-----------------------------------------------------------------------------
(***************************************************************************)
(* The inductive invariant.  Everything handed out lies below arena_len    *)
(* (Below), everything above it is still zero (Clean), the characters of a *)
(* string are a block of their own (Owned), which no other owner of a      *)
(* block writes, and every string was made for a text that it was returned *)
(* for (Asked), so that a text found again is one that was found before.   *)
(***************************************************************************)
Below == /\ ~aborted => (arena_len = 0 \/ arena_len < Cap)
         /\ \A b \in blocks : b.at + b.len <= arena_len

Clean == \A a \in Addr : a >= arena_len => mem[a] = 0

CharsBlock(s) == [at |-> s.chars, len |-> s.len + 1, use |-> "chars"]
Owned == \A s \in strings : CharsBlock(s) \in blocks

Asked == \A s \in strings : \E p \in interned : p.str = s

IInv == /\ TypeOK
        /\ BlocksApart
        /\ Below
        /\ Clean
        /\ Owned
        /\ Asked
        /\ NamesIntact
        /\ OneAddressPerName
        /\ AddressIdentifiesName

\* align_up never goes down, moves by less than 8 and ends on 8 bytes.
LEMMA AlignUp8 ==
    ASSUME NEW n \in Nat
    PROVE  /\ align_up(n, 8) \in Nat
           /\ n <= align_up(n, 8)
           /\ align_up(n, 8) < n + 8
           /\ align_up(n, 8) % 8 = 0
  BY DEF align_up

\* Where the blocks of a new string lie.
LEMMA StringBounds ==
    ASSUME arena_len \in Nat, NEW t \in Texts
    PROVE  /\ NextAt \in Nat /\ arena_len <= NextAt /\ NextAt % 8 = 0
           /\ HdrEnd = NextAt + HdrLen
           /\ CharsAt \in Nat /\ HdrEnd <= CharsAt /\ CharsAt % 8 = 0
           /\ CharsEnd(t) = CharsAt + Len(t) + 1
           /\ Len(t) \in Nat
           /\ t \in Seq(Nat)
  <1>1. NextAt \in Nat /\ arena_len <= NextAt /\ NextAt % 8 = 0
    BY AlignUp8 DEF NextAt
  <1>2. HdrEnd = NextAt + HdrLen /\ HdrEnd \in Nat
    BY <1>1, HdrAssumption DEF HdrEnd, EndOf
  <1>3. CharsAt \in Nat /\ HdrEnd <= CharsAt /\ CharsAt % 8 = 0
    BY <1>2, AlignUp8 DEF CharsAt
  <1>4. t \in Seq(Nat) /\ Len(t) \in Nat
    BY TextsAssumption
  <1>5. CharsEnd(t) = CharsAt + Len(t) + 1
    BY <1>3, <1>4 DEF CharsEnd, EndOf
  <1> QED BY <1>1, <1>2, <1>3, <1>4, <1>5

-----------------------------------------------------------------------------

LEMMA InitIInv == Init => IInv
  <1> SUFFICES ASSUME Init PROVE IInv
    OBVIOUS
  <1>1. TypeOK
    BY DEF Init, TypeOK
  <1>2. BlocksApart /\ Below /\ Clean
    BY DEF Init, BlocksApart, Below, Clean
  <1>3. Owned /\ Asked /\ NamesIntact /\ OneAddressPerName /\ AddressIdentifiesName
    BY DEF Init, Owned, Asked, NamesIntact, OneAddressPerName, AddressIdentifiesName
  <1> QED BY <1>1, <1>2, <1>3 DEF IInv

\* What the invariant says of one block.
LEMMA BlockBounds ==
    ASSUME IInv, NEW b \in blocks
    PROVE  /\ b \in BlockRec /\ b.at \in Nat /\ b.len \in Nat
           /\ arena_len \in Nat /\ b.at + b.len <= arena_len
  <1>1. b \in BlockRec /\ arena_len \in Nat
    BY DEF IInv, TypeOK
  <1>2. b.at \in Nat /\ b.len \in Nat
    BY <1>1 DEF BlockRec
  <1> QED BY <1>1, <1>2 DEF IInv, Below

\* What the invariant says of a text that intern was given.
LEMMA InternedIs ==
    ASSUME IInv, NEW p \in interned
    PROVE  /\ p.str \in strings /\ p.text \in Seq(Nat) /\ p = [text |-> p.text, str |-> p.str]
           /\ p.str.chars \in Nat /\ p.str.len \in Nat
           /\ CharsBlock(p.str) \in blocks
           /\ p.str.len = Len(p.text)
           /\ \A i \in 1 .. p.str.len : mem[p.str.chars + i - 1] = p.text[i]
           /\ mem[p.str.chars + p.str.len] = 0
  <1>1. p \in [text : Seq(Nat), str : strings] /\ strings \subseteq StringRec
    BY DEF IInv, TypeOK
  <1>2. p.str \in strings /\ p.text \in Seq(Nat) /\ p = [text |-> p.text, str |-> p.str]
    BY <1>1
  <1>3. p.str.chars \in Nat /\ p.str.len \in Nat
    BY <1>1, <1>2 DEF StringRec
  <1>4. CharsBlock(p.str) \in blocks
    BY <1>2 DEF IInv, Owned
  <1>5. /\ p.str.len = Len(p.text)
        /\ \A i \in 1 .. p.str.len : mem[p.str.chars + i - 1] = p.text[i]
        /\ mem[p.str.chars + p.str.len] = 0
    BY DEF IInv, NamesIntact
  <1> QED BY <1>2, <1>3, <1>4, <1>5

\* Texts stay intact where their bytes do.
LEMMA HeldStill ==
    ASSUME IInv, interned' = interned,
           \A p \in interned : \A i \in 0 .. p.str.len : mem'[p.str.chars + i] = mem[p.str.chars + i]
    PROVE  NamesIntact'
  <1> SUFFICES ASSUME NEW p \in interned
               PROVE  /\ p.str.len = Len(p.text)
                      /\ \A i \in 1 .. p.str.len : mem'[p.str.chars + i - 1] = p.text[i]
                      /\ mem'[p.str.chars + p.str.len] = 0
    BY DEF NamesIntact
  <1>1. /\ p.str.chars \in Nat /\ p.str.len \in Nat /\ p.str.len = Len(p.text)
        /\ \A i \in 1 .. p.str.len : mem[p.str.chars + i - 1] = p.text[i]
        /\ mem[p.str.chars + p.str.len] = 0
    BY InternedIs
  <1>2. ASSUME NEW i \in 1 .. p.str.len PROVE mem'[p.str.chars + i - 1] = p.text[i]
    <2>1. i - 1 \in 0 .. p.str.len /\ p.str.chars + i - 1 = p.str.chars + (i - 1)
      BY <1>1
    <2> QED BY <1>1, <2>1
  <1>3. p.str.len \in 0 .. p.str.len
    BY <1>1
  <1> QED BY <1>1, <1>2, <1>3

LEMMA AllocIInv ==
    ASSUME IInv, NEW n \in Sizes, Alloc(n)
    PROVE  IInv'
  <1> DEFINE new == [at |-> NextAt, len |-> n, use |-> "obj"]
  <1>1. n \in Nat /\ arena_len \in Nat
    BY SizesAssumption DEF IInv, TypeOK
  <1>2. NextAt \in Nat /\ arena_len <= NextAt /\ NextAt % 8 = 0
    BY <1>1, AlignUp8 DEF NextAt
  <1>3. /\ arena_len' = NextAt + n /\ arena_len' < Cap /\ ~aborted
        /\ blocks' = blocks \cup {new}
        /\ UNCHANGED <<mem, strings, interned, aborted>>
    BY <1>1, <1>2, CapAssumption DEF Alloc, EndOf, Fits
  <1>4. TypeOK'
    BY <1>1, <1>2, <1>3 DEF IInv, TypeOK, BlockRec
  <1>5. BlocksApart'
    <2>1. \A b \in blocks : b \in BlockRec /\ b.at + b.len <= new.at
      BY <1>1, <1>2, BlockBounds
    <2>2. new.at + new.len < Cap /\ new.at % 8 = 0
      BY <1>2, <1>3
    <2> QED BY <1>3, <2>1, <2>2 DEF IInv, BlocksApart
  <1>6. Below'
    BY <1>1, <1>2, <1>3 DEF IInv, TypeOK, Below, BlockRec
  <1>7. Clean'
    BY <1>1, <1>2, <1>3, CapAssumption DEF IInv, Clean, Addr
  <1>8. Owned' /\ Asked'
    BY <1>3 DEF IInv, Owned, Asked, CharsBlock
  <1>9. NamesIntact' /\ OneAddressPerName' /\ AddressIdentifiesName'
    BY <1>3 DEF IInv, NamesIntact, OneAddressPerName, AddressIdentifiesName
  <1> QED BY <1>4, <1>5, <1>6, <1>7, <1>8, <1>9 DEF IInv

LEMMA FillIInv ==
    ASSUME IInv, NEW b \in blocks, Fill(b)
    PROVE  IInv'
  <1>1. /\ b \in BlockRec /\ b.use = "obj" /\ b.at + b.len <= arena_len
        /\ arena_len \in Nat /\ b.at \in Nat /\ b.len \in Nat
    BY DEF IInv, TypeOK, Below, Fill, BlockRec
  <1>2. /\ mem' = [a \in Addr |-> IF a \in Bytes(b) THEN 1 ELSE mem[a]]
        /\ UNCHANGED <<arena_len, blocks, strings, interned, aborted>>
    BY DEF Fill
  <1>3. TypeOK'
    BY <1>2 DEF IInv, TypeOK
  <1>4. BlocksApart' /\ Below' /\ Owned' /\ Asked'
    BY <1>2 DEF IInv, BlocksApart, Below, Owned, Asked, CharsBlock
  <1>5. Clean'
    BY <1>1, <1>2, CapAssumption DEF IInv, Clean, Addr, Bytes
  <1>6. NamesIntact'
    <2>1. ASSUME NEW p \in interned, NEW i \in 0 .. p.str.len
          PROVE  mem'[p.str.chars + i] = mem[p.str.chars + i]
      <3> DEFINE s == p.str
                 c == CharsBlock(s)
      <3>1. s.len \in Nat /\ s.chars \in Nat /\ c \in blocks
        BY InternedIs
      <3>2. c # b /\ c.at = s.chars /\ c.len = s.len + 1
        BY <1>1 DEF CharsBlock
      <3>3. s.chars + s.len + 1 <= b.at \/ b.at + b.len <= s.chars
        BY <3>1, <3>2 DEF IInv, BlocksApart
      <3>4. s.chars + s.len + 1 < Cap
        BY <3>1, <3>2 DEF IInv, BlocksApart
      <3>5. s.chars + i \in Addr /\ s.chars + i \notin Bytes(b)
        BY <1>1, <3>1, <3>3, <3>4, CapAssumption DEF Addr, Bytes
      <3> QED BY <1>2, <3>5
    <2> QED BY <1>2, <2>1, HeldStill
  <1>7. OneAddressPerName' /\ AddressIdentifiesName'
    BY <1>2 DEF IInv, OneAddressPerName, AddressIdentifiesName
  <1> QED BY <1>3, <1>4, <1>5, <1>6, <1>7 DEF IInv

LEMMA InternNewIInv ==
    ASSUME IInv, NEW t \in Texts, InternNew(t)
    PROVE  IInv'
  <1> DEFINE hdr == [at |-> NextAt, len |-> HdrLen, use |-> "header"]
             chr == [at |-> CharsAt, len |-> Len(t) + 1, use |-> "chars"]
             str == [chars |-> CharsAt, len |-> Len(t)]
  <1>1. arena_len \in Nat
    BY DEF IInv, TypeOK
  <1>2. /\ NextAt \in Nat /\ arena_len <= NextAt /\ NextAt % 8 = 0
        /\ HdrEnd = NextAt + HdrLen /\ HdrLen \in Nat \ {0}
        /\ CharsAt \in Nat /\ HdrEnd <= CharsAt /\ CharsAt % 8 = 0
        /\ CharsEnd(t) = CharsAt + Len(t) + 1
        /\ Len(t) \in Nat /\ t \in Seq(Nat)
    BY <1>1, StringBounds, HdrAssumption
  <1>3. /\ arena_len' = CharsAt + Len(t) + 1 /\ arena_len' < Cap /\ ~aborted
        /\ blocks' = blocks \cup {hdr, chr}
        /\ mem' = Cloned(t)
        /\ strings' = strings \cup {str}
        /\ interned' = interned \cup {[text |-> t, str |-> str]}
        /\ UNCHANGED aborted
    BY <1>2, CapAssumption DEF InternNew, Fits, StringFor
  <1>4. \A b \in blocks : b \in BlockRec /\ b.at + b.len <= arena_len
    BY DEF IInv, TypeOK, Below
  <1>5. \A s \in strings : /\ s.chars \in Nat /\ s.len \in Nat
                           /\ s.chars + s.len + 1 <= arena_len
                           /\ s.chars + s.len + 1 < Cap
                           /\ s # str /\ s.chars # str.chars
    <2> TAKE s \in strings
    <2>1. s.chars \in Nat /\ s.len \in Nat /\ s \in StringRec
      BY DEF IInv, TypeOK, StringRec
    <2>2. CharsBlock(s) \in blocks
      BY DEF IInv, Owned
    <2>3. s.chars + (s.len + 1) <= arena_len /\ s.chars + (s.len + 1) < Cap
      BY <1>4, <2>2 DEF CharsBlock, IInv, BlocksApart
    <2>4. s.chars # str.chars
      BY <1>1, <1>2, <2>1, <2>3
    <2> QED BY <1>1, <1>3, <2>1, <2>3, <2>4
  <1>6. TypeOK'
    <2>1. mem' \in [Addr -> Nat]
      <3> SUFFICES ASSUME NEW a \in Addr
                   PROVE  Cloned(t)[a] \in Nat
        BY <1>3 DEF Cloned
      <3>1. CASE a \in CharsAt .. (CharsAt + Len(t) - 1)
        <4>1. a - CharsAt + 1 \in 1 .. Len(t)
          BY <1>2, <3>1
        <4>2. t[a - CharsAt + 1] \in Nat
          BY <1>2, <4>1
        <4> QED BY <3>1, <4>2 DEF Cloned
      <3>2. CASE a \notin CharsAt .. (CharsAt + Len(t) - 1)
        BY <3>2 DEF Cloned, IInv, TypeOK
      <3> QED BY <3>1, <3>2
    <2>2. blocks' \subseteq BlockRec
      <3>1. hdr \in BlockRec /\ chr \in BlockRec
        BY <1>2 DEF BlockRec
      <3> QED BY <1>3, <1>4, <3>1
    <2>3. strings' \subseteq StringRec
      <3>1. str \in StringRec
        BY <1>2 DEF StringRec
      <3> QED BY <1>3, <3>1 DEF IInv, TypeOK
    <2>4. interned' \subseteq [text : Seq(Nat), str : strings']
      BY <1>2, <1>3 DEF IInv, TypeOK
    <2>5. arena_len' \in Nat /\ aborted' \in BOOLEAN
      BY <1>2, <1>3 DEF IInv, TypeOK
    <2> QED BY <2>1, <2>2, <2>3, <2>4, <2>5 DEF TypeOK
  <1>7. BlocksApart'
    <2>1. \A b \in blocks : b.at + b.len <= hdr.at /\ b.at + b.len <= chr.at
      BY <1>1, <1>2, <1>4 DEF BlockRec
    <2>2. hdr.at + hdr.len <= chr.at
      BY <1>2
    <2>3. /\ hdr.at + hdr.len < Cap /\ chr.at + chr.len < Cap
          /\ hdr.at % 8 = 0 /\ chr.at % 8 = 0
      BY <1>2, <1>3, CapAssumption
    <2> QED BY <1>3, <2>1, <2>2, <2>3 DEF IInv, BlocksApart
  <1>8. Below'
    BY <1>1, <1>2, <1>3, <1>4 DEF Below, BlockRec
  <1>9. Clean'
    BY <1>1, <1>2, <1>3, CapAssumption DEF IInv, Clean, Addr, Cloned
  <1>10. Owned'
    <2>1. CharsBlock(str) = chr
      BY DEF CharsBlock
    <2>2. \A s \in strings : CharsBlock(s) \in blocks'
      BY <1>3 DEF IInv, Owned
    <2> QED BY <1>3, <2>1, <2>2 DEF Owned, CharsBlock
  <1>11. NamesIntact'
    <2>1. ASSUME NEW s \in strings, NEW i \in 0 .. s.len
          PROVE  mem'[s.chars + i] = mem[s.chars + i]
      <3> DEFINE a == s.chars + i
      <3>1. s.chars \in Nat /\ s.len \in Nat /\ s.chars + s.len + 1 <= arena_len
            /\ s.chars + s.len + 1 < Cap
        BY <1>5
      <3>2. a \in Nat /\ a < NextAt /\ a < Cap
        <4>1. arena_len \in Nat /\ NextAt \in Nat /\ arena_len <= NextAt
          BY <1>1, <1>2
        <4>2. i \in Nat /\ i <= s.len
          BY <3>1
        <4> QED BY <3>1, <4>1, <4>2, CapAssumption
      <3>3. /\ a \in Addr /\ a \notin NextAt .. HdrEnd - 1
            /\ a \notin CharsAt .. (CharsAt + Len(t) - 1)
            /\ a # CharsAt + Len(t)
        BY <1>2, <3>2, CapAssumption DEF Addr
      <3> HIDE DEF a
      <3>4. mem'[a] = mem[a]
        BY <1>3, <3>3 DEF Cloned
      <3> QED BY <3>4 DEF a
    <2>2. ASSUME NEW p \in interned
          PROVE  /\ p.str.len = Len(p.text)
                 /\ \A i \in 1 .. p.str.len : mem'[p.str.chars + i - 1] = p.text[i]
                 /\ mem'[p.str.chars + p.str.len] = 0
      <3>1. /\ p.str \in strings /\ p.str.chars \in Nat /\ p.str.len \in Nat /\ p.str.len = Len(p.text)
            /\ \A i \in 1 .. p.str.len : mem[p.str.chars + i - 1] = p.text[i]
            /\ mem[p.str.chars + p.str.len] = 0
        BY InternedIs
      <3>2. ASSUME NEW i \in 1 .. p.str.len PROVE mem'[p.str.chars + i - 1] = p.text[i]
        <4>1. i - 1 \in 0 .. p.str.len /\ p.str.chars + i - 1 = p.str.chars + (i - 1)
          BY <3>1
        <4> QED BY <2>1, <3>1, <4>1
      <3>3. p.str.len \in 0 .. p.str.len
        BY <3>1
      <3> QED BY <2>1, <3>1, <3>2, <3>3
    <2>3. /\ str.len = Len(t)
          /\ \A i \in 1 .. str.len : mem'[str.chars + i - 1] = t[i]
          /\ mem'[str.chars + str.len] = 0
      <3>2. ASSUME NEW i \in 1 .. Len(t)
            PROVE  mem'[CharsAt + i - 1] = t[i]
        <4>1. /\ CharsAt + i - 1 \in Addr
              /\ CharsAt + i - 1 \in CharsAt .. (CharsAt + Len(t) - 1)
              /\ CharsAt + i - 1 \notin NextAt .. HdrEnd - 1
              /\ CharsAt + i - 1 - CharsAt + 1 = i
          BY <1>2, <1>3, CapAssumption DEF Addr
        <4> DEFINE a == CharsAt + i - 1
        <4>2. /\ a \in Addr /\ a \in CharsAt .. (CharsAt + Len(t) - 1)
              /\ a \notin NextAt .. HdrEnd - 1 /\ a - CharsAt + 1 = i
          BY <1>2, <4>1
        <4> HIDE DEF a
        <4>3. mem'[a] = t[a - CharsAt + 1]
          BY <1>3, <4>2 DEF Cloned
        <4> QED BY <4>2, <4>3 DEF a
      <3>3. mem'[CharsAt + Len(t)] = 0
        <4>1. /\ CharsAt + Len(t) \in Addr
              /\ CharsAt + Len(t) \notin CharsAt .. (CharsAt + Len(t) - 1)
              /\ CharsAt + Len(t) \notin NextAt .. HdrEnd - 1
          BY <1>2, <1>3, CapAssumption DEF Addr
        <4> QED BY <1>3, <4>1 DEF Cloned
      <3> QED BY <3>2, <3>3
    <2> QED BY <1>3, <2>2, <2>3 DEF NamesIntact
  <1>12. OneAddressPerName'
    <2>1. ASSUME NEW p \in interned, p.text = t PROVE FALSE
      <3>1. p.str \in strings /\ Matches(p.str, t)
        BY <2>1, InternedIs DEF Matches
      <3> QED BY <3>1 DEF InternNew
    <2> QED BY <1>3, <2>1 DEF IInv, OneAddressPerName
  <1>13. AddressIdentifiesName'
    <2>1. \A p \in interned : p.str.chars # str.chars
      BY <1>5, InternedIs
    <2> QED BY <1>3, <2>1 DEF IInv, AddressIdentifiesName
  <1>14. Asked'
    <2> DEFINE new == [text |-> t, str |-> str]
    <2>1. new \in interned' /\ new.str = str
      BY <1>3
    <2>2. \E p \in interned' : p.str = str
      <3> HIDE DEF new, str
      <3> QED BY <2>1
    <2>3. \A s \in strings : \E p \in interned' : p.str = s
      BY <1>3 DEF IInv, Asked
    <2> QED BY <1>3, <2>2, <2>3 DEF Asked
  <1> QED BY <1>6, <1>7, <1>8, <1>9, <1>10, <1>11, <1>12, <1>13, <1>14 DEF IInv

\* A string that is found was made for the very text, so nothing is new.
LEMMA FoundStays ==
    ASSUME IInv, NEW t \in Texts, InternFound(t)
    PROVE  UNCHANGED vars
  <1>1. PICK str \in strings : Matches(str, t) /\ interned' = interned \cup {[text |-> t, str |-> str]}
    BY DEF InternFound
  <1>2. PICK p \in interned : p.str = str
    BY DEF IInv, Asked
  <1>3. /\ p.text \in Seq(Nat) /\ p = [text |-> p.text, str |-> str]
        /\ str.len = Len(p.text)
        /\ \A i \in 1 .. str.len : mem[str.chars + i - 1] = p.text[i]
    BY <1>2, InternedIs
  <1>4. t \in Seq(Nat) /\ Len(p.text) = Len(t) /\ \A i \in 1 .. Len(t) : p.text[i] = t[i]
    BY <1>1, <1>3, TextsAssumption DEF Matches
  <1>5. p.text = t
    BY <1>3, <1>4
  <1> QED BY <1>1, <1>3, <1>5 DEF InternFound, vars

\* A failed allocation changes nothing but the bump pointer and the verdict.
LEMMA DiesIInv ==
    ASSUME IInv, arena_len' \in Nat, arena_len' >= arena_len, aborted' = TRUE,
           UNCHANGED <<mem, blocks, strings, interned>>
    PROVE  IInv'
  <1>1. TypeOK'
    BY DEF IInv, TypeOK
  <1>2. BlocksApart' /\ Owned' /\ Asked' /\ NamesIntact'
    BY DEF IInv, BlocksApart, Owned, Asked, CharsBlock, NamesIntact
  <1>3. Below' /\ Clean'
    BY CapAssumption DEF IInv, TypeOK, Below, Clean, BlockRec, Addr
  <1>4. OneAddressPerName' /\ AddressIdentifiesName'
    BY DEF IInv, OneAddressPerName, AddressIdentifiesName
  <1> QED BY <1>1, <1>2, <1>3, <1>4 DEF IInv

LEMMA NextIInv == IInv /\ [Next]_vars => IInv'
  <1> SUFFICES ASSUME IInv, [Next]_vars PROVE IInv'
    OBVIOUS
  <1>0. arena_len \in Nat
    BY DEF IInv, TypeOK
  <1>1. ASSUME NEW n \in Sizes, Alloc(n) PROVE IInv'
    BY <1>1, AllocIInv
  <1>2. ASSUME NEW n \in Sizes, AllocDies(n) PROVE IInv'
    <2>1. NextAt \in Nat /\ NextAt >= arena_len /\ n \in Nat
      BY <1>0, AlignUp8, SizesAssumption DEF NextAt
    <2>2. arena_len' \in Nat /\ arena_len' >= arena_len /\ aborted' = TRUE
      BY <1>0, <1>2, <2>1 DEF AllocDies, EndOf
    <2> QED BY <1>2, <2>2, DiesIInv DEF AllocDies
  <1>3. ASSUME NEW b \in blocks, Fill(b) PROVE IInv'
    BY <1>3, FillIInv
  <1>4. ASSUME NEW t \in Texts, InternNew(t) PROVE IInv'
    BY <1>4, InternNewIInv
  <1>5. ASSUME NEW t \in Texts, InternDies(t) PROVE IInv'
    <2>1. /\ NextAt \in Nat /\ arena_len <= NextAt
          /\ HdrEnd = NextAt + HdrLen /\ HdrLen \in Nat
          /\ CharsAt \in Nat /\ HdrEnd <= CharsAt
          /\ CharsEnd(t) = CharsAt + Len(t) + 1 /\ Len(t) \in Nat
      BY <1>0, StringBounds, HdrAssumption
    <2>2. arena_len' \in Nat /\ arena_len' >= arena_len /\ aborted' = TRUE
      BY <1>0, <1>5, <2>1 DEF InternDies
    <2> QED BY <1>5, <2>2, DiesIInv DEF InternDies
  <1>6. CASE UNCHANGED vars
    BY <1>6 DEF IInv, TypeOK, BlocksApart, Below, Clean, Owned, Asked, CharsBlock,
                NamesIntact, OneAddressPerName, AddressIdentifiesName, vars
  <1>7. ASSUME NEW t \in Texts, InternFound(t) PROVE IInv'
    <2>1. UNCHANGED vars
      BY <1>7, FoundStays
    <2> QED BY <1>6, <2>1
  <1> QED BY <1>1, <1>2, <1>3, <1>4, <1>5, <1>6, <1>7 DEF Next

LEMMA SpecIInv == Spec => []IInv
  <1>1. Init => IInv
    BY InitIInv
  <1>2. IInv /\ [Next]_vars => IInv'
    BY NextIInv
  <1> QED BY <1>1, <1>2, PTL DEF Spec

-----------------------------------------------------------------------------

\* alloc and intern keep every variable in its type, whatever the arena's size
\* and the texts of the program compiled.
THEOREM TypeCorrect == Spec => []TypeOK
  <1>1. IInv => TypeOK
    BY DEF IInv
  <1> QED BY <1>1, SpecIInv, PTL

\* alloc never hands out overlapping, misaligned or outside blocks.
THEOREM BlocksNeverOverlap == Spec => []BlocksApart
  <1>1. IInv => BlocksApart
    BY DEF IInv
  <1> QED BY <1>1, SpecIInv, PTL

\* What intern returned keeps all the bytes of the text it was given, whatever is
\* written to the structs of the compiler and whichever bytes these are.
THEOREM NamesStayIntact == Spec => []NamesIntact
  <1>1. IInv => NamesIntact
    BY DEF IInv
  <1> QED BY <1>1, SpecIInv, PTL

\* Comparing the addresses of two interned names compares the names, and two
\* literals are one just if all their bytes are equal.
THEOREM NamesAreCanonical ==
    Spec => []NamesCanonical
  <1>1. IInv => NamesCanonical
    BY DEF IInv, NamesCanonical
  <1> QED BY <1>1, SpecIInv, PTL

\* The zero bytes that add_sym and mk_expr rely on are there: memory above the
\* bump pointer was never written.
THEOREM AllocReturnsZeroes == Spec => FreshBlocksZero
  <1> DEFINE FreshZero == \A b \in blocks' \ blocks :
                            b.use = "obj" => \A a \in Bytes(b) : mem'[a] = 0
  <1>1. ASSUME IInv, Next PROVE FreshZero
    <2>1. ASSUME NEW n \in Sizes, Alloc(n) PROVE FreshZero
      <3>1. n \in Nat /\ arena_len \in Nat
        BY SizesAssumption, <1>1 DEF IInv, TypeOK
      <3>2. NextAt \in Nat /\ arena_len <= NextAt
        BY <3>1, AlignUp8 DEF NextAt
      <3>3. /\ NextAt + n < Cap
            /\ blocks' = blocks \cup {[at |-> NextAt, len |-> n, use |-> "obj"]}
            /\ mem' = mem
        BY <2>1, <3>1, <3>2, CapAssumption DEF Alloc, EndOf, Fits
      <3>4. \A a \in NextAt .. (NextAt + n - 1) : a \in Addr /\ a >= arena_len
        BY <3>1, <3>2, <3>3, CapAssumption DEF Addr
      <3> QED BY <1>1, <3>3, <3>4 DEF IInv, Clean, Bytes
    <2>2. ASSUME NEW t \in Texts, InternNew(t) PROVE FreshZero
      BY <2>2 DEF InternNew
    <2>3. ASSUME blocks' = blocks PROVE FreshZero
      BY <2>3
    <2> QED BY <1>1, <2>1, <2>2, <2>3
            DEF Next, AllocDies, Fill, InternFound, InternDies, vars
  <1>2. IInv /\ [Next]_vars => [FreshZero]_vars
    BY <1>1
  <1> QED BY <1>2, SpecIInv, PTL DEF Spec, FreshBlocksZero
=============================================================================
