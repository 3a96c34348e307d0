------------------------------ MODULE CTokens ------------------------------
(***************************************************************************)
(* Characters and tokens, and the tokens of a text as C has them (C11 6.4, *)
(* for the subset that the compiler has): blanks and comments separate,    *)
(* and a token is the longest text that can be one.  The lexer, which sees *)
(* one character at a time, is held to CTokens, which sees the whole text. *)
(*                                                                         *)
(* A character is a string of length one, but for EOF and the byte 0xFF.   *)
(***************************************************************************)
EXTENDS Integers, Sequences, SequencesExt, FiniteSetsExt

CONSTANTS MAX_TOK_LEN,    \* characters of a token, and of a literal
          ULONG_MAX       \* the largest unsigned long

ASSUME TokensAssumption == MAX_TOK_LEN \in Nat /\ MAX_TOK_LEN >= 3 /\ ULONG_MAX \in Nat

EOF == "EOF"

Blanks     == {" ", "\t", "\n"}
Digits     == {"0", "1", "2", "3", "4", "5", "6", "7", "8", "9"}
Letters    == {"a", "b", "c", "d", "e", "f", "g", "h", "i", "j", "k", "l", "m", "n", "o",
               "p", "q", "r", "s", "t", "u", "v", "w", "x", "y", "z", "A", "B", "C", "D",
               "E", "F", "G", "H", "I", "J", "K", "L", "M", "N", "O", "P", "Q", "R", "S",
               "T", "U", "V", "W", "X", "Y", "Z", "_"}
Quotes     == {"'", "\""}
Value(d)   == CHOOSE v \in 0 .. 9 : <<"0", "1", "2", "3", "4", "5", "6", "7", "8", "9">>[v + 1] = d
Joined(s)  == FoldLeft(LAMBDA t, c : t \o c, "", s)

NoVal == [n |-> 0, u |-> FALSE, l |-> FALSE, str |-> <<>>]
Token(kind, str, pos, val) == [kind |-> kind, str |-> str, pos |-> pos, val |-> val]

-----------------------------------------------------------------------------
\* Simple escape sequences, and what each stands for.
SimpleEscapes == {<<"a", "BEL">>, <<"b", "BS">>, <<"f", "\f">>, <<"n", "\n">>,
                  <<"r", "\r">>, <<"t", "\t">>, <<"v", "VT">>, <<"\\", "\\">>,
                  <<"'", "'">>, <<"\"", "\"">>, <<"?", "?">>, <<"0", "NUL">>}
IsEscape(c)  == \E e \in SimpleEscapes : e[1] = c
Stands(c)    == (CHOOSE e \in SimpleEscapes : e[1] = c)[2]

\* What the places from i to j of a text can be, when it is not a literal.
Punctuators == {<<"<", "=">>, <<">", "=">>, <<"!", "=">>, <<"=", "=">>, <<"&", "&">>, <<"|", "|">>,
                <<"<", "<">>, <<">", ">">>, <<"+", "+">>, <<"-", "-">>, <<"-", ">">>, <<".", ".", ".">>}
NumberSuffixes == {u \o l : u \in {<<>>, <<"u">>, <<"U">>}, l \in {<<>>, <<"l">>, <<"L">>}}

AllIn(text, i, j, S) == \A k \in i .. j : text[k] \in S

IsNumber(text, i, j) == \E d \in i .. j : /\ AllIn(text, i, d, Digits)
                                         /\ SubSeq(text, d + 1, j) \in NumberSuffixes
IsWord(text, i, j)   == text[i] \in Letters /\ AllIn(text, i, j, Letters \cup Digits)
IsSym(text, i, j)    == j = i \/ SubSeq(text, i, j) \in Punctuators

KindOf(c) == CASE c \in Digits -> "num" [] c \in Letters -> "wrd" [] OTHER -> "sym"

\* What the digits among the places from i to j amount to.
Worth(text, i, j) ==
    LET n[k \in 0 .. j] == IF k < i THEN 0
                          ELSE IF text[k] \in Digits THEN n[k - 1] * 10 + Value(text[k])
                          ELSE n[k - 1]
    IN  n[j]

\* Does one of these letters stand there?
Has(text, i, j, letters) == \E k \in i .. j : text[k] \in letters

-----------------------------------------------------------------------------
(***************************************************************************)
(* The token at the place i of a text: where it ends, and what is wrong    *)
(* with it, if anything: places and complaints.                            *)
(***************************************************************************)
PosOf(text, i) ==
    LET breaks == {j \in 1 .. i - 1 : text[j] = "\n"}
    IN  [line |-> 1 + Cardinality(breaks), col |-> i - Max(breaks \cup {0})]

LongestAt(text, i) ==
    Max({j \in i .. Len(text) : IsNumber(text, i, j) \/ IsWord(text, i, j) \/ IsSym(text, i, j)})

\* In the literal that begins at i: is the place k behind an odd number of
\* backslashes?
Escaped(text, i, k) ==
    LET plain == {j \in i .. k - 1 : text[j] # "\\"}
    IN  (k - Max(plain)) % 2 = 0

ClosesAt(text, i) ==
    {k \in i + 1 .. Len(text) : text[k] = text[i] /\ ~Escaped(text, i, k)}

\* The places where its characters begin, which precede the end.
UnitsOf(text, i, end) == {k \in i + 1 .. end - 1 : ~Escaped(text, i, k)}

EndOfLiteral(text, i) == Min(ClosesAt(text, i) \cup {Len(text) + 1})

LiteralFaults(text, i) ==
    LET end   == EndOfLiteral(text, i)
        units == UnitsOf(text, i, end)
        Before(k) == Cardinality({j \in units : j < k})
    IN  {<<k, "unknown escape sequence">> :
            k \in {j \in i + 1 .. end : /\ Escaped(text, i, j)
                                        /\ j <= Len(text) => ~IsEscape(text[j])}}
        \cup {<<k, "unterminated string/char literal">> :
                 k \in {j \in {end} : j = Len(text) + 1 /\ ~Escaped(text, i, j)}}
        \cup {<<k, "too many characters in char literal">> :
                 k \in {j \in units : text[i] = "'" /\ Before(j) = 1}}
        \cup {<<k, "string/char literal too long">> :
                 k \in {j \in units : text[i] = "\"" /\ Before(j) = MAX_TOK_LEN}}
        \cup {<<k, "empty char literal">> :
                 k \in {j \in {end} : text[i] = "'" /\ units = {} /\ j <= Len(text)}}

\* The characters meant by the places before k, each where its last one stands.
CharsOf(text, i, k) ==
    LET str[j \in 0 .. k] ==
          IF j <= i + 1 THEN <<>>
          ELSE IF Escaped(text, i, j - 1) THEN Append(str[j - 1], Stands(text[j - 1]))
          ELSE IF text[j - 1] = "\\" THEN str[j - 1]
          ELSE Append(str[j - 1], text[j - 1])
    IN  str[k]

Backslashes(text, i) ==
    LET end == EndOfLiteral(text, i)
    IN  [n \in 1 .. Cardinality({k \in UnitsOf(text, i, end) : text[k] = "\\"}) |-> "\\"]

NumberFaults(text, i) ==
    {<<k, "integer literal overflow">> :
        k \in {j \in i .. LongestAt(text, i) :
                 text[j] \in Digits /\ Worth(text, i, j) > ULONG_MAX}}

\* A complaint of its own takes precedence over one about the length.
FaultsAt(text, i) ==
    IF text[i] \in Quotes THEN LiteralFaults(text, i)
    ELSE LET own == IF text[i] \in Digits THEN NumberFaults(text, i) ELSE {}
         IN  own \cup {<<k, "token too long">> :
                          k \in {j \in {i + MAX_TOK_LEN} :
                                   j <= LongestAt(text, i) /\ \A f \in own : f[1] # j}}

TokenAt(text, i) ==
    IF text[i] \in Quotes
    THEN LET str == CharsOf(text, i, EndOfLiteral(text, i))
         IN  Token(IF text[i] = "'" THEN "chr" ELSE "str",
                   Joined(Backslashes(text, i)), PosOf(text, i),
                   [NoVal EXCEPT !.n = Len(str), !.str = str])
    ELSE LET j    == LongestAt(text, i)
             kind == KindOf(text[i])
         IN  Token(kind, Joined(SubSeq(text, i, j)), PosOf(text, i),
                   IF kind = "num"
                   THEN [NoVal EXCEPT !.n = Worth(text, i, j), !.u = Has(text, i, j, {"u", "U"}),
                                      !.l = Has(text, i, j, {"l", "L"})]
                   ELSE NoVal)

\* The place behind the token at i, if nothing is wrong with it.
Behind(text, i) == 1 + IF text[i] \in Quotes THEN EndOfLiteral(text, i)
                       ELSE LongestAt(text, i)

CommentAt(text, i) == \/ text[i] = "#"
                      \/ text[i] = "/" /\ i < Len(text) /\ text[i + 1] = "/"
EndOfLine(text, i) == Min({j \in i .. Len(text) : text[j] = "\n"} \cup {Len(text) + 1})

\* The first thing that is wrong
FirstFault(faults) == CHOOSE f \in faults : \A g \in faults : f[1] <= g[1]

\* The tokens from the place i on, those further on being in `from`.
TokensFrom(from, text, i) ==
    IF i > Len(text) THEN <<Token("eof", Joined(<<>>), PosOf(text, i), NoVal)>>
    ELSE IF text[i] \in Blanks THEN from[i + 1]
    ELSE IF CommentAt(text, i) THEN from[EndOfLine(text, i)]
    ELSE IF FaultsAt(text, i) = {} THEN <<TokenAt(text, i)>> \o from[Behind(text, i)]
    ELSE LET first == FirstFault(FaultsAt(text, i))
         IN  <<Token("error", first[2], PosOf(text, first[1]), NoVal)>>

Tokens(text) == LET from[i \in 1 .. Len(text) + 1] == TokensFrom(from, text, i) IN from[1]
=============================================================================
