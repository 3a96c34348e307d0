------------------------------ MODULE Numbers -------------------------------
(***************************************************************************)
(* Numbers from text (stdlib/stdlib.c).  A text is a sequence of           *)
(* characters, without the NUL that ends it; where a conversion ends is    *)
(* the number of characters before it.                                     *)
(***************************************************************************)
EXTENDS Integers, SequencesExt

CONSTANTS LONG_BITS, INT_BITS     \* the widths of long and of int

ASSUME WidthsAssumption == INT_BITS \in Nat \ {0} /\ LONG_BITS \in Nat /\ LONG_BITS >= INT_BITS

\* Arithmetic of the powers at these widths, of which the provers know nothing
ASSUME PowersAssumption ==
    /\ 2 ^ (INT_BITS - 1) \in Nat \ {0} /\ 2 ^ (LONG_BITS - 1) \in Nat
    /\ 2 ^ (LONG_BITS - 1) >= 2 ^ (INT_BITS - 1)
    /\ 2 ^ INT_BITS = 2 * 2 ^ (INT_BITS - 1) /\ 2 ^ LONG_BITS = 2 * 2 ^ (LONG_BITS - 1)

ULONG_MAX == 2 ^ LONG_BITS - 1
LONG_MAX  == 2 ^ (LONG_BITS - 1) - 1
LONG_MIN  == -(2 ^ (LONG_BITS - 1))

Unsigned(n, bits) == n % 2 ^ bits
Signed(n, bits)   == IF Unsigned(n, bits) < 2 ^ (bits - 1) THEN Unsigned(n, bits)
                                                           ELSE Unsigned(n, bits) - 2 ^ bits

-----------------------------------------------------------------------------
\* The characters, by ctype.c; "\\v" and "\\0" stand for '\v' and '\0'.
NUL    == "\\0"
Spaces == {" ", "\t", "\n", "\r", "\f", "\\v"}
Lower  == <<"0", "1", "2", "3", "4", "5", "6", "7", "8", "9", "a", "b", "c", "d", "e", "f", "g", "h",
            "i", "j", "k", "l", "m", "n", "o", "p", "q", "r", "s", "t", "u", "v", "w", "x", "y", "z">>
Upper  == <<"0", "1", "2", "3", "4", "5", "6", "7", "8", "9", "A", "B", "C", "D", "E", "F", "G", "H",
            "I", "J", "K", "L", "M", "N", "O", "P", "Q", "R", "S", "T", "U", "V", "W", "X", "Y", "Z">>
DigitOf == [c \in {Lower[i] : i \in 1 .. 36} \cup {Upper[i] : i \in 1 .. 36} |->
              (CHOOSE i \in 1 .. 36 : c \in {Lower[i], Upper[i]}) - 1]

digit_to_int_in(base, c) ==
    IF c \in DOMAIN DigitOf /\ DigitOf[c] < base THEN DigitOf[c] ELSE -1

IsDigit(base, c) == digit_to_int_in(base, c) >= 0

-----------------------------------------------------------------------------
Chr(s, i) == IF i <= Len(s) THEN s[i] ELSE NUL

\* The first place from i on whose character does not pass the test.
Past(s, i, Test(_)) == Min({j \in i .. Len(s) + 1 : j > Len(s) \/ ~Test(s[j])})

\* A digit more, as long as the number has room for it.
\* mutant: the digit itself is forgotten in the test
Digit_no_room(r, d, base) ==
    IF ~r.fits \/ r.n > ULONG_MAX \div base THEN [r EXCEPT !.fits = FALSE]
    ELSE [r EXCEPT !.n = Unsigned(@ * base + d, LONG_BITS)]
Digit(r, d, base) ==
    IF ~r.fits \/ r.n > (ULONG_MAX - d) \div base THEN [r EXCEPT !.fits = FALSE]
    ELSE [r EXCEPT !.n = @ * base + d]

\* The digits of t, one after another.
Digits(t, base) ==
    LET read[k \in 0 .. Len(t)] == IF k = 0 THEN [n |-> 0, fits |-> TRUE]
                                   ELSE Digit(read[k - 1], digit_to_int_in(base, t[k]), base)
    IN  read[Len(t)]

\* Where the digits begin, and their base: 0x is a prefix before a hexadecimal
\* digit only, and the 0 of an octal number is one of its digits.
Start(s, i, base) ==
    IF base \in {0, 16} /\ Chr(s, i) = "0" /\ Chr(s, i + 1) \in {"x", "X"} /\ IsDigit(16, Chr(s, i + 2))
    THEN [at |-> i + 2, base |-> 16]
    ELSE [at |-> i, base |-> IF base # 0 THEN base ELSE IF Chr(s, i) = "0" THEN 8 ELSE 10]

try_parse(s, asked) ==
    LET base   == IF asked < 0 \/ asked = 1 \/ asked > 36 THEN 36 ELSE asked
        IsSpace(c) == c \in Spaces
        sign   == Past(s, 1, IsSpace)
        before == IF Chr(s, sign) \in {"+", "-"} THEN sign + 1 ELSE sign
        start  == Start(s, before, base)
        InBase(c) == IsDigit(start.base, c)
        end    == Past(s, start.at, InBase)
        read   == Digits(SubSeq(s, start.at, end - 1), start.base)
    IN  [neg |-> Chr(s, sign) = "-", n |-> read.n, fits |-> read.fits,
         end |-> IF end = before THEN 0 ELSE end - 1]

-----------------------------------------------------------------------------
\* What a call returns: a value, the end, and whether it sets errno to ERANGE.
Returns(val, p, erange) == [val |-> val, end |-> p.end, erange |-> erange]

strtoul(s, base) ==
    LET p == try_parse(s, base)
    IN  IF ~p.fits THEN Returns(ULONG_MAX, p, TRUE)
        ELSE Returns(IF p.neg THEN Unsigned(-p.n, LONG_BITS) ELSE p.n, p, FALSE)

strtol(s, base) ==
    LET p == try_parse(s, base)
    IN  IF p.neg /\ (~p.fits \/ p.n > LONG_MAX + 1) THEN Returns(LONG_MIN, p, TRUE)
        ELSE IF ~p.neg /\ (~p.fits \/ p.n > LONG_MAX) THEN Returns(LONG_MAX, p, TRUE)
        ELSE Returns(IF p.neg THEN -p.n ELSE p.n, p, FALSE)

atol(s) == strtol(s, 10).val
atoi(s) == Signed(atol(s), INT_BITS)
=============================================================================
