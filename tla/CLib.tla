-------------------------------- MODULE CLib --------------------------------
(***************************************************************************)
(* What C and POSIX promise of the library, said without the code's loops: *)
(* of strtol and strtoul by the longest prefix that is a number, of printf *)
(* by directives that were never spelled out as text, of getopt by whole   *)
(* words, of wc by the places in a text.                                   *)
(***************************************************************************)
EXTENDS Integers, SequencesExt

CONSTANTS Least, Greatest, Most,   \* of a long, of a long, of an unsigned long
          Blank,                   \* the characters that isspace knows
          Weight                   \* of a digit, and of a letter as a digit

-----------------------------------------------------------------------------
Hexadecimal(t) == Len(t) > 2 /\ t[1] = "0" /\ t[2] \in {"x", "X"}
Base(t, base)  == IF base # 0 THEN base ELSE IF t[1] = "0" THEN 8 ELSE 10
Numeral(t, base) == t # <<>> /\ \A i \in DOMAIN t : t[i] \in DOMAIN Weight /\ Weight[t[i]] < base

\* Is t, without its sign, a number to base, which may be 0?
IsNumber(t, base) == \/ t # <<>> /\ Numeral(t, Base(t, base))
                     \/ base \in {0, 16} /\ Hexadecimal(t) /\ Numeral(SubSeq(t, 3, Len(t)), 16)

Positional(t, base) == LET val[k \in 0 .. Len(t)] == IF k = 0 THEN 0 ELSE val[k - 1] * base + Weight[t[k]]
                       IN  val[Len(t)]
Worth(t, base) == IF base \in {0, 16} /\ Hexadecimal(t) THEN Positional(SubSeq(t, 3, Len(t)), 16)
                                                        ELSE Positional(t, Base(t, base))

\* Blanks, a sign, and the longest number that follows; or nothing, at 0.
Number(s, base) ==
    LET blanks == CHOOSE k \in 0 .. Len(s) : /\ \A i \in 1 .. k : s[i] \in Blank
                                             /\ k < Len(s) => s[k + 1] \notin Blank
        sign   == IF blanks < Len(s) /\ s[blanks + 1] \in {"+", "-"} THEN 1 ELSE 0
        from   == blanks + sign + 1
        ends   == {e \in from .. Len(s) : IsNumber(SubSeq(s, from, e), base)}
    IN  IF ends = {} THEN [val |-> 0, end |-> 0]
        ELSE [val |-> Worth(SubSeq(s, from, Max(ends)), base)
                        * (IF sign = 1 /\ s[blanks + 1] = "-" THEN -1 ELSE 1),
              end |-> Max(ends)]

ToLong(s, base) ==
    LET n == Number(s, base)
    IN  [val |-> Min({Max({n.val, Least}), Greatest}), end |-> n.end,
         erange |-> n.val \notin Least .. Greatest]

ToULong(s, base) ==
    LET n == Number(s, base)
        fits == n.val \in -Most .. Most
    IN  [val |-> IF fits THEN n.val % (Most + 1) ELSE Most, end |-> n.end, erange |-> ~fits]

-----------------------------------------------------------------------------
\* A directive of printf: its conversion, flags, width, precision and value.
Glyphs(upper) ==
    IF upper THEN <<"0", "1", "2", "3", "4", "5", "6", "7", "8", "9", "A", "B", "C", "D", "E", "F">>
             ELSE <<"0", "1", "2", "3", "4", "5", "6", "7", "8", "9", "a", "b", "c", "d", "e", "f">>

\* The digits of n, of which there are as many as n needs places.
InDigits(n, base, upper) ==
    LET place[k \in 0 .. n + 1] == IF k = 0 THEN 1 ELSE place[k - 1] * base
        k == CHOOSE k \in 1 .. n + 1 : n < place[k] /\ (k > 1 => n >= place[k - 1])
    IN  [i \in 1 .. k |-> Glyphs(upper)[((n \div place[k - i]) % base) + 1]]

Repeated(c, n) == [i \in 1 .. n |-> c]

\* To at least the width: behind it, in front of it, or behind its prefix.
Padded(d, prefix, body, number) ==
    LET text == prefix \o body
        k    == Max({0, d.width - Len(text)})
    IN  IF "-" \in d.flags THEN text \o Repeated(" ", k)
        ELSE IF number /\ "0" \in d.flags THEN prefix \o Repeated("0", k) \o body
        ELSE Repeated(" ", k) \o text

Sign(d) == IF d.val < 0 THEN <<"-">> ELSE IF "+" \in d.flags THEN <<"+">>
           ELSE IF " " \in d.flags THEN <<" ">> ELSE <<>>
Alternative(d, prefix) == IF "#" \in d.flags /\ d.val # 0 THEN prefix ELSE <<>>
Magnitude_of(n) == IF n < 0 THEN -n ELSE n

\* A value of o, u and x is given as the unsigned number that it is.
Directive(d) ==
    CASE d.conv \in {"d", "i"} -> Padded(d, Sign(d), InDigits(Magnitude_of(d.val), 10, FALSE), TRUE)
      [] d.conv = "u" -> Padded(d, <<>>, InDigits(d.val, 10, FALSE), TRUE)
      [] d.conv = "o" -> Padded(d, Alternative(d, <<"0">>), InDigits(d.val, 8, FALSE), TRUE)
      [] d.conv = "x" -> Padded(d, Alternative(d, <<"0", "x">>), InDigits(d.val, 16, FALSE), TRUE)
      [] d.conv = "X" -> Padded(d, Alternative(d, <<"0", "X">>), InDigits(d.val, 16, TRUE), TRUE)
      [] d.conv = "s" -> Padded(d, <<>>, SubSeq(d.val, 1, IF d.precision < 0 THEN Len(d.val)
                                                          ELSE Min({d.precision, Len(d.val)})), FALSE)
      [] d.conv = "c" -> Padded(d, <<>>, <<d.val>>, FALSE)
      [] d.conv = "p" -> Padded(d, <<>>, IF d.val = 0 THEN <<"(", "n", "i", "l", ")">>
                                         ELSE <<"0", "x">> \o InDigits(d.val, 16, FALSE), FALSE)
      [] d.conv = "%" -> <<"%">>
      [] d.conv = "n" -> <<>>
      [] d.conv = "text" -> d.val

Text(ds) == FlattenSeq([i \in DOMAIN ds |-> Directive(ds[i])])

\* What the %n in it store, as far as a stream with that much room lets it.
Stored(ds, room) ==
    LET before(i) == Len(Text(SubSeq(ds, 1, i - 1)))
        at == {i \in DOMAIN ds : ds[i].conv = "n" /\ before(i) <= room}
    IN  [k \in 1 .. Cardinality(at) |->
           before(CHOOSE i \in at : Cardinality({j \in at : j <= i}) = k)]

-----------------------------------------------------------------------------
\* The options in the words, each as getopt is to return it, and how many
\* words they take.  An option that takes an argument ends its word.
WantsArg(spec, c) == \E i \in 1 .. Len(spec) - 1 : spec[i] = c /\ spec[i + 1] = ":"
Found(ret, opt, arg) == [ret |-> ret, opt |-> opt, arg |-> arg]
Letter(spec, c) == Found(IF c \in Range(spec) THEN c ELSE "?", c, <<>>)

HoldsOptions(word) == Len(word) > 2 /\ word[1] = "-"
EndsOptions(word)  == word[2] = "-" /\ Len(word) = 3

\* Where, from its k-th character on, a word has its first option that wants
\* an argument; at its NUL if it has none.
Wanting(word, spec, k) == {j \in k .. Len(word) - 1 : WantsArg(spec, word[j])}
LastAt(word, spec, k)  == IF Wanting(word, spec, k) = {} THEN Len(word) ELSE Min(Wanting(word, spec, k))

\* The options before that, that one, and the words that it takes
Plain(word, spec, k, at) == [j \in 1 .. at - k |-> Letter(spec, word[k + j - 1])]
LastOption(words, spec, i, at) ==
    LET word == words[i]
        opt  == word[at]
    IN  IF at = Len(word)          THEN <<>>
        ELSE IF at + 1 < Len(word) THEN <<Found(opt, opt, SubSeq(word, at + 1, Len(word)))>>
        ELSE IF i < Len(words)     THEN <<Found(opt, opt, words[i + 1])>>
        ELSE <<Found(IF spec[1] = ":" THEN ":" ELSE "?", opt, <<>>)>>
Takes(words, i, at)      == IF at + 1 = Len(words[i]) /\ i < Len(words) THEN 2 ELSE 1

\* All of a word from its k-th character on and, by from, of the words after it
FromLetter(from, words, spec, i, k) ==
    LET at == LastAt(words[i], spec, k)
        n  == Takes(words, i, at)
    IN  [found |-> Plain(words[i], spec, k, at) \o LastOption(words, spec, i, at) \o from[i + n].found,
         used  |-> n + from[i + n].used]

FromWord(from, words, spec, i) ==
    IF i > Len(words) \/ ~HoldsOptions(words[i]) THEN [found |-> <<>>, used |-> 0]
    ELSE IF EndsOptions(words[i]) THEN [found |-> <<>>, used |-> 1]
    ELSE FromLetter(from, words, spec, i, 2)

Options(words, spec) ==
    LET from[i \in 1 .. Len(words) + 1] == FromWord(from, words, spec, i) IN from[1]

-----------------------------------------------------------------------------
\* The counts of wc.
Newlines(t) == {i \in DOMAIN t : t[i] = "\n"}
WordStarts(t) == {i \in DOMAIN t : t[i] \notin Blank /\ (i = 1 \/ t[i - 1] \in Blank)}
\* No newline from i to j: all that lies between two of them is a line.
Stretches(t) == {p \in (DOMAIN t) \X (DOMAIN t) : p[1] <= p[2] /\ \A i \in p[1] .. p[2] : t[i] # "\n"}
LineLengths(t) == {0} \cup {p[2] - p[1] + 1 : p \in Stretches(t)}

Counts(t) == [lines |-> Cardinality(Newlines(t)), words |-> Cardinality(WordStarts(t)),
              bytes |-> Len(t), max_len |-> Max(LineLengths(t))]
=============================================================================
