------------------------------- MODULE Printf -------------------------------
(***************************************************************************)
(* Formatted output (stdlib/stdio_printf.c): _vfprintf, one part of the    *)
(* format a step, onto a stream that takes `room` more characters and then *)
(* fails.  Of an argument only the bits are known to printf: an int or     *)
(* long is the number those bits make as unsigned.                         *)
(***************************************************************************)
EXTENDS Numbers

VARIABLES fmt,       \* what is left of the format
          ap,        \* the arguments left
          room,
          out,       \* what reached the stream
          nw,        \* the count so far
          stored     \* the counts that %n stored

printf_vars == <<fmt, ap, room, out, nw, stored>>

NULL_STR == <<"null pointer">>

PrintfInit(format, args, takes) ==
    fmt = format /\ ap = args /\ room = takes /\ out = <<>> /\ nw = 0 /\ stored = <<>>

-----------------------------------------------------------------------------
\* uint_to_dec, int_to_hex and int_to_oct: each digit is put before the others.
\* (num_buf holds the 22 that a long can have.)
Prepended(n, base, alphabet) ==
    LET digits[m \in 0 .. n] ==
          (IF m \div base = 0 THEN <<>> ELSE digits[m \div base]) \o <<alphabet[(m % base) + 1]>>
    IN  digits[n]

InBase(n, base, upper) == Prepended(n, base, IF upper THEN Upper ELSE Lower)

\* int_to_dec, whose '-' fmt_int takes off again: the least number has a
\* magnitude that no long holds.
Magnitude(n) == IF n < 0 THEN Unsigned(-(n + 1), LONG_BITS) + 1 ELSE n

-----------------------------------------------------------------------------
\* p_fmt
FlagChars == {"-", "0", " ", "+", "#"}

NoPrecision == -1

\* sscan_int, from i to before j
ScanInt(s, i, j) ==
    LET n[k \in 0 .. j - i] == IF k = 0 THEN 0 ELSE n[k - 1] * 10 + DigitOf[s[i + k - 1]] IN n[j - i]

\* A '*' takes its precision from the arguments, a negative one is none.
Precision(s, i, args) ==
    IF Chr(s, i) # "." THEN [val |-> NoPrecision, at |-> i, ap |-> args]
    ELSE IF Chr(s, i + 1) = "*"
         THEN LET p == Signed(Head(args), INT_BITS)
              IN  [val |-> IF p < 0 THEN NoPrecision ELSE p, at |-> i + 2, ap |-> Tail(args)]
         ELSE LET IsDec(c) == IsDigit(10, c)
                  end == Past(s, i + 1, IsDec)
              IN  [val |-> ScanInt(s, i + 1, end), at |-> end, ap |-> args]

\* One specification, behind its '%'.
p_fmt(s, args) ==
    LET IsFlag(c) == c \in FlagChars
        IsDec(c)  == IsDigit(10, c)
        width     == Past(s, 2, IsFlag)
        dot       == Past(s, width, IsDec)
        prec      == Precision(s, dot, args)
        long      == Chr(s, prec.at) = "l" /\ Chr(s, prec.at + 1) \in {"d", "i", "o", "u", "x", "X"}
        conv      == IF long THEN prec.at + 1 ELSE prec.at
    IN  [flags |-> {s[i] : i \in 2 .. width - 1}, min_width |-> ScanInt(s, width, dot),
         precision |-> prec.val, bits |-> IF long THEN LONG_BITS ELSE INT_BITS,
         conv |-> Chr(s, conv), ap |-> prec.ap, rest |-> SubSeq(s, conv + 1, Len(s))]

-----------------------------------------------------------------------------
\* What a part prints, and what it counts for.
Fill(c, n)         == [i \in 1 .. n |-> c]
PadWidth(spec, n)  == Max({spec.min_width - n, 0})
Printed(text, n)   == [text |-> text, n |-> n]

fmt_str_core(spec, str) ==
    LET pad    == PadWidth(spec, Len(str))
        blanks == Fill(" ", pad)
    IN  Printed(IF "-" \in spec.flags THEN str \o blanks ELSE blanks \o str, Len(str) + pad)

\* '-' switches the zeros off.
Zeroed(spec) == "0" \in spec.flags /\ "-" \notin spec.flags

fmt_num_core(spec, prefix, num) ==
    LET width == Len(prefix) + Len(num)
        pad   == PadWidth(spec, width)
        fill(c, cond) == IF cond THEN Fill(c, pad) ELSE <<>>
        right == "-" \in spec.flags
    IN  Printed(fill(" ", ~right /\ ~Zeroed(spec)) \o prefix \o fill("0", Zeroed(spec))
                  \o num \o fill(" ", right), width + pad)

fmt_dec(spec, n) ==
    fmt_num_core(spec, IF n < 0 THEN <<"-">> ELSE IF "+" \in spec.flags THEN <<"+">>
                       ELSE IF " " \in spec.flags THEN <<" ">> ELSE <<>>,
                 InBase(Magnitude(n), 10, FALSE))

fmt_uint(spec, n) == fmt_num_core(spec, <<>>, InBase(n, 10, FALSE))

\* The sign's extension to a long's width is cut off (trunc).
fmt_bits(spec, n, base) ==
    LET alt == "#" \in spec.flags /\ n # 0
    IN  fmt_num_core(spec, CASE alt /\ base = 8 -> <<"0">>
                             [] alt /\ base = 16 -> <<"0", spec.conv>>
                             [] OTHER -> <<>>,
                     InBase(Unsigned(n, spec.bits), base, spec.conv = "X"))

fmt_str(spec, str) ==
    fmt_str_core(spec, CASE str = NULL_STR -> <<"(", "n", "u", "l", "l", ")">>
                         [] str # NULL_STR /\ spec.precision = NoPrecision -> str
                         [] OTHER -> SubSeq(str, 1, Min({spec.precision, Len(str)})))

fmt_ptr(spec, p) == fmt_str_core(spec, IF p = 0 THEN <<"(", "n", "i", "l", ")">>
                                       ELSE <<"0", "x">> \o InBase(p, 16, FALSE))

-----------------------------------------------------------------------------
\* The stream takes what it has room for; a part that it does not take ends
\* the call with -1.
Take(s, n) == SubSeq(s, 1, Min({n, Len(s)}))

\* mutant: a part that failed is counted
Count_all(printed)  == nw + printed.n
Count(printed)      == IF Len(printed.text) > room THEN -1 ELSE nw + printed.n

Put(printed, rest) ==
    /\ out' = out \o Take(printed.text, room)
    /\ room' = Max({room - Len(printed.text), 0})
    /\ nw' = Count(printed)
    /\ fmt' = IF nw' = -1 THEN <<>> ELSE rest

Raw == /\ fmt # <<>> /\ fmt[1] # "%"
       /\ LET IsRaw(c) == c # "%"
              end == Past(fmt, 1, IsRaw)
          IN  Put(Printed(SubSeq(fmt, 1, end - 1), end - 1), SubSeq(fmt, end, Len(fmt)))
       /\ UNCHANGED <<ap, stored>>

Conversions == {"d", "i", "u", "U", "o", "x", "X", "s", "c", "p"}

Formatted(spec, arg) ==
    CASE spec.conv \in {"d", "i"} -> fmt_dec(spec, Signed(arg, spec.bits))
      [] spec.conv \in {"u", "U"} -> fmt_uint(spec, Unsigned(arg, spec.bits))
      [] spec.conv = "o"          -> fmt_bits(spec, Signed(arg, spec.bits), 8)
      [] spec.conv \in {"x", "X"} -> fmt_bits(spec, Signed(arg, spec.bits), 16)
      [] spec.conv = "s"          -> fmt_str(spec, arg)
      [] spec.conv = "c"          -> fmt_str_core(spec, <<arg>>)
      [] spec.conv = "p"          -> fmt_ptr(spec, arg)

Conversion == /\ fmt # <<>> /\ fmt[1] = "%"
              /\ LET spec == p_fmt(fmt, ap)
                 IN  /\ spec.conv \in Conversions
                     /\ Put(Formatted(spec, Head(spec.ap)), spec.rest)
                     /\ ap' = Tail(spec.ap)
              /\ UNCHANGED stored

Percent == /\ fmt # <<>> /\ fmt[1] = "%"
           /\ LET spec == p_fmt(fmt, ap)
              IN  /\ spec.conv = "%"
                  /\ Put(Printed(<<"%">>, 1), spec.rest)
                  /\ ap' = spec.ap
           /\ UNCHANGED stored

StoreCount == /\ fmt # <<>> /\ fmt[1] = "%"
              /\ LET spec == p_fmt(fmt, ap)
                 IN  /\ spec.conv = "n"
                     /\ stored' = Append(stored, nw)
                     /\ fmt' = spec.rest /\ ap' = Tail(spec.ap)
              /\ UNCHANGED <<room, out, nw>>

_vfprintf == Raw \/ Conversion \/ Percent \/ StoreCount
=============================================================================
