----------------------------- MODULE MCPrograms -----------------------------
(***************************************************************************)
(* Jobs for module Programs.  An int has 4 bits and a long 6, a chunk of   *)
(* hexdump is 3 bytes, a block of cat 2 and the buffer of stdout 3.        *)
(***************************************************************************)
EXTENDS Programs

Chars(s) == [i \in 1 .. Len(s) |-> SubSeq(s, i, i)]
Word(s)  == Append(Chars(s), End)
Job(p)   == [prog |-> p, argv |-> <<Word("prog")>>]

-----------------------------------------------------------------------------
\* Short texts, and the numbers about all the limits, in several bases.
Limits   == (0 .. 70) \cup {319, 320, 326, 327, 639, 640, 641, 1000}
ShortNums == BoundedSeq({" ", "+", "-", "0", "1", "9", "x", "f", "?"}, 3)
LimitNums == {sign \o C!InDigits(n, b, b = 16) :
                sign \in {<<>>, <<"-">>, <<" ", "+">>, <<"-", "0", "x">>, <<"0">>},
                n \in Limits, b \in {8, 10, 16}}
Bases    == {0, 2, 8, 10, 16, 36}
Converts(texts) == {[prog |-> "numbers", text |-> t, base |-> b] : t \in texts, b \in Bases}

-----------------------------------------------------------------------------
Words    == {Word(w) : w \in {"", "-", "--", "-a", "-b", "-x", "-ab", "-bx", "-xb", "--a", "-a-", "f"}}
Specs    == {Word(w) : w \in {"ab:", ":b:a", "a:b", ""}}
Getopts  == {[prog |-> "getopt", argv |-> <<Word("prog")>> \o words, spec |-> spec] :
               words \in BoundedSeq(Words, 3), spec \in Specs}

-----------------------------------------------------------------------------
\* A directive, and what a caller passes for it.
Decimal(n) == IF n = 0 THEN <<>> ELSE C!InDigits(n, 10, FALSE)
Bits(n)    == Unsigned(n, LONG_BITS)
D(conv, long, written, width, precision, star, val) ==
    [conv |-> conv, long |-> long, written |-> written, flags |-> Range(written),
     wide |-> Decimal(width), width |-> width,
     dotted |-> IF star THEN <<".", "*">> ELSE IF precision < 0 THEN <<>> ELSE <<".">> \o Decimal(precision),
     precision |-> precision, star |-> star, starred |-> Bits(precision),
     val |-> val, arg |-> IF conv \in {"d", "i"} THEN Bits(val) ELSE val]
Plain(conv, val) == D(conv, FALSE, <<>>, 0, -1, FALSE, val)

Written   == BoundedSeq(FlagChars, 2)
Widths    == {0, 1, 4, 12}

Integers_ == {D(conv, long, fl, w, -1, FALSE, v) :
                conv \in {"d", "u", "o", "x", "X"}, long \in BOOLEAN, fl \in Written, w \in Widths,
                v \in {-32, -9, -8, -1, 0, 1, 7, 8, 15, 16, 31, 63}}
Fits(d)   == d.val \in IF d.conv = "d" THEN IF d.long THEN LONG_MIN .. LONG_MAX ELSE -8 .. 7
                       ELSE 0 .. IF d.long THEN ULONG_MAX ELSE 15
Strings_  == {D("s", FALSE, fl, w, ps[1], ps[2], Chars(v)) :
                fl \in {<<>>, <<"-">>}, w \in Widths, v \in {"", "ab", "abcd"},
                ps \in ({-1, 0, 1, 4} \X BOOLEAN) \cup {<<12, FALSE>>}}
Others    == {D(vc[1], FALSE, fl, w, -1, FALSE, vc[2]) :
                fl \in {<<>>, <<"-">>}, w \in Widths,
                vc \in {<<"c", "a">>, <<"c", NUL>>, <<"p", 0>>, <<"p", 37>>, <<"i", -2>>}}
Several   == {Plain("text", Chars("ab")), Plain("%", 0), Plain("n", 0), Plain("d", -3),
              D("s", FALSE, <<"-">>, 2, 1, TRUE, Chars("xyz"))}

Lists == {ds \in BoundedSeq(Several, 4) :
            \A i \in 1 .. Len(ds) - 1 : ds[i].conv # "text" \/ ds[i + 1].conv # "text"}
Prints(lists) == {[prog |-> "printf", directives |-> ds, room |-> r,
                   format |-> FlattenSeq([i \in DOMAIN ds |-> Spelled(ds[i])]),
                   args |-> FlattenSeq([i \in DOMAIN ds |-> Passed(ds[i])])] : ds \in lists, r \in {1, 4, 100}}
Singly(ds)    == Prints({<<d>> : d \in ds})

-----------------------------------------------------------------------------
\* Files of up to three bytes, each byte its own.
Data_(i, n) == [k \in 1 .. n |-> 10 * i + k]
Fates(i)    == {File(<<>>, "open")} \cup
               {File(Data_(i, n), fails) : n \in 0 .. 3, fails \in {"none", "read", "close"}}
One   == {<<f>> : f \in Fates(1)}
Two   == LET fates == Fates(2) IN {<<s[1], f>> : s \in One, f \in fates}
Three == LET fates == Fates(3) IN {<<s[1], s[2], f>> : s \in Two, f \in fates}
Stdin == {s \in One : s[1].fails \in {"none", "read"}}

Operands(fs) == [i \in DOMAIN fs |-> Word("f")]
Reads(p, opts, fs) == [prog |-> p, argv |-> <<Word("prog")>> \o opts \o Operands(fs), files |-> fs]
FromStdin(p, opts, fs) == [prog |-> p, argv |-> <<Word("prog")>> \o opts, files |-> fs]

HexOptions == {<<>>, <<Word("-n4")>>, <<Word("-Cn"), Word("3"), Word("--")>>}
HexRefused == {<<Word("-n"), Word("64")>>, <<Word("-n1x")>>, <<Word("-n")>>, <<Word("-C"), Word("-x")>>,
               <<Word("-n0")>>, <<Word("-n-1")>>}
Dumps(seqs) == {Reads("hexdump", o, fs) : o \in HexOptions, fs \in seqs}
DumpsStdin  == {FromStdin("hexdump", o, fs) : o \in HexOptions \cup HexRefused, fs \in Stdin}

\* Texts with blanks and newlines for wc.
TextFile == {File(t, "none") : t \in BoundedSeq({"a", " ", "\n"}, 3)}
            \cup {File(Chars("a\n"), fails) : fails \in {"open", "read", "close"}}
Wcs == {Reads("wc", o, fs) : o \in {<<>>, <<Word("-lL"), Word("-c")>>}, fs \in BoundedSeq(TextFile, 2) \ {<<>>}}
       \cup {Reads("wc", <<>>, <<File(t, "none")>>) : t \in BoundedSeq({"a", " ", "\n"}, 5)}
       \cup {FromStdin("wc", o, <<File(t, fails)>>) :
               o \in {<<>>, <<Word("-w")>>, <<Word("-x")>>}, t \in {<<>>, Chars("a \nb")}, fails \in {"none", "read"}}

\* For cat files longer than the buffer of stdout: one fails in the middle of a
\* block, and the file behind it finds the buffer full.
Longer(i) == Fates(i) \cup {File(Data_(i, n), fails) : n \in 4 .. 5, fails \in {"none", "read"}}
CatFiles  == {<<f>> : f \in Longer(1)} \cup {<<f, g>> : f \in Longer(1), g \in Longer(2)}
CatStdin  == {<<f>> : f \in {g \in Longer(1) : g.fails \in {"none", "read"}}}
Cats == {j @@ [room |-> r] :
           j \in {Reads("cat", <<>>, fs) : fs \in CatFiles} \cup {FromStdin("cat", <<>>, fs) : fs \in CatStdin},
           r \in 0 .. 10}

MCHexdumps == <<Dumps(One), Dumps(Two), Dumps(Three), DumpsStdin>>
MCJobs == <<Converts(ShortNums), Converts(LimitNums), Getopts,
            Singly({d \in Integers_ : Fits(d)}), Singly(Strings_), Singly(Others), Prints(Lists),
            Wcs, Cats>> \o MCHexdumps

\* The programs that lose output; MCHexdumps and MCCats show one each.
MCCats == <<Cats>>
MCLosers == MCHexdumps \o MCCats
=============================================================================
