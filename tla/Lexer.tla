------------------------------- MODULE Lexer -------------------------------
(***************************************************************************)
(* The lexer (compiler/smolcc1.c: peek_char, skip_chr, next_chr, lex): it  *)
(* pulls characters through a small buffer out of read(), which gives as   *)
(* much as it likes or fails, and puts tokens together, one character a    *)
(* step.  The parser calls lex for one token at a time and the lexer knows *)
(* nothing of the parser, so that all tokens up to the first error may be  *)
(* made first.                                                             *)
(***************************************************************************)
EXTENDS CTokens

CONSTANTS RDBUF_CAP,      \* bytes the buffer holds
          CharSigned,     \* is char signed where the compiler was built?
          Texts,          \* inputs to be lexed and parsed
          Lexed           \* inputs, as token sequences, to be parsed only

ASSUME LexerAssumption == RDBUF_CAP \in Nat \ {0} /\ CharSigned \in BOOLEAN
ASSUME TextsAssumption == \A t \in Texts : t \in Seq(Range(t)) /\ EOF \notin Range(t)

VARIABLES
    src,       \* the bytes of standard input
    sent,      \* how many of them read() has given
    ahead,     \* how many of those rdbuf still holds
    failed,    \* history: in which functions a read() has failed
    chr, chr_pos,
    mode,      \* where lex stands
    tok, tok_str, tok_pos, tok_val,
    toks       \* the tokens made so far, the last may be an error

input == <<src, sent, ahead, failed>>
lexed == <<tok, tok_str, tok_pos, tok_val, toks>>
lexer == <<input, chr, chr_pos, mode, lexed>>

\* What may follow a backslash, and what it stands for.
escapes   == <<"a", "b", "f", "n", "r", "t", "v", "\\", "'", "\"", "?", "0">>
unescapes == <<"BEL", "BS", "\f", "\n", "\r", "\t", "VT", "\\", "'", "\"", "?", "NUL">>
Unescaped(c) == unescapes[CHOOSE i \in DOMAIN escapes : escapes[i] = c]

-----------------------------------------------------------------------------
\* A byte as the int it becomes; in a signed char 0xFF is EOF.
AsChr(byte) == IF byte = "0xFF" /\ CharSigned THEN EOF ELSE byte

\* What peek_char may answer, with the buffer after it.
Peeked(c, s, a, bad) == [c |-> c, sent |-> s, ahead |-> a, bad |-> bad]

peek_char ==
    IF ahead > 0 THEN {Peeked(AsChr(src[sent - ahead + 1]), sent, ahead, FALSE)}
    ELSE {Peeked(AsChr(src[sent + 1]), sent + n, n, FALSE) :
             n \in {k \in 1 .. RDBUF_CAP : sent + k <= Len(src)}}
         \cup IF sent = Len(src) THEN {Peeked(EOF, sent, 0, FALSE)} ELSE {}
         \cup {Peeked(EOF, sent, 0, TRUE)}

skip_chr ==
    /\ chr_pos' = IF chr = "\n" THEN [line |-> chr_pos.line + 1, col |-> 1]
                  ELSE [chr_pos EXCEPT !.col = @ + 1]
    /\ \E p \in peek_char :
         /\ chr' = p.c
         /\ sent' = p.sent
         /\ ahead' = IF p.c = EOF THEN p.ahead ELSE p.ahead - 1
         /\ failed' = IF p.bad THEN failed \cup {"skip_chr"} ELSE failed
    /\ UNCHANGED src

\* The lexer goes on in mode m; or it stops, and the message is the last token.
To(m) == mode' = m
err_at(why) == /\ toks' = Append(toks, Token("error", why, chr_pos, NoVal))
               /\ To("lexed")
               /\ UNCHANGED <<input, chr, chr_pos, tok, tok_str, tok_pos, tok_val>>

\* skip_chr leaving the token as it is, and next_chr, which appends to it.
Skip(m) == /\ skip_chr
           /\ To(m)
           /\ UNCHANGED <<tok, tok_str, tok_pos, toks>>

next_chr(m) ==
    IF Len(tok_str) = MAX_TOK_LEN THEN err_at("token too long")
    ELSE /\ skip_chr
         /\ To(m)
         /\ tok_str' = Append(tok_str, chr)
         /\ UNCHANGED <<tok, tok_pos, toks>>
Next_chr(m) == next_chr(m) /\ UNCHANGED tok_val

Stay(m) == To(m) /\ UNCHANGED <<input, chr, chr_pos, lexed>>

-----------------------------------------------------------------------------
LexInit ==
    /\ \/ src \in Texts /\ mode = "boot" /\ toks = <<>>
       \/ src = <<>> /\ mode = "given" /\ toks \in Lexed
    /\ sent = 0 /\ ahead = 0 /\ failed = {}
    /\ chr = "NUL" /\ chr_pos = [line |-> 1, col |-> 0]
    /\ tok = "none" /\ tok_str = <<>> /\ tok_pos = chr_pos /\ tok_val = NoVal

Boot == mode = "boot" /\ Skip("begin") /\ UNCHANGED tok_val

\* The top of lex's loop; `tok` is what the branch taken sets in the end.
Begin ==
    /\ mode = "begin"
    /\ tok_str' = <<>>
    /\ tok_pos' = chr_pos
    /\ tok' = CASE chr = EOF           -> "eof"
                [] chr \in Blanks      -> "none"
                [] chr \in Digits      -> "num"
                [] chr \in Letters     -> "wrd"
                [] chr = "\""          -> "str"
                [] chr = "'"           -> "chr"
                [] OTHER               -> "sym"
    /\ tok_val' = IF tok' \in {"num", "str", "chr"} THEN NoVal ELSE tok_val
    /\ To(CASE tok' = "eof"              -> "end"
            [] tok' = "none"             -> "blank"
            [] tok' \in {"str", "chr"}   -> "open"
            [] OTHER                     -> tok')
    /\ UNCHANGED <<input, chr, chr_pos, toks>>

Blank == mode = "blank" /\ Next_chr("begin")

\* The token is complete.
Made(kind) == Token(kind, Joined(tok_str), tok_pos,
                    IF kind \in {"num", "str", "chr"} THEN tok_val ELSE NoVal)
End == /\ mode = "end"
       /\ toks' = Append(toks, Made(tok))
       /\ To(IF tok = "eof" THEN "lexed" ELSE "begin")
       /\ UNCHANGED <<input, chr, chr_pos, tok, tok_str, tok_pos, tok_val>>

-----------------------------------------------------------------------------
\* Numbers.
Overflows_late(n, d) == n > ULONG_MAX \div 10          \* mutant: without the digit
Overflows(n, d) == n > (ULONG_MAX - d) \div 10

Digit ==
    /\ mode = "num" /\ chr \in Digits
    /\ IF Overflows(tok_val.n, Value(chr)) THEN err_at("integer literal overflow")
       ELSE /\ next_chr("num")
            /\ tok_val' = IF mode' = "lexed" THEN tok_val
                          ELSE [tok_val EXCEPT !.n = @ * 10 + Value(chr)]

Suffix(m, letters, to) == mode = m /\ chr \in letters /\ next_chr(to)

SuffixU == /\ Suffix("num", {"u", "U"}, "long")
           /\ tok_val' = IF mode' = "lexed" THEN tok_val ELSE [tok_val EXCEPT !.u = TRUE]
NoSuffixU == mode = "num" /\ chr \notin Digits \cup {"u", "U"} /\ Stay("long")

SuffixL == /\ Suffix("long", {"l", "L"}, "end")
           /\ tok_val' = IF mode' = "lexed" THEN tok_val ELSE [tok_val EXCEPT !.l = TRUE]
NoSuffixL == mode = "long" /\ chr \notin {"l", "L"} /\ Stay("end")

\* Identifiers and keywords.
Letter == mode = "wrd" /\ chr \in Letters \cup Digits /\ Next_chr("wrd")
EndOfWord == mode = "wrd" /\ chr \notin Letters \cup Digits /\ Stay("end")

-----------------------------------------------------------------------------
\* Literals.  The delimiter and what is between are skipped; only a backslash
\* gets into tok_str.
delim == IF tok = "str" THEN "\"" ELSE "'"

Open == mode = "open" /\ Skip("literal") /\ UNCHANGED tok_val

Close == /\ mode = "literal" /\ chr = delim
         /\ IF tok = "chr" /\ tok_val.str = <<>> THEN err_at("empty char literal")
            ELSE /\ Skip("end")
                 /\ tok_val' = [tok_val EXCEPT !.n = Len(tok_val.str)]

LiteralError ==
    IF chr = EOF THEN "unterminated string/char literal"
    ELSE IF tok = "chr" /\ tok_val.str # <<>> THEN "too many characters in char literal"
    ELSE IF Len(tok_val.str) = MAX_TOK_LEN THEN "string/char literal too long"
    ELSE "none"

BadLiteral == mode = "literal" /\ chr # delim /\ LiteralError # "none" /\ err_at(LiteralError)

Backslash == /\ mode = "literal" /\ chr = "\\" /\ LiteralError = "none"
             /\ Next_chr("escape")

Decode(c) == Skip("literal") /\ tok_val' = [tok_val EXCEPT !.str = Append(@, c)]

Plain == /\ mode = "literal" /\ chr \notin {delim, "\\"} /\ LiteralError = "none"
         /\ Decode(chr)

Escape == /\ mode = "escape"
          /\ IF chr \in Range(escapes) THEN Decode(Unescaped(chr))
             ELSE err_at("unknown escape sequence")

-----------------------------------------------------------------------------
\* Comments and punctuators; prev is the first character.
Sym == mode = "sym" /\ Next_chr("second")

prev == tok_str[1]

Pairs_no_minus(c, d) == \/ c \in {"<", ">", "!", "="} /\ d = "="      \* mutant
                        \/ c \in {"&", "|", "<", ">", "+"} /\ d = c
                        \/ c = "-" /\ d = ">"
Pairs(c, d) == \/ c \in {"<", ">", "!", "="} /\ d = "="
               \/ c \in {"&", "|", "<", ">", "+", "-"} /\ d = c
               \/ c = "-" /\ d = ">"

Hash  == mode = "second" /\ prev = "#" /\ Stay("comment")
Slash == mode = "second" /\ prev = "/" /\ chr = "/" /\ Next_chr("comment")

Pair == mode = "second" /\ Pairs(prev, chr) /\ Next_chr("end")

TwoDots == prev = "." /\ chr = "."

\* peek_char looks behind the second dot, which may take a read().
Peek == /\ mode = "second" /\ TwoDots
        /\ \E p \in peek_char :
             /\ sent' = p.sent /\ ahead' = p.ahead
             /\ failed' = IF p.bad THEN failed \cup {"lex"} ELSE failed
             /\ To(IF p.c = "." THEN "dots" ELSE "end")
        /\ UNCHANGED <<src, chr, chr_pos, lexed>>

Dot == \/ mode = "dots" /\ Next_chr("last dot")
       \/ mode = "last dot" /\ Next_chr("end")

Single == /\ mode = "second"
          /\ prev # "#" /\ ~(prev = "/" /\ chr = "/") /\ ~Pairs(prev, chr) /\ ~TwoDots
          /\ Stay("end")

InComment == mode = "comment" /\ chr \notin {"\n", EOF} /\ Skip("comment") /\ UNCHANGED tok_val
EndComment == mode = "comment" /\ chr \in {"\n", EOF} /\ Stay("begin")

Lex == \/ Boot \/ Begin \/ Blank \/ End
       \/ Digit \/ SuffixU \/ NoSuffixU \/ SuffixL \/ NoSuffixL
       \/ Letter \/ EndOfWord
       \/ Open \/ Close \/ BadLiteral \/ Backslash \/ Plain \/ Escape
       \/ Sym \/ Hash \/ Slash \/ Pair \/ Peek \/ Dot \/ Single
       \/ InComment \/ EndComment

\* The parser takes the tokens.
Over == /\ mode \in {"lexed", "given"}
        /\ To("parsed")
        /\ UNCHANGED <<input, chr, chr_pos, lexed>>

LexSpec == LexInit /\ [][Lex \/ Over]_lexer

-----------------------------------------------------------------------------
Received == SubSeq(src, 1, sent - ahead)

\* The tokens, their values and their places, up to and including the first
\* error, are those of the text received, in whichever pieces read() gave it
\* (lex looks two characters ahead, across the end of the buffer); and without
\* errors all of the text is received.  The failure of the read() behind two
\* dots is passed over, which may cut an ellipsis to pieces.
TokensAsC ==
    mode = "lexed" =>
      /\ "lex" \notin failed => toks = Tokens(Received)
      /\ (failed = {} /\ Last(toks).kind = "eof" /\ ~(CharSigned /\ "0xFF" \in Range(src)))
            => Received = src
=============================================================================
