SPECIFICATION Spec
CONSTANTS
    MAX_TOK_LEN = 3
    ULONG_MAX = 255
    RDBUF_CAP = 2
    CharSigned = TRUE
    ByteBits = 1
    MAX_FUNC_PARAMS = 2
    Syms  <- MCSyms
    SymTy <- MCSymTy
    Texts <- MCTexts
    Lexed <- MCLexed
INVARIANTS
    TokensAsC
    TreeAsGrammar
\* The statement has been parsed.
CHECK_DEADLOCK FALSE
