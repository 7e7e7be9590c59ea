\* Keys of up to five characters, patterns of up to four elements; a pattern of
\* two tokens and two characters does not fit the buffer.
SPECIFICATION Spec
CONSTANTS
    Chars = {"a", "b"}
    Slash = "/"
    Token = "[^/]+"
    End = "NUL"
    BufferSize = 12
    MaxKey = 5
    MaxPattern = 4
    Keys <- MCKeys
    Patterns <- MCPatterns
INVARIANTS TypeOK MatchIsSound MatchIsComplete
\* The matcher returns.
CHECK_DEADLOCK FALSE
