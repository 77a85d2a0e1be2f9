SPECIFICATION Spec
CONSTANTS
    Words <- MCWords
    Keywords <- KeywordType
    DigitValue <- MCDigitValue
    LowerHex = {"a", "c"}
    UpperHex = {"A"}
    Modifiers = {"i", "s", "m", "n"}
    Escape <- MCEscape
    Word = 64
    LongMax = 31
    NoName = NoName
    Schema <- MCSchema
    LexemeOf <- MCLexemeOf
    Programs <- MCPrograms
INVARIANTS
    TypeOK
    LexemesComeBack
    TreesHaveTheirShape
    OnlyWholePrograms
    NothingFreedTwice
    VerdictIsRight
CHECK_DEADLOCK FALSE
