CONSTANTS
    NoName = "none"
    Schema <- MCSchema
    Source <- MCSourceAtLeast
    Code <- MCCode
    RuleOffset <- MCRuleOffset
    RuleNames <- MCRuleNames
    Word = 16
    WordBits = 4
    StackMax = 8
    Accums = 4
    Module <- MCModule
    Field <- MCField
    Payload <- MCPayload
    Items <- MCItems
    Function <- MCFunction
    NoResult = NoResult
    StrLen <- MCStrLen
    BitOp <- MCBitOp
    Shape <- MCShape
    MaxRuns = 1
    MaxDepth = 2
SPECIFICATION Spec
INVARIANT ResultIsMeaning
CHECK_DEADLOCK FALSE
