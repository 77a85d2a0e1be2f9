CONSTANTS
    NoName = "none"
    Schema <- MCSchema
    Source <- MCSourceLeak
    Code <- MCCode
    RuleOffset <- MCRuleOffset
    RuleNames <- MCRuleNames
    Word = 16
    WordBits = 4
    StackMax = 4
    Accums = 4
    Module <- MCModule
    Field <- MCField
    Payload <- MCPayload
    Items <- MCItems
    Function <- MCFunction
    NoResult = NoResult
    StrLen <- MCStrLen
    BitOp <- MCBitOp
    Shape <- MCShape
    MaxRuns = 6
    MaxDepth = 2
SPECIFICATION Spec
INVARIANT TriggersOnlyByHalt
CHECK_DEADLOCK FALSE
