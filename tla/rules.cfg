CONSTANTS
    NoName = "none"
    Schema <- MCSchema
    Source <- MCSource
    Code <- MCCode
    RuleOffset <- MCRuleOffset
    RuleNames <- MCRuleNames
    Word = 16
    WordBits = 4
    StackMax = 8
    Accums = 4
    Module <- MCModule
    Field <- MCField
    Payload <- MCPayload
    Items <- MCItems
    Function <- MCFunction
    NoResult = NoResult
    StrLen <- MCStrLen
    BitOp <- MCBitOp
    Shape <- MCShape
    MaxRuns = 2
    MaxDepth = 2
SPECIFICATION FairSpec
INVARIANTS TypeOK PopsOwnOperands OperandsHaveTheirKind AtInstruction ResultIsMeaning
PROPERTIES BelowBaseUntouched HaltLeavesNothing Terminates
CHECK_DEADLOCK FALSE
