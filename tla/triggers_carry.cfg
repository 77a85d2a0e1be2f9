CONSTANTS
    NRules = 4
    NSequences = 2
    SequenceTable <- MCSequenceTable
    MaxSec = 3
    MaxUsec = 1
    Modules = {"file", "process"}
    NoModule = "none"
    Matched <- MCMatched
    RuleTable <- MCRuleTable
    RuleErrors = {"INDEX"}
    ClockMode = "strict"
    PartialUnmarshal = FALSE
    MaxCallbacks = 1
    MaxEvents = 3
SPECIFICATION Spec
INVARIANT AscendingIsReported
CHECK_DEADLOCK FALSE
