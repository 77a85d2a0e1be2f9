CONSTANTS
    Files = {"first", "second", "wrong", "string", "self", "bare", "host", "syntax"}
    Body <- MCBody
    Unparsable = {"syntax"}
    Defaults = {"file", "process"}
    Custom = {"net"}
    NoName = ""
    Prefixed <- MCPrefixed
    MaxSources = 3
SPECIFICATION Spec
INVARIANT SuccessMeansChecked
CHECK_DEADLOCK FALSE
