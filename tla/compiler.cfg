CONSTANTS
    Files = {"first", "second", "wrong", "string", "self", "lone", "bare", "host", "syntax"}
    Body <- MCBody
    Unparsable = {"syntax"}
    Defaults = {"file", "process"}
    Custom = {"net"}
    NoName = ""
    Prefixed <- MCPrefixed
    MaxSources = 3
SPECIFICATION Spec
INVARIANTS TypeOK PrivateStaysInFile ReferencesGoBack SequencesResolve SuccessIsComplete
CHECK_DEADLOCK FALSE
