CONSTANTS
    Fields <- MCFields
    SubFields <- MCSubFields
    NoName = NoName
    MaxEvents = 3
    MaxItems = 2
SPECIFICATION Spec
INVARIANTS TypeOK FieldsAreFresh PointersAreLive ArraysAreWhole NothingLeft
CHECK_DEADLOCK FALSE
