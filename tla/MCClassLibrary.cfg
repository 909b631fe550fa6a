SPECIFICATION Spec
CONSTANTS
    Libraries <- MCLibraries
INVARIANTS
    ParsedAsWritten
    FieldsApart
    DispatchAsSpecified
\* Everything is loaded in the end.
CHECK_DEADLOCK FALSE
