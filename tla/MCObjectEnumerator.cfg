CONSTANTS
    P4Objects <- MCP4Objects
    MaxNext = 8
SPECIFICATION Spec
INVARIANTS
    TypeOK
    ListsEachObjectOnce
