SPECIFICATION Spec
CONSTANTS
    Half32 = 2
    Half64 = 8
    Numbers <- EdgeNumbers
    Bytes <- EdgeBytes
    Statements <- SmallStatements
    Names <- ClientNames
    MaxParams = 1
INVARIANTS
    IntegersSurvive
