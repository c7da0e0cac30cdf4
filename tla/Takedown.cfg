SPECIFICATION Spec

CONSTANTS
    Sources = {s1, s2}
    Roles = {r1, r2}
    Company = Company
    MaxActions = 4

INVARIANTS
    HoldIsTheLatest
    StaysOff

PROPERTIES
    LiftRestores
    LiftListsAgain

SYMMETRY Symmetry
