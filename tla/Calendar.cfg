SPECIFICATION Spec

CONSTANTS
    Records = {r1}
    Contents = {c1, c2}
    Accounts = {a1, a2}
    Syncs = {s1, s2}
    Disconnects = {d1}
    None = None
    MaxGrants = 2
    MaxFaults = 2
    MaxCrossedFaults = 0

INVARIANTS
    MappingIsTrue


    

SYMMETRY Symmetry

CHECK_DEADLOCK FALSE
