SPECIFICATION Spec
CONSTANTS
    c1 = c1
    r1 = r1
    r2 = r2
    t1 = t1
    t2 = t2
    u1 = u1
    u2 = u2
    Tabs = {t1, t2}
    Users = {u1, u2}
    Guest = Guest
    None = None
    Companies = {c1}
    Roles = {r1, r2}
    LookingFor = {}
    Fields = {"data"}
    DisciplinesOf <- MCDisciplinesOf
    TypesOf <- MCTypesOf
    Facts <- MCFacts
    MaxCompanies = 1
    PayoffRoles = 1
    MaxRows = 2
    Shown = {r2}
    Links <- MCLinks
    Leavers = {r2}
    MaxFaults = 1
    MaxCalls = 2
    MaxEdits = 2
    MaxEffort = 4
    MaxOpens = 2
    Editors = {t1}
    MaxCookies = 2
INVARIANTS
    
    AutoSavesAskedPrograms
PROPERTIES
    AskIsKept
CHECK_DEADLOCK FALSE
