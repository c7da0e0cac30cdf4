SPECIFICATION PagesSpec
CONSTANTS
    Roles <- MCRoles
    Facets = {"company", "watched", "season"}
    Withheld = {"season"}
    Counted = {"company"}
    Values <- MCValues
    Facts <- MCFacts
    PageSize = 2
    PerCompany = 2
    Links <- MCLinks
    MaxClicks = 2
    MaxChanges = 1
    Openings <- MCOpenings
    Types = {"x", "y"}
    OpenedPageSize = 3
    Window = 6
    PerWindow = 2
    MaxVisits = 2
    Keys = {1, 2}
    ReadPage = 1
    MaxRows = 9
    MaxRequests = 2
    MaxRowWrites = 1
    MaxLost = 1
    Emails = {"new", "old"}
    Registered = {"old"}
    Passwords = {"p1", "p2"}
    Floor = 2
    Step = 2
    MaxTook = 3
    MaxMails = 1
    MaxUpsets = 1
    MaxTyping = 1
    AgentTools <- MCTools
    PlanTool = "create_readiness_plan"
    MaxAsks = 2
    Allowance = 1
    MaxAgentFaults = 1
    Histories <- MCHistories
    YearDays = 4
    AnnualGap = 4
    Lead = 1
    Cutoffs = {2, 7}
    MaxRuns = 2
    MaxReplayFaults = 1
    Programs = {1}
    Receipts <- MCReceipts
    ReceiptPage = 1
    VersionsShown = 1
    MaxVersions = 2
    MaxLoads = 2
    MaxFollows = 1
INVARIANTS
    ListKeepsItsWord FeedKeepsTheRule  SignInIsAsTold
    AnswersAreOnRecord  PagesAgree
CHECK_DEADLOCK FALSE
