SPECIFICATION GuestSpec
CONSTANTS
    visitor = visitor
    guests = guests
    auth = auth
    Requests = {"a1", "a2", "a3", "g1"}
    Keys = {visitor, guests, auth}
    Route <- MCRoute
    Guests = {"g1"}
    Limit <- MCLimit
    Period = 3
    TicksPerSecond = 2
    MaxTime = 4
    MaxCrashes = 1
    v1 = v1
    v2 = v2
    i1 = i1
    NoVersion = NoVersion
    Absent = Absent
    Writes = {"w1"}
    Visitors = {v1, v2}
    Isolates = {i1}
    IsolateOf <- MCIsolateOf
    BuildOf <- MCBuildOf
    Builds = {"old"}
    MemoTicks = 1
    PageTicks = 2
    RequestTicks = 1
    CacheMaxTime = 5
    MaxVersion = 1
INVARIANTS
    LimitIsExact RefusalIsFair FailsClosed
    GuestSeesWrites KeyCoversContent
CHECK_DEADLOCK FALSE
