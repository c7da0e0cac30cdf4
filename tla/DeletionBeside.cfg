CONSTANTS
    Providers = {"google_calendar", "gmail"}
    Deletions = {d1}
    Callbacks = {cal}
    CallbackProvider <- MCCallbackProvider
    Questions = {}
    Events = {}
    RetryRounds = 1
    MaxWrites = 2
    MaxFaults = 1
    NoToken = NoToken
    cal = cal
    mail = mail
SPECIFICATION FairSpec
INVARIANTS NoTokenOnceGone
 
CHECK_DEADLOCK FALSE
