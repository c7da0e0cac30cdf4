CONSTANTS
    Providers = {"google_calendar"}
    Deletions = {d1, d2}
    Callbacks = {}
    CallbackProvider <- MCCallbackProvider
    Questions = {q1}
    Events = {e1}
    RetryRounds = 1
    MaxWrites = 0
    MaxFaults = 2
    NoToken = NoToken
    cal = cal
    mail = mail
SPECIFICATION Spec
INVARIANTS ToldDeletedIsGone RecordIsTrue
CHECK_DEADLOCK FALSE
