CONSTANTS
    Fingerprints = {f1}
    Requests = {r1, r2}
    Addresses = {a1, a2}
    NoAddress = NoAddress
    MaxMessages = 3
    MaxResets = 2
    MaxFaults = 0
SPECIFICATION Spec
INVARIANTS OneSendPerFingerprint
CHECK_DEADLOCK FALSE
