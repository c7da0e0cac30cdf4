\* What the worker derives from stored evidence, and the digest it sends of it.
SPECIFICATION DerivedSpec
CONSTANTS
  Fingerprints = {f1}
  Requests = {r1, r2, r3}
  Addresses = {a1, a2}
  NoAddress = NoAddress
  MaxMessages = 3
  MaxResets = 2
  MaxFaults = 2
  ForecastRoles = {"intern", "graduate"}
  SignalItems = {"named"}
  OpeningItems = {"opening"}
  NamedBy <- MCNamedBy
  Everyone = "everyone"
  Nowhere = "nowhere"
  MaxRegenerations = 2
  MaxForecastFaults = 1
  MaxQuestions = 1
  MaxMoves = 2
  Titles = {"Intern", "Intern, Sales"}
  FirstTitle = "Intern"
  RuleVerdict <- MCRuleVerdict
  NoVerdict = "none"
  MaxReleases = 1
  MaxRuns = 3
  MaxReviews = 2
  MaxScopeFaults = 2
INVARIANTS
  ScopeIsKept
  EvidenceReachesForecasts
  OneMessagePerAttempt
  StuckOnlyAfterFault
  HistoryIsExact
PROPERTIES
  SentIsFinal
\* Each part stops when its bounds are used up.
CHECK_DEADLOCK FALSE
