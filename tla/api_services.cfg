CONSTANTS
  Paids = {"p"}
  MaxPayoutFaults = 2
  Intents = {"i", "j"}
  Hashes = {"b", "B", "c"}
  BurnOf <- MCBurnOf
  Syncs = {1, 2}
  NoHash = "none"
  Subs = {"s"}
  Workers = {1, 2}
  PauseAfter = 2
  MaxPeriod = 1
  MaxFailures = 2
  MaxChargeFaults = 1
  Payments <- MCPayments
  KeyOf <- MCKeyOf
  ProofOf <- MCProofOf
  BodyOf <- MCBodyOf
  AmountOf <- MCAmountOf
  Cap = 3
  MaxPayFaults = 2
  Runs = {1, 2, 3}
  MaxAttempts = 2
  MaxRetries = 2
  MaxStalls = 2
  Incidents = {"i"}
  Severe = {"i"}
  Boards = {1, 2}
  JournalLimit = 2
  MaxEntries = 3
  Alerts = {1, 2}
  HandTicks = {"hand"}
  MaxOnsets = 2
  MaxBeside = 1
  MaxForgot = 1
SPECIFICATION Spec
INVARIANTS
  PaidOutAtMostOnce
  ChargesAreExplained
  SpendHoldsCap
  RowTellsTheTruth
  KillSwitchSurvives
  NoDoublePage
PROPERTIES
  BoundAndDone
  OnePaymentPerPermit
CHECK_DEADLOCK FALSE
