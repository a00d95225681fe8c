\* One policy with up to two versions, one call, four instants in two days.
SPECIFICATION DecisionSpec
CONSTANTS
  Policies = {p1}
  Names = {read}
  Definitions <- MCDefinitions
  MaxVersion = 2
  Evaluations = {e1}
  Requests <- MCRequests
  DayLength = 2
  MaxClock = 3
  role = role
  admin = admin
  guest = guest
  asset = asset
  ssh = ssh
INVARIANTS CallsTypeOK AnswersAreExplained AllowIsEarned ContextIsOneInstant
