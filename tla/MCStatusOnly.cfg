CONSTANTS
  Services = {"settlement"}
  alice = alice
  bob = bob
  openai = openai
  None = None
  Users = {alice, bob}
  Channels = {openai}
  TokenIds = {1, 2}
  Writers = {h1, h2}
  QuotaMin <- MCQuotaMin
  QuotaMax = 4
  InitialQuota = 3
  InitialTokens <- MCInitialTokens
  UsageBatches <- MCUsageBatches
  Admissions <- MCAdmissions
  Amounts = {2}
  MaxVersion = 4
  TaskSlots = {1, 2}
  Starters = {h1, h2}
  Runners = {r1, r2, r3}
  TaskTypes = {"log_cleanup"}
  NoRunner = NoRunner
  MaxProgress = 1
  Unreliable = FALSE
  Refreshers = {h1, h2}
  Editors = {e1}
  NoOne = NoOne
  MaxGeneration = 2
  HandlersFail = TRUE
  Codes = {c1}
  TopUps = {t1}
  Days = {d1}
  CreditUsers = {u1, u2}
  Creditors = {h1, h2}
  MaxEnables = 1
  MaxDoubts = 1
  MaxRestarts = 1
SPECIFICATION Spec
INVARIANT StatusOnlyKeepsRemain
