SPECIFICATION LegacySpec
CONSTANTS
  Banks = {1, 2}
  Ledgers = {11, 12, 13}
  MaxCandidates = 2
  Concurrency = 2
  MaxCalls = 3
  None = None
  Normalized <- Spellings
  credit = credit
  Parties = {}
  Batches = {}
  Flows = {credit}
  BankRows <- SomeBanks
  LedgerRows <- SomeLedgers
INVARIANTS
  RunTypeOK
  NoRecordMatchedTwice
  OneResultPerCase
  CallBudgetKept
  CompletedOrNothing
  FailureCodeTellsWhy
CHECK_DEADLOCK FALSE
PROPERTIES
  FollowsLifecycle
  EveryRunEnds
