SPECIFICATION PipeSpec
CONSTANTS
  Banks = {1, 2}
  Ledgers = {11, 12, 13}
  MaxCandidates = 3
  None = None
  Normalized <- Spellings
  acme = acme
  batch = batch
  credit = credit
  Parties = {acme}
  Batches = {batch}
  Flows = {credit}
  BankRows <- SomeBanks
  LedgerRows <- SomeLedgers
INVARIANT
  AbstentionKeepsRecordsVisible
CHECK_DEADLOCK FALSE
