SPECIFICATION Spec
CONSTANTS
  Banks = {b1, b2}
  Ledgers = {l1, l2, l3, l4}
  None = None
  Normalized <- Spellings
  acme = acme
  batch = batch
  credit = credit
  Parties = {acme}
  Batches = {batch}
  Flows = {credit}
  BankRows <- FileBanks
  LedgerRows <- FileLedgers
SYMMETRY FileSymmetry
INVARIANTS
  TypeOK
  RecordsUsedOnce
  AmbiguityNeverClears
  EveryRecordDecided
PROPERTY
  ImplementsUniqueMatching
CHECK_DEADLOCK FALSE
