------------------------------ MODULE RunStore ------------------------------
(***************************************************************************)
(* The PostgreSQL tables behind durable reconciliation runs, and the       *)
(* statements of reconciliation-run-repository.ts as actions on them.      *)
(*                                                                         *)
(* One action is one statement or one transaction: exactly what PostgreSQL *)
(* makes atomic.  A statement followed by a separate one (the progress     *)
(* refresh, the input row) is two actions, and the callers in DurableRuns  *)
(* put other processes, errors and crashes between them.  The refresh      *)
(* itself counts in one step and writes in another, because at READ        *)
(* COMMITTED it does.  The transactions that plan and cancel hold the run's *)
(* row before they count, and finalizeRun checks the row again after a     *)
(* wait, of conditions that stay true: those are one step.                 *)
(*                                                                         *)
(* Abstractions: a lease's deadline is the flag "expired", raised by time  *)
(* and lowered by a claim or a renewal; attempt_count saturates at         *)
(* RetryLimit, the only number it is compared with; the pending and active  *)
(* counters, which no code reads back, CSV bodies, snapshots and           *)
(* timestamps are left out; a finance result is one of Outcomes.           *)
(***************************************************************************)
EXTENDS Naturals, FiniteSets

CONSTANTS
  Runs,        \* reconciliation_runs.run_id values
  Items,       \* reconciliation_work_items.work_item_id values
  RunOf,       \* the run each work item belongs to
  Procs,       \* API processes: the lease_owner values
  Outcomes,    \* finance results a component's handler may arrive at
  NoOne,       \* lease_owner IS NULL
  NoItem,      \* a worker that holds no work item
  NoOutcome,   \* no reconciliation_results row
  RetryLimit   \* attempts after which a rate limit is no longer retried

ASSUME StoreAssumption ==
  /\ RunOf \in [Items -> Runs]
  /\ IsFiniteSet(Items)
  /\ NoOne \notin Procs
  /\ NoItem \notin Items
  /\ NoOutcome \notin Outcomes
  /\ RetryLimit \in Nat \ {0}

VARIABLES
  runStatus,   \* reconciliation_runs.status, "ABSENT" before the row exists
  hasInput,    \* the reconciliation_run_inputs row exists
  planned,     \* the plan's results, trace and work items are committed
  progress,    \* the total, completed and failed work item counters of a run
  item,        \* reconciliation_work_items rows
  result,      \* reconciliation_results, one row per investigated case
  announced    \* runs whose trace holds a RUN_COMPLETED event

storeVars == <<runStatus, hasInput, planned, progress, item, result, announced>>

RunState  == {"ABSENT", "PENDING", "PROCESSING", "COMPLETED", "FAILED", "CANCELLED"}
ItemState == {"ABSENT", "PENDING", "LEASED", "COMPLETED", "FAILED", "CANCELLED"}

ItemRow == [status : ItemState, owner : Procs \cup {NoOne},
            expired : BOOLEAN, attempts : 0..RetryLimit]

Progress == [total : Nat, completed : Nat, failed : Nat]

NoRow == [status |-> "ABSENT", owner |-> NoOne, expired |-> FALSE, attempts |-> 0]

\* The work items that belong to a run, and those that are rows of the table.
ItemsOf(r) == {i \in Items : RunOf[i] = r}
RowsOf(r)  == {i \in ItemsOf(r) : item[i].status # "ABSENT"}

Active(r) == runStatus[r] \in {"PENDING", "PROCESSING"}

StoreTypeOK ==
  /\ runStatus \in [Runs -> RunState]
  /\ hasInput \in [Runs -> BOOLEAN]
  /\ planned \in [Runs -> BOOLEAN]
  /\ progress \in [Runs -> Progress]
  /\ item \in [Items -> ItemRow]
  /\ result \in [Items -> Outcomes \cup {NoOutcome}]
  /\ announced \subseteq Runs

StoreInit ==
  /\ runStatus = [r \in Runs |-> "ABSENT"]
  /\ hasInput = [r \in Runs |-> FALSE]
  /\ planned = [r \in Runs |-> FALSE]
  /\ progress = [r \in Runs |-> [total |-> 0, completed |-> 0, failed |-> 0]]
  /\ item = [i \in Items |-> NoRow]
  /\ result = [i \in Items |-> NoOutcome]
  /\ announced = {}

-----------------------------------------------------------------------------
(* The counters refreshRunWorkProgress derives from a table of items.      *)
CountOf(rows, r, status) == Cardinality({i \in ItemsOf(r) : rows[i].status = status})

\* Variant for the mutation runs: completed work counted as what is not queued.
TallyByDifference(rows, r) ==
  [total     |-> Cardinality({i \in ItemsOf(r) : rows[i].status # "ABSENT"}),
   completed |-> Cardinality({i \in ItemsOf(r) : rows[i].status \notin {"ABSENT", "PENDING"}}),
   failed    |-> CountOf(rows, r, "FAILED")]

TallyOf(rows, r) ==
  [total     |-> Cardinality({i \in ItemsOf(r) : rows[i].status # "ABSENT"}),
   completed |-> CountOf(rows, r, "COMPLETED"),
   failed    |-> CountOf(rows, r, "FAILED")]

\* refreshRunWorkProgress outside a transaction: one UPDATE ... FROM (SELECT
\* count(*) ...), at READ COMMITTED.  It counts in the snapshot the statement
\* began with; having waited for the run's row it writes what it counted then.
RefreshRunWorkProgress(r, tally) ==
  /\ progress' = [progress EXCEPT ![r] = tally]
  /\ UNCHANGED <<runStatus, hasInput, planned, item, result, announced>>

-----------------------------------------------------------------------------
(* startRun: two inserts that share no transaction.                        *)
InsertRun(r) ==
  /\ runStatus[r] = "ABSENT"
  /\ runStatus' = [runStatus EXCEPT ![r] = "PENDING"]
  /\ UNCHANGED <<hasInput, planned, progress, item, result, announced>>

InsertInput(r) ==
  /\ hasInput' = [hasInput EXCEPT ![r] = TRUE]
  /\ UNCHANGED <<runStatus, planned, progress, item, result, announced>>

\* Variant: planning again overwrites the rows that are there.
PlantedAgain(r) == [i \in Items |-> IF RunOf[i] = r THEN [item[i] EXCEPT !.status = "PENDING"]
                                                   ELSE item[i]]

(* persistPlan: one transaction, a no-op on a run that is no longer active. *)
(* Rows that exist already are kept (onConflictDoNothing).                 *)
Planted(r) == [i \in Items |-> IF RunOf[i] = r /\ item[i].status = "ABSENT"
                                 THEN [item[i] EXCEPT !.status = "PENDING"]
                                 ELSE item[i]]

\* Variant: the plan is inserted although no active run was updated.
PersistPlanRegardless(r) ==
  /\ runStatus' = IF Active(r) THEN [runStatus EXCEPT ![r] = "PROCESSING"] ELSE runStatus
  /\ planned' = [planned EXCEPT ![r] = TRUE]
  /\ item' = Planted(r)
  /\ progress' = [progress EXCEPT ![r] = TallyOf(Planted(r), r)]
  /\ UNCHANGED <<hasInput, result, announced>>

PersistPlan(r) ==
  \/ /\ Active(r)
     /\ runStatus' = [runStatus EXCEPT ![r] = "PROCESSING"]
     /\ planned' = [planned EXCEPT ![r] = TRUE]
     /\ item' = Planted(r)
     /\ progress' = [progress EXCEPT ![r] = TallyOf(Planted(r), r)]
     /\ UNCHANGED <<hasInput, result, announced>>
  \/ /\ ~Active(r)
     /\ UNCHANGED storeVars

-----------------------------------------------------------------------------
(* claimWorkItem: one UPDATE ... FOR UPDATE SKIP LOCKED.  SKIP LOCKED lets  *)
(* it pass over a row that another statement holds, so any claimable row    *)
(* may be the one it takes.                                                *)
\* Variant: an expired lease is not claimable.
ClaimablePendingOnly(i) == Active(RunOf[i]) /\ item[i].status = "PENDING"

Claimable(i) ==
  /\ Active(RunOf[i])
  /\ \/ item[i].status = "PENDING"
     \/ item[i].status = "LEASED" /\ item[i].expired

Attempts(i) == IF item[i].attempts < RetryLimit THEN item[i].attempts + 1
                                                ELSE RetryLimit

ClaimWorkItem(p, i) ==
  /\ Claimable(i)
  /\ item' = [item EXCEPT ![i] = [status |-> "LEASED", owner |-> p,
                                  expired |-> FALSE, attempts |-> Attempts(i)]]
  /\ UNCHANGED <<runStatus, hasInput, planned, progress, result, announced>>

\* Variant: the row is found by its id, unless it was cancelled.
HoldsWhoever(p, i) == p \in Procs /\ item[i].status # "CANCELLED"

\* The WHERE clause of release, complete, fail and renew: the lease's expiry
\* is not part of it.
Holds(p, i) == item[i].status = "LEASED" /\ item[i].owner = p

\* lease_owner = NULL, lease_expires_at = NULL; attempt_count stays.
Unleased(i, status) == [status |-> status, owner |-> NoOne, expired |-> FALSE,
                        attempts |-> item[i].attempts]

\* The conditional UPDATE of releaseWorkItem ("PENDING"), completeWorkItem and
\* failWorkItem; the caller learns whether a row changed from Holds.
SettleWorkItem(p, i, status) ==
  /\ Holds(p, i)
  /\ item' = [item EXCEPT ![i] = Unleased(i, status)]
  /\ UNCHANGED <<runStatus, hasInput, planned, progress, result, announced>>

RenewWorkItem(p, i) ==
  /\ Holds(p, i)
  /\ item' = [item EXCEPT ![i].expired = FALSE]
  /\ UNCHANGED <<runStatus, hasInput, planned, progress, result, announced>>

\* lease_expires_at < now() becomes true.
ExpireLease(i) ==
  /\ item[i].status = "LEASED"
  /\ ~item[i].expired
  /\ item' = [item EXCEPT ![i].expired = TRUE]
  /\ UNCHANGED <<runStatus, hasInput, planned, progress, result, announced>>

-----------------------------------------------------------------------------
(* cancelRunDurably: one transaction.                                      *)
Withdrawn(r) ==
  [i \in Items |-> IF RunOf[i] = r /\ item[i].status \in {"PENDING", "LEASED"}
                     THEN Unleased(i, "CANCELLED") ELSE item[i]]

CancelRunDurably(r) ==
  /\ Active(r)
  /\ runStatus' = [runStatus EXCEPT ![r] = "CANCELLED"]
  /\ item' = Withdrawn(r)
  /\ progress' = [progress EXCEPT ![r] = TallyOf(Withdrawn(r), r)]
  /\ UNCHANGED <<hasInput, planned, result, announced>>

(* markRunFailed without a trace: an UPDATE on the run id alone.           *)
MarkRunFailed(r) ==
  /\ runStatus' = [runStatus EXCEPT ![r] = "FAILED"]
  /\ UNCHANGED <<hasInput, planned, progress, item, result, announced>>

(* markRunFailed with the fallback trace: its event takes sequence number  *)
(* 1, so once a plan's trace is stored the insert violates the unique index *)
(* and the transaction rolls back.                                         *)
MarkRunFailedWithTrace(r) ==
  \/ ~planned[r] /\ MarkRunFailed(r)
  \/ planned[r] /\ UNCHANGED storeVars

(* persistResultCheckpoint: one transaction, first row wins.  Neither the  *)
(* run's status nor the lease is consulted.                                *)
\* Variant: the last row wins.
OverwriteResultCheckpoint(i, outcome) ==
  /\ result' = [result EXCEPT ![i] = outcome]
  /\ UNCHANGED <<runStatus, hasInput, planned, progress, item, announced>>

PersistResultCheckpoint(i, outcome) ==
  /\ result' = [result EXCEPT ![i] = IF @ = NoOutcome THEN outcome ELSE @]
  /\ UNCHANGED <<runStatus, hasInput, planned, progress, item, announced>>

(* finalizeRun: one conditional UPDATE.                                    *)
\* Variants: failed items are overlooked; the run's status is.
FinalizableDespiteFailures(r) ==
  /\ runStatus[r] = "PROCESSING"
  /\ progress[r].total = Cardinality(RowsOf(r))
  /\ \A i \in ItemsOf(r) : item[i].status \notin {"PENDING", "LEASED"}

FinalizableInAnyStatus(r) ==
  /\ progress[r].total = Cardinality(RowsOf(r))
  /\ \A i \in ItemsOf(r) : item[i].status \notin {"PENDING", "LEASED", "FAILED"}

Finalizable(r) ==
  /\ runStatus[r] = "PROCESSING"
  /\ progress[r].total = Cardinality(RowsOf(r))
  /\ \A i \in ItemsOf(r) : item[i].status \notin {"PENDING", "LEASED", "FAILED"}

FinalizeRun(r) ==
  /\ Finalizable(r)
  /\ runStatus' = [runStatus EXCEPT ![r] = "COMPLETED"]
  /\ UNCHANGED <<hasInput, planned, progress, item, result, announced>>

(* appendOperationalTrace of RUN_COMPLETED.                                *)
AnnounceCompletion(r) ==
  /\ announced' = announced \cup {r}
  /\ UNCHANGED <<runStatus, hasInput, planned, progress, item, result>>

(* getRecoverableRunIds: only runs that have a runnable work item.         *)
Recoverable == {r \in Runs : \E i \in ItemsOf(r) : Claimable(i)}
=============================================================================
