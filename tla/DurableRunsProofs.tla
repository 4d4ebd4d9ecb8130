------------------------- MODULE DurableRunsProofs -------------------------
(***************************************************************************)
(* The safety properties of DurableRuns for every number of runs, items,   *)
(* processes, crashes, rejected statements and late renewals.              *)
(***************************************************************************)
EXTENDS DurableRuns, FiniteSetTheorems, TLAPS

\* The counters the progress refresh derives are numbers.
LEMMA TallyType ==
  ASSUME NEW rows, NEW r
  PROVE  TallyOf(rows, r) \in Progress
<1> DEFINE Part(P) == {i \in ItemsOf(r) : P}
<1>1. IsFiniteSet(ItemsOf(r))
  BY StoreAssumption, FS_Subset DEF ItemsOf
<1>2. ASSUME NEW S \in SUBSET ItemsOf(r)
      PROVE  Cardinality(S) \in Nat
  BY <1>1, FS_Subset, FS_CardinalityType
<1>3. /\ Cardinality({i \in ItemsOf(r) : rows[i].status # "ABSENT"}) \in Nat
      /\ CountOf(rows, r, "COMPLETED") \in Nat
      /\ CountOf(rows, r, "FAILED") \in Nat
  BY <1>2 DEF CountOf
<1> QED
  BY <1>3 DEF TallyOf, Progress

-----------------------------------------------------------------------------
(* Type correctness.                                                       *)

LEMMA TypeInit == Init => TypeOK
BY StoreAssumption, BudgetAssumption
   DEF Init, StoreInit, TypeOK, StoreTypeOK, ProcTypeOK, SlotRow, RunState, ItemState, ItemRow,
       NoRow, Progress, Idle, Attempt, NoTally, PlanPC, SlotPC

\* The effect of a step on the tables is that of one of the statements.
RunStatement(r) ==
  InsertRun(r) \/ InsertInput(r) \/ PersistPlan(r) \/ FinalizeRun(r) \/ AnnounceCompletion(r)
  \/ MarkRunFailed(r) \/ CancelRunDurably(r)
  \/ \E tally \in Progress : RefreshRunWorkProgress(r, tally)

ItemStatement(p, i) ==
  \/ ClaimWorkItem(p, i) \/ RenewWorkItem(p, i)
  \/ \E status \in {"PENDING", "COMPLETED", "FAILED"} : SettleWorkItem(p, i, status)
  \/ \E o \in Outcomes \cup {NoOutcome} : PersistResultCheckpoint(i, o)

Statement ==
  \/ \E r \in Runs : RunStatement(r)
  \/ \E p \in Procs, i \in Items : ItemStatement(p, i)
  \/ \E i \in Items : ExpireLease(i)
  \/ UNCHANGED storeVars

LEMMA RunStatementType ==
  ASSUME StoreTypeOK, NEW r \in Runs, RunStatement(r)
  PROVE  StoreTypeOK'
<1> USE DEF StoreTypeOK
<1>1. CASE InsertRun(r)
  BY <1>1 DEF InsertRun, RunState
<1>2. CASE InsertInput(r)
  BY <1>2 DEF InsertInput
<1>3. CASE PersistPlan(r)
  <2>1. Planted(r) \in [Items -> ItemRow]
    BY DEF Planted, ItemRow, ItemState
  <2>2. TallyOf(Planted(r), r) \in Progress
    BY TallyType
  <2>3. CASE Active(r)
    <3>1. item' = Planted(r) /\ progress' = [progress EXCEPT ![r] = TallyOf(Planted(r), r)]
      BY <1>3, <2>3 DEF PersistPlan
    <3>2. /\ runStatus' = [runStatus EXCEPT ![r] = "PROCESSING"]
          /\ planned' = [planned EXCEPT ![r] = TRUE]
          /\ UNCHANGED <<hasInput, result, announced>>
      BY <1>3, <2>3 DEF PersistPlan
    <3> QED
      BY <2>1, <2>2, <3>1, <3>2 DEF RunState
  <2>4. CASE UNCHANGED storeVars
    BY <2>4 DEF storeVars
  <2> QED
    BY <1>3, <2>3, <2>4 DEF PersistPlan
<1>4. CASE FinalizeRun(r)
  BY <1>4 DEF FinalizeRun, RunState
<1>5. CASE AnnounceCompletion(r)
  BY <1>5 DEF AnnounceCompletion
<1>6. CASE MarkRunFailed(r)
  BY <1>6 DEF MarkRunFailed, RunState
<1>7. CASE CancelRunDurably(r)
  <2>1. Withdrawn(r) \in [Items -> ItemRow]
    BY StoreAssumption DEF Withdrawn, Unleased, ItemRow, ItemState
  <2>2. TallyOf(Withdrawn(r), r) \in Progress
    BY TallyType
  <2>3. item' = Withdrawn(r) /\ progress' = [progress EXCEPT ![r] = TallyOf(Withdrawn(r), r)]
    BY <1>7 DEF CancelRunDurably
  <2>4. /\ runStatus' = [runStatus EXCEPT ![r] = "CANCELLED"]
        /\ UNCHANGED <<hasInput, planned, result, announced>>
    BY <1>7 DEF CancelRunDurably
  <2> QED
    BY <2>1, <2>2, <2>3, <2>4 DEF RunState
<1>8. ASSUME NEW tally \in Progress, RefreshRunWorkProgress(r, tally)
      PROVE  StoreTypeOK'
  BY <1>8 DEF RefreshRunWorkProgress
<1> QED
  BY <1>1, <1>2, <1>3, <1>4, <1>5, <1>6, <1>7, <1>8 DEF RunStatement

LEMMA ItemStatementType ==
  ASSUME StoreTypeOK, NEW p \in Procs, NEW i \in Items, ItemStatement(p, i)
  PROVE  StoreTypeOK'
<1> USE StoreAssumption DEF StoreTypeOK, ItemRow, ItemState
<1>1. CASE ClaimWorkItem(p, i)
  BY <1>1 DEF ClaimWorkItem, Attempts
<1>2. CASE RenewWorkItem(p, i)
  BY <1>2 DEF RenewWorkItem
<1>3. ASSUME NEW status \in {"PENDING", "COMPLETED", "FAILED"}, SettleWorkItem(p, i, status)
      PROVE  StoreTypeOK'
  BY <1>3 DEF SettleWorkItem, Unleased
<1>4. ASSUME NEW o \in Outcomes \cup {NoOutcome}, PersistResultCheckpoint(i, o)
      PROVE  StoreTypeOK'
  BY <1>4 DEF PersistResultCheckpoint
<1> QED
  BY <1>1, <1>2, <1>3, <1>4 DEF ItemStatement

LEMMA StatementType ==
  ASSUME StoreTypeOK, Statement
  PROVE  StoreTypeOK'
<1>1. ASSUME NEW i \in Items, ExpireLease(i)
      PROVE  StoreTypeOK'
  BY <1>1 DEF ExpireLease, StoreTypeOK, ItemRow
<1>2. CASE UNCHANGED storeVars
  BY <1>2 DEF StoreTypeOK, storeVars
<1> QED
  BY <1>1, <1>2, RunStatementType, ItemStatementType DEF Statement

\* A slot that is not idle holds a work item.
LEMMA BusySlot ==
  ASSUME ProcTypeOK, NEW p \in Procs, slot[p].pc # "idle"
  PROVE  slot[p].item \in Items /\ MyRun(p) \in Runs
BY StoreAssumption DEF ProcTypeOK, SlotRow, MyRun

LEMMA PlannerStatement ==
  ASSUME NEW p \in Procs, NEW r \in Runs,
         CreateRun(p, r) \/ PlannerStep(p, r) \/ PlannerDbError(p, r)
  PROVE  Statement
BY DEF PlannerStep, CreateRun, StoreInput, PersistPlanStep, PlanThrows, FinalizePlanned,
       AnnouncePlanned, RecordPlanFailure, PlannerDbError, MarkRunFailedWithTrace,
       Statement, RunStatement, storeVars

LEMMA WorkerStatement ==
  ASSUME TypeOK, NEW p \in Procs, WorkerStep(p)
  PROVE  Statement
<1>1. slot[p].item \in Items /\ MyRun(p) \in Runs /\ slot[p].tally \in Progress
  BY BusySlot DEF TypeOK, ProcTypeOK, SlotRow, WorkerStep, FailClaimedRun, Fail, Release, CountWork, Refresh, AfterRefresh,
                  Finalize, Announce, Yield, MarkFailed, At
<1> QED
  BY <1>1 DEF WorkerStep, FailClaimedRun, Fail, Release, CountWork, Refresh, Finalize, Announce, Yield,
              MarkFailed, Statement, RunStatement, ItemStatement, storeVars

LEMMA AttemptStatement ==
  ASSUME TypeOK, NEW p \in Procs,
         \/ Reason(p) \/ RateLimited(p) \/ HandlerFails(p) \/ Checkpoint(p) \/ Complete(p)
         \/ Abort(p) \/ LateCheckpoint(p) \/ DbError(p) \/ Renew(p)
  PROVE  Statement
<1>1. CASE Reason(p) \/ RateLimited(p) \/ HandlerFails(p) \/ Abort(p) \/ DbError(p)
  BY <1>1 DEF Reason, RateLimited, HandlerFails, Abort, DbError, Statement, storeVars
<1>2. CASE Checkpoint(p)
  <2>1. slot[p].item \in Items /\ slot[p].outcome \in Outcomes \cup {NoOutcome}
    BY <1>2, BusySlot DEF TypeOK, ProcTypeOK, SlotRow, Checkpoint, At
  <2> QED
    BY <1>2, <2>1 DEF Checkpoint, Statement, ItemStatement
<1>3. CASE Complete(p)
  <2>1. slot[p].item \in Items
    BY <1>3, BusySlot DEF TypeOK, Complete, At
  <2> QED
    BY <1>3, <2>1 DEF Complete, Statement, ItemStatement, storeVars
<1>4. CASE LateCheckpoint(p)
  <2>1. PICK h \in late[p] : PersistResultCheckpoint(h.item, h.outcome)
    BY <1>4 DEF LateCheckpoint
  <2>2. h.item \in Items /\ h.outcome \in Outcomes
    BY DEF TypeOK, ProcTypeOK, SlotRow, Handler
  <2> QED
    BY <2>1, <2>2 DEF Statement, ItemStatement
<1>5. CASE Renew(p)
  <2>1. slot[p].item \in Items
    BY <1>5, BusySlot DEF TypeOK, Renew, At
  <2> QED
    BY <1>5, <2>1 DEF Renew, Statement, ItemStatement
<1> QED
  BY <1>1, <1>2, <1>3, <1>4, <1>5

LEMMA NextStatement ==
  ASSUME TypeOK, Next
  PROVE  Statement
<1>1. ASSUME NEW p \in Procs, Start(p) \/ Recover(p) \/ Crash(p)
      PROVE  Statement
  BY <1>1 DEF Start, Recover, Crash, Statement, storeVars
<1>2. ASSUME NEW p \in Procs, NEW i \in Items, Claim(p, i) \/ ClaimUnlogged(p, i)
      PROVE  Statement
  BY <1>2 DEF Claim, ClaimUnlogged, ClaimAt, Statement, ItemStatement
<1>3. ASSUME NEW r \in Runs, CancelRun(r)
      PROVE  Statement
  BY <1>3 DEF CancelRun, Statement, RunStatement
<1>4. ASSUME NEW i \in Items, Expire(i)
      PROVE  Statement
  BY <1>4 DEF Expire, Statement
<1> QED
  BY <1>1, <1>2, <1>3, <1>4, PlannerStatement, WorkerStatement, AttemptStatement DEF Next

\* What a step does to the processes' memory keeps its types.
LEMMA PlannerType ==
  ASSUME ProcTypeOK, NEW p \in Procs, NEW r \in Runs,
         CreateRun(p, r) \/ PlannerStep(p, r) \/ PlannerDbError(p, r)
  PROVE  ProcTypeOK'
<1>1. UNCHANGED <<boot, slot, late>>
  BY DEF PlannerStep, CreateRun, StoreInput, PersistPlanStep, PlanThrows, FinalizePlanned,
         AnnouncePlanned, RecordPlanFailure, PlannerDbError, PlanGoto
<1>2. PICK pc \in PlanPC : task' = [task EXCEPT ![p][r] = pc]
  <2>1. CASE CreateRun(p, r) \/ PlannerStep(p, r)
    BY <2>1 DEF PlannerStep, CreateRun, StoreInput, PersistPlanStep, PlanThrows,
                FinalizePlanned, AnnouncePlanned, RecordPlanFailure, PlanGoto, PlanPC
  <2>2. CASE PlannerDbError(p, r)
    BY <2>2 DEF PlannerDbError, ProcTypeOK, SlotRow, PlanPC
  <2> QED
    BY <2>1, <2>2
<1> QED
  BY <1>1, <1>2 DEF ProcTypeOK, SlotRow

\* An attempt that moves on keeps its item.
LEMMA SlotMove ==
  ASSUME ProcTypeOK, NEW p \in Procs, NEW pc \in SlotPC,
         slot' = [slot EXCEPT ![p] = Moved(p, pc)]
  PROVE  /\ slot' \in [Procs -> SlotRow]
         /\ \A q \in Procs \ {p} : slot'[q] = slot[q]
         /\ slot'[p].pc = pc /\ slot'[p].item = slot[p].item
         /\ slot'[p].outcome = NoOutcome /\ slot'[p].tally = NoTally
<1>1. Moved(p, pc) = [pc |-> pc, item |-> slot[p].item,
                      attempt |-> IF pc = "reason" THEN slot[p].attempt ELSE 0,
                      outcome |-> NoOutcome, tally |-> NoTally]
  BY DEF Moved, Attempt
<1>2. (IF pc = "reason" THEN slot[p].attempt ELSE 0) \in 0..RetryLimit
  BY StoreAssumption DEF ProcTypeOK, SlotRow
<1>3. Moved(p, pc) \in SlotRow
  BY <1>1, <1>2 DEF ProcTypeOK, SlotRow, NoTally, Progress
<1> QED
  BY <1>1, <1>3 DEF ProcTypeOK

LEMMA GotoType ==
  ASSUME ProcTypeOK, NEW p \in Procs, slot[p].pc # "idle",
         NEW pc \in SlotPC \ {"idle", "write"},
         slot' = [slot EXCEPT ![p] = Moved(p, pc)], UNCHANGED <<boot, task, late>>
  PROVE  ProcTypeOK'
BY SlotMove DEF ProcTypeOK, SlotRow

LEMMA RestType ==
  ASSUME ProcTypeOK, NEW p \in Procs,
         slot' = [slot EXCEPT ![p] = Idle], UNCHANGED <<boot, task, late>>
  PROVE  ProcTypeOK'
BY StoreAssumption DEF ProcTypeOK, SlotRow, Idle, Attempt, NoTally, Progress, SlotPC

LEMMA WorkerType ==
  ASSUME ProcTypeOK, NEW p \in Procs, WorkerStep(p)
  PROVE  ProcTypeOK'
<1>1. slot[p].pc # "idle"
  BY DEF WorkerStep, FailClaimedRun, Fail, Release, CountWork, Refresh, AfterRefresh,
         Finalize, Announce, Yield, MarkFailed, At
<1>2. CASE Refresh(p)
  <2>1. AfterRefresh[slot[p].pc] \in SlotPC \ {"idle", "write"} /\ Goto(p, AfterRefresh[slot[p].pc])
    BY <1>2 DEF Refresh, AfterRefresh, SlotPC
  <2> QED
    BY <1>1, <2>1, GotoType DEF Goto, SlotOnly
<1>3. CASE CountWork(p)
  <2>1. slot' = [slot EXCEPT ![p].tally = TallyOf(item, MyRun(p))] /\ UNCHANGED <<boot, task, late>>
    BY <1>3 DEF CountWork, SlotOnly
  <2>2. TallyOf(item, MyRun(p)) \in Progress /\ slot[p].pc # "write"
    BY <1>3, TallyType DEF CountWork, AfterRefresh
  <2> QED
    BY <2>1, <2>2 DEF ProcTypeOK, SlotRow
<1>4. CASE WorkerStep(p) /\ ~Refresh(p) /\ ~CountWork(p)
  <2>1. \/ Rest(p)
        \/ \E pc \in SlotPC \ {"idle", "write"} : Goto(p, pc)
    BY <1>4 DEF WorkerStep, FailClaimedRun, Fail, Release, Finalize, Announce, Yield,
                MarkFailed, SlotPC
  <2> QED
    BY <1>1, <2>1, GotoType, RestType DEF Goto, Rest, SlotOnly
<1> QED
  BY <1>2, <1>3, <1>4

(* A handler that returns moves only its own slot, to "write" with its outcome. *)
LEMMA ReasonMove ==
  ASSUME ProcTypeOK, NEW p \in Procs, Reason(p)
  PROVE  /\ slot' \in [Procs -> SlotRow]
         /\ \A q \in Procs \ {p} : slot'[q] = slot[q]
         /\ slot[p].pc = "reason" /\ slot'[p].pc = "write"
         /\ slot'[p].item = slot[p].item /\ slot'[p].outcome \in Outcomes
<1>1. PICK o \in Outcomes : slot' = [slot EXCEPT ![p] = [Moved(p, "write") EXCEPT !.outcome = o]]
  BY DEF Reason
<1>2. slot \in [Procs -> SlotRow] /\ slot[p].pc = "reason"
  BY DEF ProcTypeOK, Reason, At
<1>3. Moved(p, "write") = [pc |-> "write", item |-> slot[p].item, attempt |-> 0,
                           outcome |-> NoOutcome, tally |-> NoTally]
  BY DEF Moved, Attempt
<1>4. [Moved(p, "write") EXCEPT !.outcome = o]
        = [pc |-> "write", item |-> slot[p].item, attempt |-> 0, outcome |-> o, tally |-> NoTally]
  BY <1>3
<1>5. slot[p].item \in Items \cup {NoItem} /\ 0 \in 0..RetryLimit /\ NoTally \in Progress
  BY <1>2, StoreAssumption DEF SlotRow, NoTally, Progress
<1>6. [Moved(p, "write") EXCEPT !.outcome = o] \in SlotRow
  BY <1>4, <1>5 DEF SlotRow, SlotPC
<1> QED
  BY <1>1, <1>2, <1>4, <1>6

LEMMA AttemptType ==
  ASSUME ProcTypeOK, NEW p \in Procs,
         \/ Reason(p) \/ RateLimited(p) \/ HandlerFails(p) \/ Checkpoint(p) \/ Complete(p)
         \/ Abort(p) \/ LateCheckpoint(p) \/ DbError(p) \/ Renew(p)
  PROVE  ProcTypeOK'
<1>1. CASE Reason(p)
  <2>1. UNCHANGED <<boot, task, late>>
    BY <1>1 DEF Reason, SlotOnly
  <2> QED
    BY <1>1, <2>1, ReasonMove DEF ProcTypeOK
<1>2. CASE RateLimited(p) \/ HandlerFails(p) \/ Checkpoint(p) \/ Complete(p)
  <2>1. slot[p].pc # "idle"
    BY <1>2 DEF RateLimited, HandlerFails, Checkpoint, Complete, At
  <2>2. Rest(p) \/ \E pc \in SlotPC \ {"idle", "write"} : Goto(p, pc)
    BY <1>2 DEF RateLimited, HandlerFails, Checkpoint, Complete, SlotPC
  <2> QED
    BY <2>1, <2>2, GotoType, RestType DEF Goto, Rest, SlotOnly
<1>3. CASE Abort(p)
  <2>1. slot[p].item \in Items
    BY <1>3, BusySlot DEF Abort
  <2>2. At(p, "write") => [item |-> slot[p].item, outcome |-> slot[p].outcome] \in Handler
    BY <2>1 DEF ProcTypeOK, SlotRow, At, Handler
  <2>3. /\ slot' \in [Procs -> SlotRow] /\ \A q \in Procs \ {p} : slot'[q] = slot[q]
        /\ slot'[p].pc = "release" /\ slot'[p].item = slot[p].item
    BY <1>3, SlotMove DEF Abort, SlotPC
  <2> QED
    BY <1>3, <2>1, <2>2, <2>3, StoreAssumption DEF Abort, ProcTypeOK
<1>4. CASE LateCheckpoint(p)
  BY <1>4 DEF LateCheckpoint, ProcTypeOK, SlotRow
<1>5. CASE DbError(p)
  <2>1. PICK pc \in AfterDbError[slot[p].pc] :
          slot' = [slot EXCEPT ![p] = IF pc = "idle" THEN Idle ELSE Moved(p, pc)]
    BY <1>5 DEF DbError
  <2>2. pc \in SlotPC \ {"write"} /\ slot[p].pc # "idle"
    BY <1>5, <2>1 DEF DbError, AfterDbError, SlotPC
  <2>3. UNCHANGED <<boot, task, late>>
    BY <1>5 DEF DbError
  <2>4. CASE pc = "idle"
    BY <2>1, <2>3, <2>4, RestType
  <2>5. CASE pc # "idle"
    <3>1. slot' = [slot EXCEPT ![p] = Moved(p, pc)]
      BY <2>1, <2>5
    <3> QED
      BY <2>2, <2>3, <2>5, <3>1, GotoType
  <2> QED
    BY <2>4, <2>5
<1>6. CASE Renew(p)
  BY <1>6 DEF Renew, procVars, ProcTypeOK, SlotRow
<1> QED
  BY <1>1, <1>2, <1>3, <1>4, <1>5, <1>6

LEMMA NextProcType ==
  ASSUME TypeOK, Next
  PROVE  ProcTypeOK'
<1> USE DEF TypeOK
<1>1. ASSUME NEW p \in Procs, Start(p)
      PROVE  ProcTypeOK'
  BY <1>1 DEF Start, ProcTypeOK, SlotRow
<1>2. ASSUME NEW p \in Procs, Recover(p)
      PROVE  ProcTypeOK'
  BY <1>2 DEF Recover, ProcTypeOK, SlotRow, PlanPC
<1>3. ASSUME NEW p \in Procs, Crash(p)
      PROVE  ProcTypeOK'
  BY <1>3, StoreAssumption DEF Crash, ProcTypeOK, SlotRow, PlanPC, Idle, Attempt, NoTally, Progress,
                                 SlotPC
<1>4. ASSUME NEW p \in Procs, NEW i \in Items, Claim(p, i) \/ ClaimUnlogged(p, i)
      PROVE  ProcTypeOK'
  <2>1. PICK pc \in {"reason", "claimLost"} : ClaimAt(p, i, pc)
    BY <1>4 DEF Claim, ClaimUnlogged
  <2>2. Attempts(i) \in 0..RetryLimit
    BY StoreAssumption DEF StoreTypeOK, ItemRow, Attempts
  <2>3. slot' = [slot EXCEPT ![p] = [pc |-> pc, item |-> i, attempt |-> Attempts(i),
                                     outcome |-> NoOutcome, tally |-> NoTally]]
    BY <2>1 DEF Attempt, ClaimAt
  <2> QED
    BY <2>1, <2>2, <2>3, StoreAssumption
       DEF ClaimAt, ProcTypeOK, SlotRow, SlotPC, NoTally, Progress
<1>5. ASSUME NEW r \in Runs, CancelRun(r)
      PROVE  ProcTypeOK'
  BY <1>5 DEF CancelRun, procVars, ProcTypeOK, SlotRow
<1>6. ASSUME NEW i \in Items, Expire(i)
      PROVE  ProcTypeOK'
  BY <1>6 DEF Expire, procVars, ProcTypeOK, SlotRow
<1> QED
  BY <1>1, <1>2, <1>3, <1>4, <1>5, <1>6, PlannerType, WorkerType, AttemptType DEF Next

LEMMA NextBudgetType ==
  ASSUME TypeOK, Next
  PROVE  dbErrors' \in 0..MaxDbErrors /\ stalls' \in 0..MaxStalls
<1> USE BudgetAssumption DEF TypeOK, budgetVars, SpendDbError
<1>1. ASSUME NEW p \in Procs, NEW r \in Runs,
             CreateRun(p, r) \/ PlannerStep(p, r) \/ PlannerDbError(p, r)
      PROVE  dbErrors' \in 0..MaxDbErrors /\ stalls' \in 0..MaxStalls
  BY <1>1 DEF PlannerStep, CreateRun, StoreInput, PersistPlanStep, PlanThrows, FinalizePlanned,
         AnnouncePlanned, RecordPlanFailure, PlannerDbError, PlanGoto
<1>2. ASSUME NEW p \in Procs, WorkerStep(p)
      PROVE  UNCHANGED budgetVars
  BY <1>2 DEF WorkerStep, FailClaimedRun, Fail, Release, CountWork, Refresh, Finalize, Announce, Yield,
         MarkFailed, Goto, Rest, SlotOnly
<1>3. ASSUME NEW p \in Procs,
             \/ Reason(p) \/ RateLimited(p) \/ HandlerFails(p) \/ Checkpoint(p)
             \/ Complete(p) \/ Abort(p) \/ LateCheckpoint(p) \/ DbError(p) \/ Renew(p)
      PROVE  dbErrors' \in 0..MaxDbErrors /\ stalls' \in 0..MaxStalls
  BY <1>3 DEF Reason, RateLimited, HandlerFails, Checkpoint, Complete, Abort, LateCheckpoint,
         DbError, Renew, Goto, Rest, SlotOnly
<1>4. ASSUME NEW p \in Procs, Start(p) \/ Recover(p) \/ Crash(p)
      PROVE  UNCHANGED budgetVars
  BY <1>4 DEF Start, Recover, Crash
<1>5. ASSUME NEW p \in Procs, NEW i \in Items, Claim(p, i) \/ ClaimUnlogged(p, i)
      PROVE  dbErrors' \in 0..MaxDbErrors /\ stalls' \in 0..MaxStalls
  BY <1>5 DEF Claim, ClaimUnlogged
<1>6. ASSUME NEW r \in Runs, CancelRun(r)
      PROVE  UNCHANGED budgetVars
  BY <1>6 DEF CancelRun
<1>7. ASSUME NEW i \in Items, Expire(i)
      PROVE  dbErrors' \in 0..MaxDbErrors /\ stalls' \in 0..MaxStalls
  BY <1>7 DEF Expire
<1> QED
  BY <1>1, <1>2, <1>3, <1>4, <1>5, <1>6, <1>7 DEF Next

LEMMA TypeStep == TypeOK /\ [Next]_vars => TypeOK'
<1> SUFFICES ASSUME TypeOK, [Next]_vars
             PROVE  TypeOK'
  OBVIOUS
<1>1. CASE Next
  BY <1>1, NextStatement, StatementType, NextProcType, NextBudgetType DEF TypeOK
<1>2. CASE UNCHANGED vars
  BY <1>2 DEF TypeOK, StoreTypeOK, ProcTypeOK, SlotRow, vars, storeVars, procVars, budgetVars
<1> QED
  BY <1>1, <1>2

\* Every variable of the runs' protocol stays within its type.
THEOREM TypeCorrect == Spec => []TypeOK
BY TypeInit, TypeStep, PTL DEF Spec

-----------------------------------------------------------------------------
(* What no statement undoes.                                               *)

Settled == {"COMPLETED", "FAILED", "CANCELLED"}

Monotone ==
  /\ \A r \in Runs : /\ planned[r] => planned'[r]
                     /\ runStatus[r] # "ABSENT" => runStatus'[r] # "ABSENT"
                     /\ runStatus[r] \in {"COMPLETED", "FAILED"}
                          => runStatus'[r] \in {"COMPLETED", "FAILED"}
  /\ \A i \in Items : /\ item[i].status \in Settled => item'[i].status = item[i].status
                      /\ result[i] # NoOutcome => result'[i] = result[i]

LEMMA StatementMonotone ==
  ASSUME StoreTypeOK, Statement
  PROVE  Monotone
<1> USE DEF StoreTypeOK, Settled, Monotone
<1>1. ASSUME NEW r \in Runs, RunStatement(r)
      PROVE  Monotone
  <2>1. CASE InsertRun(r) \/ InsertInput(r) \/ AnnounceCompletion(r) \/ MarkRunFailed(r)
             \/ \E tally \in Progress : RefreshRunWorkProgress(r, tally)
    BY <2>1 DEF InsertRun, InsertInput, AnnounceCompletion, MarkRunFailed, RefreshRunWorkProgress
  <2>2. CASE FinalizeRun(r)
    BY <2>2 DEF FinalizeRun, Finalizable
  <2>3. CASE PersistPlan(r)
    <3>1. CASE Active(r)
      <4>1. item' = Planted(r) /\ UNCHANGED result
        BY <2>3, <3>1 DEF PersistPlan
      <4>2. /\ runStatus' = [runStatus EXCEPT ![r] = "PROCESSING"]
            /\ planned' = [planned EXCEPT ![r] = TRUE]
        BY <2>3, <3>1 DEF PersistPlan
      <4> QED
        BY <3>1, <4>1, <4>2 DEF Planted, Active
    <3>2. CASE UNCHANGED storeVars
      BY <3>2 DEF storeVars
    <3> QED
      BY <2>3, <3>1, <3>2 DEF PersistPlan
  <2>4. CASE CancelRunDurably(r)
    <3>1. item' = Withdrawn(r) /\ UNCHANGED <<result, planned>>
      BY <2>4 DEF CancelRunDurably
    <3>2. Active(r) /\ runStatus' = [runStatus EXCEPT ![r] = "CANCELLED"]
      BY <2>4 DEF CancelRunDurably
    <3> QED
      BY <3>1, <3>2 DEF Withdrawn, Active
  <2> QED
    BY <1>1, <2>1, <2>2, <2>3, <2>4 DEF RunStatement
<1>2. ASSUME NEW p \in Procs, NEW i \in Items, ItemStatement(p, i)
      PROVE  Monotone
  <2>1. CASE ClaimWorkItem(p, i)
    BY <2>1 DEF ClaimWorkItem, Claimable
  <2>2. CASE RenewWorkItem(p, i)
    BY <2>2 DEF RenewWorkItem, Holds, ItemRow
  <2>3. ASSUME NEW status \in {"PENDING", "COMPLETED", "FAILED"}, SettleWorkItem(p, i, status)
        PROVE  Monotone
    BY <2>3 DEF SettleWorkItem, Holds
  <2>4. ASSUME NEW o \in Outcomes \cup {NoOutcome}, PersistResultCheckpoint(i, o)
        PROVE  Monotone
    BY <2>4 DEF PersistResultCheckpoint
  <2> QED
    BY <1>2, <2>1, <2>2, <2>3, <2>4 DEF ItemStatement
<1>3. CASE UNCHANGED storeVars
  BY <1>3 DEF storeVars
<1>4. ASSUME NEW i \in Items, ExpireLease(i)
      PROVE  Monotone
  BY <1>4 DEF ExpireLease, ItemRow
<1> QED
  BY <1>1, <1>2, <1>3, <1>4 DEF Statement

\* Settled work items keep their status for good, whoever crashes, reclaims,
\* cancels or plans again.
THEOREM SettledForGood == Spec => NoResurrection
<1>1. TypeOK /\ [Next]_vars =>
        [\A i \in Items : item[i].status \in {"COMPLETED", "FAILED", "CANCELLED"}
                           => item'[i].status = item[i].status]_vars
  <2> SUFFICES ASSUME TypeOK, Next
               PROVE  \A i \in Items : item[i].status \in {"COMPLETED", "FAILED", "CANCELLED"}
                                        => item'[i].status = item[i].status
    OBVIOUS
  <2> QED
    BY NextStatement, StatementMonotone DEF TypeOK, Settled, Monotone
<1> QED
  BY <1>1, TypeCorrect, PTL DEF Spec, NoResurrection

-----------------------------------------------------------------------------
(* The tables' part of the invariant: it holds as long as a work item is   *)
(* completed only when its result is stored.                               *)

StoreInv == PlanStored /\ RowsSettle /\ CompletedIsWhole /\ CancelledIsQuiet

CompletesAnswered ==
  \A i \in Items : item'[i].status = "COMPLETED" =>
                    item[i].status = "COMPLETED" \/ result[i] # NoOutcome

LEMMA StoreInvRun ==
  ASSUME StoreTypeOK, StoreInv, NEW r \in Runs, RunStatement(r)
  PROVE  StoreInv'
<1> USE StoreAssumption
    DEF StoreTypeOK, StoreInv, PlanStored, RowsSettle, CompletedIsWhole, CancelledIsQuiet, ItemsOf
<1>1. CASE InsertRun(r)
  BY <1>1 DEF InsertRun
<1>2. CASE InsertInput(r) \/ AnnounceCompletion(r) \/ \E tally \in Progress : RefreshRunWorkProgress(r, tally)
  BY <1>2 DEF InsertInput, AnnounceCompletion, RefreshRunWorkProgress
<1>3. CASE MarkRunFailed(r)
  BY <1>3 DEF MarkRunFailed
<1>4. CASE FinalizeRun(r)
  <2>1. /\ runStatus[r] = "PROCESSING"
        /\ runStatus' = [runStatus EXCEPT ![r] = "COMPLETED"]
        /\ UNCHANGED <<planned, item, result>>
    BY <1>4 DEF FinalizeRun, Finalizable
  <2>2. \A i \in Items : RunOf[i] = r => item[i].status \notin {"PENDING", "LEASED", "FAILED"}
    BY <1>4 DEF FinalizeRun, Finalizable
  <2>3. \A i \in Items : RunOf[i] = r => item[i].status = "COMPLETED" /\ result[i] # NoOutcome
    BY <2>1, <2>2 DEF ItemRow, ItemState
  <2> QED
    BY <2>1, <2>3
<1>5. CASE PersistPlan(r)
  <2>1. CASE Active(r)
    <3>1. item' = Planted(r) /\ UNCHANGED result
      BY <1>5, <2>1 DEF PersistPlan
    <3>2. /\ runStatus' = [runStatus EXCEPT ![r] = "PROCESSING"]
          /\ planned' = [planned EXCEPT ![r] = TRUE]
      BY <1>5, <2>1 DEF PersistPlan
    <3>3. \A i \in Items : item'[i].status = IF RunOf[i] = r /\ item[i].status = "ABSENT"
                                               THEN "PENDING" ELSE item[i].status
      BY <3>1 DEF Planted, ItemRow
    <3> QED
      BY <2>1, <3>1, <3>2, <3>3 DEF Active
  <2>2. CASE UNCHANGED storeVars
    BY <2>2 DEF storeVars
  <2> QED
    BY <1>5, <2>1, <2>2 DEF PersistPlan
<1>6. CASE CancelRunDurably(r)
  <2>1. item' = Withdrawn(r) /\ UNCHANGED <<result, planned>>
    BY <1>6 DEF CancelRunDurably
  <2>2. Active(r) /\ runStatus' = [runStatus EXCEPT ![r] = "CANCELLED"]
    BY <1>6 DEF CancelRunDurably
  <2>3. \A i \in Items :
          item'[i].status = IF RunOf[i] = r /\ item[i].status \in {"PENDING", "LEASED"}
                              THEN "CANCELLED" ELSE item[i].status
    BY <2>1 DEF Withdrawn, Unleased
  <2> QED
    BY <2>1, <2>2, <2>3 DEF Active
<1> QED
  BY <1>1, <1>2, <1>3, <1>4, <1>5, <1>6 DEF RunStatement

LEMMA StoreInvItem ==
  ASSUME StoreTypeOK, StoreInv, NEW p \in Procs, NEW i \in Items, ItemStatement(p, i),
         CompletesAnswered
  PROVE  StoreInv'
<1> USE StoreAssumption
    DEF StoreTypeOK, StoreInv, PlanStored, RowsSettle, CompletedIsWhole, CancelledIsQuiet, ItemsOf
<1>1. CASE ClaimWorkItem(p, i)
  <2>1. /\ item' = [item EXCEPT ![i] = [status |-> "LEASED", owner |-> p, expired |-> FALSE,
                                        attempts |-> Attempts(i)]]
        /\ UNCHANGED <<runStatus, planned, result>>
    BY <1>1 DEF ClaimWorkItem
  <2>2. runStatus[RunOf[i]] \in {"PENDING", "PROCESSING"} /\ item[i].status \in {"PENDING", "LEASED"}
    BY <1>1 DEF ClaimWorkItem, Claimable, Active
  <2> QED
    BY <2>1, <2>2
<1>2. CASE RenewWorkItem(p, i)
  BY <1>2 DEF RenewWorkItem, ItemRow
<1>3. ASSUME NEW status \in {"PENDING", "COMPLETED", "FAILED"}, SettleWorkItem(p, i, status)
      PROVE  StoreInv'
  <2>1. /\ item[i].status = "LEASED"
        /\ item' = [item EXCEPT ![i] = Unleased(i, status)]
        /\ UNCHANGED <<runStatus, planned, result>>
    BY <1>3 DEF SettleWorkItem, Holds
  <2>2. Unleased(i, status).status = status
    BY DEF Unleased
  <2>3. status = "COMPLETED" => result[i] # NoOutcome
    BY <2>1, <2>2, CompletesAnswered DEF CompletesAnswered
  <2> QED
    BY <2>1, <2>2, <2>3
<1>4. ASSUME NEW o \in Outcomes \cup {NoOutcome}, PersistResultCheckpoint(i, o)
      PROVE  StoreInv'
  BY <1>4 DEF PersistResultCheckpoint
<1> QED
  BY <1>1, <1>2, <1>3, <1>4 DEF ItemStatement

LEMMA StoreInvStep ==
  ASSUME StoreTypeOK, StoreInv, Statement, CompletesAnswered
  PROVE  StoreInv'
<1>1. ASSUME NEW i \in Items, ExpireLease(i)
      PROVE  StoreInv'
  BY <1>1 DEF ExpireLease, StoreTypeOK, ItemRow, StoreInv, PlanStored, RowsSettle,
              CompletedIsWhole, CancelledIsQuiet
<1>2. CASE UNCHANGED storeVars
  BY <1>2 DEF storeVars, StoreInv, PlanStored, RowsSettle, CompletedIsWhole, CancelledIsQuiet,
              ItemsOf
<1> QED
  BY <1>1, <1>2, StoreInvRun, StoreInvItem DEF Statement

-----------------------------------------------------------------------------
(* The processes' part of the invariant.                                   *)

ProcInv == ActorsHaveRuns /\ AttemptsInOrder /\ AnnouncersWon /\ SettledOnce /\ OneAnnouncer

LEMMA ProcInvInit == Init => ProcInv
BY StoreAssumption
   DEF Init, StoreInit, ProcInv, ActorsHaveRuns, AttemptsInOrder, AnnouncersWon, SettledOnce,
       OneAnnouncer, Announcing, Completing, At, Idle, Attempt

\* A step of a planner leaves every slot alone.
LEMMA ProcInvPlanner ==
  ASSUME TypeOK, StoreInv, ProcInv, Monotone, NEW p \in Procs, NEW r \in Runs,
         CreateRun(p, r) \/ PlannerStep(p, r) \/ PlannerDbError(p, r)
  PROVE  ProcInv'
<1>1. UNCHANGED <<slot, late>>
  BY DEF PlannerStep, CreateRun, StoreInput, PersistPlanStep, PlanThrows, FinalizePlanned,
         AnnouncePlanned, RecordPlanFailure, PlannerDbError, PlanGoto
<1>2. AttemptsInOrder' /\ SettledOnce'
  BY <1>1, StoreAssumption
     DEF ProcInv, AttemptsInOrder, SettledOnce, Completing, At, Monotone, Settled, TypeOK, ProcTypeOK, SlotRow, SlotPC
<1>3. PICK pc \in PlanPC :
        /\ task' = [task EXCEPT ![p][r] = pc]
        /\ task[p][r] = "none" => runStatus'[r] # "ABSENT"
        /\ \/ pc # "announce" /\ (UNCHANGED announced \/ AnnouncePlanned(p, r))
           \/ /\ pc = "announce" /\ UNCHANGED announced
              /\ runStatus[r] = "PROCESSING" /\ runStatus'[r] = "COMPLETED"
  <2>1. CASE CreateRun(p, r)
    BY <2>1 DEF CreateRun, InsertRun, PlanGoto, PlanPC, TypeOK, StoreTypeOK
  <2>2. CASE StoreInput(p, r)
    BY <2>2 DEF StoreInput, InsertInput, PlanAt, PlanGoto, PlanPC
  <2>3. CASE PersistPlanStep(p, r)
    BY <2>3 DEF PersistPlanStep, PersistPlan, PlanAt, PlanGoto, PlanPC, storeVars
  <2>4. CASE PlanThrows(p, r)
    BY <2>4 DEF PlanThrows, PlanAt, PlanGoto, PlanPC, storeVars
  <2>5. CASE FinalizePlanned(p, r)
    BY <2>5 DEF FinalizePlanned, FinalizeRun, Finalizable, PlanAt, PlanGoto, PlanPC, storeVars,
                TypeOK, StoreTypeOK
  <2>6. CASE AnnouncePlanned(p, r)
    BY <2>6 DEF AnnouncePlanned, PlanAt, PlanGoto, PlanPC
  <2>7. CASE RecordPlanFailure(p, r)
    BY <2>7 DEF RecordPlanFailure, MarkRunFailedWithTrace, MarkRunFailed, PlanAt, PlanGoto, PlanPC,
                storeVars
  <2>8. CASE PlannerDbError(p, r)
    BY <2>8 DEF PlannerDbError, PlanPC, storeVars
  <2> QED
    BY <2>1, <2>2, <2>3, <2>4, <2>5, <2>6, <2>7, <2>8 DEF PlannerStep
<1>4. ActorsHaveRuns'
  BY <1>1, <1>3, StoreAssumption
     DEF ProcInv, ActorsHaveRuns, Monotone, TypeOK, ProcTypeOK, SlotRow, Handler
<1>5. CASE AnnouncePlanned(p, r)
  <2>1. /\ announced' = announced \cup {r} /\ task[p][r] = "announce"
        /\ task' = [task EXCEPT ![p][r] = "none"]
    BY <1>5 DEF AnnouncePlanned, AnnounceCompletion, PlanAt, PlanGoto
  <2>2. AnnouncersWon'
    BY <1>1, <2>1 DEF ProcInv, AnnouncersWon, Announcing, At, MyRun, Monotone, TypeOK, ProcTypeOK, SlotRow
  <2>3. OneAnnouncer'
    BY <1>1, <2>1 DEF ProcInv, OneAnnouncer, Announcing, At, MyRun, TypeOK, ProcTypeOK, SlotRow
  <2> QED
    BY <1>2, <1>4, <2>2, <2>3 DEF ProcInv
<1>6. CASE ~AnnouncePlanned(p, r)
  <2>1. UNCHANGED announced
    BY <1>3, <1>6
  <2>2. AnnouncersWon'
    BY <1>1, <1>3, <2>1 DEF ProcInv, AnnouncersWon, Announcing, At, MyRun, Monotone, TypeOK, ProcTypeOK, SlotRow
  <2>3. CASE pc # "announce"
    <3>1. OneAnnouncer'
      BY <1>1, <1>3, <2>1, <2>3
         DEF ProcInv, OneAnnouncer, Announcing, At, MyRun, TypeOK, ProcTypeOK, SlotRow
    <3> QED
      BY <1>2, <1>4, <2>2, <3>1 DEF ProcInv
  <2>4. CASE pc = "announce"
    <3>1. /\ r \notin announced
          /\ \A q \in Procs, a \in {"planner", "worker"} : ~Announcing(q, a, r)
      BY <1>3, <2>4 DEF ProcInv, AnnouncersWon
    <3>2. \A q \in Procs, a \in {"planner", "worker"}, s \in Runs :
            Announcing(q, a, s)' <=> \/ Announcing(q, a, s)
                                     \/ q = p /\ a = "planner" /\ s = r
      BY <1>1, <1>3, <2>4 DEF Announcing, At, MyRun, TypeOK, ProcTypeOK, SlotRow
    <3>3. OneAnnouncer'
      BY <2>1, <3>1, <3>2 DEF ProcInv, OneAnnouncer
    <3> QED
      BY <1>2, <1>4, <2>2, <3>3 DEF ProcInv
  <2> QED
    BY <2>3, <2>4
<1> QED
  BY <1>5, <1>6

\* A slot that keeps its item keeps its plan.
LEMMA SameItem ==
  ASSUME ProcInv, Monotone, NEW p \in Procs, slot'[p].item = slot[p].item, NEW i \in Items,
         slot'[p].item = i
  PROVE  planned'[RunOf[i]]
<1>1. RunOf[i] \in Runs
  BY StoreAssumption
<1>2. planned[RunOf[i]]
  BY DEF ProcInv, ActorsHaveRuns
<1> QED
  BY <1>1, <1>2 DEF Monotone

LEMMA SameActors ==
  ASSUME TypeOK, ProcInv, Monotone, UNCHANGED <<task, late>>,
         \A q \in Procs : slot'[q].item = slot[q].item
  PROVE  ActorsHaveRuns'
<1>1. \A p \in Procs, i \in Items : slot'[p].item = i => planned'[RunOf[i]]
  BY SameItem
<1>2. \A p \in Procs : \A h \in late'[p] : planned'[RunOf[h.item]]
  BY StoreAssumption DEF ProcInv, ActorsHaveRuns, Monotone, TypeOK, ProcTypeOK, SlotRow, Handler
<1>3. \A p \in Procs, r \in Runs : task'[p][r] # "none" => runStatus'[r] # "ABSENT"
  BY DEF ProcInv, ActorsHaveRuns, Monotone
<1> QED
  BY <1>1, <1>2, <1>3 DEF ActorsHaveRuns

\* A move of a worker's slot to a program counter that no conjunct is about.
QuietPC == SlotPC \ {"complete", "refreshDone", "finalize", "announce"}

LEMMA QuietMove ==
  ASSUME TypeOK, ProcInv, Monotone, NEW p \in Procs, UNCHANGED task,
         \A q \in Procs \ {p} : slot'[q] = slot[q],
         slot'[p] = slot[p] \/ slot'[p].pc \in QuietPC,
         \A i \in Items : slot'[p].item = i => planned'[RunOf[i]],
         \A q \in Procs : \A h \in late'[q] : planned'[RunOf[h.item]]
  PROVE  /\ ActorsHaveRuns' /\ AttemptsInOrder' /\ SettledOnce'
         /\ UNCHANGED announced => ProcInv'
<1>1. ActorsHaveRuns'
  BY StoreAssumption DEF ProcInv, ActorsHaveRuns, Monotone
<1>2. AttemptsInOrder'
  BY StoreAssumption
     DEF ProcInv, AttemptsInOrder, Completing, At, Monotone, Settled, TypeOK, ProcTypeOK, SlotRow, QuietPC
<1>3. SettledOnce'
  BY DEF ProcInv, SettledOnce, Completing, QuietPC
<1>4. \A q \in Procs, a \in {"planner", "worker"}, r \in Runs :
        Announcing(q, a, r)' => Announcing(q, a, r)
  BY DEF Announcing, At, MyRun, QuietPC
<1>5. UNCHANGED announced => AnnouncersWon'
  BY <1>4 DEF ProcInv, AnnouncersWon, Monotone
<1>6. UNCHANGED announced => OneAnnouncer'
  BY <1>4 DEF ProcInv, OneAnnouncer
<1> QED
  BY <1>1, <1>2, <1>3, <1>5, <1>6 DEF ProcInv

\* The same when the slot keeps its item or gives it up, and late is left alone.
LEMMA QuietStep ==
  ASSUME TypeOK, ProcInv, Monotone, NEW p \in Procs, UNCHANGED <<task, late>>,
         \/ slot' = [slot EXCEPT ![p] = Idle]
         \/ \E pc \in QuietPC : slot' = [slot EXCEPT ![p] = Moved(p, pc)]
         \/ UNCHANGED slot
  PROVE  /\ ActorsHaveRuns' /\ AttemptsInOrder' /\ SettledOnce'
         /\ UNCHANGED announced => ProcInv'
<1>1. /\ \A q \in Procs \ {p} : slot'[q] = slot[q]
      /\ slot'[p] = slot[p] \/ slot'[p].pc \in QuietPC
      /\ slot'[p].item \in {slot[p].item, NoItem}
  <2>1. CASE slot' = [slot EXCEPT ![p] = Idle]
    BY <2>1 DEF TypeOK, ProcTypeOK, QuietPC, SlotPC, Idle, Attempt
  <2>2. ASSUME NEW pc \in QuietPC, slot' = [slot EXCEPT ![p] = Moved(p, pc)]
        PROVE  /\ \A q \in Procs \ {p} : slot'[q] = slot[q]
               /\ slot'[p].pc = pc /\ slot'[p].item = slot[p].item
    BY <2>2, SlotMove DEF TypeOK, QuietPC
  <2> QED
    BY <2>1, <2>2
<1>2. \A i \in Items : slot'[p].item = i => planned'[RunOf[i]]
  BY <1>1, StoreAssumption DEF ProcInv, ActorsHaveRuns, Monotone
<1>3. \A q \in Procs : \A h \in late'[q] : planned'[RunOf[h.item]]
  BY StoreAssumption DEF ProcInv, ActorsHaveRuns, Monotone, TypeOK, ProcTypeOK, SlotRow, Handler
<1> QED
  BY <1>1, <1>2, <1>3, QuietMove

\* A step that moves no slot on and leaves late alone.
LEMMA StillStep ==
  ASSUME TypeOK, ProcInv, Monotone, UNCHANGED <<task, late, announced>>,
         \A q \in Procs : slot'[q].pc = slot[q].pc /\ slot'[q].item = slot[q].item
  PROVE  ProcInv'
<1>1. ActorsHaveRuns'
  BY SameActors
<1>2. AttemptsInOrder'
  <2> SUFFICES ASSUME NEW q \in Procs
               PROVE  /\ At(q, "complete")' => result'[slot'[q].item] # NoOutcome
                      /\ Completing(q)' => item'[slot'[q].item].status = "COMPLETED"
    BY DEF AttemptsInOrder
  <2>1. slot[q].pc # "idle" => slot[q].item \in Items
    BY BusySlot DEF TypeOK
  <2> QED
    BY <2>1 DEF ProcInv, AttemptsInOrder, Completing, At, Monotone, Settled
<1>3. SettledOnce'
  BY DEF ProcInv, SettledOnce, Completing
<1>4. \A q \in Procs, a \in {"planner", "worker"}, r \in Runs :
        Announcing(q, a, r)' => Announcing(q, a, r)
  BY DEF Announcing, At, MyRun
<1>5. AnnouncersWon' /\ OneAnnouncer'
  BY <1>4 DEF ProcInv, AnnouncersWon, OneAnnouncer, Monotone
<1> QED
  BY <1>1, <1>2, <1>3, <1>5 DEF ProcInv

\* A move along the completion steps of one attempt.
LEMMA ProcInvCompletion ==
  ASSUME TypeOK, ProcInv, Monotone, NEW p \in Procs, UNCHANGED <<task, late, announced>>,
         Completing(p), NEW pc \in {"finalize", "announce"},
         slot' = [slot EXCEPT ![p] = Moved(p, pc)],
         pc = "announce" => runStatus[MyRun(p)] = "PROCESSING" /\ runStatus'[MyRun(p)] = "COMPLETED"
  PROVE  ProcInv'
<1> DEFINE r == MyRun(p)
<1>1. slot[p].item \in Items /\ r \in Runs
  BY BusySlot DEF TypeOK, Completing
<1>0. pc \in SlotPC
  BY DEF SlotPC
<1>2. \A q \in Procs : slot'[q].item = slot[q].item /\ (q # p => slot'[q] = slot[q])
  BY <1>0, SlotMove DEF TypeOK
<1>3. slot'[p].pc = pc
  BY <1>0, SlotMove DEF TypeOK
<1>4. ActorsHaveRuns'
  BY <1>2, StoreAssumption DEF ProcInv, ActorsHaveRuns, Monotone, TypeOK, ProcTypeOK, SlotRow, Handler
<1>5. AttemptsInOrder'
  <2>1. item'[slot[p].item].status = "COMPLETED"
    BY <1>1 DEF ProcInv, AttemptsInOrder, Monotone, Settled
  <2>2. ASSUME NEW q \in Procs \ {p}
        PROVE  /\ At(q, "complete")' => result'[slot'[q].item] # NoOutcome
               /\ Completing(q)' => item'[slot'[q].item].status = "COMPLETED"
    <3>1. slot'[q] = slot[q] /\ (slot[q].pc # "idle" => slot[q].item \in Items)
      BY <1>2, BusySlot DEF TypeOK
    <3> QED
      BY <3>1 DEF ProcInv, AttemptsInOrder, Completing, At, Monotone, Settled
  <2>3. /\ ~At(p, "complete")'
        /\ slot'[p].item = slot[p].item
    BY <1>2, <1>3 DEF At
  <2> QED
    BY <2>1, <2>2, <2>3 DEF AttemptsInOrder
<1>6. SettledOnce'
  BY <1>2, <1>3 DEF ProcInv, SettledOnce, Completing
<1>7. \A q \in Procs, a \in {"planner", "worker"}, s \in Runs :
        Announcing(q, a, s)' =>
          \/ Announcing(q, a, s)
          \/ q = p /\ a = "worker" /\ s = r /\ pc = "announce"
  BY <1>2, <1>3 DEF Announcing, At, MyRun
<1>8. CASE pc = "announce"
  <2>1. /\ r \notin announced
        /\ \A q \in Procs, a \in {"planner", "worker"} : ~Announcing(q, a, r)
    BY <1>1, <1>8 DEF ProcInv, AnnouncersWon
  <2>2. AnnouncersWon'
    BY <1>1, <1>7, <1>8 DEF ProcInv, AnnouncersWon, Monotone
  <2>3. OneAnnouncer'
    BY <1>7, <2>1 DEF ProcInv, OneAnnouncer
  <2> QED
    BY <1>4, <1>5, <1>6, <2>2, <2>3 DEF ProcInv
<1>9. CASE pc # "announce"
  <2>1. AnnouncersWon'
    BY <1>7, <1>9 DEF ProcInv, AnnouncersWon, Monotone
  <2>2. OneAnnouncer'
    BY <1>7, <1>9 DEF ProcInv, OneAnnouncer
  <2> QED
    BY <1>4, <1>5, <1>6, <2>1, <2>2 DEF ProcInv
<1> QED
  BY <1>8, <1>9

LEMMA ProcInvWorker ==
  ASSUME TypeOK, ProcInv, Monotone, NEW p \in Procs, WorkerStep(p)
  PROVE  ProcInv'
<1>1. CASE \/ FailClaimedRun(p) \/ Fail(p) \/ Release(p) \/ Yield(p) \/ MarkFailed(p)
  <2>1. \/ slot' = [slot EXCEPT ![p] = Idle]
        \/ \E pc \in QuietPC : slot' = [slot EXCEPT ![p] = Moved(p, pc)]
    BY <1>1 DEF FailClaimedRun, Fail, Release, Yield, MarkFailed, Goto, Rest, QuietPC, SlotPC
  <2>2. UNCHANGED <<task, announced, late>>
    BY <1>1 DEF FailClaimedRun, Fail, Release, Yield, MarkFailed, Goto, Rest, SlotOnly,
                SettleWorkItem, MarkRunFailed, storeVars
  <2> QED
    BY <2>1, <2>2, QuietStep
<1>2. CASE Refresh(p)
  <2>1. /\ slot' = [slot EXCEPT ![p] = Moved(p, AfterRefresh[slot[p].pc])]
        /\ UNCHANGED <<task, announced, late>>
        /\ slot[p].pc \in {"refreshDone", "refreshFail", "refreshRelease"}
    BY <1>2 DEF Refresh, RefreshRunWorkProgress, Goto, SlotOnly, AfterRefresh
  <2>2. CASE slot[p].pc = "refreshDone"
    <3>1. slot' = [slot EXCEPT ![p] = Moved(p, "finalize")] /\ Completing(p)
      BY <2>1, <2>2 DEF AfterRefresh, Completing
    <3> QED
      BY <2>1, <3>1, ProcInvCompletion
  <2>3. CASE slot[p].pc # "refreshDone"
    <3>1. AfterRefresh[slot[p].pc] \in QuietPC
      BY <2>1, <2>3 DEF AfterRefresh, QuietPC, SlotPC
    <3> QED
      BY <2>1, <3>1, QuietStep
  <2> QED
    BY <2>2, <2>3
<1>3. CASE Finalize(p)
  <2>1. CASE FinalizeRun(MyRun(p)) /\ Goto(p, "announce")
    <3>1. MyRun(p) \in Runs /\ Completing(p)
      BY <1>3, BusySlot DEF Finalize, At, Completing, TypeOK
    <3>2. /\ slot' = [slot EXCEPT ![p] = Moved(p, "announce")]
          /\ UNCHANGED <<task, announced, late>>
          /\ runStatus[MyRun(p)] = "PROCESSING" /\ runStatus'[MyRun(p)] = "COMPLETED"
      BY <2>1, <3>1 DEF FinalizeRun, Finalizable, Goto, SlotOnly, TypeOK, StoreTypeOK
    <3> QED
      BY <3>1, <3>2, ProcInvCompletion
  <2>2. CASE UNCHANGED storeVars /\ Rest(p)
    BY <2>2, QuietStep DEF Rest, SlotOnly, storeVars
  <2> QED
    BY <1>3, <2>1, <2>2 DEF Finalize
<1>4. CASE Announce(p)
  <2> DEFINE r == MyRun(p)
  <2>1. slot[p].item \in Items /\ r \in Runs
    BY <1>4, BusySlot DEF Announce, At, TypeOK
  <2>2. /\ announced' = announced \cup {r} /\ slot[p].pc = "announce"
        /\ slot' = [slot EXCEPT ![p] = Idle] /\ UNCHANGED <<task, late>>
    BY <1>4 DEF Announce, AnnounceCompletion, At, Rest, SlotOnly
  <2>3. ActorsHaveRuns' /\ AttemptsInOrder' /\ SettledOnce'
    BY <2>2, QuietStep
  <2>5. \A q \in Procs, a \in {"planner", "worker"}, s \in Runs :
          Announcing(q, a, s)' => Announcing(q, a, s) /\ ~(q = p /\ a = "worker")
    BY <2>2 DEF Announcing, At, MyRun, Idle, Attempt, TypeOK, ProcTypeOK, SlotRow
  <2>6. Announcing(p, "worker", r)
    BY <2>2 DEF Announcing, At
  <2>7. AnnouncersWon'
    BY <2>1, <2>2, <2>5, <2>6 DEF ProcInv, AnnouncersWon, Monotone
  <2>8. OneAnnouncer'
    BY <2>1, <2>2, <2>5, <2>6 DEF ProcInv, OneAnnouncer
  <2> QED
    BY <2>3, <2>7, <2>8 DEF ProcInv
<1>5. CASE CountWork(p)
  <2>1. slot' = [slot EXCEPT ![p].tally = TallyOf(item, MyRun(p))]
        /\ UNCHANGED <<task, announced, late>>
    BY <1>5 DEF CountWork, SlotOnly, storeVars
  <2>2. \A q \in Procs : slot'[q].pc = slot[q].pc /\ slot'[q].item = slot[q].item
    BY <2>1 DEF TypeOK, ProcTypeOK, SlotRow
  <2> QED
    BY <2>1, <2>2, StillStep
<1> QED
  BY <1>1, <1>2, <1>3, <1>4, <1>5 DEF WorkerStep

LEMMA ProcInvAttempt ==
  ASSUME TypeOK, ProcInv, Monotone, NEW p \in Procs,
         \/ Reason(p) \/ RateLimited(p) \/ HandlerFails(p) \/ Checkpoint(p) \/ Complete(p)
         \/ Abort(p) \/ LateCheckpoint(p) \/ DbError(p) \/ Renew(p)
  PROVE  ProcInv'
<1>1. CASE RateLimited(p) \/ HandlerFails(p) \/ Renew(p)
  <2>1. UNCHANGED slot \/ \E pc \in QuietPC : slot' = [slot EXCEPT ![p] = Moved(p, pc)]
    BY <1>1 DEF RateLimited, HandlerFails, Renew, Goto, procVars, QuietPC, SlotPC
  <2>2. UNCHANGED <<task, late, announced>>
    BY <1>1 DEF RateLimited, HandlerFails, Renew, RenewWorkItem, Goto, SlotOnly, procVars, storeVars
  <2> QED
    BY <2>1, <2>2, QuietStep
<1>2. CASE Reason(p)
  <2>1. ProcTypeOK
    BY DEF TypeOK
  <2>2. UNCHANGED <<task, late, announced>>
    BY <1>2 DEF Reason, SlotOnly, storeVars
  <2>3. /\ \A q \in Procs \ {p} : slot'[q] = slot[q]
        /\ slot'[p].pc \in QuietPC /\ slot'[p].item = slot[p].item
    BY <1>2, <2>1, ReasonMove DEF QuietPC, SlotPC
  <2>4. \A i \in Items : slot'[p].item = i => planned'[RunOf[i]]
    <3> SUFFICES ASSUME NEW i \in Items, slot[p].item = i
                 PROVE  planned'[RunOf[i]]
      BY <2>3
    <3>1. planned[RunOf[i]]
      BY DEF ProcInv, ActorsHaveRuns
    <3> QED
      BY <3>1, StoreAssumption DEF Monotone
  <2>5. \A q \in Procs : \A h \in late'[q] : planned'[RunOf[h.item]]
    <3> TAKE q \in Procs
    <3> TAKE h \in late'[q]
    <3>1. h.item \in Items /\ planned[RunOf[h.item]]
      BY <2>2 DEF ProcInv, ActorsHaveRuns, TypeOK, ProcTypeOK, SlotRow, Handler
    <3> QED
      BY <3>1, StoreAssumption DEF Monotone
  <2> QED
    BY <2>2, <2>3, <2>4, <2>5, QuietMove
<1>3. CASE Checkpoint(p)
  <2>1. /\ slot[p].pc = "write" /\ slot[p].item \in Items /\ slot[p].outcome \in Outcomes
    BY <1>3, BusySlot DEF Checkpoint, At, TypeOK, ProcTypeOK, SlotRow
  <2>2. /\ slot' = [slot EXCEPT ![p] = Moved(p, "complete")]
        /\ UNCHANGED <<task, late, announced>>
        /\ result'[slot[p].item] # NoOutcome
    BY <1>3, <2>1, StoreAssumption
       DEF Checkpoint, PersistResultCheckpoint, Goto, SlotOnly, TypeOK, StoreTypeOK
  <2>3. \A q \in Procs : /\ slot'[q].item = slot[q].item
                         /\ slot'[q].pc = IF q = p THEN "complete" ELSE slot[q].pc
    BY <2>2, SlotMove DEF TypeOK, SlotPC
  <2>4. ActorsHaveRuns'
    BY <2>2, <2>3, SameActors
  <2>5. AttemptsInOrder'
    BY <2>2, <2>3, StoreAssumption
       DEF ProcInv, AttemptsInOrder, Completing, At, Monotone, Settled, TypeOK, ProcTypeOK, SlotRow
  <2>6. SettledOnce'
    BY <2>3 DEF ProcInv, SettledOnce, Completing
  <2>7. \A q \in Procs, a \in {"planner", "worker"}, s \in Runs :
          Announcing(q, a, s)' => Announcing(q, a, s)
    BY <2>2, <2>3 DEF Announcing, At, MyRun
  <2>8. AnnouncersWon' /\ OneAnnouncer'
    BY <2>2, <2>7 DEF ProcInv, AnnouncersWon, OneAnnouncer, Monotone
  <2> QED
    BY <2>4, <2>5, <2>6, <2>8 DEF ProcInv
<1>4. CASE Complete(p)
  <2>1. CASE UNCHANGED storeVars /\ Rest(p)
    BY <2>1, QuietStep DEF Rest, SlotOnly, storeVars
  <2>2. CASE SettleWorkItem(p, slot[p].item, "COMPLETED") /\ Goto(p, "refreshDone")
    <3>1. slot[p].pc = "complete" /\ slot[p].item \in Items
      BY <1>4, BusySlot DEF Complete, At, TypeOK
    <3>2. /\ slot' = [slot EXCEPT ![p] = Moved(p, "refreshDone")]
          /\ UNCHANGED <<task, late, announced>>
          /\ item[slot[p].item].status = "LEASED"
          /\ item'[slot[p].item].status = "COMPLETED"
      BY <2>2, <3>1 DEF SettleWorkItem, Unleased, Holds, Goto, SlotOnly, TypeOK, StoreTypeOK
    <3>3. \A q \in Procs : /\ slot'[q].item = slot[q].item
                           /\ slot'[q].pc = IF q = p THEN "refreshDone" ELSE slot[q].pc
      BY <3>2, SlotMove DEF TypeOK, SlotPC
    <3>4. ActorsHaveRuns'
      BY <3>2, <3>3, SameActors
    <3>5. AttemptsInOrder'
      <4>1. \A q \in Procs : (At(q, "complete"))' => result'[slot'[q].item] # NoOutcome
        BY <3>3, BusySlot DEF ProcInv, AttemptsInOrder, At, Monotone, TypeOK
      <4>2. \A q \in Procs \ {p} :
              Completing(q)' => item'[slot'[q].item].status = "COMPLETED"
        BY <3>3, BusySlot DEF ProcInv, AttemptsInOrder, Completing, Monotone, Settled, TypeOK
      <4>3. item'[slot'[p].item].status = "COMPLETED"
        BY <3>2, <3>3
      <4> QED
        BY <4>1, <4>2, <4>3 DEF AttemptsInOrder
    <3>6. \A q \in Procs : Completing(q) => slot[q].item # slot[p].item
      BY <3>2 DEF ProcInv, AttemptsInOrder
    <3>7. SettledOnce'
      BY <3>3, <3>6 DEF ProcInv, SettledOnce, Completing
    <3>8. \A q \in Procs, a \in {"planner", "worker"}, s \in Runs :
            Announcing(q, a, s)' => Announcing(q, a, s)
      BY <3>2, <3>3 DEF Announcing, At, MyRun
    <3>9. AnnouncersWon' /\ OneAnnouncer'
      BY <3>2, <3>8 DEF ProcInv, AnnouncersWon, OneAnnouncer, Monotone
    <3> QED
      BY <3>4, <3>5, <3>7, <3>9 DEF ProcInv
  <2> QED
    BY <1>4, <2>1, <2>2 DEF Complete
<1>5. CASE Abort(p)
  <2>1. /\ slot' = [slot EXCEPT ![p] = Moved(p, "release")]
        /\ UNCHANGED <<task, announced>>
        /\ slot[p].item \in Items
    BY <1>5, BusySlot DEF Abort, storeVars, TypeOK
  <2>2. /\ \A q \in Procs \ {p} : slot'[q] = slot[q]
        /\ slot'[p].pc \in QuietPC /\ slot'[p].item = slot[p].item
    BY <2>1, SlotMove DEF TypeOK, QuietPC, SlotPC
  <2>3. \A i \in Items : slot'[p].item = i => planned'[RunOf[i]]
    BY <2>2, SameItem
  <2>4. \A q \in Procs : \A h \in late'[q] : h \in late[q] \/ h.item = slot[p].item
    BY <1>5 DEF Abort, TypeOK, ProcTypeOK, SlotRow
  <2>5. \A q \in Procs : \A h \in late'[q] : planned'[RunOf[h.item]]
    BY <2>1, <2>4, StoreAssumption
       DEF ProcInv, ActorsHaveRuns, Monotone, TypeOK, ProcTypeOK, SlotRow, Handler
  <2> QED
    BY <2>1, <2>2, <2>3, <2>5, QuietMove
<1>6. CASE LateCheckpoint(p)
  <2>1. UNCHANGED <<task, slot, announced>> /\ \A q \in Procs : late'[q] \subseteq late[q]
    BY <1>6 DEF LateCheckpoint, PersistResultCheckpoint, TypeOK, ProcTypeOK, SlotRow
  <2>2. \A i \in Items : slot'[p].item = i => planned'[RunOf[i]]
    BY <2>1, StoreAssumption DEF ProcInv, ActorsHaveRuns, Monotone
  <2>3. \A q \in Procs : \A h \in late'[q] : planned'[RunOf[h.item]]
    BY <2>1, StoreAssumption DEF ProcInv, ActorsHaveRuns, Monotone, TypeOK, ProcTypeOK, SlotRow, Handler
  <2> QED
    BY <2>1, <2>2, <2>3, QuietMove
<1>7. CASE DbError(p)
  <2>1. PICK pc \in AfterDbError[slot[p].pc] :
          slot' = [slot EXCEPT ![p] = IF pc = "idle" THEN Idle ELSE Moved(p, pc)]
    BY <1>7 DEF DbError
  <2>2. pc \in QuietPC
    BY <1>7, <2>1 DEF DbError, AfterDbError, SlotPC, QuietPC
  <2>3. UNCHANGED <<task, late, announced>>
    BY <1>7 DEF DbError, storeVars
  <2>4. slot' = [slot EXCEPT ![p] = Idle] \/ slot' = [slot EXCEPT ![p] = Moved(p, pc)]
    BY <2>1
  <2> QED
    BY <2>2, <2>3, <2>4, QuietStep
<1> QED
  BY <1>1, <1>2, <1>3, <1>4, <1>5, <1>6, <1>7

LEMMA ProcInvStep ==
  ASSUME TypeOK, StoreInv, ProcInv, Next
  PROVE  ProcInv'
<1>0. Monotone
  BY NextStatement, StatementMonotone DEF TypeOK
<1>1. ASSUME NEW p \in Procs, Start(p)
      PROVE  ProcInv'
  BY <1>0, <1>1, QuietStep DEF Start, storeVars
<1>2. ASSUME NEW p \in Procs, Recover(p)
      PROVE  ProcInv'
  <2>1. /\ UNCHANGED <<slot, late, storeVars>>
        /\ \A q \in Procs, r \in Runs :
             \/ task'[q][r] = task[q][r]
             \/ task'[q][r] = "plan" /\ r \in Recoverable
    BY <1>2 DEF Recover, TypeOK, ProcTypeOK, SlotRow
  <2>2. \A r \in Recoverable : runStatus[r] # "ABSENT"
    BY DEF Recoverable, Claimable, Active, ItemsOf
  <2>3. \A q \in Procs, a \in {"planner", "worker"}, s \in Runs :
          Announcing(q, a, s)' => Announcing(q, a, s)
    BY <2>1 DEF Announcing, At, MyRun
  <2> QED
    BY <2>1, <2>2, <2>3
       DEF ProcInv, ActorsHaveRuns, AttemptsInOrder, AnnouncersWon, SettledOnce, OneAnnouncer,
           Completing, At, storeVars
<1>3. ASSUME NEW p \in Procs, Crash(p)
      PROVE  ProcInv'
  <2>1. /\ UNCHANGED storeVars
        /\ \A q \in Procs : /\ slot'[q] = slot[q] \/ slot'[q] = Idle
                            /\ late'[q] \subseteq late[q]
                            /\ \A r \in Runs : task'[q][r] \in {task[q][r], "none"}
    BY <1>3 DEF Crash, TypeOK, ProcTypeOK, SlotRow
  <2>2. \A q \in Procs, a \in {"planner", "worker"}, s \in Runs :
          Announcing(q, a, s)' => Announcing(q, a, s)
    BY <2>1 DEF Announcing, At, MyRun, Idle, Attempt
  <2>3. ActorsHaveRuns' /\ AttemptsInOrder' /\ SettledOnce'
    BY <2>1, StoreAssumption
       DEF ProcInv, ActorsHaveRuns, AttemptsInOrder, SettledOnce, Completing, At, Idle, Attempt, storeVars
  <2> QED
    BY <2>1, <2>2, <2>3 DEF ProcInv, AnnouncersWon, OneAnnouncer, storeVars
<1>4. ASSUME NEW p \in Procs, NEW i \in Items, Claim(p, i) \/ ClaimUnlogged(p, i)
      PROVE  ProcInv'
  <2>1. PICK pc \in {"reason", "claimLost"} : ClaimAt(p, i, pc)
    BY <1>4 DEF Claim, ClaimUnlogged
  <2>2. /\ slot' = [slot EXCEPT ![p] = [pc |-> pc, item |-> i, attempt |-> Attempts(i),
                                        outcome |-> NoOutcome, tally |-> NoTally]]
        /\ UNCHANGED <<task, late, announced, planned>>
        /\ item[i].status # "ABSENT"
    BY <2>1 DEF Attempt, ClaimAt, ClaimWorkItem, Claimable
  <2>3. planned[RunOf[i]]
    BY <2>2, StoreAssumption DEF StoreInv, PlanStored
  <2>4. /\ \A q \in Procs \ {p} : slot'[q] = slot[q]
        /\ slot'[p].pc \in QuietPC /\ slot'[p].item = i
    BY <2>2 DEF TypeOK, ProcTypeOK, SlotRow, QuietPC, SlotPC
  <2>5. \A q \in Procs : \A h \in late'[q] : planned'[RunOf[h.item]]
    BY <2>2 DEF ProcInv, ActorsHaveRuns
  <2> QED
    BY <1>0, <2>2, <2>3, <2>4, <2>5, QuietMove
<1>5. ASSUME NEW r \in Runs, CancelRun(r)
      PROVE  ProcInv'
  <2>1. PICK p \in Procs : TRUE
    BY <1>5 DEF CancelRun
  <2> QED
    BY <1>0, <1>5, <2>1, QuietStep DEF CancelRun, CancelRunDurably, procVars
<1>6. ASSUME NEW i \in Items, Expire(i)
      PROVE  ProcInv'
  <2>1. UNCHANGED <<boot, task, slot, late, runStatus, planned, result, announced>>
    BY <1>6 DEF Expire, ExpireLease, procVars
  <2>2. \A j \in Items : item'[j].status = item[j].status
    BY <1>6 DEF Expire, ExpireLease, TypeOK, StoreTypeOK, ItemRow
  <2>3. AttemptsInOrder'
    BY <2>1, <2>2, BusySlot DEF ProcInv, AttemptsInOrder, Completing, At, TypeOK
  <2> QED
    BY <2>1, <2>3 DEF ProcInv, ActorsHaveRuns, AnnouncersWon, SettledOnce, OneAnnouncer,
                      Announcing, Completing, At, MyRun
<1> QED
  BY <1>0, <1>1, <1>2, <1>3, <1>4, <1>5, <1>6, ProcInvPlanner, ProcInvWorker, ProcInvAttempt
     DEF Next

-----------------------------------------------------------------------------
(* The inductive invariant and what follows from it.                       *)

\* Only completeWorkItem completes an item, and only after its checkpoint.
LEMMA NextCompletesAnswered ==
  ASSUME TypeOK, ProcInv, Next
  PROVE  CompletesAnswered
<1> USE DEF CompletesAnswered
<1>1. ASSUME NEW r \in Runs, RunStatement(r)
      PROVE  CompletesAnswered
  <2>1. CASE PersistPlan(r)
    <3>1. item' = Planted(r) \/ item' = item
      BY <2>1 DEF PersistPlan, storeVars
    <3> QED
      BY <3>1 DEF Planted, TypeOK, StoreTypeOK, ItemRow
  <2>2. CASE CancelRunDurably(r)
    BY <2>2 DEF CancelRunDurably, Withdrawn, Unleased
  <2>3. CASE ~PersistPlan(r) /\ ~CancelRunDurably(r)
    BY <1>1, <2>3 DEF RunStatement, InsertRun, InsertInput, FinalizeRun, AnnounceCompletion,
                      MarkRunFailed, RefreshRunWorkProgress
  <2> QED
    BY <2>1, <2>2, <2>3
<1>2. ASSUME NEW p \in Procs, Complete(p)
      PROVE  CompletesAnswered
  <2>1. result[slot[p].item] # NoOutcome
    BY <1>2 DEF ProcInv, AttemptsInOrder, Complete
  <2> QED
    BY <1>2, <2>1 DEF Complete, SettleWorkItem, storeVars, TypeOK, StoreTypeOK
<1>3. ASSUME NEW p \in Procs, Fail(p) \/ Release(p)
      PROVE  CompletesAnswered
  BY <1>3 DEF Fail, Release, SettleWorkItem, Unleased, storeVars, TypeOK, StoreTypeOK
<1>4. ASSUME NEW p \in Procs, NEW i \in Items, Claim(p, i) \/ ClaimUnlogged(p, i)
      PROVE  CompletesAnswered
  BY <1>4 DEF Claim, ClaimUnlogged, ClaimAt, ClaimWorkItem, TypeOK, StoreTypeOK
<1>5. ASSUME NEW p \in Procs, Renew(p)
      PROVE  CompletesAnswered
  BY <1>5 DEF Renew, RenewWorkItem, TypeOK, StoreTypeOK, ItemRow
<1>6. ASSUME NEW i \in Items, Expire(i)
      PROVE  CompletesAnswered
  BY <1>6 DEF Expire, ExpireLease, TypeOK, StoreTypeOK, ItemRow
<1>7. ASSUME NEW p \in Procs,
             \/ Start(p) \/ Recover(p) \/ Crash(p) \/ Reason(p) \/ RateLimited(p)
             \/ HandlerFails(p) \/ Checkpoint(p) \/ Abort(p) \/ LateCheckpoint(p) \/ DbError(p)
      PROVE  CompletesAnswered
  BY <1>7 DEF Start, Recover, Crash, Reason, RateLimited, HandlerFails, Checkpoint, Abort,
              LateCheckpoint, DbError, PersistResultCheckpoint, storeVars
<1>8. ASSUME NEW p \in Procs, WorkerStep(p), ~Fail(p), ~Release(p)
      PROVE  CompletesAnswered
  BY <1>8 DEF WorkerStep, FailClaimedRun, CountWork, Refresh, RefreshRunWorkProgress, Finalize, FinalizeRun,
              Announce, AnnounceCompletion, Yield, MarkFailed, MarkRunFailed, storeVars
<1>9. ASSUME NEW p \in Procs, NEW r \in Runs,
             CreateRun(p, r) \/ PlannerStep(p, r) \/ PlannerDbError(p, r)
      PROVE  CompletesAnswered
  <2>1. RunStatement(r) \/ UNCHANGED storeVars
    BY <1>9 DEF PlannerStep, CreateRun, StoreInput, PersistPlanStep, PlanThrows, FinalizePlanned,
                AnnouncePlanned, RecordPlanFailure, PlannerDbError, MarkRunFailedWithTrace,
                RunStatement
  <2> QED
    BY <1>1, <2>1 DEF storeVars
<1>10. ASSUME NEW r \in Runs, CancelRun(r)
       PROVE  CompletesAnswered
  BY <1>1, <1>10 DEF CancelRun, RunStatement
<1> QED
  BY <1>2, <1>3, <1>4, <1>5, <1>6, <1>7, <1>8, <1>9, <1>10 DEF Next

LEMMA IInvParts == IInv <=> TypeOK /\ StoreInv /\ ProcInv
BY DEF IInv, StoreInv, ProcInv

LEMMA IInvInit == Init => IInv
<1> SUFFICES ASSUME Init
             PROVE  IInv
  OBVIOUS
<1>1. StoreInv
  BY StoreAssumption
     DEF Init, StoreInit, NoRow, StoreInv, PlanStored, RowsSettle, CompletedIsWhole, CancelledIsQuiet
<1> QED
  BY <1>1, TypeInit, ProcInvInit, IInvParts

LEMMA IInvStep == IInv /\ [Next]_vars => IInv'
<1> SUFFICES ASSUME IInv, [Next]_vars
             PROVE  IInv'
  OBVIOUS
<1>1. TypeOK'
  BY TypeStep DEF IInv
<1>2. CASE Next
  <2>1. StoreInv'
    BY <1>2, IInvParts, NextStatement, NextCompletesAnswered, StoreInvStep DEF TypeOK
  <2>2. ProcInv'
    BY <1>2, IInvParts, ProcInvStep
  <2> QED
    BY <1>1, <2>1, <2>2 DEF IInv, StoreInv, ProcInv
<1>3. CASE UNCHANGED vars
  <2>1. StoreInv'
    BY <1>3, IInvParts DEF vars, storeVars, StoreInv, PlanStored, RowsSettle, CompletedIsWhole,
                           CancelledIsQuiet, ItemsOf
  <2>2. ProcInv'
    BY <1>3, IInvParts DEF vars, storeVars, procVars, ProcInv, ActorsHaveRuns, AttemptsInOrder,
                           AnnouncersWon, SettledOnce, OneAnnouncer, Announcing, Completing, At,
                           MyRun
  <2> QED
    BY <1>1, <2>1, <2>2 DEF IInv, StoreInv, ProcInv
<1> QED
  BY <1>2, <1>3

THEOREM InductiveInvariant == Spec => []IInv
BY IInvInit, IInvStep, PTL DEF Spec

\* A COMPLETED run has its plan stored and every work item of it settled with
\* a stored result.
THEOREM CompletedRunsAreWhole == Spec => []CompletedIsWhole
<1>1. IInv => CompletedIsWhole
  BY DEF IInv
<1> QED
  BY <1>1, InductiveInvariant, PTL

\* A CANCELLED run has no queued or leased work item left.
THEOREM CancelledRunsAreQuiet == Spec => []CancelledIsQuiet
<1>1. IInv => CancelledIsQuiet
  BY DEF IInv
<1> QED
  BY <1>1, InductiveInvariant, PTL

\* The completion steps of a work item are run by one attempt at most.
THEOREM ItemsSettleOnce == Spec => []SettledOnce
<1>1. IInv => SettledOnce
  BY DEF IInv
<1> QED
  BY <1>1, InductiveInvariant, PTL

\* RUN_COMPLETED is stored by one planner or worker, once.
THEOREM CompletionAnnouncedOnce == Spec => []OneAnnouncer
<1>1. IInv => OneAnnouncer
  BY DEF IInv
<1> QED
  BY <1>1, InductiveInvariant, PTL

-----------------------------------------------------------------------------
(* The runs implement the lifecycle.                                       *)

\* Only startRun turns a run that does not exist into one that does, and an
\* answer only arrives for a run whose plan is stored.
Founded ==
  /\ \A r \in Runs : runStatus[r] = "ABSENT" => runStatus'[r] \in {"ABSENT", "PENDING"}
  /\ \A i \in Items : result'[i] # result[i] => planned[RunOf[i]]

LEMMA NextFounded ==
  ASSUME IInv, Next
  PROVE  Founded
<1> USE DEF Founded, IInv, TypeOK, StoreTypeOK
<1>1. ASSUME NEW p \in Procs, NEW r \in Runs,
             CreateRun(p, r) \/ PlannerStep(p, r) \/ PlannerDbError(p, r)
      PROVE  Founded
  <2>1. CASE CreateRun(p, r)
    BY <2>1 DEF CreateRun, InsertRun
  <2>2. CASE PlannerStep(p, r)
    <3>1. runStatus[r] # "ABSENT"
      BY <2>2 DEF ActorsHaveRuns, PlannerStep, StoreInput, PersistPlanStep, PlanThrows,
                  FinalizePlanned, AnnouncePlanned, RecordPlanFailure, PlanAt
    <3> QED
      BY <2>2, <3>1 DEF PlannerStep, StoreInput, PersistPlanStep, PlanThrows, FinalizePlanned,
             AnnouncePlanned, RecordPlanFailure, InsertInput, PersistPlan, FinalizeRun,
             AnnounceCompletion, MarkRunFailedWithTrace, MarkRunFailed, storeVars
  <2>3. CASE PlannerDbError(p, r)
    BY <2>3 DEF PlannerDbError, storeVars
  <2> QED
    BY <1>1, <2>1, <2>2, <2>3
<1>2. ASSUME NEW p \in Procs, slot[p].pc # "idle"
      PROVE  /\ slot[p].item \in Items /\ planned[RunOf[slot[p].item]]
             /\ MyRun(p) \in Runs /\ runStatus[MyRun(p)] # "ABSENT"
  BY <1>2, BusySlot DEF ActorsHaveRuns, PlanStored, MyRun
<1>3. ASSUME NEW p \in Procs, WorkerStep(p)
      PROVE  Founded
  <2>1. slot[p].pc # "idle"
    BY <1>3 DEF WorkerStep, FailClaimedRun, Fail, Release, CountWork, Refresh, AfterRefresh,
                Finalize, Announce, Yield, MarkFailed, At
  <2> QED
    BY <1>2, <1>3, <2>1
       DEF WorkerStep, FailClaimedRun, Fail, Release, CountWork, Refresh, RefreshRunWorkProgress, Finalize,
           FinalizeRun, Finalizable, Announce, AnnounceCompletion, Yield, MarkFailed,
           MarkRunFailed, SettleWorkItem, storeVars
<1>4. ASSUME NEW p \in Procs, Checkpoint(p)
      PROVE  Founded
  <2>1. slot[p].item \in Items /\ planned[RunOf[slot[p].item]]
    BY <1>2, <1>4 DEF Checkpoint, At
  <2> QED
    BY <1>4, <2>1 DEF Checkpoint, PersistResultCheckpoint
<1>5. ASSUME NEW p \in Procs, LateCheckpoint(p)
      PROVE  Founded
  <2>1. PICK h \in late[p] : PersistResultCheckpoint(h.item, h.outcome)
    BY <1>5 DEF LateCheckpoint
  <2>2. planned[RunOf[h.item]]
    BY DEF ActorsHaveRuns
  <2> QED
    BY <2>1, <2>2 DEF PersistResultCheckpoint
<1>6. ASSUME NEW p \in Procs,
             \/ Start(p) \/ Recover(p) \/ Crash(p) \/ Reason(p) \/ RateLimited(p)
             \/ HandlerFails(p) \/ Complete(p) \/ Abort(p) \/ DbError(p) \/ Renew(p)
      PROVE  UNCHANGED <<runStatus, result>>
  BY <1>6 DEF Start, Recover, Crash, Reason, RateLimited, HandlerFails, Complete, Abort, DbError,
              Renew, SettleWorkItem, RenewWorkItem, storeVars
<1>7. ASSUME NEW p \in Procs, NEW i \in Items, Claim(p, i) \/ ClaimUnlogged(p, i)
      PROVE  UNCHANGED <<runStatus, result>>
  BY <1>7 DEF Claim, ClaimUnlogged, ClaimAt, ClaimWorkItem
<1>8. ASSUME NEW r \in Runs, CancelRun(r)
      PROVE  Founded
  BY <1>8 DEF CancelRun, CancelRunDurably, Active
<1>9. ASSUME NEW i \in Items, Expire(i)
      PROVE  UNCHANGED <<runStatus, result>>
  BY <1>9 DEF Expire, ExpireLease
<1> QED
  BY <1>1, <1>3, <1>4, <1>5, <1>6, <1>7, <1>8, <1>9 DEF Next

LEMMA NextLifecycle ==
  ASSUME IInv, IInv', Next
  PROVE  [Lifecycle!Next]_(Lifecycle!vars)
<1>1. Founded /\ Statement
  BY NextFounded, NextStatement DEF IInv
<1> USE DEF IInv, TypeOK, StoreTypeOK, Lifecycle!vars
<1>2. ASSUME NEW r \in Runs, RunStatement(r)
      PROVE  Lifecycle!Next \/ UNCHANGED Lifecycle!vars
  <2> USE DEF Lifecycle!Move
  <2>1. CASE InsertRun(r)
    BY <2>1 DEF InsertRun, Lifecycle!Next, Lifecycle!Accept
  <2>2. CASE PersistPlan(r)
    <3>1. CASE runStatus[r] = "PENDING"
      BY <2>2, <3>1 DEF PersistPlan, Active, Lifecycle!Next, Lifecycle!Plan
    <3>2. CASE runStatus[r] # "PENDING"
      BY <2>2, <3>2 DEF PersistPlan, Active, storeVars
    <3> QED
      BY <3>1, <3>2
  <2>3. CASE FinalizeRun(r)
    <3>1. \A i \in ItemsOf(r) : result[i] # NoOutcome
      BY <2>3 DEF FinalizeRun, CompletedIsWhole
    <3> QED
      BY <2>3, <3>1 DEF FinalizeRun, Finalizable, ItemsOf, Lifecycle!CasesOf, Lifecycle!Next,
                        Lifecycle!Complete
  <2>4. CASE MarkRunFailed(r)
    <3>1. runStatus[r] # "ABSENT" /\ runStatus' = [runStatus EXCEPT ![r] = "FAILED"]
      BY <1>1, <2>4 DEF MarkRunFailed, Founded
    <3> QED
      BY <2>4, <3>1 DEF MarkRunFailed, RunState, Lifecycle!Next, Lifecycle!Fail, Lifecycle!Terminal
  <2>5. CASE CancelRunDurably(r)
    BY <2>5 DEF CancelRunDurably, Active, Lifecycle!Next, Lifecycle!Cancel
  <2>6. CASE InsertInput(r) \/ AnnounceCompletion(r) \/ \E tally \in Progress : RefreshRunWorkProgress(r, tally)
    BY <2>6 DEF InsertInput, AnnounceCompletion, RefreshRunWorkProgress
  <2> QED
    BY <1>2, <2>1, <2>2, <2>3, <2>4, <2>5, <2>6 DEF RunStatement
<1>3. ASSUME NEW i \in Items, NEW o \in Outcomes \cup {NoOutcome}, PersistResultCheckpoint(i, o)
      PROVE  Lifecycle!Next \/ UNCHANGED Lifecycle!vars
  <2>1. CASE result[i] # NoOutcome \/ o = NoOutcome
    BY <1>3, <2>1 DEF PersistResultCheckpoint
  <2>2. CASE result[i] = NoOutcome /\ o # NoOutcome
    <3>1. RunOf[i] \in Runs /\ planned[RunOf[i]]
      BY <1>1, <1>3, <2>2, StoreAssumption DEF PersistResultCheckpoint, Founded
    <3>2. runStatus[RunOf[i]] \in {"PROCESSING", "CANCELLED", "FAILED"}
      BY <2>2, <3>1 DEF PlanStored, CompletedIsWhole, ItemsOf, RunState
    <3>3. Lifecycle!Answer(i, o)
      BY <1>3, <2>2, <3>2 DEF PersistResultCheckpoint, Lifecycle!Answer
    <3> QED
      BY <2>2, <3>3 DEF Lifecycle!Next
  <2> QED
    BY <2>1, <2>2
<1>4. ASSUME NEW p \in Procs, NEW i \in Items, ItemStatement(p, i)
      PROVE  Lifecycle!Next \/ UNCHANGED Lifecycle!vars
  <2>1. CASE ClaimWorkItem(p, i) \/ RenewWorkItem(p, i)
    BY <2>1 DEF ClaimWorkItem, RenewWorkItem
  <2>2. CASE \E status \in {"PENDING", "COMPLETED", "FAILED"} : SettleWorkItem(p, i, status)
    BY <2>2 DEF SettleWorkItem
  <2> QED
    BY <1>3, <1>4, <2>1, <2>2 DEF ItemStatement
<1>5. ASSUME NEW i \in Items, ExpireLease(i)
      PROVE  UNCHANGED Lifecycle!vars
  BY <1>5 DEF ExpireLease
<1>6. CASE UNCHANGED storeVars
  BY <1>6 DEF storeVars
<1> QED
  BY <1>1, <1>2, <1>4, <1>5, <1>6 DEF Statement

\* Every behaviour of planners, workers, crashes and retries looks, through
\* the runs' status and results, like one of RunLifecycle.
THEOREM LifecycleImplemented == Spec => ImplementsLifecycle
<1>1. Init => Lifecycle!Init
  BY DEF Init, StoreInit, Lifecycle!Init
<1>2. IInv /\ IInv' /\ [Next]_vars => [Lifecycle!Next]_(Lifecycle!vars)
  <2>1. UNCHANGED vars => UNCHANGED Lifecycle!vars
    BY DEF vars, storeVars, Lifecycle!vars
  <2> QED
    BY <2>1, NextLifecycle
<1> QED
  BY <1>1, <1>2, InductiveInvariant, PTL DEF Spec, ImplementsLifecycle, Lifecycle!Spec
=============================================================================
