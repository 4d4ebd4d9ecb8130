--------------------------- MODULE RunEndsProofs ---------------------------
(***************************************************************************)
(* The counters of a run, and what is left to be done at its end, for any  *)
(* number of runs, items and processes.                                    *)
(***************************************************************************)
EXTENDS DurableRunsProofs

-----------------------------------------------------------------------------
(* The counters.                                                           *)

\* A tally that may be older than the rows: of no other number of rows, and of
\* no more settled ones.
Fits(tally, rows, r) ==
  LET now == TallyOf(rows, r)
  IN  /\ tally.total = now.total
      /\ tally.completed <= now.completed
      /\ tally.failed <= now.failed

\* The rows of a run are there or not as before.
SameRows(r) == \A i \in ItemsOf(r) : item'[i].status = "ABSENT" <=> item[i].status = "ABSENT"

\* A row of the table stays there, and new ones come only with a plan.
LEMMA RowsStay ==
  ASSUME StoreTypeOK, Statement
  PROVE  /\ \A i \in Items : item[i].status # "ABSENT" => item'[i].status # "ABSENT"
         /\ (\A r \in Runs : ~PersistPlan(r)) => \A r \in Runs : SameRows(r)
<1> USE DEF StoreTypeOK, SameRows, ItemsOf
<1>1. ASSUME NEW s \in Runs, RunStatement(s), ~PersistPlan(s)
      PROVE  \A i \in Items : item'[i].status = "ABSENT" <=> item[i].status = "ABSENT"
  BY <1>1 DEF RunStatement, InsertRun, InsertInput, FinalizeRun, AnnounceCompletion, MarkRunFailed,
              CancelRunDurably, Withdrawn, Unleased, RefreshRunWorkProgress
<1>2. ASSUME NEW s \in Runs, PersistPlan(s)
      PROVE  \A i \in Items : item[i].status # "ABSENT" => item'[i].status # "ABSENT"
  BY <1>2 DEF PersistPlan, Planted, storeVars
<1>3. ASSUME NEW p \in Procs, NEW i \in Items, ItemStatement(p, i)
      PROVE  \A j \in Items : item'[j].status = "ABSENT" <=> item[j].status = "ABSENT"
  BY <1>3 DEF ItemStatement, ClaimWorkItem, Claimable, RenewWorkItem, SettleWorkItem, Holds,
              Unleased, PersistResultCheckpoint, ItemRow
<1>4. ASSUME (\E i \in Items : ExpireLease(i)) \/ UNCHANGED storeVars
      PROVE  \A j \in Items : item'[j].status = "ABSENT" <=> item[j].status = "ABSENT"
  BY <1>4 DEF ExpireLease, storeVars, ItemRow
<1> QED  BY <1>1, <1>2, <1>3, <1>4 DEF Statement

\* A step counts a run anew, writes what a worker of the run counted earlier, or
\* leaves the run's counters and rows alone.
StepCounts(r) ==
  \/ progress'[r] = TallyOf(item', r)
  \/ /\ UNCHANGED item
     /\ \E p \in Procs : /\ slot[p].tally # NoTally /\ MyRun(p) = r
                         /\ progress'[r] = slot[p].tally
  \/ progress'[r] = progress[r] /\ SameRows(r)

LEMMA NextCounts ==
  ASSUME TypeOK, Next, NEW r \in Runs
  PROVE  StepCounts(r)
<1> USE DEF StepCounts
<1>0. StoreTypeOK /\ Statement  BY NextStatement DEF TypeOK
<1>1. ASSUME NEW p \in Procs, Refresh(p) PROVE StepCounts(r)
  <2>1. /\ progress' = [progress EXCEPT ![MyRun(p)] = slot[p].tally]
        /\ UNCHANGED item /\ slot[p].tally # NoTally
    BY <1>1 DEF Refresh, RefreshRunWorkProgress
  <2>2. CASE MyRun(p) = r  BY <1>0, <2>1, <2>2 DEF StoreTypeOK
  <2>3. CASE MyRun(p) # r  BY <1>0, <2>1, <2>3 DEF StoreTypeOK, SameRows
  <2> QED  BY <2>2, <2>3
<1>2. ASSUME NEW s \in Runs, PersistPlan(s) PROVE StepCounts(r)
  <2>1. CASE UNCHANGED storeVars  BY <2>1 DEF storeVars, SameRows
  <2>2. CASE item' = Planted(s) /\ progress' = [progress EXCEPT ![s] = TallyOf(Planted(s), s)]
    <3>1. CASE r = s  BY <1>0, <2>2, <3>1 DEF StoreTypeOK
    <3>2. CASE r # s  BY <1>0, <2>2, <3>2 DEF StoreTypeOK, Planted, SameRows, ItemsOf
    <3> QED  BY <3>1, <3>2
  <2> QED  BY <1>2, <2>1, <2>2 DEF PersistPlan
<1>3. ASSUME NEW s \in Runs, CancelRunDurably(s) PROVE StepCounts(r)
  <2>1. item' = Withdrawn(s) /\ progress' = [progress EXCEPT ![s] = TallyOf(Withdrawn(s), s)]
    BY <1>3 DEF CancelRunDurably
  <2>2. CASE r = s  BY <1>0, <2>1, <2>2 DEF StoreTypeOK
  <2>3. CASE r # s  BY <1>0, <2>1, <2>3 DEF StoreTypeOK, Withdrawn, SameRows, ItemsOf
  <2> QED  BY <2>2, <2>3
<1>4. ASSUME \A p \in Procs : ~Refresh(p),
             \A s \in Runs : ~PersistPlan(s) /\ ~CancelRunDurably(s)
      PROVE  StepCounts(r)
  <2>1. UNCHANGED progress
    BY <1>4
    DEF Next, Start, Recover, Crash, WorkerStep, FailClaimedRun, Fail, Release, CountWork, Finalize,
        Announce, Yield, MarkFailed, Reason, RateLimited, HandlerFails, Checkpoint, Complete, Abort,
        LateCheckpoint, DbError, Renew, Claim, ClaimUnlogged, ClaimAt, CreateRun, PlannerStep,
        StoreInput, PersistPlanStep, PlanThrows, FinalizePlanned, AnnouncePlanned,
        RecordPlanFailure, PlannerDbError, CancelRun, Expire, InsertRun, InsertInput, FinalizeRun,
        AnnounceCompletion, MarkRunFailedWithTrace, MarkRunFailed, ClaimWorkItem, SettleWorkItem,
        RenewWorkItem, ExpireLease, PersistResultCheckpoint, storeVars
  <2> QED  BY <1>0, <1>4, <2>1, RowsStay
<1> QED  BY <1>1, <1>2, <1>3, <1>4

\* The number of items that have settled one way only grows.
LEMMA CountsGrow ==
  ASSUME Monotone, NEW r \in Runs, NEW status \in {"COMPLETED", "FAILED"}
  PROVE  CountOf(item, r, status) <= CountOf(item', r, status)
<1> DEFINE before == {i \in ItemsOf(r) : item[i].status = status}
           after == {i \in ItemsOf(r) : item'[i].status = status}
<1>1. IsFiniteSet(ItemsOf(r)) /\ ItemsOf(r) \subseteq Items
  BY StoreAssumption, FS_Subset DEF ItemsOf
<1>2. before \subseteq after  BY <1>1 DEF Monotone, Settled
<1>3. after \subseteq ItemsOf(r)  OBVIOUS
<1>4. CountOf(item, r, status) = Cardinality(before)
      /\ CountOf(item', r, status) = Cardinality(after)
  BY DEF CountOf
<1> HIDE DEF before, after
<1>5. IsFiniteSet(after)  BY <1>1, <1>3, FS_Subset
<1> QED  BY <1>2, <1>4, <1>5, FS_Subset

\* So a tally that fitted still does.
LEMMA FitsStill ==
  ASSUME Monotone, NEW r \in Runs, NEW tally \in Progress, Fits(tally, item, r), SameRows(r)
  PROVE  Fits(tally, item', r)
<1> DEFINE there == {i \in ItemsOf(r) : item[i].status # "ABSENT"}
           thereNow == {i \in ItemsOf(r) : item'[i].status # "ABSENT"}
<1>1. there = thereNow  BY DEF SameRows
<1>2. /\ CountOf(item, r, "COMPLETED") <= CountOf(item', r, "COMPLETED")
      /\ CountOf(item, r, "FAILED") <= CountOf(item', r, "FAILED")
  BY CountsGrow
<1>3. /\ TallyOf(item, r) \in Progress /\ TallyOf(item', r) \in Progress  BY TallyType
<1>4. /\ TallyOf(item, r).total = Cardinality(there)
      /\ TallyOf(item', r).total = Cardinality(thereNow)
      /\ TallyOf(item, r).completed = CountOf(item, r, "COMPLETED")
      /\ TallyOf(item', r).completed = CountOf(item', r, "COMPLETED")
      /\ TallyOf(item, r).failed = CountOf(item, r, "FAILED")
      /\ TallyOf(item', r).failed = CountOf(item', r, "FAILED")
  BY DEF TallyOf
<1> HIDE DEF there, thereNow
<1> QED  BY <1>1, <1>2, <1>3, <1>4 DEF Fits, Progress

LEMMA FreshFits ==
  ASSUME NEW rows, NEW r
  PROVE  Fits(TallyOf(rows, r), rows, r)
BY TallyType DEF Fits, Progress

\* A step leaves a worker with nothing counted, with what it had counted for the
\* same item, or with what it counts now.
TallyOnward(p) ==
  \/ slot'[p].tally = NoTally
  \/ slot'[p].item = slot[p].item /\ slot'[p].tally = slot[p].tally
  \/ /\ slot[p].pc # "idle" /\ slot'[p].item = slot[p].item
     /\ UNCHANGED item /\ slot'[p].tally = TallyOf(item, MyRun(p))

LEMMA NextTallyOnward ==
  ASSUME TypeOK, Next, NEW p \in Procs
  PROVE  TallyOnward(p)
<1> USE DEF TallyOnward
<1>0. ProcTypeOK  BY DEF TypeOK
<1>1. ASSUME NEW q \in Procs, CountWork(q) PROVE TallyOnward(p)
  <2>1. /\ slot' = [slot EXCEPT ![q].tally = TallyOf(item, MyRun(q))]
        /\ slot[q].pc # "idle" /\ UNCHANGED item
    BY <1>1 DEF CountWork, AfterRefresh, storeVars
  <2>2. TallyOf(item, MyRun(q)) \in Progress  BY TallyType
  <2>3. CASE p = q  BY <1>0, <2>1, <2>2, <2>3 DEF ProcTypeOK, SlotRow
  <2>4. CASE p # q  BY <1>0, <2>1, <2>4 DEF ProcTypeOK
  <2> QED  BY <2>3, <2>4
<1>2. ASSUME NEW q \in Procs, NEW new, slot' = [slot EXCEPT ![q] = new], new.tally = NoTally
      PROVE  TallyOnward(p)
  BY <1>0, <1>2 DEF ProcTypeOK
<1>3. Idle.tally = NoTally /\ \A pc, i, n : Attempt(pc, i, n).tally = NoTally
  BY DEF Idle, Attempt
<1>4. \A q \in Procs : \A pc : Moved(q, pc).tally = NoTally  BY DEF Moved, Attempt
<1>5. ASSUME NEW q \in Procs,
             \/ Complete(q) \/ Fail(q) \/ Release(q) \/ Refresh(q) \/ FailClaimedRun(q)
             \/ Finalize(q) \/ Announce(q) \/ Yield(q) \/ MarkFailed(q) \/ RateLimited(q)
             \/ HandlerFails(q) \/ Checkpoint(q) \/ Abort(q) \/ DbError(q) \/ Crash(q)
      PROVE  TallyOnward(p)
  <2>1. \/ slot' = [slot EXCEPT ![q] = Idle]
        \/ \E pc : slot' = [slot EXCEPT ![q] = Moved(q, pc)]
    BY <1>5 DEF Complete, Fail, Release, Refresh, FailClaimedRun, Finalize, Announce, Yield,
                MarkFailed, RateLimited, HandlerFails, Checkpoint, Abort, DbError, Crash, Goto, Rest
  <2> QED  BY <1>2, <1>3, <1>4, <2>1
<1>6. ASSUME NEW q \in Procs, Reason(q) PROVE TallyOnward(p)
  <2>1. PICK o \in Outcomes : slot' = [slot EXCEPT ![q] = [Moved(q, "write") EXCEPT !.outcome = o]]
    BY <1>6 DEF Reason
  <2>2. [Moved(q, "write") EXCEPT !.outcome = o].tally = NoTally  BY DEF Moved, Attempt
  <2> QED  BY <1>2, <2>1, <2>2
<1>7. ASSUME NEW q \in Procs, NEW i \in Items, Claim(q, i) \/ ClaimUnlogged(q, i)
      PROVE  TallyOnward(p)
  <2>1. \E pc : slot' = [slot EXCEPT ![q] = Attempt(pc, i, Attempts(i))]
    BY <1>7 DEF Claim, ClaimUnlogged, ClaimAt
  <2> QED  BY <1>2, <1>3, <2>1
<1>8. ASSUME UNCHANGED slot PROVE TallyOnward(p)  BY <1>8
<1> QED
  BY <1>1, <1>5, <1>6, <1>7, <1>8
  DEF Next, Start, Recover, WorkerStep, LateCheckpoint, Renew, CreateRun, PlannerStep, StoreInput,
      PersistPlanStep, PlanThrows, FinalizePlanned, AnnouncePlanned, RecordPlanFailure,
      PlannerDbError, PlanGoto, CancelRun, Expire, procVars

\* The counters of every run, and what every worker has counted to write there.
CountersInv ==
  /\ \A r \in Runs : Fits(progress[r], item, r)
  /\ \A p \in Procs : slot[p].tally # NoTally =>
       slot[p].item \in Items /\ Fits(slot[p].tally, item, MyRun(p))

LEMMA CountersInit == Init => CountersInv
<1> SUFFICES ASSUME Init PROVE CountersInv  OBVIOUS
<1>1. \A p \in Procs : slot[p].tally = NoTally  BY DEF Init, Idle, Attempt
<1>2. ASSUME NEW r \in Runs PROVE Fits(progress[r], item, r)
  <2>1. {i \in ItemsOf(r) : item[i].status # "ABSENT"} = {}
    BY DEF Init, StoreInit, NoRow, ItemsOf
  <2>2. TallyOf(item, r) \in Progress /\ TallyOf(item, r).total = 0
    BY <2>1, TallyType, FS_EmptySet DEF TallyOf
  <2> QED  BY <2>2 DEF Init, StoreInit, Fits, Progress
<1> QED  BY <1>1, <1>2 DEF CountersInv

LEMMA CountersStep == IInv /\ CountersInv /\ [Next]_vars => CountersInv'
<1> SUFFICES ASSUME IInv, CountersInv, [Next]_vars PROVE CountersInv'  OBVIOUS
<1>0. TypeOK /\ StoreTypeOK /\ ProcTypeOK  BY DEF IInv, TypeOK
<1>1. CASE Next
  <2>1. Statement /\ Monotone  BY <1>0, <1>1, NextStatement, StatementMonotone
  <2>2. ASSUME NEW r \in Runs PROVE Fits(progress'[r], item', r)
    <3>0. StepCounts(r) /\ progress[r] \in Progress /\ Fits(progress[r], item, r)
      BY <1>0, <1>1, NextCounts DEF StoreTypeOK, CountersInv
    <3>1. CASE progress'[r] = TallyOf(item', r)  BY <3>1, FreshFits
    <3>2. ASSUME UNCHANGED item, NEW p \in Procs, slot[p].tally # NoTally, MyRun(p) = r,
                 progress'[r] = slot[p].tally
          PROVE  Fits(progress'[r], item', r)
      BY <3>2 DEF CountersInv
    <3>3. CASE progress'[r] = progress[r] /\ SameRows(r)
      BY <2>1, <3>0, <3>3, FitsStill
    <3> QED  BY <3>0, <3>1, <3>2, <3>3 DEF StepCounts
  <2>3. ASSUME NEW p \in Procs, slot'[p].tally # NoTally
        PROVE  slot'[p].item \in Items /\ Fits(slot'[p].tally, item', MyRun(p)')
    <3>0. TallyOnward(p)  BY <1>0, <1>1, NextTallyOnward
    <3>1. CASE slot'[p].item = slot[p].item /\ slot'[p].tally = slot[p].tally
      <4>1. slot[p].item \in Items /\ Fits(slot[p].tally, item, MyRun(p))
        BY <2>3, <3>1 DEF CountersInv
      <4>2. MyRun(p) \in Runs /\ slot[p].tally \in Progress
        BY <1>0, <4>1, StoreAssumption DEF MyRun, ProcTypeOK, SlotRow
      <4>3. planned[MyRun(p)]  BY <4>1 DEF IInv, ActorsHaveRuns, MyRun
      <4>4. \A i \in ItemsOf(MyRun(p)) : item[i].status # "ABSENT"
        BY <4>3 DEF IInv, PlanStored, ItemsOf
      <4>5. SameRows(MyRun(p))  BY <1>0, <2>1, <4>4, RowsStay DEF SameRows, ItemsOf
      <4>6. Fits(slot[p].tally, item', MyRun(p))  BY <2>1, <4>1, <4>2, <4>5, FitsStill
      <4> QED  BY <3>1, <4>1, <4>6 DEF MyRun
    <3>2. CASE /\ slot[p].pc # "idle" /\ slot'[p].item = slot[p].item
               /\ UNCHANGED item /\ slot'[p].tally = TallyOf(item, MyRun(p))
      BY <1>0, <3>2, BusySlot, FreshFits DEF MyRun
    <3> QED  BY <2>3, <3>0, <3>1, <3>2 DEF TallyOnward
  <2> QED  BY <2>2, <2>3 DEF CountersInv, MyRun
<1>2. CASE UNCHANGED vars
  BY <1>2 DEF vars, storeVars, procVars, CountersInv, MyRun
<1> QED  BY <1>1, <1>2

LEMMA CountersInvariant == Spec => []CountersInv
BY CountersInit, CountersStep, InductiveInvariant, PTL DEF Spec

(* The counters that the dashboard shows never report work as done that is  *)
(* not, whoever crashes, refreshes late or writes a count that is out of    *)
(* date (reconciliation-run-repository.ts:395-421).                         *)
THEOREM CountersNotAhead == Spec => []CountersNeverAhead
<1>1. CountersInv => CountersNeverAhead
  <2> SUFFICES ASSUME CountersInv, NEW r \in Runs
               PROVE  /\ progress[r].completed <= CountOf(item, r, "COMPLETED")
                      /\ progress[r].failed <= CountOf(item, r, "FAILED")
    BY DEF CountersNeverAhead
  <2> QED  BY DEF CountersInv, Fits, TallyOf
<1> QED  BY <1>1, CountersInvariant, PTL

-----------------------------------------------------------------------------
(* The number of a run's rows is always exact.                              *)
TotalsExact == \A r \in Runs : progress[r].total = Cardinality(RowsOf(r))

LEMMA CountersTotal == CountersInv => TotalsExact
<1> SUFFICES ASSUME CountersInv, NEW r \in Runs PROVE progress[r].total = Cardinality(RowsOf(r))
  BY DEF TotalsExact
<1> QED  BY DEF CountersInv, Fits, TallyOf, RowsOf

(* The total a run reports is the number of its work items, through every   *)
(* crash, second plan, cancellation and late refresh; finalizeRun compares  *)
(* with it (reconciliation-run-repository.ts:395-421).                      *)
THEOREM TotalsAreExact == Spec => []TotalsExact
BY CountersTotal, CountersInvariant, PTL

\* All the work of a run is done, and the run does not know yet.
AllDone(r) == runStatus[r] = "PROCESSING" /\ \A i \in ItemsOf(r) : item[i].status = "COMPLETED"

LEMMA DoneIsFinalizable ==
  ASSUME TotalsExact, NEW r \in Runs, AllDone(r)
  PROVE  Finalizable(r)
BY DEF TotalsExact, AllDone, Finalizable

-----------------------------------------------------------------------------
(* What a step leaves to be done as long as nothing has gone wrong.         *)

\* Faults leave their mark for good, so a step after which nothing has gone
\* wrong is none of them.
LEMMA NothingWentWrong ==
  ASSUME TypeOK, Next, FaultFree'
  PROVE  /\ FaultFree
         /\ \A p \in Procs : ~Crash(p) /\ ~DbError(p)
         /\ \A p \in Procs, i \in Items : ~ClaimUnlogged(p, i)
         /\ \A p \in Procs, r \in Runs : ~PlannerDbError(p, r)
<1>1. dbErrors \in Nat /\ dbErrors' = 0 /\ \A p \in Procs : boot'[p] # "crashed"
  BY BudgetAssumption DEF TypeOK, FaultFree
<1>2. ~SpendDbError  BY <1>1 DEF SpendDbError
<1>3. \A p \in Procs : ~Crash(p)  BY <1>1 DEF Crash, TypeOK, ProcTypeOK
<1>4. /\ \A p \in Procs : ~DbError(p)
      /\ \A p \in Procs, i \in Items : ~ClaimUnlogged(p, i)
      /\ \A p \in Procs, r \in Runs : ~PlannerDbError(p, r)
  BY <1>2 DEF DbError, ClaimUnlogged, PlannerDbError
<1>5. UNCHANGED dbErrors /\ (UNCHANGED boot \/ \E p \in Procs : Start(p) \/ Recover(p))
  BY <1>3, <1>4
  DEF Next, Start, Recover, WorkerStep, FailClaimedRun, Fail, Release, CountWork, Refresh, Finalize,
      Announce, Yield, MarkFailed, Goto, Rest, SlotOnly, Reason, RateLimited, HandlerFails,
      Checkpoint, Complete, Abort, LateCheckpoint, Renew, Claim, ClaimAt, CreateRun, PlannerStep,
      StoreInput, PersistPlanStep, PlanThrows, FinalizePlanned, AnnouncePlanned,
      RecordPlanFailure, PlanGoto, CancelRun, Expire, procVars, budgetVars
<1>6. \A p \in Procs : boot[p] # "crashed"
  BY <1>1, <1>5 DEF Start, Recover, TypeOK, ProcTypeOK
<1> QED  BY <1>1, <1>3, <1>4, <1>5, <1>6 DEF FaultFree

\* Who completes or fails an item still has the refresh before it.
ItemsOnward ==
  \A i \in Items :
    /\ item'[i].status = "COMPLETED" =>
         \/ item[i].status = "COMPLETED"
         \/ \E p \in Procs : slot'[p].item = i /\ slot'[p].pc = "refreshDone"
    /\ item'[i].status = "FAILED" =>
         \/ item[i].status = "FAILED"
         \/ \E p \in Procs : slot'[p].item = i /\ slot'[p].pc = "refreshFail"

LEMMA NextItemsOnward ==
  ASSUME TypeOK, Next, FaultFree'
  PROVE  ItemsOnward
<1> USE DEF ItemsOnward
<1>1. ASSUME NEW r \in Runs, RunStatement(r) PROVE ItemsOnward
  <2>1. CASE PersistPlan(r)
    <3>1. item' = Planted(r) \/ item' = item  BY <2>1 DEF PersistPlan, storeVars
    <3> QED  BY <3>1 DEF Planted, TypeOK, StoreTypeOK, ItemRow
  <2>2. CASE CancelRunDurably(r)  BY <2>2 DEF CancelRunDurably, Withdrawn, Unleased
  <2>3. CASE ~PersistPlan(r) /\ ~CancelRunDurably(r)
    BY <1>1, <2>3 DEF RunStatement, InsertRun, InsertInput, FinalizeRun, AnnounceCompletion,
                      MarkRunFailed, RefreshRunWorkProgress
  <2> QED  BY <2>1, <2>2, <2>3
<1>2. ASSUME NEW p \in Procs, Complete(p) \/ Fail(p) PROVE ItemsOnward
  <2>1. CASE UNCHANGED storeVars  BY <2>1 DEF storeVars
  <2>2. ASSUME SettleWorkItem(p, slot[p].item, "COMPLETED"), Goto(p, "refreshDone")
        PROVE  ItemsOnward
    <3>1. slot'[p].pc = "refreshDone" /\ slot'[p].item = slot[p].item
      BY <2>2, SlotMove DEF Goto, SlotPC, TypeOK
    <3> QED  BY <2>2, <3>1 DEF SettleWorkItem, Unleased, TypeOK, StoreTypeOK
  <2>3. ASSUME SettleWorkItem(p, slot[p].item, "FAILED"), Goto(p, "refreshFail")
        PROVE  ItemsOnward
    <3>1. slot'[p].pc = "refreshFail" /\ slot'[p].item = slot[p].item
      BY <2>3, SlotMove DEF Goto, SlotPC, TypeOK
    <3> QED  BY <2>3, <3>1 DEF SettleWorkItem, Unleased, TypeOK, StoreTypeOK
  <2> QED  BY <1>2, <2>1, <2>2, <2>3 DEF Complete, Fail
<1>3. ASSUME NEW p \in Procs, Release(p) PROVE ItemsOnward
  BY <1>3 DEF Release, SettleWorkItem, Unleased, storeVars, TypeOK, StoreTypeOK
<1>4. ASSUME NEW p \in Procs, NEW i \in Items, Claim(p, i) PROVE ItemsOnward
  BY <1>4 DEF Claim, ClaimAt, ClaimWorkItem, TypeOK, StoreTypeOK
<1>5. ASSUME NEW p \in Procs, Renew(p) PROVE ItemsOnward
  BY <1>5 DEF Renew, RenewWorkItem, TypeOK, StoreTypeOK, ItemRow
<1>6. ASSUME NEW i \in Items, Expire(i) PROVE ItemsOnward
  BY <1>6 DEF Expire, ExpireLease, TypeOK, StoreTypeOK, ItemRow
<1>7. ASSUME NEW p \in Procs,
             \/ Start(p) \/ Recover(p) \/ Reason(p) \/ RateLimited(p)
             \/ HandlerFails(p) \/ Checkpoint(p) \/ Abort(p) \/ LateCheckpoint(p)
      PROVE  ItemsOnward
  BY <1>7 DEF Start, Recover, Reason, RateLimited, HandlerFails, Checkpoint, Abort,
              LateCheckpoint, PersistResultCheckpoint, storeVars
<1>8. ASSUME NEW p \in Procs, WorkerStep(p), ~Fail(p), ~Release(p) PROVE ItemsOnward
  BY <1>8 DEF WorkerStep, FailClaimedRun, CountWork, Refresh, RefreshRunWorkProgress, Finalize, FinalizeRun,
              Announce, AnnounceCompletion, Yield, MarkFailed, MarkRunFailed, storeVars
<1>9. ASSUME NEW p \in Procs, NEW r \in Runs, CreateRun(p, r) \/ PlannerStep(p, r)
      PROVE  ItemsOnward
  <2>1. RunStatement(r) \/ UNCHANGED storeVars
    BY <1>9 DEF PlannerStep, CreateRun, StoreInput, PersistPlanStep, PlanThrows, FinalizePlanned,
                AnnouncePlanned, RecordPlanFailure, MarkRunFailedWithTrace, RunStatement
  <2> QED  BY <1>1, <2>1 DEF storeVars
<1>10. ASSUME NEW r \in Runs, CancelRun(r) PROVE ItemsOnward
  BY <1>1, <1>10 DEF CancelRun, RunStatement
<1> QED
  BY <1>2, <1>3, <1>4, <1>5, <1>6, <1>7, <1>8, <1>9, <1>10, NothingWentWrong DEF Next

\* Where a worker with steps to take for its run has got to.
Owing == {"refreshDone", "refreshFail", "mark", "finalize"}

SlotOnward(p) ==
  LET r == MyRun(p)
  IN  \/ slot'[p] = slot[p]
      \/ slot[p].pc \notin Owing
      \/ /\ slot[p].pc \in {"refreshDone", "refreshFail"} /\ slot'[p].item = slot[p].item
         /\ slot'[p].pc \in {slot[p].pc, AfterRefresh[slot[p].pc]}
      \/ slot[p].pc = "mark" /\ runStatus'[r] = "FAILED"
      \/ /\ slot[p].pc = "finalize"
         /\ \/ runStatus'[r] = "COMPLETED"
            \/ ~Finalizable(r) /\ UNCHANGED storeVars

LEMMA NextSlotOnward ==
  ASSUME TypeOK, Next, FaultFree', NEW p \in Procs
  PROVE  SlotOnward(p)
<1> USE DEF SlotOnward
<1>1. CASE UNCHANGED slot  BY <1>1
<1>2. ASSUME NEW q \in Procs, NEW i \in Items, Claim(q, i) PROVE SlotOnward(p)
  BY <1>2 DEF Claim, ClaimAt, At, Owing, TypeOK, ProcTypeOK
<1>3. ASSUME NEW q \in Procs,
             \/ FailClaimedRun(q) \/ Fail(q) \/ Release(q) \/ Announce(q) \/ Yield(q)
             \/ Reason(q) \/ RateLimited(q) \/ HandlerFails(q) \/ Checkpoint(q) \/ Complete(q)
             \/ Abort(q)
      PROVE  SlotOnward(p)
  <2>1. slot[q].pc \notin Owing
    BY <1>3 DEF FailClaimedRun, Fail, Release, Announce, Yield, Reason, RateLimited,
                HandlerFails, Checkpoint, Complete, Abort, At, Owing
  <2>2. \A o \in Procs \ {q} : slot'[o] = slot[o]
    BY <1>3 DEF FailClaimedRun, Fail, Release, Announce, Yield, Reason, RateLimited,
                HandlerFails, Checkpoint, Complete, Abort, Goto, Rest, TypeOK, ProcTypeOK
  <2> QED  BY <2>1, <2>2
<1>4. ASSUME NEW q \in Procs, CountWork(q) \/ Refresh(q) PROVE SlotOnward(p)
  <2>1. slot[q].pc \in {"refreshDone", "refreshFail", "refreshRelease"}
    BY <1>4 DEF CountWork, Refresh, AfterRefresh
  <2>2. CASE CountWork(q)
    <3>1. slot' = [slot EXCEPT ![q].tally = TallyOf(item, MyRun(q))]  BY <2>2 DEF CountWork
    <3> QED  BY <2>1, <3>1 DEF TypeOK, ProcTypeOK, SlotRow, Owing
  <2>3. CASE Refresh(q)
    <3>1. slot' = [slot EXCEPT ![q] = Moved(q, AfterRefresh[slot[q].pc])]
          /\ AfterRefresh[slot[q].pc] \in SlotPC
      BY <2>1, <2>3 DEF CountWork, Refresh, Goto, AfterRefresh, SlotPC
    <3>2. /\ slot'[q].item = slot[q].item /\ slot'[q].pc = AfterRefresh[slot[q].pc]
          /\ \A o \in Procs \ {q} : slot'[o] = slot[o]
      BY <3>1, SlotMove DEF TypeOK
    <3> QED  BY <2>1, <3>2 DEF Owing
  <2> QED  BY <1>4, <2>2, <2>3
<1>5. ASSUME NEW q \in Procs, Finalize(q) PROVE SlotOnward(p)
  <2>1. slot[q].pc = "finalize" /\ MyRun(q) \in Runs
    BY <1>5, BusySlot DEF Finalize, At, TypeOK
  <2>2. \A o \in Procs \ {q} : slot'[o] = slot[o]
    BY <1>5 DEF Finalize, Goto, Rest, TypeOK, ProcTypeOK
  <2>3. \/ runStatus'[MyRun(q)] = "COMPLETED"
        \/ ~Finalizable(MyRun(q)) /\ UNCHANGED storeVars
    BY <1>5, <2>1 DEF Finalize, FinalizeRun, TypeOK, StoreTypeOK
  <2> QED  BY <2>1, <2>2, <2>3
<1>6. ASSUME NEW q \in Procs, MarkFailed(q) PROVE SlotOnward(p)
  <2>1. slot[q].pc \in {"mark", "markAgain"} /\ MyRun(q) \in Runs
    BY <1>6, BusySlot DEF MarkFailed, TypeOK
  <2>2. \A o \in Procs \ {q} : slot'[o] = slot[o]
    BY <1>6 DEF MarkFailed, Rest, TypeOK, ProcTypeOK
  <2>3. runStatus'[MyRun(q)] = "FAILED"
    BY <1>6, <2>1 DEF MarkFailed, MarkRunFailed, TypeOK, StoreTypeOK
  <2> QED  BY <2>1, <2>2, <2>3 DEF Owing
<1>7. ASSUME \/ \E q \in Procs : Start(q) \/ Recover(q) \/ LateCheckpoint(q) \/ Renew(q)
             \/ \E q \in Procs, r \in Runs : CreateRun(q, r) \/ PlannerStep(q, r)
             \/ \E r \in Runs : CancelRun(r)
             \/ \E i \in Items : Expire(i)
      PROVE  UNCHANGED slot
  BY <1>7 DEF Start, Recover, LateCheckpoint, Renew, CreateRun, PlannerStep, StoreInput,
              PersistPlanStep, PlanThrows, FinalizePlanned, AnnouncePlanned, RecordPlanFailure,
              PlanGoto, CancelRun, Expire, procVars
<1> QED
  BY <1>1, <1>2, <1>3, <1>4, <1>5, <1>6, <1>7, NothingWentWrong DEF Next, WorkerStep

\* Who starts the processing of a run, or may end it, has finalizeRun before it.
PlannersOnward ==
  \A r \in Runs :
    /\ runStatus'[r] = "PROCESSING" =>
         runStatus[r] = "PROCESSING" \/ \E p \in Procs : task'[p][r] = "finalize"
    /\ \A p \in Procs : task[p][r] = "finalize" =>
         \/ task'[p][r] = "finalize"
         \/ runStatus'[r] = "COMPLETED"
         \/ ~Finalizable(r) /\ UNCHANGED storeVars

LEMMA NextPlannersOnward ==
  ASSUME TypeOK, Next, FaultFree'
  PROVE  PlannersOnward
<1> USE DEF PlannersOnward
<1>1. ASSUME \A r \in Runs : runStatus'[r] = "PROCESSING" => runStatus[r] = "PROCESSING",
             UNCHANGED task
      PROVE  PlannersOnward
  BY <1>1
<1>2. ASSUME NEW p \in Procs, Recover(p) PROVE PlannersOnward
  <2>1. UNCHANGED storeVars /\ task' = [task EXCEPT ![p] = [r \in Runs |->
                IF r \in Recoverable /\ hasInput[r] /\ task[p][r] = "none"
                  THEN "plan" ELSE task[p][r]]]
    BY <1>2 DEF Recover
  <2>2. ASSUME NEW q \in Procs, NEW r \in Runs, task[q][r] = "finalize"
        PROVE  task'[q][r] = "finalize"
    BY <2>1, <2>2 DEF TypeOK, ProcTypeOK
  <2> QED  BY <2>1, <2>2 DEF storeVars
<1>3. ASSUME NEW p \in Procs, NEW s \in Runs, CreateRun(p, s) \/ PlannerStep(p, s)
      PROVE  PlannersOnward
  <2>1. PICK pc : task' = [task EXCEPT ![p][s] = pc]
    BY <1>3 DEF CreateRun, PlannerStep, StoreInput, PersistPlanStep, PlanThrows,
                FinalizePlanned, AnnouncePlanned, RecordPlanFailure, PlanGoto
  <2>2. /\ task'[p][s] = pc
        /\ \A q \in Procs, r \in Runs : q # p \/ r # s => task'[q][r] = task[q][r]
    BY <2>1 DEF TypeOK, ProcTypeOK
  <2>3. ASSUME FinalizePlanned(p, s) PROVE PlannersOnward
    <3>1. /\ \A r \in Runs : runStatus'[r] = "PROCESSING" => runStatus[r] = "PROCESSING"
          /\ \/ runStatus'[s] = "COMPLETED"
             \/ ~Finalizable(s) /\ UNCHANGED storeVars
      BY <2>3 DEF FinalizePlanned, FinalizeRun, storeVars, TypeOK, StoreTypeOK
    <3> QED  BY <2>2, <3>1
  <2>4. ASSUME PersistPlanStep(p, s) PROVE PlannersOnward
    <3>1. /\ task' = [task EXCEPT ![p][s] = "finalize"] /\ task[p][s] = "plan"
          /\ \A r \in Runs \ {s} : runStatus'[r] = runStatus[r]
      BY <2>4 DEF PersistPlanStep, PersistPlan, PlanGoto, PlanAt, storeVars, TypeOK, StoreTypeOK
    <3>2. task'[p][s] = "finalize"  BY <3>1 DEF TypeOK, ProcTypeOK
    <3> QED  BY <2>2, <3>1, <3>2
  <2>5. ASSUME \/ CreateRun(p, s) \/ StoreInput(p, s) \/ PlanThrows(p, s)
               \/ AnnouncePlanned(p, s) \/ RecordPlanFailure(p, s)
        PROVE  PlannersOnward
    <3>1. task[p][s] # "finalize"
      BY <2>5 DEF CreateRun, StoreInput, PlanThrows, AnnouncePlanned, RecordPlanFailure, PlanAt
    <3>2. \A r \in Runs : runStatus'[r] = "PROCESSING" => runStatus[r] = "PROCESSING"
      BY <2>5
      DEF CreateRun, StoreInput, PlanThrows, AnnouncePlanned, RecordPlanFailure, InsertRun,
          InsertInput, AnnounceCompletion, MarkRunFailedWithTrace, MarkRunFailed, storeVars,
          TypeOK, StoreTypeOK
    <3> QED  BY <2>2, <3>1, <3>2
  <2> QED  BY <1>3, <2>3, <2>4, <2>5 DEF PlannerStep
<1>4. ASSUME NEW r \in Runs, CancelRun(r) PROVE PlannersOnward
  BY <1>1, <1>4 DEF CancelRun, CancelRunDurably, procVars, TypeOK, StoreTypeOK
<1>5. ASSUME NEW p \in Procs, FailClaimedRun(p) \/ MarkFailed(p) \/ Finalize(p)
      PROVE  PlannersOnward
  BY <1>1, <1>5 DEF FailClaimedRun, MarkFailed, Finalize, MarkRunFailed, FinalizeRun, Goto, Rest,
                    SlotOnly, storeVars, TypeOK, StoreTypeOK
<1>6. ASSUME \/ \E p \in Procs :
                  \/ Start(p) \/ Fail(p) \/ Release(p) \/ CountWork(p) \/ Refresh(p) \/ Announce(p) \/ Yield(p)
                  \/ Reason(p) \/ RateLimited(p) \/ HandlerFails(p) \/ Checkpoint(p)
                  \/ Complete(p) \/ Abort(p) \/ LateCheckpoint(p) \/ Renew(p)
             \/ \E p \in Procs, i \in Items : Claim(p, i)
             \/ \E i \in Items : Expire(i)
      PROVE  PlannersOnward
  <2>1. UNCHANGED <<runStatus, task>>
    BY <1>6
    DEF Start, Fail, Release, CountWork, Refresh, Announce, Yield, Reason, RateLimited, HandlerFails,
        Checkpoint, Complete, Abort, LateCheckpoint, Renew, Claim, ClaimAt, Expire,
        SettleWorkItem, RefreshRunWorkProgress, AnnounceCompletion, PersistResultCheckpoint,
        RenewWorkItem, ClaimWorkItem, ExpireLease, Goto, Rest, SlotOnly, procVars, storeVars
  <2> QED  BY <1>1, <2>1
<1> QED
  BY <1>2, <1>3, <1>4, <1>5, <1>6, NothingWentWrong DEF Next, WorkerStep

\* A failed run stays failed.
LEMMA FailedStays ==
  ASSUME TypeOK, Next, NEW r \in Runs, runStatus[r] = "FAILED"
  PROVE  runStatus'[r] = "FAILED"
<1>1. StoreTypeOK /\ Statement  BY NextStatement DEF TypeOK
<1>2. ASSUME NEW s \in Runs, RunStatement(s) PROVE runStatus'[r] = "FAILED"
  BY <1>1, <1>2
  DEF RunStatement, InsertRun, InsertInput, PersistPlan, FinalizeRun, Finalizable,
      AnnounceCompletion, MarkRunFailed, CancelRunDurably, RefreshRunWorkProgress, Active,
      storeVars, StoreTypeOK
<1>3. ASSUME ~\E s \in Runs : RunStatement(s) PROVE UNCHANGED runStatus
  BY <1>1, <1>3
  DEF Statement, ItemStatement, ClaimWorkItem, RenewWorkItem, SettleWorkItem,
      PersistResultCheckpoint, ExpireLease, storeVars
<1> QED  BY <1>2, <1>3

-----------------------------------------------------------------------------
(* The ends of runs.                                                        *)

EndsInv == FailedItemFailsRun /\ LastOneFinalizes

LEMMA EndsInit == Init => EndsInv
BY DEF Init, StoreInit, NoRow, FailedItemFailsRun, LastOneFinalizes, EndsInv

LEMMA FailuresTold ==
  ASSUME TypeOK, EndsInv, Next
  PROVE  FailedItemFailsRun'
<1> SUFFICES ASSUME FaultFree', NEW i \in Items, item'[i].status = "FAILED"
             PROVE  \/ runStatus'[RunOf[i]] = "FAILED"
                    \/ \E p \in Procs :
                         slot'[p].pc \in {"refreshFail", "mark"} /\ MyRun(p)' = RunOf[i]
  BY DEF FailedItemFailsRun
<1>0. FaultFree /\ RunOf[i] \in Runs  BY StoreAssumption, NothingWentWrong
<1>1. CASE item[i].status = "FAILED"
  <2>1. CASE runStatus[RunOf[i]] = "FAILED"  BY <1>0, <2>1, FailedStays
  <2>2. CASE runStatus[RunOf[i]] # "FAILED"
    <3>1. PICK p \in Procs : slot[p].pc \in {"refreshFail", "mark"} /\ MyRun(p) = RunOf[i]
      BY <1>0, <1>1, <2>2 DEF EndsInv, FailedItemFailsRun
    <3>2. SlotOnward(p)  BY NextSlotOnward
    <3>3. CASE slot'[p].item = slot[p].item /\ slot'[p].pc \in {"refreshFail", "mark"}
      BY <3>1, <3>3 DEF MyRun
    <3> QED  BY <3>1, <3>2, <3>3 DEF SlotOnward, Owing, AfterRefresh
  <2> QED  BY <2>1, <2>2
<1>2. CASE item[i].status # "FAILED"
  <2>1. PICK p \in Procs : slot'[p].item = i /\ slot'[p].pc = "refreshFail"
    BY <1>0, <1>2, NextItemsOnward DEF ItemsOnward
  <2> QED  BY <2>1 DEF MyRun
<1> QED  BY <1>1, <1>2

LEMMA EndInSight ==
  ASSUME TypeOK, TotalsExact, EndsInv, Next
  PROVE  LastOneFinalizes'
<1> SUFFICES ASSUME FaultFree', NEW r \in Runs, runStatus'[r] = "PROCESSING",
                    \A i \in ItemsOf(r) : item'[i].status = "COMPLETED"
             PROVE  \E p \in Procs :
                      \/ task'[p][r] = "finalize"
                      \/ slot'[p].pc \in {"refreshDone", "finalize"} /\ MyRun(p)' = r
  BY DEF LastOneFinalizes, PlanAt, ItemsOf
<1>0. FaultFree  BY NothingWentWrong
<1>1. CASE runStatus[r] # "PROCESSING"
  BY <1>0, <1>1, NextPlannersOnward DEF PlannersOnward
<1>2. CASE ~AllDone(r) /\ runStatus[r] = "PROCESSING"
  <2>1. PICK i \in ItemsOf(r) : item[i].status # "COMPLETED"  BY <1>2 DEF AllDone
  <2>2. i \in Items /\ RunOf[i] = r  BY DEF ItemsOf
  <2>3. PICK p \in Procs : slot'[p].item = i /\ slot'[p].pc = "refreshDone"
    BY <1>0, <2>1, <2>2, NextItemsOnward DEF ItemsOnward
  <2> QED  BY <2>2, <2>3 DEF MyRun
<1>3. CASE AllDone(r)
  <2>1. Finalizable(r)  BY <1>0, <1>3, DoneIsFinalizable
  <2>2. PICK p \in Procs : \/ task[p][r] = "finalize"
                           \/ slot[p].pc \in {"refreshDone", "finalize"} /\ MyRun(p) = r
    BY <1>0, <1>3 DEF AllDone, EndsInv, LastOneFinalizes, PlanAt
  <2>3. CASE task[p][r] = "finalize"
    BY <1>0, <2>1, <2>3, NextPlannersOnward DEF PlannersOnward
  <2>4. CASE slot[p].pc \in {"refreshDone", "finalize"} /\ MyRun(p) = r
    <3>1. SlotOnward(p)  BY <1>0, NextSlotOnward
    <3>2. slot'[p].item = slot[p].item /\ slot'[p].pc \in {"refreshDone", "finalize"}
      BY <2>1, <2>4, <3>1 DEF SlotOnward, Owing, AfterRefresh
    <3> QED  BY <2>4, <3>2 DEF MyRun
  <2> QED  BY <2>2, <2>3, <2>4
<1> QED  BY <1>1, <1>2, <1>3

LEMMA EndsStep == TypeOK /\ TotalsExact /\ EndsInv /\ [Next]_vars => EndsInv'
<1> SUFFICES ASSUME TypeOK, TotalsExact, EndsInv, [Next]_vars PROVE EndsInv'  OBVIOUS
<1>1. CASE Next
  BY <1>1, FailuresTold, EndInSight DEF EndsInv
<1>2. CASE UNCHANGED vars
  BY <1>2 DEF vars, storeVars, procVars, budgetVars, EndsInv, FailedItemFailsRun,
              LastOneFinalizes, FaultFree, MyRun, PlanAt
<1> QED  BY <1>1, <1>2

LEMMA EndsInvariant == Spec => []EndsInv
BY EndsInit, EndsStep, TotalsAreExact, TypeCorrect, PTL DEF Spec

(* Until a process crashes or a statement is rejected, a failed item fails  *)
(* its run, at once or by a step a worker still has before it, whoever      *)
(* takes over leases or cancels (reconciliation-job-worker.ts:72-75).       *)
THEOREM FailuresReachTheRun == Spec => []FailedItemFailsRun
<1>1. EndsInv => FailedItemFailsRun  BY DEF EndsInv
<1> QED  BY <1>1, EndsInvariant, PTL

(* Until then a run whose work is all done is never left behind: planners   *)
(* and workers leave its end to each other, yet one of them still has       *)
(* finalizeRun before it (run-service.ts:117-134).                          *)
THEOREM SomeoneFinalizes == Spec => []LastOneFinalizes
<1>1. EndsInv => LastOneFinalizes  BY DEF EndsInv
<1> QED  BY <1>1, EndsInvariant, PTL

-----------------------------------------------------------------------------
(* Who a run and its work are in the hands of.                              *)

\* Where an attempt is as long as its item may be leased to it.
Attempting == {"reason", "write", "complete", "fail", "release"}

\* Until something goes wrong a leased item is being worked on by its owner.
LeasesHeld ==
  FaultFree => \A i \in Items : item[i].status = "LEASED" =>
    \E p \in Procs : item[i].owner = p /\ slot[p].item = i /\ slot[p].pc \in Attempting

\* Until something goes wrong a run whose input is stored and that is not
\* planned yet has a planner.
PlanAwaited ==
  FaultFree => \A r \in Runs : hasInput[r] /\ runStatus[r] = "PENDING" =>
    \E p \in Procs : task[p][r] \in {"plan", "failing"}

InputsHaveRuns == \A r \in Runs : hasInput[r] => runStatus[r] # "ABSENT"

\* A step of an attempt gives its item up only by changing the item's row, or
\* when it does not hold it.
LeasesOnward(i) ==
  item'[i].status = "LEASED" =>
    \/ \E p \in Procs : item'[i].owner = p /\ slot'[p].item = i /\ slot'[p].pc = "reason"
    \/ /\ item[i].status = "LEASED" /\ item'[i].owner = item[i].owner
       /\ \A p \in Procs : item[i].owner = p /\ slot[p].item = i /\ slot[p].pc \in Attempting
                             => slot'[p].item = i /\ slot'[p].pc \in Attempting

LEMMA NextLeasesOnward ==
  ASSUME TypeOK, Next, FaultFree', NEW i \in Items
  PROVE  LeasesOnward(i)
<1> USE DEF LeasesOnward, Attempting
<1>1. ASSUME UNCHANGED slot, item'[i].status = "LEASED" =>
                 item[i].status = "LEASED" /\ item'[i].owner = item[i].owner
      PROVE  LeasesOnward(i)
  BY <1>1
<1>2. ASSUME NEW p \in Procs, NEW j \in Items, Claim(p, j) PROVE LeasesOnward(i)
  <2>1. /\ item' = [item EXCEPT ![j] = [status |-> "LEASED", owner |-> p,
                                         expired |-> FALSE, attempts |-> Attempts(j)]]
        /\ slot' = [slot EXCEPT ![p] = Attempt("reason", j, Attempts(j))]
        /\ slot[p].pc = "idle"
    BY <1>2 DEF Claim, ClaimAt, ClaimWorkItem, At
  <2>2. slot'[p].item = j /\ slot'[p].pc = "reason"
        /\ \A q \in Procs \ {p} : slot'[q] = slot[q]
    BY <2>1 DEF Attempt, TypeOK, ProcTypeOK
  <2>3. CASE i = j
    <3>1. item'[i].owner = p  BY <2>1, <2>3 DEF TypeOK, StoreTypeOK
    <3> QED  BY <2>2, <2>3, <3>1
  <2>4. CASE i # j
    <3>1. item'[i] = item[i]  BY <2>1, <2>4 DEF TypeOK, StoreTypeOK
    <3> QED  BY <2>1, <2>2, <3>1
  <2> QED  BY <2>3, <2>4
<1>3. ASSUME NEW p \in Procs, Complete(p) \/ Fail(p) \/ Release(p) PROVE LeasesOnward(i)
  <2>1. \A q \in Procs \ {p} : slot'[q] = slot[q]
    BY <1>3 DEF Complete, Fail, Release, Goto, Rest, TypeOK, ProcTypeOK
  <2>2. ASSUME ~Holds(p, slot[p].item), UNCHANGED storeVars PROVE LeasesOnward(i)
    BY <2>1, <2>2 DEF storeVars, Holds
  <2>3. ASSUME NEW status \in {"PENDING", "COMPLETED", "FAILED"},
               SettleWorkItem(p, slot[p].item, status)
        PROVE  LeasesOnward(i)
    <3>1. \A j \in Items : item'[j] = IF j = slot[p].item THEN Unleased(j, status) ELSE item[j]
      BY <2>3 DEF SettleWorkItem, TypeOK, StoreTypeOK
    <3>2. CASE i = slot[p].item
      <4>1. item'[i] = Unleased(i, status)  BY <3>1, <3>2
      <4>2. item'[i].status = status  BY <4>1 DEF Unleased
      <4> QED  BY <2>3, <4>2
    <3>3. CASE i # slot[p].item  BY <2>1, <3>1, <3>3
    <3> QED  BY <3>2, <3>3
  <2> QED  BY <1>3, <2>2, <2>3 DEF Complete, Fail, Release
<1>4. ASSUME NEW p \in Procs,
             Reason(p) \/ RateLimited(p) \/ HandlerFails(p) \/ Checkpoint(p) \/ Abort(p)
      PROVE  LeasesOnward(i)
  <2>1. UNCHANGED item
    BY <1>4 DEF Reason, RateLimited, HandlerFails, Checkpoint, Abort, PersistResultCheckpoint,
                storeVars
  <2>2. CASE Reason(p)
    <3>1. PICK o \in Outcomes : slot' = [slot EXCEPT ![p] = [Moved(p, "write") EXCEPT !.outcome = o]]
      BY <2>2 DEF Reason
    <3> QED  BY <2>1, <3>1 DEF Moved, Attempt, TypeOK, ProcTypeOK
  <2>3. CASE ~Reason(p)
    <3>1. PICK pc \in Attempting : slot' = [slot EXCEPT ![p] = Moved(p, pc)]
      BY <1>4, <2>3 DEF RateLimited, HandlerFails, Checkpoint, Abort, Goto
    <3> QED  BY <2>1, <3>1, SlotMove DEF SlotPC, TypeOK
  <2> QED  BY <2>2, <2>3
<1>5. ASSUME NEW p \in Procs,
             \/ FailClaimedRun(p) \/ CountWork(p) \/ Refresh(p) \/ Finalize(p) \/ Announce(p) \/ Yield(p)
             \/ MarkFailed(p)
      PROVE  LeasesOnward(i)
  <2>1. UNCHANGED item
    BY <1>5 DEF FailClaimedRun, CountWork, Refresh, Finalize, Announce, Yield, MarkFailed, MarkRunFailed,
                RefreshRunWorkProgress, FinalizeRun, AnnounceCompletion, storeVars
  <2>2. slot[p].pc \notin Attempting
    BY <1>5 DEF FailClaimedRun, CountWork, Refresh, AfterRefresh, Finalize, Announce, Yield, MarkFailed, At
  <2>3. \A q \in Procs \ {p} : slot'[q] = slot[q]
    BY <1>5 DEF FailClaimedRun, CountWork, Refresh, Finalize, Announce, Yield, MarkFailed, Goto, Rest,
                TypeOK, ProcTypeOK
  <2> QED  BY <2>1, <2>2, <2>3
<1>6. ASSUME NEW p \in Procs, Start(p) \/ Recover(p) \/ LateCheckpoint(p) \/ Renew(p)
      PROVE  LeasesOnward(i)
  BY <1>1, <1>6 DEF Start, Recover, LateCheckpoint, PersistResultCheckpoint, Renew, RenewWorkItem,
                    procVars, storeVars, TypeOK, StoreTypeOK, ItemRow
<1>7. ASSUME NEW p \in Procs, NEW r \in Runs, CreateRun(p, r) \/ PlannerStep(p, r)
      PROVE  LeasesOnward(i)
  <2>1. UNCHANGED slot /\ (UNCHANGED item \/ item' = Planted(r))
    BY <1>7 DEF CreateRun, PlannerStep, StoreInput, PersistPlanStep, PlanThrows, FinalizePlanned,
                AnnouncePlanned, RecordPlanFailure, PlanGoto, InsertRun, InsertInput, PersistPlan,
                FinalizeRun, AnnounceCompletion, MarkRunFailedWithTrace, MarkRunFailed, storeVars
  <2> QED  BY <1>1, <2>1 DEF Planted, TypeOK, StoreTypeOK, ItemRow
<1>8. ASSUME NEW r \in Runs, CancelRun(r) PROVE LeasesOnward(i)
  BY <1>1, <1>8 DEF CancelRun, CancelRunDurably, Withdrawn, Unleased, procVars
<1>9. ASSUME NEW j \in Items, Expire(j) PROVE LeasesOnward(i)
  BY <1>1, <1>9 DEF Expire, ExpireLease, procVars, TypeOK, StoreTypeOK, ItemRow
<1> QED
  BY <1>2, <1>3, <1>4, <1>5, <1>6, <1>7, <1>8, <1>9, NothingWentWrong DEF Next, WorkerStep

LEMMA LeasesStep ==
  ASSUME TypeOK, LeasesHeld, Next
  PROVE  LeasesHeld'
<1> SUFFICES ASSUME FaultFree', NEW i \in Items, item'[i].status = "LEASED"
             PROVE  \E p \in Procs : /\ item'[i].owner = p
                                     /\ slot'[p].item = i /\ slot'[p].pc \in Attempting
  BY DEF LeasesHeld
<1>1. FaultFree /\ LeasesOnward(i)  BY NothingWentWrong, NextLeasesOnward
<1> QED  BY <1>1 DEF LeasesOnward, LeasesHeld, Attempting

-----------------------------------------------------------------------------
\* Only startRun stores the input of a run.
LEMMA InputStored ==
  ASSUME TypeOK, Next, NEW r \in Runs, hasInput'[r], ~hasInput[r]
  PROVE  \E p \in Procs : StoreInput(p, r)
<1>1. hasInput # hasInput'  OBVIOUS
<1>2. ASSUME NEW p \in Procs, NEW s \in Runs,
             CreateRun(p, s) \/ PlannerStep(p, s) \/ PlannerDbError(p, s)
      PROVE  StoreInput(p, r)
  <2>1. StoreInput(p, s)
    BY <1>1, <1>2
    DEF CreateRun, PlannerStep, PersistPlanStep, PlanThrows, FinalizePlanned, AnnouncePlanned,
        RecordPlanFailure, PlannerDbError, InsertRun, PersistPlan, FinalizeRun,
        AnnounceCompletion, MarkRunFailedWithTrace, MarkRunFailed, storeVars
  <2>2. r = s  BY <2>1 DEF StoreInput, InsertInput, TypeOK, StoreTypeOK
  <2> QED  BY <2>1, <2>2
<1>3. ~\E p \in Procs : \/ Start(p) \/ Recover(p) \/ Crash(p) \/ WorkerStep(p) \/ Reason(p)
                        \/ RateLimited(p) \/ HandlerFails(p) \/ Checkpoint(p) \/ Complete(p)
                        \/ Abort(p) \/ LateCheckpoint(p) \/ DbError(p) \/ Renew(p)
  BY <1>1
  DEF Start, Recover, Crash, WorkerStep, FailClaimedRun, Fail, Release, CountWork, Refresh, Finalize,
      Announce, Yield, MarkFailed, Reason, RateLimited, HandlerFails, Checkpoint, Complete, Abort,
      LateCheckpoint, DbError, Renew, SettleWorkItem, RefreshRunWorkProgress, FinalizeRun,
      AnnounceCompletion, MarkRunFailed, PersistResultCheckpoint, RenewWorkItem, storeVars
<1>4. /\ ~\E p \in Procs, i \in Items : Claim(p, i) \/ ClaimUnlogged(p, i)
      /\ ~\E s \in Runs : CancelRun(s)
      /\ ~\E i \in Items : Expire(i)
  BY <1>1 DEF Claim, ClaimUnlogged, ClaimAt, ClaimWorkItem, CancelRun, CancelRunDurably, Expire,
              ExpireLease
<1> QED  BY <1>2, <1>3, <1>4 DEF Next

LEMMA InputsStep ==
  ASSUME IInv, InputsHaveRuns, Next
  PROVE  InputsHaveRuns'
<1> SUFFICES ASSUME NEW r \in Runs, hasInput'[r] PROVE runStatus'[r] # "ABSENT"
  BY DEF InputsHaveRuns
<1>1. StoreTypeOK /\ Statement /\ TypeOK  BY NextStatement DEF TypeOK, IInv
<1>2. ASSUME runStatus[r] # "ABSENT" PROVE runStatus'[r] # "ABSENT"
  BY <1>1, <1>2
  DEF Statement, RunStatement, ItemStatement, InsertRun, InsertInput, PersistPlan, FinalizeRun,
      AnnounceCompletion, MarkRunFailed, CancelRunDurably, RefreshRunWorkProgress, ClaimWorkItem,
      RenewWorkItem, SettleWorkItem, PersistResultCheckpoint, ExpireLease, storeVars, StoreTypeOK
<1>3. CASE hasInput[r]  BY <1>2, <1>3 DEF InputsHaveRuns
<1>4. CASE ~hasInput[r]
  <2>1. PICK p \in Procs : StoreInput(p, r)  BY <1>1, <1>4, InputStored
  <2> QED  BY <1>2, <2>1 DEF StoreInput, PlanAt, IInv, ActorsHaveRuns
<1> QED  BY <1>3, <1>4

\* A run that is still PENDING after a step keeps the planner it had.
PlannersStay(r) ==
  /\ runStatus'[r] = "PENDING" => runStatus[r] \in {"ABSENT", "PENDING"}
  /\ runStatus'[r] = "PENDING" => \A p \in Procs :
       task[p][r] \in {"plan", "failing"} => task'[p][r] \in {"plan", "failing"}

LEMMA NextPlannersStay ==
  ASSUME IInv, Next, FaultFree', NEW r \in Runs
  PROVE  PlannersStay(r)
<1> USE DEF PlannersStay
<1>0. TypeOK /\ StoreTypeOK /\ Statement  BY NextStatement DEF IInv, TypeOK
<1>1. runStatus'[r] = "PENDING" => runStatus[r] \in {"ABSENT", "PENDING"}
  BY <1>0
  DEF Statement, RunStatement, ItemStatement, InsertRun, InsertInput, PersistPlan, FinalizeRun,
      AnnounceCompletion, MarkRunFailed, CancelRunDurably, RefreshRunWorkProgress, ClaimWorkItem,
      RenewWorkItem, SettleWorkItem, PersistResultCheckpoint, ExpireLease, storeVars, StoreTypeOK
<1>2. CASE UNCHANGED task  BY <1>1, <1>2
<1>3. ASSUME NEW p \in Procs, Recover(p) PROVE PlannersStay(r)
  BY <1>0, <1>1, <1>3 DEF Recover, TypeOK, ProcTypeOK
<1>4. ASSUME NEW p \in Procs, NEW s \in Runs, CreateRun(p, s) \/ PlannerStep(p, s)
      PROVE  PlannersStay(r)
  <2>1. PICK pc : task' = [task EXCEPT ![p][s] = pc]
    BY <1>4 DEF CreateRun, PlannerStep, StoreInput, PersistPlanStep, PlanThrows,
                FinalizePlanned, AnnouncePlanned, RecordPlanFailure, PlanGoto
  <2>2. /\ task'[p][s] = pc
        /\ \A q \in Procs : q # p \/ r # s => task'[q][r] = task[q][r]
    BY <1>0, <2>1 DEF TypeOK, ProcTypeOK
  <2>3. CASE task[p][s] \notin {"plan", "failing"}  BY <1>1, <2>2, <2>3
  <2>4. CASE PersistPlanStep(p, s)
    <3>1. runStatus'[s] # "PENDING"
      BY <1>0, <2>4 DEF PersistPlanStep, PersistPlan, Active, storeVars, StoreTypeOK
    <3> QED  BY <1>1, <2>2, <3>1
  <2>5. CASE PlanThrows(p, s)
    <3>1. task'[p][s] = "failing"
      BY <1>0, <2>5 DEF PlanThrows, PlanGoto, TypeOK, ProcTypeOK
    <3> QED  BY <1>1, <2>2, <3>1
  <2>6. CASE RecordPlanFailure(p, s)
    <3>1. runStatus'[s] # "PENDING"
      BY <1>0, <2>6 DEF RecordPlanFailure, MarkRunFailedWithTrace, MarkRunFailed, storeVars,
                        StoreTypeOK, IInv, PlanStored
    <3> QED  BY <1>1, <2>2, <3>1
  <2> QED
    BY <1>4, <2>3, <2>4, <2>5, <2>6
    DEF PlannerStep, CreateRun, StoreInput, FinalizePlanned, AnnouncePlanned, PlanAt
<1>5. \/ UNCHANGED task
      \/ \E p \in Procs : Recover(p)
      \/ \E p \in Procs, s \in Runs : CreateRun(p, s) \/ PlannerStep(p, s)
  BY <1>0, NothingWentWrong
  DEF Next, Start, WorkerStep, FailClaimedRun, Fail, Release, CountWork, Refresh, Finalize, Announce, Yield,
      MarkFailed, Goto, Rest, SlotOnly, Reason, RateLimited, HandlerFails, Checkpoint, Complete,
      Abort, LateCheckpoint, Renew, Claim, ClaimAt, CancelRun, Expire, procVars
<1> QED  BY <1>2, <1>3, <1>4, <1>5

LEMMA PlansStep ==
  ASSUME IInv, InputsHaveRuns, PlanAwaited, Next
  PROVE  PlanAwaited'
<1> SUFFICES ASSUME FaultFree', NEW r \in Runs, hasInput'[r], runStatus'[r] = "PENDING"
             PROVE  \E p \in Procs : task'[p][r] \in {"plan", "failing"}
  BY DEF PlanAwaited
<1>1. TypeOK  BY DEF IInv
<1>2. FaultFree /\ PlannersStay(r)  BY <1>1, NothingWentWrong, NextPlannersStay
<1>3. CASE hasInput[r]
  <2>1. runStatus[r] = "PENDING"  BY <1>2, <1>3 DEF PlannersStay, InputsHaveRuns
  <2> QED  BY <1>2, <1>3, <2>1 DEF PlannersStay, PlanAwaited
<1>4. CASE ~hasInput[r]
  <2>1. PICK p \in Procs : StoreInput(p, r)  BY <1>1, <1>4, InputStored
  <2>2. task'[p][r] = "plan"  BY <1>1, <2>1 DEF StoreInput, PlanGoto, TypeOK, ProcTypeOK
  <2> QED  BY <2>2
<1> QED  BY <1>3, <1>4

-----------------------------------------------------------------------------
HandsInv == LeasesHeld /\ PlanAwaited /\ InputsHaveRuns

LEMMA HandsInvariant == Spec => []HandsInv
<1>1. Init => HandsInv
  BY DEF Init, StoreInit, NoRow, HandsInv, LeasesHeld, PlanAwaited, InputsHaveRuns
<1>2. IInv /\ HandsInv /\ [Next]_vars => HandsInv'
  <2> SUFFICES ASSUME IInv, HandsInv, [Next]_vars PROVE HandsInv'  OBVIOUS
  <2>1. CASE Next
    BY <2>1, LeasesStep, InputsStep, PlansStep DEF HandsInv, IInv
  <2>2. CASE UNCHANGED vars
    BY <2>2 DEF vars, storeVars, procVars, budgetVars, HandsInv, LeasesHeld, PlanAwaited,
                InputsHaveRuns, FaultFree
  <2> QED  BY <2>1, <2>2
<1> QED  BY <1>1, <1>2, InductiveInvariant, PTL DEF Spec

(* Until a process crashes or a statement is rejected, whoever holds a      *)
(* lease works on it: stalls, reclaims, releases and cancellations leave no *)
(* leased item without the attempt that will settle it                      *)
(* (reconciliation-job-worker.ts:27-76).                                    *)
THEOREM LeasesAreWorkedOn == Spec => []LeasesHeld
<1>1. HandsInv => LeasesHeld  BY DEF HandsInv
<1> QED  BY <1>1, HandsInvariant, PTL

(* Until then an accepted run that has not ended is in somebody's hands: a  *)
(* planner or a worker has a step to take for it, or some of its work is    *)
(* queued or leased.  It is what EveryRunSettles needs besides fairness.    *)
THEOREM RunsKeepSomeone == Spec => []NoRunForsaken
<1>1. IInv /\ EndsInv /\ HandsInv => NoRunForsaken
  <2> SUFFICES ASSUME IInv, EndsInv, HandsInv, FaultFree, NEW r \in Runs,
                      hasInput[r], Active(r), Forsaken(r)
               PROVE  FALSE
    BY DEF NoRunForsaken
  <2>1. /\ \A p \in Procs : task[p][r] = "none" /\ (slot[p].pc # "idle" => MyRun(p) # r)
        /\ \A i \in ItemsOf(r) : item[i].status \notin {"PENDING", "LEASED"}
    BY DEF Forsaken, PlanAt, At
  <2>2. runStatus[r] = "PROCESSING"
    BY <2>1 DEF HandsInv, PlanAwaited, Active
  <2>3. ASSUME NEW i \in ItemsOf(r) PROVE item[i].status = "COMPLETED"
    <3>1. i \in Items /\ RunOf[i] = r  BY DEF ItemsOf
    <3>2. item[i].status # "ABSENT" /\ item[i].status # "CANCELLED"
      BY <2>2, <3>1 DEF IInv, PlanStored, RowsSettle
    <3>3. item[i].status # "FAILED"
      BY <2>1, <2>2, <3>1 DEF EndsInv, FailedItemFailsRun
    <3>4. item[i].status \in ItemState
      BY <3>1 DEF IInv, TypeOK, StoreTypeOK, ItemRow
    <3> QED  BY <2>1, <3>2, <3>3, <3>4 DEF ItemState
  <2>4. PICK p \in Procs : \/ task[p][r] = "finalize"
                           \/ slot[p].pc \in {"refreshDone", "finalize"} /\ MyRun(p) = r
    BY <2>2, <2>3 DEF EndsInv, LastOneFinalizes, PlanAt
  <2> QED  BY <2>1, <2>4
<1> QED  BY <1>1, InductiveInvariant, EndsInvariant, HandsInvariant, PTL

-----------------------------------------------------------------------------
(* The end of a run in its trace.                                           *)

\* Until something goes wrong the trace of a completed run has the event, or
\* whoever won finalizeRun still has it before it.
CompletionTold ==
  FaultFree => \A r \in Runs : runStatus[r] = "COMPLETED" =>
    \/ r \in announced
    \/ \E p \in Procs : task[p][r] = "announce" \/ (At(p, "announce") /\ MyRun(p) = r)

\* A step that completes a run leaves its author about to store the event, and
\* an author lets go of it only by storing it.
AuthorsOnward(r) ==
  /\ announced \subseteq announced'
  /\ runStatus'[r] = "COMPLETED" =>
       \/ runStatus[r] = "COMPLETED"
       \/ \E p \in Procs : \/ task'[p][r] = "announce"
                           \/ slot'[p].pc = "announce" /\ RunOf[slot'[p].item] = r
  /\ \A p \in Procs :
       /\ task[p][r] = "announce" => task'[p][r] = "announce" \/ r \in announced'
       /\ slot[p].pc = "announce" /\ RunOf[slot[p].item] = r =>
            slot'[p] = slot[p] \/ r \in announced'

LEMMA NextAuthorsOnward ==
  ASSUME TypeOK, Next, FaultFree', NEW r \in Runs
  PROVE  AuthorsOnward(r)
<1> USE DEF AuthorsOnward, MyRun
<1>1. ASSUME NEW p \in Procs, NEW i \in Items, Claim(p, i) PROVE AuthorsOnward(r)
  BY <1>1 DEF Claim, ClaimAt, ClaimWorkItem, At, TypeOK, ProcTypeOK
<1>2. ASSUME NEW p \in Procs, Complete(p) \/ Fail(p) \/ Release(p) PROVE AuthorsOnward(r)
  BY <1>2 DEF Complete, Fail, Release, Goto, Rest, SlotOnly, At, SettleWorkItem, storeVars,
              TypeOK, ProcTypeOK
<1>3. ASSUME NEW p \in Procs,
             \/ Reason(p) \/ RateLimited(p) \/ HandlerFails(p) \/ Checkpoint(p) \/ Abort(p)
             \/ CountWork(p) \/ Refresh(p) \/ Yield(p)
      PROVE  AuthorsOnward(r)
  <2>1. UNCHANGED <<task, runStatus, announced>>
    BY <1>3 DEF Reason, RateLimited, HandlerFails, Checkpoint, Abort, CountWork, Refresh, Yield, Goto, Rest,
                SlotOnly, PersistResultCheckpoint, RefreshRunWorkProgress, storeVars
  <2>2. slot[p].pc # "announce" /\ \A q \in Procs \ {p} : slot'[q] = slot[q]
    BY <1>3 DEF Reason, RateLimited, HandlerFails, Checkpoint, Abort, CountWork, Refresh, AfterRefresh,
                Yield, Goto, Rest, At, TypeOK, ProcTypeOK
  <2> QED  BY <2>1, <2>2
<1>4. ASSUME NEW p \in Procs, FailClaimedRun(p) \/ MarkFailed(p) PROVE AuthorsOnward(r)
  <2>1. UNCHANGED <<task, announced>> /\ runStatus' = [runStatus EXCEPT ![MyRun(p)] = "FAILED"]
    BY <1>4 DEF FailClaimedRun, MarkFailed, MarkRunFailed, Goto, Rest, SlotOnly
  <2>2. slot[p].pc # "announce" /\ \A q \in Procs \ {p} : slot'[q] = slot[q]
    BY <1>4 DEF FailClaimedRun, MarkFailed, Goto, Rest, At, TypeOK, ProcTypeOK
  <2> QED  BY <2>1, <2>2 DEF TypeOK, StoreTypeOK
<1>5. ASSUME NEW p \in Procs, Finalize(p) PROVE AuthorsOnward(r)
  <2>1. UNCHANGED <<task, announced>> /\ slot[p].pc = "finalize"
        /\ \A q \in Procs \ {p} : slot'[q] = slot[q]
    BY <1>5 DEF Finalize, FinalizeRun, Goto, Rest, SlotOnly, At, storeVars, TypeOK, ProcTypeOK
  <2>2. CASE UNCHANGED storeVars  BY <2>1, <2>2 DEF storeVars
  <2>3. CASE FinalizeRun(MyRun(p)) /\ Goto(p, "announce")
    <3>1. slot'[p].pc = "announce" /\ slot'[p].item = slot[p].item
      BY <2>3, SlotMove DEF Goto, SlotPC, TypeOK
    <3>2. r = MyRun(p) \/ runStatus'[r] = runStatus[r]
      BY <2>3 DEF FinalizeRun, TypeOK, StoreTypeOK
    <3> QED  BY <2>1, <3>1, <3>2
  <2> QED  BY <1>5, <2>2, <2>3 DEF Finalize
<1>6. ASSUME NEW p \in Procs, Announce(p) PROVE AuthorsOnward(r)
  BY <1>6 DEF Announce, AnnounceCompletion, Rest, SlotOnly, TypeOK, ProcTypeOK
<1>7. ASSUME NEW p \in Procs, LateCheckpoint(p) \/ Renew(p) PROVE AuthorsOnward(r)
  BY <1>7 DEF LateCheckpoint, Renew, RenewWorkItem, PersistResultCheckpoint, procVars
<1>8. ASSUME NEW p \in Procs, Start(p) \/ Recover(p) PROVE AuthorsOnward(r)
  <2>1. UNCHANGED <<runStatus, announced, slot>>  BY <1>8 DEF Start, Recover, storeVars
  <2>2. \A q \in Procs : task[q][r] = "announce" => task'[q][r] = "announce"
    BY <1>8 DEF Start, Recover, TypeOK, ProcTypeOK
  <2> QED  BY <2>1, <2>2
<1>9. ASSUME NEW p \in Procs, NEW s \in Runs, CreateRun(p, s) \/ PlannerStep(p, s)
      PROVE  AuthorsOnward(r)
  <2>1. UNCHANGED slot
    BY <1>9 DEF CreateRun, PlannerStep, StoreInput, PersistPlanStep, PlanThrows, FinalizePlanned,
                AnnouncePlanned, RecordPlanFailure, PlanGoto
  <2>2. ASSUME FinalizePlanned(p, s) PROVE AuthorsOnward(r)
    <3>1. announced' = announced /\ task[p][s] = "finalize"
      BY <2>2 DEF FinalizePlanned, FinalizeRun, PlanAt, storeVars
    <3>2. \A q \in Procs : task[q][r] = "announce" => task'[q][r] = "announce"
      BY <2>2, <3>1 DEF FinalizePlanned, PlanGoto, TypeOK, ProcTypeOK
    <3>3. CASE FinalizeRun(s) /\ PlanGoto(p, s, "announce")
      <4>1. r # s => runStatus'[r] = runStatus[r]
        BY <3>3 DEF FinalizeRun, TypeOK, StoreTypeOK
      <4>2. task'[p][s] = "announce"  BY <3>3 DEF PlanGoto, TypeOK, ProcTypeOK
      <4> QED  BY <2>1, <3>1, <3>2, <4>1, <4>2
    <3>4. CASE UNCHANGED storeVars  BY <2>1, <3>1, <3>2, <3>4 DEF storeVars
    <3> QED  BY <2>2, <3>3, <3>4 DEF FinalizePlanned
  <2>3. ASSUME AnnouncePlanned(p, s) PROVE AuthorsOnward(r)
    BY <2>1, <2>3 DEF AnnouncePlanned, AnnounceCompletion, PlanGoto, PlanAt, TypeOK, ProcTypeOK
  <2>4. ASSUME \/ CreateRun(p, s) \/ StoreInput(p, s) \/ PersistPlanStep(p, s)
               \/ PlanThrows(p, s) \/ RecordPlanFailure(p, s)
        PROVE  AuthorsOnward(r)
    <3>1. announced' = announced /\ (runStatus'[r] = "COMPLETED" => runStatus[r] = "COMPLETED")
      BY <2>4 DEF CreateRun, StoreInput, PersistPlanStep, PlanThrows, RecordPlanFailure,
                  InsertRun, InsertInput, PersistPlan, MarkRunFailedWithTrace, MarkRunFailed,
                  storeVars, TypeOK, StoreTypeOK
    <3>2. \A q \in Procs : task[q][r] = "announce" => task'[q][r] = "announce"
      BY <2>4 DEF CreateRun, StoreInput, PersistPlanStep, PlanThrows, RecordPlanFailure,
                  PlanGoto, PlanAt, TypeOK, ProcTypeOK
    <3> QED  BY <2>1, <3>1, <3>2
  <2> QED  BY <1>9, <2>2, <2>3, <2>4 DEF PlannerStep
<1>10. ASSUME NEW s \in Runs, CancelRun(s) PROVE AuthorsOnward(r)
  BY <1>10 DEF CancelRun, CancelRunDurably, procVars, TypeOK, StoreTypeOK
<1>11. ASSUME NEW i \in Items, Expire(i) PROVE AuthorsOnward(r)
  BY <1>11 DEF Expire, ExpireLease, procVars
<1> QED
  BY <1>1, <1>2, <1>3, <1>4, <1>5, <1>6, <1>7, <1>8, <1>9, <1>10, <1>11, NothingWentWrong
  DEF Next, WorkerStep

(* Until something goes wrong a completed run is announced: whichever of    *)
(* the planners and workers wins finalizeRun stores RUN_COMPLETED, and no   *)
(* abort, takeover or restart of others keeps it from that                  *)
(* (run-service.ts:117-134).                                                *)
THEOREM CompletionIsTold == Spec => []CompletionTold
<1>1. Init => CompletionTold  BY DEF Init, StoreInit, CompletionTold
<1>2. TypeOK /\ CompletionTold /\ [Next]_vars => CompletionTold'
  <2> SUFFICES ASSUME TypeOK, CompletionTold, [Next]_vars, FaultFree', NEW r \in Runs,
                      runStatus'[r] = "COMPLETED"
               PROVE  \/ r \in announced'
                      \/ \E p \in Procs : \/ task'[p][r] = "announce"
                                          \/ slot'[p].pc = "announce" /\ RunOf[slot'[p].item] = r
    BY DEF CompletionTold, At, MyRun
  <2>1. CASE Next
    <3>1. FaultFree /\ AuthorsOnward(r)  BY <2>1, NothingWentWrong, NextAuthorsOnward
    <3>2. CASE runStatus[r] # "COMPLETED"  BY <3>1, <3>2 DEF AuthorsOnward
    <3>3. CASE runStatus[r] = "COMPLETED"
      <4>1. CASE r \in announced  BY <3>1, <4>1 DEF AuthorsOnward
      <4>2. CASE r \notin announced
        <5>1. PICK p \in Procs : \/ task[p][r] = "announce"
                                 \/ slot[p].pc = "announce" /\ RunOf[slot[p].item] = r
          BY <3>1, <3>3, <4>2 DEF CompletionTold, At, MyRun
        <5> QED  BY <3>1, <5>1 DEF AuthorsOnward
      <4> QED  BY <4>1, <4>2
    <3> QED  BY <3>2, <3>3
  <2>2. CASE UNCHANGED vars
    BY <2>2 DEF vars, storeVars, procVars, budgetVars, CompletionTold, FaultFree, At, MyRun
  <2> QED  BY <2>1, <2>2
<1> QED  BY <1>1, <1>2, TypeCorrect, PTL DEF Spec

=============================================================================
