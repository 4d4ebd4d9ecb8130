---------------------------- MODULE DurableRuns ----------------------------
(***************************************************************************)
(* Durable reconciliation runs: the planner (run-service.ts), the leased   *)
(* job worker (reconciliation-job-worker.ts) and start-up recovery         *)
(* (server.ts), in several API processes over one RunStore.                *)
(*                                                                         *)
(* A process of Procs is one life of an API process: it draws a fresh      *)
(* lease_owner when it starts, so a restart is another member of Procs.    *)
(* Each await between two statements of the store is a program counter     *)
(* value; anything another process does fits in between.                   *)
(*                                                                         *)
(* Faults: a process may crash anywhere; a statement may be rejected       *)
(* (DbError, PlannerDbError: the statement had no effect); the lease of a  *)
(* process that still works on the item may run out.  Each has a budget.   *)
(***************************************************************************)
EXTENDS RunStore

CONSTANTS
  MaxCrashes,   \* how many processes may crash
  MaxDbErrors,  \* how many statements may be rejected
  MaxStalls     \* how many leases may run out under a working holder

ASSUME BudgetAssumption == MaxCrashes \in Nat /\ MaxDbErrors \in Nat /\ MaxStalls \in Nat

VARIABLES
  boot,      \* where each process is in its life
  task,      \* planDurableRun / createRun: one program counter per process and run
  slot,      \* processOne: the worker's single slot (its concurrency is 1)
  late,      \* handlers past their abort check whose slice has ended
  dbErrors,  \* statements rejected so far
  stalls     \* live leases that ran out so far

procVars   == <<boot, task, slot, late>>
budgetVars == <<dbErrors, stalls>>
vars       == <<storeVars, procVars, budgetVars>>

PlanPC == {"none", "input", "plan", "finalize", "announce", "failing"}
SlotPC == {"idle", "claimLost", "reason", "write", "complete", "refreshDone",
           "finalize", "announce", "fail", "refreshFail", "mark", "markAgain",
           "release", "refreshRelease", "yielded"}

\* Nothing counted yet: an attempt that counts has an item to count.
NoTally == [total |-> 0, completed |-> 0, failed |-> 0]

\* The n-th attempt at item i about to take the step pc, with nothing decided
\* or counted.
Attempt(pc, i, n) == [pc |-> pc, item |-> i, attempt |-> n, outcome |-> NoOutcome,
                      tally |-> NoTally]

Idle == Attempt("idle", NoItem, 0)

SlotRow == [pc : SlotPC, item : Items \cup {NoItem}, attempt : 0..RetryLimit,
            outcome : Outcomes \cup {NoOutcome}, tally : Progress]

Handler == [item : Items, outcome : Outcomes]

ProcTypeOK ==
  /\ boot \in [Procs -> {"new", "booting", "up", "crashed"}]
  /\ task \in [Procs -> [Runs -> PlanPC]]
  /\ slot \in [Procs -> SlotRow]
  /\ \A p \in Procs : /\ slot[p].item = NoItem <=> slot[p].pc = "idle"
                      /\ slot[p].pc = "write" => slot[p].outcome \in Outcomes
  /\ late \in [Procs -> SUBSET Handler]

TypeOK == StoreTypeOK /\ ProcTypeOK /\ dbErrors \in 0..MaxDbErrors /\ stalls \in 0..MaxStalls

Init ==
  /\ StoreInit
  /\ boot = [p \in Procs |-> "new"]
  /\ task = [p \in Procs |-> [r \in Runs |-> "none"]]
  /\ slot = [p \in Procs |-> Idle]
  /\ late = [p \in Procs |-> {}]
  /\ dbErrors = 0
  /\ stalls = 0

\* The HTTP routes and the worker's loop are open before recovery is over.
Alive(p) == boot[p] \in {"booting", "up"}

-----------------------------------------------------------------------------
(* The life of a process.                                                  *)
Start(p) ==
  /\ boot[p] = "new"
  /\ boot' = [boot EXCEPT ![p] = "booting"]
  /\ UNCHANGED <<storeVars, task, slot, late, budgetVars>>

\* recoverPendingRuns: plan again every run that getRecoverableRunIds lists.
Recover(p) ==
  /\ boot[p] = "booting"
  /\ boot' = [boot EXCEPT ![p] = "up"]
  /\ task' = [task EXCEPT ![p] = [r \in Runs |->
                IF r \in Recoverable /\ hasInput[r] /\ task[p][r] = "none"
                  THEN "plan" ELSE task[p][r]]]
  /\ UNCHANGED <<storeVars, slot, late, budgetVars>>

\* Everything in memory is gone; the process's leases stay in the table.
Crash(p) ==
  /\ Alive(p)
  /\ Cardinality({q \in Procs : boot[q] = "crashed"}) < MaxCrashes
  /\ boot' = [boot EXCEPT ![p] = "crashed"]
  /\ task' = [task EXCEPT ![p] = [r \in Runs |-> "none"]]
  /\ slot' = [slot EXCEPT ![p] = Idle]
  /\ late' = [late EXCEPT ![p] = {}]
  /\ UNCHANGED <<storeVars, budgetVars>>

-----------------------------------------------------------------------------
(* createRun and planDurableRun.                                           *)
PlanAt(p, r, pc) == task[p][r] = pc
PlanGoto(p, r, pc) == /\ task' = [task EXCEPT ![p][r] = pc]
                      /\ UNCHANGED <<boot, slot, late, budgetVars>>

\* The run's row is committed; the request is answered once its input is too.
CreateRun(p, r) ==
  /\ Alive(p)
  /\ PlanAt(p, r, "none")
  /\ InsertRun(r)
  /\ PlanGoto(p, r, "input")

StoreInput(p, r) ==
  /\ PlanAt(p, r, "input")
  /\ InsertInput(r)
  /\ PlanGoto(p, r, "plan")

PersistPlanStep(p, r) ==
  /\ PlanAt(p, r, "plan")
  /\ PersistPlan(r)
  /\ PlanGoto(p, r, "finalize")

\* planReconciliation throws.  It is a function of the stored input, so it
\* never throws for a run that has been planned before.
PlanThrows(p, r) ==
  /\ PlanAt(p, r, "plan")
  /\ ~planned[r]
  /\ UNCHANGED storeVars
  /\ PlanGoto(p, r, "failing")

\* finalizeDurableRun: finalizeRun tells whether this caller won the update.
FinalizePlanned(p, r) ==
  /\ PlanAt(p, r, "finalize")
  /\ \/ FinalizeRun(r) /\ PlanGoto(p, r, "announce")
     \/ ~Finalizable(r) /\ UNCHANGED storeVars /\ PlanGoto(p, r, "none")

AnnouncePlanned(p, r) ==
  /\ PlanAt(p, r, "announce")
  /\ AnnounceCompletion(r)
  /\ PlanGoto(p, r, "none")

\* Variant: the failure is only logged.
LogPlanFailure(p, r) ==
  /\ PlanAt(p, r, "failing")
  /\ UNCHANGED storeVars
  /\ PlanGoto(p, r, "none")

RecordPlanFailure(p, r) ==
  /\ PlanAt(p, r, "failing")
  /\ MarkRunFailedWithTrace(r)
  /\ PlanGoto(p, r, "none")

SpendDbError == dbErrors < MaxDbErrors /\ dbErrors' = dbErrors + 1

\* createRun answers 500 when the input cannot be stored; planDurableRun
\* catches the rest, and swallows a failure to record the failure.
PlannerDbError(p, r) ==
  /\ task[p][r] # "none"
  /\ SpendDbError
  /\ task' = [task EXCEPT ![p][r] = IF @ \in {"input", "failing"} THEN "none" ELSE "failing"]
  /\ UNCHANGED <<storeVars, boot, slot, late, stalls>>

\* cancelRun in any process.  Its abortRun makes Abort possible, which the
\* end of a slice does at any time anyway.
CancelRun(r) ==
  /\ \E p \in Procs : Alive(p)
  /\ CancelRunDurably(r)
  /\ UNCHANGED <<procVars, budgetVars>>

-----------------------------------------------------------------------------
(* processOne, the worker's slot.                                          *)
At(p, pc) == slot[p].pc = pc
MyRun(p)  == RunOf[slot[p].item]

SlotOnly == UNCHANGED <<boot, task, late, budgetVars>>

\* An attempt at its next statement: its item is all it still needs, and its
\* number as long as its handler has not returned.
Moved(p, pc) == Attempt(pc, slot[p].item, IF pc = "reason" THEN slot[p].attempt ELSE 0)

Goto(p, pc) == slot' = [slot EXCEPT ![p] = Moved(p, pc)] /\ SlotOnly

Rest(p) == slot' = [slot EXCEPT ![p] = Idle] /\ SlotOnly

ClaimAt(p, i, pc) ==
  /\ Alive(p)
  /\ At(p, "idle")
  /\ ClaimWorkItem(p, i)
  /\ slot' = [slot EXCEPT ![p] = Attempt(pc, i, Attempts(i))]
  /\ UNCHANGED <<boot, task, late>>

Claim(p, i) == ClaimAt(p, i, "reason") /\ UNCHANGED budgetVars

\* The "claimed" event cannot be stored: onEvent fails the run, and the
\* attempt goes on regardless.
ClaimUnlogged(p, i) == ClaimAt(p, i, "claimLost") /\ SpendDbError /\ UNCHANGED stalls

FailClaimedRun(p) ==
  /\ At(p, "claimLost")
  /\ MarkRunFailed(MyRun(p))
  /\ Goto(p, "reason")

\* processPlannedComponent returns a verified result, and the handler has
\* seen that its slice is not over.
Reason(p) ==
  /\ At(p, "reason")
  /\ \E o \in Outcomes : slot' = [slot EXCEPT ![p] = [Moved(p, "write") EXCEPT !.outcome = o]]
  /\ SlotOnly
  /\ UNCHANGED storeVars

\* isRetryableError: a per-minute rate limit, early enough in the item's life.
RateLimited(p) ==
  /\ At(p, "reason")
  /\ slot[p].attempt < RetryLimit
  /\ UNCHANGED storeVars
  /\ Goto(p, "release")

\* Any other error of the handler.
HandlerFails(p) ==
  /\ At(p, "reason")
  /\ UNCHANGED storeVars
  /\ Goto(p, "fail")

\* Variant: the item goes on to be completed without its result.
SkipCheckpoint(p) == At(p, "write") /\ UNCHANGED storeVars /\ Goto(p, "complete")

Checkpoint(p) ==
  /\ At(p, "write")
  /\ PersistResultCheckpoint(slot[p].item, slot[p].outcome)
  /\ Goto(p, "complete")

\* The slice timer, or a cancellation, aborts the attempt.  The slot is freed
\* at once; a handler that has passed its check lives on in late.
Abort(p) ==
  /\ slot[p].pc \in {"reason", "write", "complete"}
  /\ slot' = [slot EXCEPT ![p] = Moved(p, "release")]
  /\ late' = IF At(p, "write")
               THEN [late EXCEPT ![p] = @ \cup {[item |-> slot[p].item,
                                                 outcome |-> slot[p].outcome]}]
               ELSE late
  /\ UNCHANGED <<storeVars, boot, task, budgetVars>>

LateCheckpoint(p) ==
  /\ \E h \in late[p] :
       /\ PersistResultCheckpoint(h.item, h.outcome)
       /\ late' = [late EXCEPT ![p] = @ \ {h}]
  /\ UNCHANGED <<boot, task, slot, budgetVars>>

\* completeWorkItem; an attempt that lost its lease ends in silence.
Complete(p) ==
  /\ At(p, "complete")
  /\ \/ SettleWorkItem(p, slot[p].item, "COMPLETED") /\ Goto(p, "refreshDone")
     \/ ~Holds(p, slot[p].item) /\ UNCHANGED storeVars /\ Rest(p)

\* failWorkItem; its answer is not looked at, so an attempt that lost its
\* lease fails the run all the same.
Fail(p) ==
  /\ At(p, "fail")
  /\ \/ SettleWorkItem(p, slot[p].item, "FAILED") /\ Goto(p, "refreshFail")
     \/ ~Holds(p, slot[p].item) /\ UNCHANGED storeVars /\ Goto(p, "mark")

Release(p) ==
  /\ At(p, "release")
  /\ \/ SettleWorkItem(p, slot[p].item, "PENDING") /\ Goto(p, "refreshRelease")
     \/ ~Holds(p, slot[p].item) /\ UNCHANGED storeVars /\ Goto(p, "yielded")

\* Variant: a failed item is reported like a released one.
AfterRefreshYield == [refreshDone |-> "finalize", refreshFail |-> "yielded",
                      refreshRelease |-> "yielded"]

\* Variant: a completed item is reported like a released one.
AfterRefreshLeave == [refreshDone |-> "yielded", refreshFail |-> "mark",
                      refreshRelease |-> "yielded"]

\* The progress refresh that follows each settling update, in a statement of
\* its own: it counts in its snapshot, then writes what it counted.
AfterRefresh == [refreshDone |-> "finalize", refreshFail |-> "mark",
                 refreshRelease |-> "yielded"]

CountWork(p) ==
  /\ slot[p].pc \in DOMAIN AfterRefresh
  /\ slot[p].tally = NoTally
  /\ slot' = [slot EXCEPT ![p].tally = TallyOf(item, MyRun(p))]
  /\ SlotOnly
  /\ UNCHANGED storeVars

Refresh(p) ==
  /\ slot[p].pc \in DOMAIN AfterRefresh
  /\ slot[p].tally # NoTally
  /\ RefreshRunWorkProgress(MyRun(p), slot[p].tally)
  /\ Goto(p, AfterRefresh[slot[p].pc])

\* The "completed" event, then finalizeDurableRun.
Finalize(p) ==
  /\ At(p, "finalize")
  /\ \/ FinalizeRun(MyRun(p)) /\ Goto(p, "announce")
     \/ ~Finalizable(MyRun(p)) /\ UNCHANGED storeVars /\ Rest(p)

Announce(p) ==
  /\ At(p, "announce")
  /\ AnnounceCompletion(MyRun(p))
  /\ Rest(p)

\* The "slice_yielded" or "released" event.
Yield(p) ==
  /\ At(p, "yielded")
  /\ UNCHANGED storeVars
  /\ Rest(p)

\* The "failed" event (mark), or onEvent's handling of its own error.
MarkFailed(p) ==
  /\ slot[p].pc \in {"mark", "markAgain"}
  /\ MarkRunFailed(MyRun(p))
  /\ Rest(p)

\* Where the attempt goes when the statement at its program counter is
\* rejected.  An error after an abort releases; one of the statements that
\* settle the item is only logged, and the item keeps its lease.
AfterDbError == [claimLost |-> {"reason"}, write |-> {"fail"},
                 complete |-> {"fail", "release"}, refreshDone |-> {"fail", "release"},
                 finalize |-> {"markAgain"}, announce |-> {"markAgain"},
                 yielded |-> {"markAgain"}, mark |-> {"markAgain"}, markAgain |-> {"idle"},
                 fail |-> {"idle"}, refreshFail |-> {"idle"},
                 release |-> {"idle"}, refreshRelease |-> {"idle"}]

DbError(p) ==
  /\ slot[p].pc \in DOMAIN AfterDbError
  /\ SpendDbError
  /\ \E pc \in AfterDbError[slot[p].pc] :
       slot' = [slot EXCEPT ![p] = IF pc = "idle" THEN Idle ELSE Moved(p, pc)]
  /\ UNCHANGED <<storeVars, boot, task, late, stalls>>

\* The renewal timer, every half lease while processOne runs.
Renew(p) ==
  /\ ~At(p, "idle")
  /\ item[slot[p].item].expired
  /\ RenewWorkItem(p, slot[p].item)
  /\ UNCHANGED <<procVars, budgetVars>>

\* Time passes.  A lease nobody renews always runs out; the lease of a holder
\* that still works on the item runs out only if its renewals are late.
Working(i) == \E p \in Procs : slot[p].item = i /\ item[i].owner = p

Expire(i) ==
  /\ ExpireLease(i)
  /\ IF Working(i) THEN stalls < MaxStalls /\ stalls' = stalls + 1
                   ELSE UNCHANGED stalls
  /\ UNCHANGED <<procVars, dbErrors>>

-----------------------------------------------------------------------------
PlannerStep(p, r) ==
  \/ StoreInput(p, r) \/ PersistPlanStep(p, r) \/ PlanThrows(p, r)
  \/ FinalizePlanned(p, r) \/ AnnouncePlanned(p, r) \/ RecordPlanFailure(p, r)

\* The steps an attempt takes by itself once its handler has returned.
WorkerStep(p) ==
  \/ FailClaimedRun(p) \/ Fail(p) \/ Release(p) \/ CountWork(p) \/ Refresh(p)
  \/ Finalize(p) \/ Announce(p) \/ Yield(p) \/ MarkFailed(p)

Next ==
  \/ \E p \in Procs : \/ Start(p) \/ Recover(p) \/ Crash(p)
                      \/ WorkerStep(p) \/ Reason(p) \/ RateLimited(p) \/ HandlerFails(p)
                      \/ Checkpoint(p) \/ Complete(p) \/ Abort(p) \/ LateCheckpoint(p)
                      \/ DbError(p) \/ Renew(p)
  \/ \E p \in Procs, i \in Items : Claim(p, i) \/ ClaimUnlogged(p, i)
  \/ \E p \in Procs, r \in Runs : CreateRun(p, r) \/ PlannerStep(p, r) \/ PlannerDbError(p, r)
  \/ \E r \in Runs : CancelRun(r)
  \/ \E i \in Items : Expire(i)

Spec == Init /\ [][Next]_vars

-----------------------------------------------------------------------------
(* Safety.                                                                 *)

\* finalizeRun's promise: a run shows as COMPLETED only when its plan is
\* stored and every work item it planned is settled with a stored result,
\* whatever crashed, was retried, reclaimed, planned again or cancelled.
CompletedIsWhole ==
  \A r \in Runs : runStatus[r] = "COMPLETED" =>
    /\ planned[r]
    /\ \A i \in ItemsOf(r) : item[i].status = "COMPLETED" /\ result[i] # NoOutcome

\* cancelRunDurably against planners and workers in other processes: once a
\* run is CANCELLED it has no work item left that is queued or leased.
CancelledIsQuiet ==
  \A r \in Runs : runStatus[r] = "CANCELLED" =>
    \A i \in ItemsOf(r) : item[i].status \notin {"PENDING", "LEASED"}

\* The owner check of completeWorkItem: of the attempts at one item only one
\* ever gets to run the completion steps, even when leases ran out between.
Completing(p) == slot[p].pc \in {"refreshDone", "finalize", "announce"}

SettledOnce ==
  \A p, q \in Procs :
    Completing(p) /\ Completing(q) /\ slot[p].item = slot[q].item => p = q

\* finalizeRun is won once, although every planner and every worker that
\* completes an item calls it: RUN_COMPLETED has one author, and the trace
\* does not hold the event yet while that author is about to store it.
Announcing(p, part, r) ==
  \/ part = "planner" /\ task[p][r] = "announce"
  \/ part = "worker" /\ At(p, "announce") /\ MyRun(p) = r

OneAnnouncer ==
  \A r \in Runs, p, q \in Procs, a, b \in {"planner", "worker"} :
    Announcing(p, a, r) => /\ r \notin announced
                           /\ Announcing(q, b, r) => p = q /\ a = b

\* The counters the dashboard shows may lag behind the items, and stay behind
\* when an older count is written last, but they never report work as done
\* that is not.
CountersNeverAhead ==
  \A r \in Runs : /\ progress[r].completed <= CountOf(item, r, "COMPLETED")
                  /\ progress[r].failed <= CountOf(item, r, "FAILED")

\* Work items do not come back: a COMPLETED, FAILED or CANCELLED row keeps its
\* status through late releases, reclaims, cancellations and a second plan.
NoResurrection ==
  [][\A i \in Items : item[i].status \in {"COMPLETED", "FAILED", "CANCELLED"}
                        => item'[i].status = item[i].status]_vars

\* Nothing has gone wrong so far: every process that started is still there,
\* and the store has carried out every statement.
FaultFree == dbErrors = 0 /\ \A p \in Procs : boot[p] # "crashed"

\* Until something goes wrong: a failed item fails its run, if not at once
\* then by a step some worker still has before it.
FailedItemFailsRun ==
  FaultFree => \A i \in Items : item[i].status = "FAILED" =>
    \/ runStatus[RunOf[i]] = "FAILED"
    \/ \E p \in Procs : slot[p].pc \in {"refreshFail", "mark"} /\ MyRun(p) = RunOf[i]

\* Until something goes wrong: planners and workers leave the end of a run to
\* each other, yet when all its work is done and it is not COMPLETED, one of
\* them still has finalizeRun before it.
LastOneFinalizes ==
  FaultFree => \A r \in Runs :
    runStatus[r] = "PROCESSING" /\ (\A i \in ItemsOf(r) : item[i].status = "COMPLETED") =>
      \E p \in Procs : \/ PlanAt(p, r, "finalize")
                       \/ slot[p].pc \in {"refreshDone", "finalize"} /\ MyRun(p) = r

\* Nobody has a step to take for the run, and no worker will claim any of its
\* work: planners are through with it and no item is queued or leased.
Forsaken(r) ==
  /\ \A p \in Procs : PlanAt(p, r, "none") /\ (~At(p, "idle") => MyRun(p) # r)
  /\ \A i \in ItemsOf(r) : item[i].status \notin {"PENDING", "LEASED"}

\* Until something goes wrong: an accepted run that has not ended is in
\* somebody's hands, whoever took over, yielded or lost its work.
NoRunForsaken ==
  FaultFree => \A r \in Runs : hasInput[r] /\ Active(r) => ~Forsaken(r)

-----------------------------------------------------------------------------
(* The inductive invariant the safety properties rest on.                  *)

\* A run's status says whether its plan is stored, and the plan's rows come
\* all together.
PlanStored ==
  /\ \A r \in Runs : planned[r] => runStatus[r] \notin {"ABSENT", "PENDING"}
  /\ \A r \in Runs : runStatus[r] \in {"PROCESSING", "COMPLETED"} => planned[r]
  /\ \A i \in Items : item[i].status = "ABSENT" <=> ~planned[RunOf[i]]

\* What a settled row says about its result and its run.
RowsSettle ==
  /\ \A i \in Items : item[i].status = "COMPLETED" => result[i] # NoOutcome
  /\ \A i \in Items : item[i].status = "CANCELLED" =>
                         runStatus[RunOf[i]] \in {"CANCELLED", "FAILED"}

\* Whoever acts for a run finds its row; whoever acts on an item, its plan.
ActorsHaveRuns ==
  /\ \A p \in Procs, r \in Runs : task[p][r] # "none" => runStatus[r] # "ABSENT"
  /\ \A p \in Procs, i \in Items : slot[p].item = i => planned[RunOf[i]]
  /\ \A p \in Procs : \A h \in late[p] : planned[RunOf[h.item]]

\* What an attempt has achieved by the time it gets to a statement.
AttemptsInOrder ==
  \A p \in Procs :
    /\ At(p, "complete") => result[slot[p].item] # NoOutcome
    /\ Completing(p) => item[slot[p].item].status = "COMPLETED"

\* RUN_COMPLETED is only ever stored, or about to be, for a run that was won.
AnnouncersWon ==
  \A r \in Runs :
    /\ r \in announced => runStatus[r] \in {"COMPLETED", "FAILED"}
    /\ \A p \in Procs, a \in {"planner", "worker"} :
         Announcing(p, a, r) => runStatus[r] \in {"COMPLETED", "FAILED"}

IInv == /\ TypeOK /\ PlanStored /\ RowsSettle /\ ActorsHaveRuns /\ AttemptsInOrder
        /\ AnnouncersWon /\ CompletedIsWhole /\ CancelledIsQuiet /\ SettledOnce
        /\ OneAnnouncer

-----------------------------------------------------------------------------
\* The runs implement the lifecycle the API describes.
Lifecycle == INSTANCE RunLifecycle WITH Cases <- Items, status <- runStatus, answer <- result

ImplementsLifecycle == Lifecycle!Spec

-----------------------------------------------------------------------------
(* What comments and documents say.                                        *)

\* run-service.ts:197-198: "Do not let a provider promise that outlived a
\* released worker slice checkpoint results after another worker has
\* reclaimed the item."
NoCheckpointAfterReclaim ==
  [][\A i \in Items, p \in Procs :
       Holds(p, i) /\ result'[i] # result[i] =>
         \A q \in Procs \ {p} : slot'[q] = slot[q] /\ late'[q] = late[q]]_vars

-----------------------------------------------------------------------------
(* Liveness.                                                               *)

\* What a process does by itself as long as it is up: its event loop and the
\* database keep going, and its polling worker takes some claimable item.
ProcessStep(p) ==
  \/ Recover(p) \/ WorkerStep(p) \/ LateCheckpoint(p)
  \/ \E i \in Items : Claim(p, i)
  \/ \E r \in Runs : PlannerStep(p, r)

RunsOn == \A p \in Procs : WF_vars(ProcessStep(p))

\* An item that is given slice after slice is done within one of them.
SlicesSuffice ==
  \A p \in Procs : /\ SF_vars(Reason(p) \/ RateLimited(p) \/ HandlerFails(p))
                   /\ SF_vars(Checkpoint(p))
                   /\ SF_vars(Complete(p))

\* A process that was lost is replaced, and time passes.
Replaced ==
  /\ \A p \in Procs : WF_vars(Start(p))
  /\ \A i \in Items : WF_vars(~Working(i) /\ Expire(i))

FairSpec  == Spec /\ RunsOn /\ SlicesSuffice
CrashSpec == FairSpec /\ Replaced

\* A run whose input was accepted comes to an end without anyone's help,
\* unless a process is lost.
EveryRunSettles ==
  \A r \in Runs : hasInput[r] ~> \/ runStatus[r] \in {"COMPLETED", "FAILED", "CANCELLED"}
                                \/ \E p \in Procs : boot[p] = "crashed"

\* The lease is what makes work survive its worker: an item leased to a
\* crashed process is taken over, unless its run has ended.
Abandoned(i) == \E p \in Procs : boot[p] = "crashed" /\ Holds(p, i)

AbandonedLeaseReclaimed ==
  \A i \in Items : Abandoned(i) ~> ~(Abandoned(i) /\ Active(RunOf[i]))

\* Docs/railway-deployment.md:47-48: "An expired run budget is recorded as a
\* terminal operational failure rather than remaining indefinitely in
\* `PROCESSING`."  Here even every slice suffices and every process that was
\* lost is replaced.
ProcessingEnds ==
  \A r \in Runs :
    runStatus[r] = "PROCESSING" ~> runStatus[r] \in {"COMPLETED", "FAILED", "CANCELLED"}
=============================================================================
