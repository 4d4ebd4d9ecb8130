# Tally: a verification of its reconciliation runs

Tally matches bank transactions with ledger entries. Deterministic rules settle
the easy cases; the rest become *investigations* for a language model whose
proposals a verifier checks. The API keeps its runs in PostgreSQL so that they
survive restarts, and several API processes may share the database. This
directory holds TLA+ models of that system, TLC configurations that check them
on small instances, and theorems about them that TLAPS proves for every
instance.

    tlc -workers 2 -config DurableRunsFaults.cfg MCDurableRuns.tla
    tlapm DurableRunsProofs.tla

Modelled, checked and proved about are the durable runs, the model quota, the
deterministic stages, the way of a planned component from its shortlist to its
result, the in-process run with its waves of concurrent requests, and the page that
submits, polls and stops runs. Section 5 says what is left out.

Paths below are relative to the repository root.

## 1. Inventory

| Component | State | Operations | Talks to |
|---|---|---|---|
| **Run store** `apps/api/src/db/reconciliation-run-repository.ts`, `schema.ts` | tables of runs, inputs, work items, results, trace events | one statement or transaction each: start, plan, claim, renew, release, complete, fail, cancel, checkpoint, finalize, append event | everyone, through SQL |
| **Run service** `apps/api/src/run-service.ts` | one worker per process, a lease-owner id | `createRun`, `planDurableRun`, `finalizeDurableRun`, the worker's handler and events, `cancelRun`, `recoverPendingRuns` | store, worker, pipeline |
| **In-process executor** `apps/api/src/run-service.ts` | an abort controller and a deadline timer per run | `executeLegacyRun`, `cancelRun`, for a repository without work items | store, pipeline |
| **Job worker** `apps/api/src/reconciliation-job-worker.ts` | abort controllers, slice and renewal timers | claim loop, `processOne`, `abortRun`, `stop` | store, run service (callbacks) |
| **Start-up** `apps/api/src/server.ts` | - | listen, start the worker, recover | run service |
| **Quota limiter** `packages/reconciliation/src/agent/groq-rate-limiter.ts`, `apps/api/src/groq-postgres-quota-store.ts` | one row of counters per scope, shared by all processes | `reserve`, `settle`, `blockFor` | model adapter, store |
| **Model adapter** `agent/groq-reasoning-adapter.ts` | - | one quota-guarded request per proposal, error classification | limiter, provider |
| **Rule stages** `deterministic/orchestrator.ts` | used and blocked records | five stages R1-R5, each on a snapshot | matching rules |
| **Matching rules** `matching/*.ts`, **compatibility**, **candidates** | none (pure) | exact / normalised reference, context, grouped rules; shortlist of at most 8 candidates | - |
| **Reasoning pipeline** `pipeline/run-reconciliation.ts` | used records, results, call budget | plan, waves of proposals, one repair, verification, finalisation; planned components one by one on the durable path | rules, candidates, verifiers, adapter |
| **Verifiers** `verifier/*.ts` | none (pure) | accept or reject a proposal | - |
| **Trace recorder** `trace/recorder.ts` | an event list | `record` | pipeline |
| **Component batching** `pipeline/job-planner.ts` | none (pure) | overlap-connected batches (no caller in the API) | - |
| **Parsing, normalisation, contracts** | none (pure) | CSV and field validation | - |
| **HTTP routes** `app.ts`, **configuration** | none | request mapping | run service |
| **Dashboard** `apps/web/app/dashboard.tsx` | run shown, run polled, submission lock, the run remembered in localStorage | submit, poll, stop, load again, resume after a reload | HTTP |
| **Evaluation, benchmark generators** `packages/benchmark`, `benchmark-evaluation-service.ts` | none / offline | compare results with ground truth | HTTP / files |

What is hard: several processes act on one database with a statement as the only
unit of atomicity; each `await` is a point where a process may die, another may
act, or a slice timer may fire; a slice that ends frees the worker while the
handler's promise lives on; leases run out; the provider refuses, stalls or
answers late; quota is shared by processes that read their clocks before they
take the lock. In one process the requests of a wave are answered in any order while
the user and a deadline may abort the run; in the browser four asynchronous functions
share one page state. `PROJECT.json` lists each hazard at its line.

What makes each part correct:

- store and worker: a run is COMPLETED only when whole; CANCELLED stays quiet;
  an item is completed by one attempt; a case keeps its first answer; counters
  never run ahead; abandoned work is taken over; a run ends.
- limiter: no window of the shared row admits more than its limits; a recorded
  refusal is respected by every later reservation of any replica; a request ends.
- rule stages: no record is matched twice; what is ambiguous is never cleared
  later; every record is decided; the order of records does not matter.
- pipeline: no case is lost between the rules and the model; what the rules settled
  stays settled; whatever the model proposes, a match that is accepted balances; no
  record is consumed by two results; one repair per case; the budget of calls is kept.
- in-process executor: a run ends, whole or empty, under the code that says why.
- dashboard: a stopped run does not come back; a wait ends, and not silently.

## 2. Modules

| Module | What it is |
|---|---|
| `RunStore` | The tables and one action per SQL statement or transaction. |
| `DurableRuns` | The processes: planner, worker slot, handler, timers, recovery, crashes, rejected statements. EXTENDS `RunStore`. |
| `RunLifecycle` | The abstract specification: run statuses and one answer per case, nothing else. |
| `DurableRunsProofs` | Theorems about `DurableRuns`. |
| `RunEndsProofs` | Theorems about the counters and the ends of runs. EXTENDS `DurableRunsProofs`. |
| `GroqQuota` | The quota row shared by all replicas and the requests that reserve, settle and block on it. |
| `GroqQuotaProofs` | Theorems about `GroqQuota`. |
| `MatchingRules` | The five rules as predicates over the rows of two files. |
| `RuleStages` | The staged commitment of the rules. EXTENDS `MatchingRules`. |
| `UniqueMatching` | The abstract specification of a stage: match what nothing competes with. |
| `RuleStagesProofs` | Theorems about `RuleStages`. |
| `Candidates` | Shortlists, mechanical exceptions and the selection of components. EXTENDS `RuleStages`. |
| `CandidatesProofs` | What both ways to run rest on: the length of shortlists, the cases of decisions, the selection. EXTENDS `Verifier` and `RuleStagesProofs`. |
| `Verifier` | What becomes of a proposal of the model. EXTENDS `Candidates`. |
| `PlannedComponents` | A run on the durable path from two files to results: the stages, the plan, and components worked on in any order. EXTENDS `Verifier`. |
| `PlannedComponentsProofs` | Theorems about `PlannedComponents`. EXTENDS `CandidatesProofs`. |
| `ReasoningWaves` | `runReconciliation`: a run from its files to its results in one process, in waves of concurrent requests. EXTENDS `Verifier`. |
| `LegacyRun` | The executor around it: the row's status, the abort controller, the one transaction that stores the results. EXTENDS `ReasoningWaves`. |
| `LegacyRunProofs` | Theorems about `LegacyRun`. EXTENDS `CandidatesProofs`. |
| `Dashboard` | One browser tab, and the API as it answers. |
| `DashboardProofs` | Theorems about `Dashboard`. |
| `MCDurableRuns`, `MCGroqQuota`, `MCRuleStages`, `MCPlannedComponents`, `MCLegacyRun` | Model values, rows and symmetry sets for TLC. |

### RunStore

One action is one statement or one transaction, never more: `startRun` is two
inserts (`InsertRun`, `InsertInput`); `completeWorkItem` is the conditional update
(`SettleWorkItem`), and the refresh of the run's counters that follows is two more
actions: at READ COMMITTED its `UPDATE ... FROM (SELECT count(*) ...)` counts in the
snapshot of the statement, and when another refresh holds the run's row it waits and then
writes these counts all the same. `CountWork` remembers the tally in the worker's slot,
`Refresh` writes it, and anything may happen in between;
`persistPlan`, `cancelRunDurably`, `markRunFailed` and
`persistResultCheckpoint` are transactions and therefore single actions.
`Claimable` is the WHERE clause of the claim, `Holds` that of release, complete,
fail and renew (the lease's expiry is *not* part of it), `Finalizable` that of
`finalizeRun`. `Recoverable` is `getRecoverableRunIds`.

A lease's deadline is a flag `expired`. `attempts` saturates at `RetryLimit`, the
only number the code compares it with. The claim orders runs by creation date,
but `SKIP LOCKED` may pass over any row, so any claimable row may be taken. The
pending and active counters, which no code reads, and the contents of trace
events, snapshots and results are left out.

### DurableRuns

`Procs` are *lives* of API processes: each start draws a new lease owner, so a
restart is a fresh member of `Procs`. `task[p][r]` is the program counter of
`createRun`/`planDurableRun`, `slot[p]` that of `processOne` (the service fixes the
worker's concurrency at 1), `late[p]` the handlers that passed
`if (signal.aborted) return` and whose slice then ended: `abortable` frees the
slot, the promise goes on and stores its result in `LateCheckpoint`.

| Code | Actions |
|---|---|
| `server.ts` | `Start`, `Recover`, `Crash` |
| `createRun`, `planDurableRun`, `finalizeDurableRun` | `CreateRun`, `StoreInput`, `PersistPlanStep`, `PlanThrows`, `FinalizePlanned`, `AnnouncePlanned`, `RecordPlanFailure` |
| `runOnce` + the claimed event | `Claim`, `ClaimUnlogged`, `FailClaimedRun` |
| `processWorkItem` | `Reason`, `RateLimited`, `HandlerFails`, `Checkpoint`, `LateCheckpoint` |
| slice timer, `abortRun` | `Abort` |
| the three settling calls and their events | `Complete`, `Fail`, `Release`, `CountWork`, `Refresh`, `Finalize`, `Announce`, `Yield`, `MarkFailed` |
| renewal timer; time | `Renew`; `Expire` |
| `catch` branches | `DbError`, `PlannerDbError` |
| `cancelRun` | `CancelRun` |

`AfterDbError` gives, per program counter, where the code's catch blocks lead.

Merged or left out: the claim and its event are one step unless the event
fails; a planner of one run runs once at a time in one process; an event append
that is still in flight after its slice ended and fails only then; a commit whose
acknowledgement is lost; `stopWorker` (a crash that loses less); a rejected
renewal (an unhandled rejection ends the process: a crash). The renewal
timer's poll of `isRunCancelled` only aborts, which `Abort` does at any time.

### RunLifecycle

What a client polling the API may rely on. FAILED is reachable from every
status, because `markRunFailed` names the run only by its id: a late failure
overwrites COMPLETED and CANCELLED. Answers still arrive for a run that was
cancelled or failed, never for one that is complete.

### GroqQuota

A request (`call[c]`) walks through `generateProposal`: it reads its clock
(`ReadClock`), updates the row in a transaction (`Reserve`, which waits or
grants), sends the request some time later (`Send`: two events of the run are stored
first, and the row is not looked at again), and settles or blocks in a second transaction, again
with a reading taken before it. Between reading and updating anything may happen,
so the row may be in a window that began after the reading. `Normalize`, `Fits`,
`Count`, `Adjusted` and `Blocked` are the row's transitions. `Abandon` is every way
out that returns nothing: an abort, a rejected transaction, another provider
error, a crash.

`due` and `refusedUntil` are history: what the requests counted in the current
window may still cost, and the latest recorded refusal. A reservation also keeps
the window it was counted in (`window`), which the code does not; no guard reads
it.

Abstractions: one quota scope; replicas' clocks agree (they are compared with
stored times, so real skew would act like the outdated readings, but in both
directions); a tick stands for some milliseconds; `AI_MAX_RETRIES` is 0, the
default; a request whose estimate exceeds the limit throws before it touches the
row and is left out.

### MatchingRules and RuleStages

A record keeps what the rules compare: a reference with its normal form, a
normalised counterparty, a batch, currency and direction as one value, an amount
in paise of either sign (the parser accepts both), a day number. `Options` are the
groups a rule would match an anchor with when only the records in `free` may be
used.

| Code (`deterministic/orchestrator.ts`) | RuleStages |
|---|---|
| used and blocked as one snapshot, lines 102, 203 | `Free` |
| evaluating all anchors, conflicts, lines 101-151 | `Evaluate` |
| one iteration of the loop at 153-159 | `Weigh` |
| the commit loop and the blocked sets, 161-178 | `CommitStage` |
| records in no decision, 181-188 | `Leftovers` |

The code weighs in the order of ids. Ids are arbitrary text, so any assignment of
ids to rows is a possible input and the model weighs in any order. The covered
sets of the code always equal the blocked ones and are left out, as are events and
reason codes. Initially no record is used, as `planReconciliation` passes none.

`UniqueMatching` has no proposals, conflicts or weighing: a stage matches the
groups that meet no other group and sets the rest aside, in one step. Its
parameters `Anchors` and `Options` are the rules.

### Candidates, Verifier and PlannedComponents

`PlannedComponents` adds to the stages a stored plan, the components by primary record
(`work`) and the stored `results`. The plan is one action, because
`planReconciliation` is one synchronous function whose outcome `persistPlan` stores in
one transaction. A component is then worked on by whoever claims it, in any order;
leases, slices and retries are the subject of `DurableRuns` and appear here as
`StartOver`.

| Code (`pipeline/run-reconciliation.ts` unless named) | Definitions |
|---|---|
| `candidates/facts.ts`, `candidates/generate-candidates.ts` | `Signals`, `Tier`, `Rank`, `GenerateCandidates` |
| `pruneCandidatesForReasoning`, `componentCandidates` | `PruneCandidates`, `ComponentCandidates` |
| `primaryForDecision`; `mechanicalExceptionResult` | `CaseOf`; `Exceptions` |
| `selectConnectedReasoningDecisions` | `Stars`, `CoveredByStars`, `OpenCases`, `Selected` |
| `planReconciliation` after the stages, `persistPlan` | `Plan` |
| `generateProposalWithVerifierRetry` | `Propose`, `ProposeAgain`, `GenerationFails`, `GenerationFailsAgain` |
| `finalizeAgentProposal`, `persistResultCheckpoint` | `Finalize` |
| `verifier/match-verifier.ts`, `verifier/non-match-verifier.ts` | `StructureFailures`, `MatchFailures`, `Verdict` |
| `finalizeAgentResult` | `FinalOutcome` |

The model is the environment: a proposal names any subset of what it was shown, with
or without its primary, or records it was not shown, claims any outcome, and may have
one flaw (`Flaws`): proposals with two are refused as those with one. `Records`, all
the files' ids, stands for every proposal that leaves its context: which record it
names beyond it makes no difference to the verifier.

A maturity date is kept as one bit, whether it is after the as-of date; ids are
numbers, because their order breaks ties; reason codes, confidence, evidence texts and
prompts are left out. Hubs are considered in any order: two stars cannot overlap, a
leaf having a single candidate.

### ReasoningWaves and LegacyRun

The same cases, shortlists and verdicts as `PlannedComponents`, but one process works on
them: a wave takes the foremost `Concurrency` cases of the queue, shows each the records
that are free when the wave starts, and finalizes them in their order when all requests
are settled.

| Code (`pipeline/run-reconciliation.ts` unless named) | Definitions |
|---|---|
| lines 80-176: rules, exceptions, selection | `RuleStages!Next`, `Select` |
| the loop's head, 177-237; `throwIfAborted` | `OpenWave`, `StopBetweenWaves`, `Return` |
| `generateProposalWithVerifierRetry`, its catch at 246-258, `requestProposal` with its budget (55-64) | `Propose`, `GenerationFails`, `SchemaFails`, `RequestFails`, `AskAgain`, `FallBack`, `Reject` |
| the loop at 261-268, `finalizeAgentProposal`, `consumeFinalResult` | `Turn`, `Finalize`, `Throw`, `Consumed` |
| `executeLegacyRun` (`run-service.ts`) | `MarkProcessing`, `Pipeline`, `PipelineThrows`, `SaveCompletedRun`, `MarkRunFailed`, and `...Fails` for a rejected statement |
| `createRun`, `cancelRun`, the deadline timer (`run-service.ts`) | `StartRun`, `Cancel`, `Deadline` |

Opening a wave is one action: there is no `await` between two throws of the loop's head
and the first request of each case. While requests are in flight nothing is consumed, so
`taken` is the snapshot of the wave. A rejected case throws at its turn, after the cases
before it have been finalized; what they settled is lost with the run, as nothing is
stored before the end. An error outside the `try` (`markRunProcessing`, line 218) leaves
the row PENDING for ever; `lost` marks these runs and those whose failure could not be
stored. A process that dies is left out: the row stays as it is and nothing recovers it.
The branch of `executeLegacyRun` that holds a lease (216-217) is unreachable, because
`executeRun` returns first for a durable repository.

### Dashboard

`server` is what the API would answer now, so an answer on its way
(`task[t].answer`) may be outdated when it arrives. `task` has the four asynchronous
functions: the submission and the resumption, which both end in `waitForRun`, loading by
hand, and the stop. Between two awaits a function is one action.

| Code (`apps/web/app/dashboard.tsx`) | Actions |
|---|---|
| `runReconciliation` | `Submit`, `Created`, `CreateFails` |
| `waitForRun`, its callers' `catch` and `finally` | `PollAnswered`, `PollFails`, `PartialAnswered`, `PauseEnds`, `Expire` |
| `loadRunData`; the button at 309 | `LoadAnswered`, `LoadFails`; `Retry` |
| the mount effect, 184-206 | `Reload` |
| `stopRun` | `Stop`, `StopConfirmed`, `StopFails` |
| the API (`apps/api/src/app.ts`) | `ServeCreate`, `ServeRead`, `ServeCancel`, `SettleRun` |

Bounds of the model: one stop and one load by hand are under way at a time; a run that
ended keeps its end (the durable runs' late failure that overwrites another end is in
`DurableRuns`); the two requests of a load are one; two tabs on one localStorage are left
out. `fetch` has no timeout in the code: that every request is answered or fails is an
assumption of the fairness.

Three races the code leaves open are reachable in the model and excluded by no property:
a late stop answer clears the poll and the key of a run submitted meanwhile; the
`finally` of a resumed wait sets `isRunning` to false under its successor, which hides the
Stop button; a late `loadRunData` shows the summary of an older run.
`StoppedRunStaysStopped` and `EndShown` hold all the same.

## 3. Runs

Bounds are in the .cfg files. Two processes suffice for every race of this
protocol: a statement distinguishes the lease's owner from everyone else. In `faults`
one crash, one rejected statement and one lease that runs out under its holder may fall
anywhere, all in one behaviour. Its run has one work item: two holders of one item, two
planners and the finalizer race as they do with more, and two items with all faults are
beyond five minutes of TLC. What only several items show (a failed item beside a completed
one, the last completion among others, refreshes of different items that overtake each
other) is covered by the theorems of section 4, which prove all ten properties of `faults`
for any number of runs, items, processes and faults.
Symmetry is used only in safety runs. Deadlock is not an error: a system whose runs have all ended, or
whose processes are all gone, stops.

| Run | Instance | Checks |
|---|---|---|
| `faults` | 1 item, 2 processes, 2 outcomes, retry limit 1, a crash, a rejected statement and a stalled lease | `IInv`, `CompletedIsWhole`, `CancelledIsQuiet`, `SettledOnce`, `OneAnnouncer`, `CountersNeverAhead`, `FailedItemFailsRun`, `NoRunForsaken`, `ImplementsLifecycle`, `NoResurrection` |
| `takeover` | 1 item, 2 processes, a crash, retry limit 2 | `EveryRunSettles`, `AbandonedLeaseReclaimed` |
| `late` | 1 item, 2 processes | `NoCheckpointAfterReclaim` is violated |
| `forsaken` | 1 item, 2 processes, a crash, no other fault | `ProcessingEnds` is violated |
| `quota` | 2 requests in flight, 3 in all, 2 per window, 3 tokens per window of 2 ticks | `IInv`, `BudgetKept`, `NoReservationWhileRefused`, `EveryRequestEnds` |
| `quota_settle` | as `quota`, with a longer clock | `UnusedCapacityReturned` is violated |
| `stages` | every pair of files of 2 banks and 4 ledgers over two spellings of a reference, a party and two days, or over amounts of a batch | `TypeOK`, `RecordsUsedOnce`, `AmbiguityNeverClears`, `EveryRecordDecided`, `ImplementsUniqueMatching` |
| `components` | every pair of files of 2 banks and 3 ledgers over four rows each, shortlists of 2 | `PipeTypeOK`, `CasesDistinct`, `AgentsLeaveSettledAlone`, `ReconciledIsSound`, `CasesAccountedFor` |
| `components_reuse` | as `components` | `NoRecordMatchedTwice` is violated |
| `components_dropped` | shortlists of 3, so that none is cut | `AbstentionKeepsRecordsVisible` is violated |
| `waves` | every pair of files of 2 banks and 3 ledgers over two rows each, waves of 2, a budget of 3 calls | `RunTypeOK`, `NoRecordMatchedTwice`, `OneResultPerCase`, `CallBudgetKept`, `CompletedOrNothing`, `FailureCodeTellsWhy`, `FollowsLifecycle`, `EveryRunEnds` |
| `dashboard` | 2 runs, one tab | `DashboardTypeOK`, `StoppedRunStaysStopped`, `EndShown`, `EveryWaitEnds` |

Quota: a window is 2 ticks and the longest refusal 3, so windows expire between a
reading and its update, refusals outlive windows, and settlements arrive late.
Three requests fill a window, overflow it and meet the next one. `MaxTime` stops the
clock when nobody waits; a waiting request keeps it going, up to `MaxClock`, which
no behaviour of the run reaches. A request of `quota` may use one token more than it
reserved, of `quota_settle` none.

Stages: four ledgers are the least with which two groups of two or three overlap in
different records, and with two banks an ambiguous anchor, a bystander of the
ambiguity and a rival of the bystander meet. A ledger's day 2 is beyond the window of a
bank's day 0, its day 1 at the edge. The stages are over after `Leftovers`, so the
system stops.

Components: three ledgers are one more than a shortlist of two holds, and with two
banks there are cases that ask about the same pair, stars with two leaves, shortlists
that share a record, and exceptions. The code's bound is 8
(`MAX_CANDIDATES_PER_PRIMARY`); what matters is that a decision can exceed it. The system
stops when every component is done.

Waves: five records give up to three cases, so a wave of two is followed by another, two
cases of a wave share a candidate, and a case loses its record or its last candidate
between selection and its wave. A budget of three is used up by two first requests and
one repair, so the second repair and the third case meet it. An entry that matures later
is an exception the pipeline settles without asking.

Dashboard: two runs are what a late answer of one needs to meet the other. A page has one
wait at a time that submits and one that resumes, and both may be alive after a stop.

`FailedItemFailsRun` and `NoRunForsaken` speak of behaviours until something goes wrong
(`FaultFree`: no process has crashed, no statement was rejected): the code has no repair
for a failure between two statements. What such a failure can leave behind is the finding
of `forsaken`.

The counters are only bounded from above. When an older refresh writes last, they stay
low for good, even when no refresh is pending; nothing in the code corrects them, so no
property says that they catch up.

### Fairness

`RunsOn`: the event loop and the database of a process that is up keep going, and
a polling worker takes some claimable item: some step the process can take by itself is
taken (one `WF` per process; no item is promised its turn). That handlers return is all
the code guarantees about them. `SlicesSuffice` asks for more: an item
claimed again and again is done within one of its slices (`SF`); it is an
assumption about slice length and provider latency, and `EveryRunSettles` needs
it. `Replaced`: a lost process is replaced and abandoned leases run out in time.
`EveryRunSettles` excuses runs that lost a process: one that crashes between storing
the input and the plan leaves a run that recovery does not list.

The quota's progress assumes that time passes and that a request whose timer has
fired or whose answer has arrived takes its next step (`WF`). A request the provider
never answers is ended by the slice timer, which the fairness covers as an
answer. Nothing is assumed about who goes first: with unbounded traffic a request
could starve, and the run has as many requests as it names.

The in-process executor's fairness is that of its event loop: some step it can take is
taken (`WF` of `Executor`). `EveryRunEnds` therefore also assumes that model requests end,
which the deadline's signal sees to. The dashboard's is that requests are answered or
fail and timers fire (`WF` per function); no run need ever settle, and the user owes
nothing. A user who reloads for ever starts the wait over each time, so `EveryWaitEnds`
speaks of behaviours in which reloading stops.

### Findings

- `late`: `run-service.ts:199` reads the signal once; two awaits follow. Claim by
  p1, handler passes the check, slice ends, item released, p2 claims it, p1's
  promise stores its result. The comment at 197-198 excludes this. The damage is
  bounded: `ImplementsLifecycle` shows that the case still keeps one answer. The
  same late result can meet a later attempt that fails: a FAILED item with a
  stored result.
- `forsaken`: a process is lost after `failWorkItem` and before `markRunFailed` (after
  `completeWorkItem` and before `finalizeRun` it is the same). The run is PROCESSING and
  has no item that is queued or leased, so no worker claims any of it and
  `getRecoverableRunIds` does not list it; only the user can end it, by cancelling. No
  statement ends a durable run by its age: the deadline is only the length of a slice
  (`run-service.ts:153`). `Docs/railway-deployment.md:47-48` says that an expired run
  budget is recorded as a terminal failure "rather than remaining indefinitely in
  `PROCESSING`". The run assumes `CrashSpec`: lost processes are replaced and every slice
  suffices. A rejected statement in place of the crash does the same.
- `quota_settle`: `reserve` returns its clock reading as the reservation's
  `minuteStartedAt`, and `settle` compares it with the stored start of the window.
  They are equal only for the reservation that opened the window; every other
  settlement is dropped and unused tokens stay charged until the window ends. The
  comment at `groq-rate-limiter.ts:82-83` promises their return. The error is on
  the safe side: `BudgetKept` holds.
- `components_reuse`: the API calls `processPlannedComponent` once per work item
  without used records (`run-service.ts:196`), and the store compares cases, not
  records. Bank records 1 and 2 with ledger record 11 on both shortlists are both
  RECONCILED with it. `Docs/system-design.md:944` excludes this. What the rules matched
  is out of reach all the same: `AgentsLeaveSettledAlone`.
- `components_dropped`: a primary with two candidates related by amount and date only
  has no component candidates (line 714), so its UNRESOLVED result names it alone;
  the candidates' own cases were skipped as reciprocal (682-685). They appear in no
  result. `pipeline/invariants.test.ts:221` promises that every record of a connected
  investigation stays visible when the model abstains; its instance is related by
  reference.

## 4. Theorems

### Durable runs

`DurableRunsProofs` proves, from `StoreAssumption` and `BudgetAssumption` (the
constants are sets of the right kind, `Items` is finite):

| Theorem | States |
|---|---|
| `TypeCorrect` | `Spec => []TypeOK` (no run checks it alone: `faults` checks it within `IInv`) |
| `InductiveInvariant` | `Spec => []IInv` |
| `CompletedRunsAreWhole`, `CancelledRunsAreQuiet`, `ItemsSettleOnce`, `CompletionAnnouncedOnce` | the four invariants, as corollaries |
| `SettledForGood` | `Spec => NoResurrection` |
| `LifecycleImplemented` | `Spec => ImplementsLifecycle` |

None of the invariants is inductive alone. That a COMPLETED run is whole needs
that a completed item has a result (`RowsSettle`), which needs that an attempt
about to complete has stored it (`AttemptsInOrder`), which needs that nothing
removes results; that a plan's rows come all together (`PlanStored`); that
`finalizeRun` sees them all. That RUN_COMPLETED has one author needs that
whoever announces has won the update (`AnnouncersWon`) and that nothing leads
back to PROCESSING. `IInv` is the conjunction; run `faults` checks it first.

The proofs go in two layers. `StatementMonotone`, `StoreInvRun` and
`StoreInvItem` say once what *any* statement of the store does to it; the lemmas
about planners, workers and attempts then look only at the program counters.
`NextFounded` and `NextLifecycle` map every step to a step of `RunLifecycle` or a
stutter.

`RunEndsProofs` adds:

| Theorem | States |
|---|---|
| `CountersNotAhead` | `Spec => []CountersNeverAhead`, with every fault |
| `TotalsAreExact` | `Spec => []TotalsExact`: the total is the number of a run's work items |
| `FailuresReachTheRun`, `SomeoneFinalizes` | `Spec => []` of `FailedItemFailsRun`, `LastOneFinalizes` |
| `LeasesAreWorkedOn` | `Spec => []LeasesHeld`: until something goes wrong a leased item is worked on by its owner |
| `RunsKeepSomeone` | `Spec => []NoRunForsaken` |
| `CompletionIsTold` | `Spec => []CompletionTold`: until something goes wrong a COMPLETED run has its event, or the winner of `finalizeRun` still has it before it |

`CountersInv` is why counters are never ahead: every run's counters, and the tally of every
worker that has counted and not yet written, fit the rows (`Fits`: the total is exact, no
more is counted as completed or failed than is). Rows are planned once and settled items stay
settled (`CountsGrow`), so what fits keeps fitting (`FitsStill`) however long a refresh waits
and whichever writes last. `FaultFree` is the hypothesis inside the properties of the next
five theorems, not one about the constants: what goes wrong never goes right again
(`NothingWentWrong`), so a step to a fault-free state starts in one and is no crash and no
rejection; leases still run out and runs are still cancelled. `EndsInv` makes the first
two inductive: the total is exact (`TotalsExact`), so a run whose items are all completed
can be finalized (`DoneIsFinalizable`) and whoever gives up on it was early; an item is
settled only by a worker that then has the refresh before it (`ItemsOnward`), and that
worker gives the refresh, the report of a failure or `finalizeRun` up only by doing it
(`SlotOnward`).

`NoRunForsaken` needs to know where a run is at each status, which `HandsInv` adds: before
its plan it has a planner (`PlanAwaited`), and a leased item has a worker at a step of its
attempt (`LeasesHeld`), which gives the item up only by changing its row or when the row
is no longer its own (`LeasesOnward`). All items settled, one failed or all completed, is
the case of `FailedItemFailsRun` and `LastOneFinalizes`.

### Quota

`GroqQuotaProofs`, from `QuotaAssumption`:

| Theorem | States |
|---|---|
| `QuotaInvariant` | `Spec => []IInv`, the inductive invariant `TypeOK /\ QuotaInv` |
| `QuotaTypeCorrect` | `Spec => []TypeOK`; in particular no window counts more requests than configured |
| `WindowsWithinBudget` | `Spec => []BudgetKept`, for any excess of usage over its estimate |
| `RefusalsRespected` | `Spec => NoReservationWhileRefused` |

`BudgetKept` speaks of `due`, the row of `tokensInMinute`; they are linked by `Charged`:
every request in flight, sent or about to be, was counted (`InFlight`), and the row undercounts by at most
`Excess` for each counted request that has ended (`Ended`). A request that is granted
fits the row, so it is within the budget by the same margin; one that settles spends its
own share of it, whether the row accepts the settlement or drops it. A settlement must not
break `Charged`, so it may credit only a reservation counted in the current window:
`ReservationsPlaced` says that a reservation whose reading equals the window's start was
counted in it. This is where outdated readings matter: a reading may be older than the
window it was counted in, or name no window at all, but `held.started` is never in a later
window than the current one.

`RefusalsRespected` is about the reservation, where the code looks at the refusal. Between
the reservation and the request two events are stored, and a refusal that another replica
records meanwhile does not stop the request.

### Rule stages

`RuleStagesProofs`, from `RowsAssumption` (the files' ids are disjoint, rows are
rows), for files of any size:

| Theorem | States |
|---|---|
| `StagesTypeCorrect` | `Spec => []TypeOK`; in particular only supported shapes are reconciled |
| `EveryRecordUsedOnce`, `AmbiguousNeverReconciled`, `NothingLeftUndecided` | the three invariants, as corollaries of `StagesInvariant` |
| `UniqueMatchingImplemented` | `Spec => ImplementsUniqueMatching` |

`StagesInv` has two parts. `Books` and `ProposalsApart` tie the sets to the decisions:
used is what was matched, blocked what was sent to reasoning, and proposals are free
and disjoint. `WeighedInOrder` is why the order of weighing does not matter: the
uncontested groups stay among the proposals and clear of what is set aside; every
other proposal already touches what is set aside, so it joins when its turn comes;
and only contested groups ever feed the set. At the commit nothing is pending, so
what is left is exactly the uncontested groups. `EvaluationSorts` proves the base
case: an anchor with several options, or a conflict of two proposals, leaves no
contested group untouched.

### Planned components

`PlannedComponentsProofs`, from `RowsAssumption` and `CandidatesAssumption`:

| Theorem | States |
|---|---|
| `SettledLeftAlone` | `PipeSpec => []AgentsLeaveSettledAlone` |
| `EveryMatchSound` | `PipeSpec => []ReconciledIsSound` |
| `PipelineTypeCorrect` | `PipeSpec => []PipeTypeOK` |
| `EveryDecisionItsCase` | `PipeSpec => []CasesDistinct` |
| `NoCaseForgotten` | `PipeSpec => []CasesAccountedFor` |
| `PipelineMatchesUniquely` | `PipeSpec => ImplementsUniqueMatching` |
| `NoResultDropped` | `PipeSpec => []SettledOnce`: a case has one result |
| `ReuseTakesTwoComponents` | `PipeSpec => []OnlyModelsClash`: of two matches with a common record both are the model's, for two cases |

The first two follow from `PipeInv` (`PipelineInvariant`). A worker verifies with an
empty set of used records, so what keeps the model away from settled records is the plan
alone: a shortlist and its primary are unsettled (`ShortlistsUnsettled`), what the rules
settled is used by the books of the stages (`Books`), and a proposal that leaves its
context is refused (`VerifierRefuses`); `ComponentsApart` carries this through any order
of answers, repairs and restarts. For the matches of the rules `OptionsSound` shows that
every option of every rule has the verifier's shape, is compatible and balances;
`TotalOfOne` unfolds the sum over a single record, which is all the rules need: a
grouped rule compares the sum of one file's records with one amount.

The next three follow from `PlanInv`, on lemmas of `CandidatesProofs`. The records of a
file are finitely many and ranked strictly, ids last (`RanksOrder`), so the first
`MaxCandidates` are at most that many: each has a different number of records before it
(`FirstOnesBounded`). A decision set aside by a stage has a case among the anchors of that
stage (`EvaluationAnchored`), two of one stage have different anchors, and a later stage
sees free records only (`EarlierCasesBlocked`); `AsidesApart` is the invariant that also
keeps the proposals still to be weighed clear of those cases. A case the selection leaves
out is a leaf of a star or the other half of a reciprocal pair, hence on the shortlist of
one that is selected (`SelectionLosesNone`), and components never lose their shortlists.

`PipelineRunsStages` shows that `PipeSpec` implies the `Spec` of the stages: the plan waits
for their end, and no later step changes their variables. The theorems about the stages
hold of the pipeline with it, their refinement included. The last two follow from
`ResultsInv`: the rules' results are about other cases than the components
(`RulesApart`), the model's about components that are done (`ResultsPlaced`), and a
component that is done is not started over. `OnlyModelsClash` is exactly what run
`components_reuse` leaves open, so the violation it finds is the only kind there is.

### Shortlists and the selection

`CandidatesProofs` also has what the code reaches step by step and `Candidates` defines at
once; the first three are why the definitions need no order:

| Theorem | States |
|---|---|
| `StarsApart` | two stars have no record in common, so hubs can be considered in any order |
| `ExceptionsIndependent` | the shortlist of a ledger record does not depend on the ledger records taken before |
| `RelatedPairsAskedOnce` | two selected cases that show each other are hubs that know each other by amount and date only: a pair related by a reference or a batch is asked about once |
| `RequiredComeFirst` | the records of a decision are not crowded out of its shortlist by others |

A leaf of a star leads to its hub alone, and a hub has two leaves or more, so a common
record would make two hubs one. Candidates are of the other file, so of two cases that
show each other one is a bank record and comes first; the other is not open any more,
unless both are hubs. A leaf has one leaf itself and a hub two or more, so no hub is a leaf
of another, and two hubs are at most candidates of each other by weaker signals; such a
pair may be asked about twice. For
`RequiredComeFirst`, only required records rank before a required one.

### In-process runs

`LegacyRunProofs`, from `RowsAssumption`, `CandidatesAssumption` (finite
files, ids that are numbers) and `WavesAssumption` (a positive concurrency and budget):

| Theorem | States |
|---|---|
| `RunTypeCorrect` | `LegacySpec => []RunTypeOK` |
| `RunMatchesOnce`, `RunSettlesOnce`, `RunKeepsBudget`, `RunShowsAllOrNothing`, `RunTellsWhy` | the five invariants |
| `RunImplementsLifecycle` | `LegacySpec => FollowsLifecycle` |
| `RunMatchesUniquely` | `LegacySpec => ImplementsUniqueMatching` |
| `RunMatchesSound` | `LegacySpec => []MatchesSound`: every match has the verifier's shape, is compatible and balances |
| `RunLeavesSettledAlone` | `LegacySpec => []ModelLeavesSettledAlone` |

`RunInv` has four parts. `StagesPart` is the invariant of the stages, with a case for
every decision. `WavesInv` has the rest of the pipeline: a match's records are taken
(`UsedAreShown` ties the results to `taken`), so a proposal verified against `taken` is
disjoint from every match, although its shortlist was drawn before other cases of its
wave were finalized; queue, wave and results have different cases (`CasesApart`), so
none is settled twice; every selected case is queued, in the wave, or named by a result
(`CasesKept`), which makes a returned run whole. The budget needs a counting argument
(`ForemostBounded`, from `FirstOnesBounded` above): the foremost n of the cases in the
order of `compareReasoningDecisions` are at most n. `Causes` says that whatever is
called cancelled or late, in the wave, the pipeline or the row, is what the signal says;
`RowFollows` ties the row to the executor.

The last two rest on `MatchesInv`: what the rules and the exceptions settled before the
first wave (`SettledFirst`) is in no queued or prepared case (`CasesOpen`), so a proposal,
which must stay in its context, cannot reach it (`ResultsApart`). The lemmas about sound
matches (`OptionsSound`, `TotalOfOne`) are those of the planned components and stand in
`CandidatesProofs`.

### Dashboard

`DashboardProofs`, from `DashboardAssumption`, for any number of runs:

| Theorem | States |
|---|---|
| `PageTypeCorrect` | `Spec => []DashboardTypeOK` |
| `NoStoppedRunReturns` | `Spec => []StoppedRunStaysStopped` |
| `NoSilentEnd` | `Spec => []EndShown` |

A stopped run could come back only through `Created`, so `PageInv` says that a run whose
creation is still on its way to the page has been stopped by nobody (`CreatedUnheard`),
which holds because a function knows only runs the API has created (`OnlyCreatedRuns`,
`EachItsOwn`). For `EndShown` it says what an answer of an ended run does to the page
(`EndsTold`): a load under way is for a run that has ended, so its answer is an end.

### Only model-checked

Every invariant and every action property that a passing run checks is proved, and so are
`LastOneFinalizes`, which `NoRunForsaken` includes, and the invariants named above that no run
checks alone. Liveness
under fairness (`EveryRunSettles`, `AbandonedLeaseReclaimed`,
`EveryRequestEnds`, `EveryRunEnds`, `EveryWaitEnds`) is out of the prover's reach.

## 5. What is left

Worth doing next: several tabs of the dashboard on one localStorage.

### Not modelled

- Component batching (`job-planner.ts`), `processPlannedBatch`, `enqueueRunWorkItem` and
  `persistRunInput`: exported, but nothing in the API calls them.
- The trace recorder and the contents of trace events: a log no decision reads. What its
  sequence numbers can break, the failure trace of a planned run, is in `RunStore`.
- Parsing, normalisation and contracts: string functions without state. What the rules
  need of them, a reference's normal form, is the constant `Normalized`.
- The reads (`getSummary`, `getResults`), the HTTP mapping, configuration, prompt
  wording, the offline generators, the evaluation, and the web pages other than the
  dashboard: no state that outlives a call.
