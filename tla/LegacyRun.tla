------------------------------ MODULE LegacyRun ------------------------------
(***************************************************************************)
(* One run as executeLegacyRun (apps/api/src/run-service.ts) carries it     *)
(* out when the repository knows no work items: the whole pipeline in the   *)
(* process that accepted the run, an AbortController for the user and the   *)
(* deadline, and its results stored in one transaction at the end.          *)
(***************************************************************************)
EXTENDS ReasoningWaves

VARIABLES
  status,   \* of the run's row
  failure,  \* its failure code
  stored,   \* its result rows
  exec,     \* where executeLegacyRun is
  lost      \* the store refused what would have ended the run

legacyVars == <<vars, waveVars, signal, status, failure, stored, exec, lost>>

NoFailure == "none"

Where == {"absent", "scheduled", "running", "failing", "over"}

RunTypeOK ==
  /\ TypeOK
  /\ course \in {"rules", "waves", "returned"} \cup Reasons \cup Errors
  /\ taken \subseteq Records /\ results \subseteq Result
  /\ DOMAIN queue \subseteq Records /\ \A p \in DOMAIN queue : queue[p] \subseteq Records
  /\ DOMAIN wave \subseteq Records /\ \A p \in DOMAIN wave : wave[p] \in Item
  /\ calls \in Nat
  /\ signal \in {NoSignal} \cup Reasons
  /\ status \in {"ABSENT", "PENDING", "PROCESSING", "COMPLETED", "FAILED"}
  /\ failure \in {NoFailure} \cup Reasons \cup Errors
  /\ stored \subseteq Result
  /\ exec \in Where
  /\ lost \in BOOLEAN

LegacyInit ==
  /\ WavesInit
  /\ signal = NoSignal
  /\ status = "ABSENT" /\ failure = NoFailure /\ stored = {}
  /\ exec = "absent" /\ lost = FALSE

\* The row is there before the task is scheduled.
StartRun ==
  /\ exec = "absent"
  /\ status' = "PENDING" /\ exec' = "scheduled"
  /\ UNCHANGED <<vars, waveVars, signal, failure, stored, lost>>

\* Variant: a repository without markRunProcessing.
MarkNothing ==
  /\ exec = "scheduled"
  /\ exec' = "running"
  /\ UNCHANGED <<vars, waveVars, signal, status, failure, stored, lost>>

MarkProcessing ==
  /\ exec = "scheduled"
  /\ status' = "PROCESSING" /\ exec' = "running"
  /\ UNCHANGED <<vars, waveVars, signal, failure, stored, lost>>

\* The status is written outside the try: an error there ends the task at once.
MarkProcessingFails ==
  /\ exec = "scheduled"
  /\ exec' = "over" /\ lost' = TRUE
  /\ UNCHANGED <<vars, waveVars, signal, status, failure, stored>>

Pipeline ==
  /\ exec = "running" /\ PipelineStep
  /\ UNCHANGED <<status, failure, stored, exec, lost>>

\* The code under which the run fails.
Fails(code) ==
  /\ exec' = "failing" /\ failure' = code
  /\ UNCHANGED <<vars, waveVars, signal, status, stored, lost>>

\* Variant: a cancelled run is left as it is, as durable ones are.
PipelineThrowsSilently ==
  /\ exec = "running" /\ course \in Reasons \cup Errors
  /\ IF course = "RUN_CANCELLED"
     THEN exec' = "over" /\ UNCHANGED <<vars, waveVars, signal, status, failure, stored, lost>>
     ELSE Fails(course)

PipelineThrows ==
  /\ exec = "running" /\ course \in Reasons \cup Errors
  /\ Fails(course)

\* saveCompletedRun, which does not look at the signal.
SaveCompletedRun ==
  /\ exec = "running" /\ course = "returned"
  /\ \A r, s \in results : r.case = s.case => r = s
  /\ status' = "COMPLETED" /\ stored' = results /\ exec' = "over"
  /\ UNCHANGED <<vars, waveVars, signal, failure, lost>>

SaveFails == exec = "running" /\ course = "returned" /\ Fails("SYSTEM_ERROR")

MarkRunFailed ==
  /\ exec = "failing"
  /\ status' = "FAILED" /\ exec' = "over"
  /\ UNCHANGED <<vars, waveVars, signal, failure, stored, lost>>

MarkRunFailedFails ==
  /\ exec = "failing"
  /\ exec' = "over" /\ lost' = TRUE
  /\ UNCHANGED <<vars, waveVars, signal, status, failure, stored>>

\* Only the first reason counts.
Abort(reason) ==
  /\ signal = NoSignal
  /\ signal' = reason
  /\ UNCHANGED <<vars, waveVars, status, failure, stored, exec, lost>>

\* cancelRun: true as long as the controller is there and has not aborted.
Cancel == exec \in {"scheduled", "running", "failing"} /\ Abort("RUN_CANCELLED")

Deadline == exec \in {"running", "failing"} /\ Abort("RUN_DEADLINE_EXCEEDED")

Executor ==
  \/ MarkProcessing \/ Pipeline \/ PipelineThrows \/ SaveCompletedRun \/ MarkRunFailed

LegacyNext ==
  \/ StartRun \/ Executor \/ Cancel \/ Deadline
  \/ MarkProcessingFails \/ SaveFails \/ MarkRunFailedFails

LegacySpec == LegacyInit /\ [][LegacyNext]_legacyVars /\ WF_legacyVars(Executor)

-----------------------------------------------------------------------------
(* Properties.                                                              *)

ResultsOf(outcome) == {r \in results : r.outcome = outcome}

(* Docs/system-design.md:944: "reused records cannot silently participate   *)
(* in multiple final matches".  The cases of a wave are shown the same free *)
(* records and answered concurrently, and still no two matches, of one wave *)
(* or of two, share a record (run-reconciliation.ts:180,268).               *)
NoRecordMatchedTwice ==
  \A r, s \in ResultsOf("RECONCILED") : r = s \/ r.records \cap s.records = {}

(* saveCompletedRun refuses a run with two results for a case               *)
(* (reconciliation-run-repository.ts:447), which would fail it: rules,      *)
(* exceptions, cases without a candidate and the model never settle one     *)
(* case twice.                                                              *)
OneResultPerCase == \A r, s \in results : r.case = s.case => r = s

(* First requests and repairs of concurrent cases draw on one budget, and   *)
(* never overdraw it (run-reconciliation.ts:55-64).                         *)
CallBudgetKept == calls <= MaxCalls

(* Results are stored whole or not at all: a COMPLETED run names every case *)
(* that was selected, those dropped because their record was used included, *)
(* and a run that was aborted or failed between two waves shows nothing of  *)
(* what it had settled (run-service.ts:220-254, run-reconciliation.ts:264). *)
CompletedOrNothing ==
  IF status = "COMPLETED"
  THEN /\ results \subseteq stored
       /\ \A p \in Selected(Context) : \E r \in stored : p \in r.records
  ELSE stored = {}

(* A run fails as cancelled or as late only when that is what aborted it,   *)
(* however cancel, deadline and errors of requests in flight interleave     *)
(* (run-reconciliation.ts:247,479; run-service.ts:219,291).                 *)
FailureCodeTellsWhy == status = "FAILED" /\ failure \in Reasons => failure = signal

Lifecycle ==
  INSTANCE RunLifecycle WITH Runs <- {"run"}, Cases <- {}, RunOf <- NoItems, Outcomes <- {},
    NoOutcome <- NoFailure, status <- [r \in {"run"} |-> status], answer <- NoItems

(* The in-process executor keeps the promises of durable runs to whoever    *)
(* polls: RunLifecycle, without checkpoints of single cases.                *)
FollowsLifecycle == Lifecycle!Spec

(* Model requests end, by an answer, an error or the deadline: every run    *)
(* settles, unless the store refused its last write.                        *)
EveryRunEnds == exec = "scheduled" ~> status \in {"COMPLETED", "FAILED"} \/ lost
=============================================================================
