--------------------------- MODULE ReasoningWaves ---------------------------
(***************************************************************************)
(* runReconciliation (packages/reconciliation/src/pipeline/                 *)
(* run-reconciliation.ts): a whole run in one process.  After the rule      *)
(* stages the selected cases go to the model in waves.  A wave is prepared  *)
(* from the records free when it starts, its requests run concurrently,     *)
(* and when all are settled its proposals are verified one after the other, *)
(* each against the records that the ones before it have used.              *)
(***************************************************************************)
EXTENDS Verifier

CONSTANTS
  Concurrency,  \* reasoningConcurrency
  MaxCalls      \* maxReasoningCalls

ASSUME WavesAssumption == Concurrency \in Nat \ {0} /\ MaxCalls \in Nat \ {0}

VARIABLES
  course,   \* how far the run is: "rules", "waves", "returned" or the error it threw
  taken,    \* the used records, live
  queue,    \* selected cases of the waves to come, and the component each covers
  wave,     \* the prepared cases of this one, by primary record
  calls,    \* requests to the model so far
  results,
  signal    \* why the caller has aborted the run, if it has

waveVars == <<course, taken, queue, wave, calls, results>>

NoSignal == "none"
Reasons == {"RUN_CANCELLED", "RUN_DEADLINE_EXCEEDED"}
Errors == {"AI_REQUEST_ERROR", "SYSTEM_ERROR"}

InFlight == {"first", "again"}

\* A refused proposal stays refused, as used records stay used: one stands for all.
Refused == [outcome |-> "MATCH", records |-> {}, flaw |-> "MALFORMED"]

Proposal == [outcome : {"MATCH", "TIMING_DIFFERENCE", "DISCREPANCY", "INSUFFICIENT_EVIDENCE"},
             records : SUBSET Records, flaw : Flaws]

\* No case is asked about without a candidate.
Item == [candidates : (SUBSET Records) \ {{}}, cover : SUBSET Records,
         phase : InFlight \cup {"settled"} \cup Reasons \cup Errors, answer : Proposal]

NoItems == [p \in {} |-> {}]

\* What is left of a queue or a wave without some cases.
Without(items, cases) == [p \in DOMAIN items \ cases |-> items[p]]

WavesInit ==
  /\ Init
  /\ course = "rules"
  /\ taken = {} /\ queue = NoItems /\ wave = NoItems
  /\ calls = 0
  /\ results = {}

\* The stages are over: their matches, the exceptions, and who is to be asked about.
Select ==
  /\ course = "rules" /\ stage = Done
  /\ course' = "waves"
  /\ taken' = used \cup Exceptions
  /\ \E context \in {Context} :
       queue' = [p \in Selected(context) |-> {p} \cup Leaves(context, p)]
  /\ results' = {ByRules(CaseOf(d), "RECONCILED", d.records) : d \in Autos} \cup
                {ByRules(p, "EXPLAINED_OUTSTANDING", {p}) : p \in Exceptions}
  /\ UNCHANGED <<wave, calls>>

-----------------------------------------------------------------------------
(* Waves.                                                                   *)

\* compareReasoningDecisions: bank records first, then by id.
Before(p, q) == IF (p \in Banks) = (q \in Banks) THEN p < q ELSE p \in Banks

\* The first n of some cases.
Foremost(n, cases) == {p \in cases : Cardinality({q \in cases : Before(q, p)}) < n}

BetweenWaves == course = "waves" /\ wave = NoItems

\* Candidates are generated anew for the records that are free by now.
WaveShortlist(p) ==
  PruneCandidates(p, GenerateCandidates(p, DecisionOf(p).records, Records \ taken))

\* A case beyond the budget concludes nothing.
Prepared(p, candidates, asked) ==
  [candidates |-> candidates, cover |-> queue[p], answer |-> Insufficient(p),
   phase |-> IF asked THEN "first" ELSE "settled"]

ThisWave == Foremost(Concurrency, DOMAIN queue)

\* Variant: a wave ends with the first case of the next.
LaterWavesOverlapping == Without(queue, Foremost(Concurrency - 1, DOMAIN queue))

LaterWaves == Without(queue, ThisWave)

\* Variant: every case of the wave is worth asking about.
AskableAll(shortlist) == DOMAIN shortlist

\* shouldEscalateToAI
Askable(shortlist) == {p \in DOMAIN shortlist : shortlist[p] # {}}

\* Variant: a case without a candidate is dropped like one whose record is used.
NoCandidateDropped(cases) == {}

\* finalizeNoCandidate: the record is not consumed.
NoCandidate(cases) == {ByRules(p, "UNRESOLVED", {p}) : p \in cases}

\* Cases whose record has been used since they were selected are dropped, those
\* left without a candidate are settled, and the others are asked about at
\* once, as far as the budget of calls goes.
OpenWave ==
  LET shortlist == [p \in ThisWave \ taken |-> WaveShortlist(p)]
      prepared == Askable(shortlist)
      asked == Foremost(MaxCalls - calls, prepared)
  IN  /\ BetweenWaves /\ queue # NoItems /\ signal = NoSignal
      /\ queue' = LaterWaves
      /\ wave' = [p \in prepared |-> Prepared(p, shortlist[p], p \in asked)]
      /\ calls' = calls + Cardinality(asked)
      /\ results' = results \cup NoCandidate(DOMAIN shortlist \ prepared)
      /\ UNCHANGED <<course, taken>>

\* Variant: whatever aborted the run, it was cancelled.
StopAsCancelled ==
  /\ BetweenWaves /\ queue # NoItems /\ signal # NoSignal
  /\ course' = "RUN_CANCELLED"
  /\ UNCHANGED <<taken, queue, wave, calls, results>>

\* throwIfAborted: the signal is looked at when a wave is about to start.
StopBetweenWaves ==
  /\ BetweenWaves /\ queue # NoItems /\ signal # NoSignal
  /\ course' = signal
  /\ UNCHANGED <<taken, queue, wave, calls, results>>

Return ==
  /\ BetweenWaves /\ queue = NoItems
  /\ course' = "returned"
  /\ UNCHANGED <<taken, queue, wave, calls, results>>

-----------------------------------------------------------------------------
(* generateProposalWithVerifierRetry, for the cases of a wave at once.      *)

InPhase(p, phases) == course = "waves" /\ p \in DOMAIN wave /\ wave[p].phase \in phases

Becomes(p, to, answer) ==
  /\ wave' = [wave EXCEPT ![p].phase = to, ![p].answer = answer]
  /\ UNCHANGED <<course, taken, queue, results>>

\* While requests are in flight no record is consumed: taken is the snapshot of the wave.
FailuresOf(p, q) == Failures(p, wave[p].candidates, taken, q)

Settle(p, q) ==
  /\ Becomes(p, "settled", IF FailuresOf(p, q) # {} THEN Refused ELSE q)
  /\ UNCHANGED calls

Reject(p, error) ==
  /\ Becomes(p, IF signal # NoSignal THEN signal ELSE error, Refused)
  /\ UNCHANGED calls

\* An error that need not fail the run leaves the case without a conclusion,
\* unless the run has been aborted meanwhile.
FallBack(p) ==
  IF signal # NoSignal THEN Reject(p, signal) ELSE Settle(p, Insufficient(p))

\* Variant: a repair asks whatever the budget.
AskAgainUncounted(p) ==
  Becomes(p, "again", wave[p].answer) /\ calls' = calls + 1

\* The one repair of a case shares the run's budget of calls.
AskAgain(p) ==
  IF calls < MaxCalls
  THEN Becomes(p, "again", wave[p].answer) /\ calls' = calls + 1
  ELSE FallBack(p)

Propose(p, q) ==
  \/ /\ InPhase(p, {"first"})
     /\ IF Repairable(FailuresOf(p, q)) THEN AskAgain(p) ELSE Settle(p, q)
  \/ InPhase(p, {"again"}) /\ Settle(p, q)

\* The provider could not generate the structured output.
GenerationFails(p) ==
  \/ InPhase(p, {"first"}) /\ AskAgain(p)
  \/ InPhase(p, {"again"}) /\ Settle(p, Insufficient(p))

\* AI_SCHEMA_ERROR
SchemaFails(p) == InPhase(p, InFlight) /\ FallBack(p)

RequestFails(p, error) == InPhase(p, InFlight) /\ Reject(p, error)

-----------------------------------------------------------------------------
(* finalizeAgentProposal and consumeFinalResult, in order, when all cases   *)
(* of the wave are settled.                                                 *)

Consumed(p, outcome, q) ==
  IF outcome \in {"RECONCILED", "DISCREPANCY"} THEN q.records
  ELSE IF outcome = "EXPLAINED_OUTSTANDING" THEN {p} ELSE {}

Turn(p) ==
  /\ course = "waves" /\ p \in DOMAIN wave
  /\ \A q \in DOMAIN wave : wave[q].phase \notin InFlight /\ ~Before(q, p)

FinalizeWith(p, outcome) ==
  /\ results' = results \cup
       {[case |-> p, source |-> "AGENT_VERIFIED", outcome |-> outcome,
         records |-> IF outcome = "UNRESOLVED" THEN wave[p].cover ELSE wave[p].answer.records]}
  /\ taken' = taken \cup Consumed(p, outcome, wave[p].answer)
  /\ wave' = Without(wave, {p})
  /\ UNCHANGED <<course, queue, calls>>

\* Variant: the verdict does not know of the records used since the stages.
FinalizeAsSettled(p) ==
  /\ Turn(p) /\ wave[p].phase = "settled"
  /\ FinalizeWith(p, FinalOutcome(p, wave[p].candidates, used \cup Exceptions, wave[p].answer))

Finalize(p) ==
  /\ Turn(p) /\ wave[p].phase = "settled"
  /\ FinalizeWith(p, FinalOutcome(p, wave[p].candidates, taken, wave[p].answer))

\* The first rejected case of the wave fails the run, whatever the later ones are.
Throw(p) ==
  /\ Turn(p) /\ wave[p].phase # "settled"
  /\ course' = wave[p].phase
  /\ UNCHANGED <<taken, queue, wave, calls, results>>

Investigate(p) ==
  \/ \E q \in Proposals(p, wave[p].candidates) : Propose(p, q)
  \/ GenerationFails(p) \/ SchemaFails(p)
  \/ \E error \in Errors : RequestFails(p, error)

RunWaves ==
  \/ Select \/ OpenWave \/ StopBetweenWaves \/ Return
  \/ \E p \in DOMAIN wave : Investigate(p) \/ Finalize(p) \/ Throw(p)

PipelineStep ==
  \/ Next /\ UNCHANGED <<waveVars, signal>>
  \/ RunWaves /\ UNCHANGED <<vars, signal>>
=============================================================================
