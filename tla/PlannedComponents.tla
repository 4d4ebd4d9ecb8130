------------------------- MODULE PlannedComponents -------------------------
(***************************************************************************)
(* A run on the durable path, from the two files to its results:            *)
(* planReconciliation (packages/reconciliation/src/pipeline/                *)
(* run-reconciliation.ts) runs the rule stages, settles what needs no model *)
(* and plans one component for each case that does; workers hand every      *)
(* component to processPlannedComponent, in any order and each with no      *)
(* record marked as used, and store what it returns.  How work items are    *)
(* leased, retried and finished is the subject of DurableRuns.              *)
(***************************************************************************)
EXTENDS Verifier

VARIABLES
  planned,  \* the plan has been stored
  work,     \* the planned components, by primary record
  results   \* the stored results

pipeVars == <<vars, planned, work, results>>

Shortlists == {cs \in SUBSET Records : Cardinality(cs) \in 1..MaxCandidates}

Component ==
  [candidates : Shortlists, cover : SUBSET Records, phase : {"first", "again", "done"}]

\* Every variable has its type, and a shortlist is neither empty nor too long.
PipeTypeOK ==
  /\ TypeOK
  /\ planned \in BOOLEAN
  /\ DOMAIN work \subseteq Records
  /\ \A p \in DOMAIN work : work[p] \in Component
  /\ results \subseteq Result

PipeInit ==
  /\ Init
  /\ planned = FALSE
  /\ work = [p \in {} |-> {}]
  /\ results = {}

StageStep == Next /\ UNCHANGED <<planned, work, results>>

\* planReconciliation after the stages, and persistPlan.
Plan ==
  LET context == Context
      hopeless == {p \in Selected(context) : context[p] = {}}
  IN  /\ stage = Done /\ ~planned
      /\ planned' = TRUE
      /\ work' = [p \in Selected(context) \ hopeless |->
                    [candidates |-> context[p], cover |-> {p} \cup Leaves(context, p),
                     phase |-> "first"]]
      /\ results' = {ByRules(CaseOf(d), "RECONCILED", d.records) : d \in Autos} \cup
                    {ByRules(p, "EXPLAINED_OUTSTANDING", {p}) : p \in Exceptions} \cup
                    {ByRules(p, "UNRESOLVED", {p}) : p \in hopeless}
      /\ UNCHANGED vars

-----------------------------------------------------------------------------
(* processPlannedComponent: at most two requests to the model.              *)

InPhase(p, phases) == p \in DOMAIN work /\ work[p].phase \in phases

Goto(p, to) ==
  /\ work' = [work EXCEPT ![p].phase = to]
  /\ UNCHANGED <<vars, planned, results>>

\* Each component starts from an empty set of used records.
NothingTaken == {}

FailuresOf(p, q) == Failures(p, work[p].candidates, NothingTaken, q)

\* finalizeAgentProposal verifies the last proposal, and the worker stores
\* the result.  An unresolved one accounts for the whole component.
Finalize(p, q) ==
  LET outcome == FinalOutcome(p, work[p].candidates, NothingTaken, q)
  IN  /\ work' = [work EXCEPT ![p].phase = "done"]
      /\ results' = results \cup
           {[case |-> p, source |-> "AGENT_VERIFIED", outcome |-> outcome,
             records |-> IF outcome = "UNRESOLVED" THEN work[p].cover ELSE q.records]}
      /\ UNCHANGED <<vars, planned>>

\* The first answer: a rejection that can be mended asks once more.
Propose(p, q) ==
  /\ InPhase(p, {"first"})
  /\ IF Repairable(FailuresOf(p, q)) THEN Goto(p, "again") ELSE Finalize(p, q)

\* The provider could not generate the structured output.
GenerationFails(p) == InPhase(p, {"first"}) /\ Goto(p, "again")

\* The second answer is final, whether the first was rejected or failed.
ProposeAgain(p, q) == InPhase(p, {"again"}) /\ Finalize(p, q)

GenerationFailsAgain(p) == InPhase(p, {"again"}) /\ Finalize(p, Insufficient(p))

\* Any other error, or the end of the slice: another attempt starts over.
StartOver(p) == InPhase(p, {"again"}) /\ Goto(p, "first")

Investigate(p) ==
  \/ \E q \in Proposals(p, work[p].candidates) : Propose(p, q) \/ ProposeAgain(p, q)
  \/ GenerationFails(p) \/ GenerationFailsAgain(p) \/ StartOver(p)

PipeNext == StageStep \/ Plan \/ \E p \in DOMAIN work : Investigate(p)

PipeSpec == PipeInit /\ [][PipeNext]_pipeVars

-----------------------------------------------------------------------------
(* Properties.                                                              *)

ResultsBy(source) == {r \in results : r.source = source}
ResultsOf(outcome) == {r \in results : r.outcome = outcome}

(* Results are stored under (run, case) and a second one for a case is      *)
(* dropped (reconciliation-run-repository.ts:344): no two decisions of the  *)
(* rules may name the same case, whichever rule and file they come from     *)
(* (run-reconciliation.ts:120,814-818).                                     *)
CasesDistinct == \A d, e \in decisions : CaseOf(d) = CaseOf(e) => d = e

(* The verifier of a planned component is told of no used record            *)
(* (run-reconciliation.ts:435); all the same the model never gets to name   *)
(* in a result a record that the rules matched or explained.                *)
AgentsLeaveSettledAlone ==
  \A r \in ResultsBy("AGENT_VERIFIED"), s \in ResultsBy("DETERMINISTIC") :
    s.outcome # "UNRESOLVED" => r.records \cap s.records = {}

(* Whatever the model proposes and however often it is asked: a RECONCILED  *)
(* result relates one record to at most three of the other file, of one     *)
(* currency and direction, and balances (Docs/system-design.md:941-947).    *)
ReconciledIsSound ==
  \A r \in ResultsOf("RECONCILED") :
    r.records \in Shapes /\ AllCompatible(r.records) /\ Balanced(r.records)

(* Selection drops cases that another one covers, reciprocal ones and the   *)
(* leaves of stars: each case the rules leave open is settled, or the model *)
(* is shown its primary record (run-reconciliation.ts:664-688).             *)
CasesAccountedFor ==
  planned => \A d \in decisions :
    \/ \E r \in ResultsBy("DETERMINISTIC") : r.case = CaseOf(d)
    \/ \E p \in DOMAIN work : CaseOf(d) \in {p} \cup work[p].candidates

(* Docs/system-design.md:944: "reused records cannot silently participate   *)
(* in multiple final matches".                                              *)
NoRecordMatchedTwice ==
  \A r, s \in ResultsOf("RECONCILED") : r = s \/ r.records \cap s.records = {}

(* pipeline/invariants.test.ts:221: "keeps every record in a connected      *)
(* investigation visible when the model abstains".                          *)
AbstentionKeepsRecordsVisible ==
  /\ planned /\ \A p \in DOMAIN work : work[p].phase = "done"
  /\ \A r \in ResultsBy("AGENT_VERIFIED") : r.outcome = "UNRESOLVED"
  => \A i \in Records : \E r \in results : i \in r.records
=============================================================================
