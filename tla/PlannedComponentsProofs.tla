---------------------- MODULE PlannedComponentsProofs ----------------------
(* Theorems about PlannedComponents, for every pair of files and whatever   *)
(* the model answers.                                                       *)
EXTENDS PlannedComponents, CandidatesProofs

-----------------------------------------------------------------------------
(* The invariant of the pipeline: what a component reaches, its primary and *)
(* its shortlist, has nothing in common with what the rules settled.        *)

Apart(g) == \A s \in results : Settles(s) => g \cap s.records = {}

Reach(p) == {p} \cup work[p].candidates \cup work[p].cover

Entry ==
  [candidates : SUBSET Records, cover : SUBSET Records, phase : {"first", "again", "done"}]

WorkTyped == DOMAIN work \subseteq Records /\ \A p \in DOMAIN work : work[p] \in Entry

NothingBeforePlan == ~planned => DOMAIN work = {} /\ results = {}

ComponentsApart == \A p \in DOMAIN work : Apart(Reach(p))

AgentsApart == \A r \in results : r.source = "AGENT_VERIFIED" => Apart(r.records)

MatchesSound == \A r \in results : r.outcome = "RECONCILED" => SoundMatch(r.records)

PipeInv ==
  /\ AllInv /\ StagesSound
  /\ WorkTyped /\ NothingBeforePlan
  /\ ComponentsApart /\ AgentsApart /\ MatchesSound

LEMMA PipeInvInit == PipeInit => PipeInv
<1> SUFFICES ASSUME PipeInit PROVE PipeInv  OBVIOUS
<1>1. AllInv  BY AllInvInit DEF PipeInit
<1>2. StagesSound  BY DEF PipeInit, Init, StagesSound, Autos
<1>3. DOMAIN work = {} /\ results = {}  BY DEF PipeInit
<1> QED
  BY <1>1, <1>2, <1>3
  DEF PipeInv, WorkTyped, NothingBeforePlan, ComponentsApart, AgentsApart, MatchesSound

\* Every step of the pipeline is a step of the stages or leaves them alone.
LEMMA StagesGoOn ==
  ASSUME PipeInv, [Next]_vars
  PROVE  AllInv' /\ StagesSound'
<1>1. TypeOK /\ AllInv /\ StagesSound  BY DEF PipeInv, AllInv
<1>2. TypeOK'  BY <1>1, StageKeepsType
<1> QED  BY <1>1, <1>2, AllInvStep, StagesSoundStep

LEMMA StageStepKeeps == PipeInv /\ StageStep => PipeInv'
<1> SUFFICES ASSUME PipeInv, StageStep PROVE PipeInv'  OBVIOUS
<1>1. AllInv' /\ StagesSound'  BY StagesGoOn DEF StageStep
<1>2. UNCHANGED <<planned, work, results>>  BY DEF StageStep
<1>3. UNCHANGED <<bank, ledger>>
  BY DEF StageStep, Next, Evaluate, Weigh, CommitStage, Leftovers
<1>4. MatchesSound'  BY <1>2, <1>3, SoundStays DEF PipeInv, MatchesSound
<1>5. WorkTyped' /\ NothingBeforePlan'  BY <1>2 DEF PipeInv, WorkTyped, NothingBeforePlan
<1>6. ComponentsApart' /\ AgentsApart'
  BY <1>2 DEF PipeInv, ComponentsApart, AgentsApart, Apart, Reach
<1> QED  BY <1>1, <1>4, <1>5, <1>6 DEF PipeInv

LEMMA PlanKeeps == PipeInv /\ Plan => PipeInv'
<1> SUFFICES ASSUME PipeInv, Plan PROVE PipeInv'  OBVIOUS
<1> DEFINE chosen == Selected(Context)
           hopeless == {p \in chosen : Context[p] = {}}
           matched == {ByRules(CaseOf(d), "RECONCILED", d.records) : d \in Autos}
           explained == {ByRules(p, "EXPLAINED_OUTSTANDING", {p}) : p \in Exceptions}
           lost == {ByRules(p, "UNRESOLVED", {p}) : p \in hopeless}
<1>1. /\ planned' = TRUE /\ UNCHANGED vars
      /\ work' = [p \in chosen \ hopeless |->
                    [candidates |-> Context[p], cover |-> {p} \cup Leaves(Context, p),
                     phase |-> "first"]]
      /\ results' = matched \cup explained \cup lost
  BY DEF Plan
<1>2. AllInv' /\ StagesSound'  BY <1>1, StagesGoOn
<1>3. UNCHANGED <<bank, ledger>>  BY <1>1 DEF vars
<1>4. ASSUME NEW p \in chosen \ hopeless
      PROVE  p \in Unsettled /\ Context[p] \subseteq Unsettled
             /\ {p} \cup Leaves(Context, p) \subseteq Unsettled
  <2>1. p \in DOMAIN Context /\ Leaves(Context, p) \subseteq Context[p]
    BY SelectedHaveShortlists
  <2>2. Context[p] # {}  OBVIOUS
  <2> QED  BY <2>1, <2>2, ShortlistsUnsettled
<1>5. Unsettled \subseteq Records  BY DEF Unsettled
<1>6. \A s \in results' : Settles(s) => s.records \cap Unsettled = {}
  <2>1. \A d \in Autos : d.records \subseteq used
    BY DEF PipeInv, AllInv, StagesInv, Books
  <2>2. \A s \in matched : s.records \subseteq used  BY <2>1 DEF ByRules
  <2>3. \A s \in explained : s.records \subseteq Exceptions  BY DEF ByRules
  <2>4. \A s \in lost : ~Settles(s)  BY DEF ByRules, Settles
  <2> HIDE DEF matched, explained, lost
  <2> QED  BY <1>1, <2>2, <2>3, <2>4 DEF Unsettled
<1>7. \A r \in results' : r.source = "DETERMINISTIC"
      /\ (r.outcome = "RECONCILED" => \E d \in Autos : r.records = d.records)
  BY <1>1 DEF ByRules
<1> HIDE DEF hopeless, chosen, matched, explained, lost
<1>8. WorkTyped'
  <2>1. \A p \in DOMAIN work' : p \in chosen \ hopeless  BY <1>1
  <2>2. DOMAIN work' \subseteq Records  BY <1>4, <1>5, <2>1
  <2>3. \A p \in DOMAIN work' : work'[p] \in Entry  BY <1>1, <1>4, <1>5 DEF Entry
  <2> QED  BY <2>2, <2>3 DEF WorkTyped
<1>9. ComponentsApart'
  <2>1. ASSUME NEW p \in DOMAIN work' PROVE Reach(p)' \subseteq Unsettled
    BY <1>1, <1>4 DEF Reach
  <2> QED  BY <1>6, <2>1 DEF ComponentsApart, Apart
<1>10. MatchesSound'
  <2>1. \A d \in Autos : SoundMatch(d.records)  BY DEF PipeInv, StagesSound
  <2> QED  BY <1>3, <1>7, <2>1, SoundStays DEF MatchesSound
<1>11. AgentsApart' /\ NothingBeforePlan'  BY <1>1, <1>7 DEF AgentsApart, NothingBeforePlan
<1> QED  BY <1>2, <1>8, <1>9, <1>10, <1>11 DEF PipeInv

\* A component that moves on keeps what it reaches.
LEMMA SameReach ==
  ASSUME WorkTyped, NEW p \in DOMAIN work, NEW to \in {"first", "again", "done"},
         work' = [work EXCEPT ![p].phase = to]
  PROVE  /\ WorkTyped' /\ DOMAIN work' = DOMAIN work
         /\ \A i \in DOMAIN work : Reach(i)' = Reach(i)
<1>1. DOMAIN work' = DOMAIN work  OBVIOUS
<1>2. ASSUME NEW i \in DOMAIN work
      PROVE  /\ work'[i] \in Entry
             /\ work'[i].candidates = work[i].candidates /\ work'[i].cover = work[i].cover
  <2>1. work[i] \in Entry  BY DEF WorkTyped
  <2>2. CASE i = p
    <3>1. work'[p] = [work[p] EXCEPT !.phase = to]  OBVIOUS
    <3> QED  BY <2>1, <2>2, <3>1 DEF Entry
  <2>3. CASE i # p
    <3>1. work'[i] = work[i]  BY <2>3
    <3> QED  BY <2>1, <3>1
  <2> QED  BY <2>2, <2>3
<1> QED  BY <1>1, <1>2 DEF WorkTyped, Reach

LEMMA GotoKeeps ==
  ASSUME PipeInv, NEW p \in DOMAIN work, NEW to \in {"first", "again", "done"}, Goto(p, to)
  PROVE  PipeInv'
<1>1. UNCHANGED <<vars, planned, results>> /\ work' = [work EXCEPT ![p].phase = to]
  BY DEF Goto
<1>2. AllInv' /\ StagesSound'  BY <1>1, StagesGoOn
<1>3. UNCHANGED <<bank, ledger>>  BY <1>1 DEF vars
<1>4. /\ WorkTyped' /\ DOMAIN work' = DOMAIN work
      /\ \A i \in DOMAIN work : Reach(i)' = Reach(i)
  BY <1>1, SameReach DEF PipeInv
<1>5. MatchesSound'  BY <1>1, <1>3, SoundStays DEF PipeInv, MatchesSound
<1>6. NothingBeforePlan' /\ AgentsApart'
  BY <1>1, <1>4 DEF PipeInv, NothingBeforePlan, AgentsApart, Apart
<1>7. ComponentsApart'  BY <1>1, <1>4 DEF PipeInv, ComponentsApart, Apart
<1> QED  BY <1>2, <1>4, <1>5, <1>6, <1>7 DEF PipeInv

LEMMA FinalizeKeeps ==
  ASSUME PipeInv, NEW p \in DOMAIN work, NEW q, Finalize(p, q)
  PROVE  PipeInv'
<1> DEFINE outcome == FinalOutcome(p, work[p].candidates, NothingTaken, q)
           r == [case |-> p, source |-> "AGENT_VERIFIED", outcome |-> outcome,
                 records |-> IF outcome = "UNRESOLVED" THEN work[p].cover ELSE q.records]
<1>1. /\ work' = [work EXCEPT ![p].phase = "done"]
      /\ results' = results \cup {r} /\ UNCHANGED <<vars, planned>>
  BY DEF Finalize
<1>2. AllInv' /\ StagesSound'  BY <1>1, StagesGoOn
<1>3. UNCHANGED <<bank, ledger>>  BY <1>1 DEF vars
<1>4. /\ WorkTyped' /\ DOMAIN work' = DOMAIN work
      /\ \A i \in DOMAIN work : Reach(i)' = Reach(i)
  BY <1>1, SameReach DEF PipeInv
<1>5. r.records \subseteq Reach(p)
      /\ (r.outcome = "RECONCILED" => SoundMatch(r.records))
  BY VerifierRefuses DEF Reach
<1>6. r.source = "AGENT_VERIFIED" /\ ~Settles(r)  BY DEF Settles
<1> HIDE DEF r, outcome
<1>7. \A g : Apart(g)' <=> Apart(g)  BY <1>1, <1>6 DEF Apart, Settles
<1>8. ComponentsApart'  BY <1>4, <1>7 DEF PipeInv, ComponentsApart
<1>9. AgentsApart'
  <2>1. Apart(r.records)  BY <1>5 DEF PipeInv, ComponentsApart, Apart
  <2> QED  BY <1>1, <1>7, <2>1 DEF PipeInv, AgentsApart
<1>10. MatchesSound'  BY <1>1, <1>3, <1>5, SoundStays DEF PipeInv, MatchesSound
<1>11. NothingBeforePlan'  BY <1>1 DEF PipeInv, NothingBeforePlan
<1> QED  BY <1>2, <1>4, <1>8, <1>9, <1>10, <1>11 DEF PipeInv

LEMMA PipeInvStep == PipeInv /\ [PipeNext]_pipeVars => PipeInv'
<1> SUFFICES ASSUME PipeInv, [PipeNext]_pipeVars PROVE PipeInv'  OBVIOUS
<1>1. CASE StageStep  BY <1>1, StageStepKeeps
<1>2. CASE Plan  BY <1>2, PlanKeeps
<1>3. ASSUME NEW p \in DOMAIN work, Investigate(p) PROVE PipeInv'
  <2>1. ASSUME NEW q, Propose(p, q) PROVE PipeInv'
    BY <2>1, GotoKeeps, FinalizeKeeps DEF Propose
  <2>2. ASSUME NEW q, ProposeAgain(p, q) PROVE PipeInv'
    BY <2>2, FinalizeKeeps DEF ProposeAgain
  <2>3. CASE GenerationFails(p)  BY <2>3, GotoKeeps DEF GenerationFails
  <2>4. CASE GenerationFailsAgain(p)  BY <2>4, FinalizeKeeps DEF GenerationFailsAgain
  <2>5. CASE StartOver(p)  BY <2>5, GotoKeeps DEF StartOver
  <2> QED  BY <1>3, <2>1, <2>2, <2>3, <2>4, <2>5 DEF Investigate
<1>4. CASE UNCHANGED pipeVars
  <2>1. UNCHANGED <<vars, planned, work, results>>  BY <1>4 DEF pipeVars
  <2>2. AllInv' /\ StagesSound'  BY <2>1, StagesGoOn
  <2>3. UNCHANGED <<bank, ledger>>  BY <2>1 DEF vars
  <2>4. MatchesSound'  BY <2>1, <2>3, SoundStays DEF PipeInv, MatchesSound
  <2>5. WorkTyped' /\ NothingBeforePlan' /\ ComponentsApart' /\ AgentsApart'
    BY <2>1
    DEF PipeInv, WorkTyped, NothingBeforePlan, ComponentsApart, AgentsApart, Apart, Reach
  <2> QED  BY <2>2, <2>4, <2>5 DEF PipeInv
<1> QED  BY <1>1, <1>2, <1>3, <1>4 DEF PipeNext

THEOREM PipelineInvariant == PipeSpec => []PipeInv
BY PipeInvInit, PipeInvStep, PTL DEF PipeSpec

(* The model names in no result a record that the rules matched or          *)
(* explained, although the verifier of a planned component is told of no    *)
(* used record (run-reconciliation.ts:435).                                 *)
THEOREM SettledLeftAlone == PipeSpec => []AgentsLeaveSettledAlone
<1>1. PipeInv => AgentsLeaveSettledAlone
  BY DEF PipeInv, AgentsApart, Apart, Settles, AgentsLeaveSettledAlone, ResultsBy
<1> QED  BY <1>1, PipelineInvariant, PTL

(* Every match, of a rule or of the model, relates one record to at most    *)
(* three of the other file, is compatible and balances                      *)
(* (Docs/system-design.md:941-947).                                         *)
THEOREM EveryMatchSound == PipeSpec => []ReconciledIsSound
<1>1. PipeInv => ReconciledIsSound
  BY DEF PipeInv, MatchesSound, SoundMatch, ReconciledIsSound, ResultsOf
<1> QED  BY <1>1, PipelineInvariant, PTL

-----------------------------------------------------------------------------
(* The plan.                                                                *)

\* The stages leave every decision its own case: those of the matches are
\* records of theirs alone, and those of what was set aside differ.
LEMMA CasesDiffer == AllInv /\ DecisionsHaveCases /\ AsidesApart => CasesDistinct
<1> SUFFICES ASSUME AllInv, DecisionsHaveCases, AsidesApart,
                    NEW d \in decisions, NEW e \in decisions, CaseOf(d) = CaseOf(e)
             PROVE  d = e
  BY DEF CasesDistinct
<1>1. TypeOK /\ AmbiguityNeverClears /\ RecordsUsedOnce  BY DEF AllInv
<1>2. decisions = Autos \cup Asides  BY <1>1 DEF TypeOK, Decision, Autos, Asides
<1>3. /\ \A x \in Autos : CaseOf(x) \notin Primaries
      /\ \A x, y \in Autos : CaseOf(x) = CaseOf(y) => x = y
  BY <1>1, CasesUnmatched
<1>4. \A x \in Asides : CaseOf(x) \in Primaries  BY DEF Primaries
<1>5. \A x, y \in Asides : CaseOf(x) = CaseOf(y) => x = y  BY DEF AsidesApart
<1> QED  BY <1>2, <1>3, <1>4, <1>5

PlanTyped ==
  /\ planned \in BOOLEAN /\ results \subseteq Result
  /\ \A p \in DOMAIN work : work[p].candidates \in Shortlists

PlannedWhenDone == planned => stage = Done

PlanInv ==
  /\ PipeInv /\ DecisionsHaveCases /\ AsidesApart
  /\ PlanTyped /\ PlannedWhenDone /\ CasesAccountedFor

LEMMA PlanInvInit == PipeInit => PlanInv
<1> SUFFICES ASSUME PipeInit PROVE PlanInv  OBVIOUS
<1>1. DecisionsHaveCases /\ AsidesApart
  BY DEF PipeInit, Init, DecisionsHaveCases, AsidesApart, Asides
<1>2. PlanTyped /\ PlannedWhenDone /\ CasesAccountedFor
  BY DEF PipeInit, PlanTyped, PlannedWhenDone, CasesAccountedFor
<1> QED  BY <1>1, <1>2, PipeInvInit DEF PlanInv

\* What the stages keep of the cases.
LEMMA CasesGoOn ==
  ASSUME PlanInv, [Next]_vars
  PROVE  DecisionsHaveCases' /\ AsidesApart'
<1>1. AllInv /\ TypeOK  BY DEF PlanInv, PipeInv, AllInv
<1> QED  BY <1>1, DecisionsKeepCases, AsidesApartStep DEF PlanInv

\* Which records may be in the plan, and how long its shortlists are.
LEMMA PlannedShortlists ==
  ASSUME TypeOK, DecisionsHaveCases, NEW p \in DOMAIN Context
  PROVE  /\ p \in Records /\ Context[p] \subseteq Records
         /\ Context[p] # {} => Context[p] \in Shortlists
<1>1. p \in Records  BY ContextTypes
<1>2. Context[p] = PruneCandidates(p, GenerateCandidates(p, DecisionOf(p).records, Unsettled))
  BY DEF Context
<1> DEFINE cs == Context[p]
<1> HIDE DEF cs
<1>3. cs \subseteq Records /\ Cardinality(cs) \in Nat /\ Cardinality(cs) <= MaxCandidates
  BY <1>1, <1>2, ShortlistsBounded DEF cs
<1>4. ASSUME cs # {} PROVE cs \in Shortlists
  <2>1. IsFiniteSet(cs)
    BY <1>3, CandidatesAssumption, FS_Subset DEF CandidatesAssumption
  <2>2. Cardinality(cs) # 0  BY <2>1, <1>4, FS_EmptySet
  <2>3. Cardinality(cs) \in 1..MaxCandidates
    BY <1>3, <2>2, CandidatesAssumption DEF CandidatesAssumption
  <2> QED  BY <1>3, <2>3 DEF Shortlists
<1> QED  BY <1>1, <1>3, <1>4 DEF cs

LEMMA PlanAccounts == PlanInv /\ Plan => PlanInv'
<1> SUFFICES ASSUME PlanInv, Plan PROVE PlanInv'  OBVIOUS
<1> DEFINE chosen == Selected(Context)
           hopeless == {p \in chosen : Context[p] = {}}
           matched == {ByRules(CaseOf(d), "RECONCILED", d.records) : d \in Autos}
           explained == {ByRules(p, "EXPLAINED_OUTSTANDING", {p}) : p \in Exceptions}
           lost == {ByRules(p, "UNRESOLVED", {p}) : p \in hopeless}
<1>1. /\ planned' = TRUE /\ stage = Done /\ UNCHANGED vars
      /\ DOMAIN work' = chosen \ hopeless
      /\ \A p \in chosen \ hopeless : work'[p].candidates = Context[p]
      /\ results' = matched \cup explained \cup lost
  BY DEF Plan
<1>2. PipeInv'  BY PlanKeeps DEF PlanInv
<1>3. DecisionsHaveCases' /\ AsidesApart'  BY <1>1, CasesGoOn
<1>4. AllInv /\ TypeOK /\ DecisionsHaveCases  BY DEF PlanInv, PipeInv, AllInv
<1>5. /\ Exceptions \subseteq Records /\ DOMAIN Context \subseteq Records
      /\ chosen \subseteq DOMAIN Context
  BY <1>4, ContextTypes
<1>6. \A p \in DOMAIN Context :
        p \in Records /\ Context[p] \subseteq Records
        /\ (Context[p] # {} => Context[p] \in Shortlists)
  BY <1>4, PlannedShortlists
<1>7. \A d \in Autos : CaseOf(d) \in d.records /\ d.records \subseteq Records
  BY <1>4, CaseIsRecord DEF DecisionsHaveCases, HasCase, Autos
<1>8. ASSUME NEW p \in DOMAIN Context
      PROVE  p \in chosen \/ \E q \in chosen : p \in Context[q]
  BY <1>5, SelectionLosesNone
<1>9. results' \subseteq Result
  <2>1. matched \subseteq Result  BY <1>7 DEF ByRules, Result
  <2>2. explained \subseteq Result  BY <1>5 DEF ByRules, Result
  <2>3. lost \subseteq Result  BY <1>5, <1>6 DEF ByRules, Result
  <2> HIDE DEF matched, explained, lost
  <2> QED  BY <1>1, <2>1, <2>2, <2>3
<1>10. PlanTyped'
  <2>1. \A p \in DOMAIN work' : work'[p].candidates \in Shortlists  BY <1>1, <1>5, <1>6
  <2> QED  BY <1>1, <1>9, <2>1 DEF PlanTyped
<1>11. CasesAccountedFor'
  <2>1. decisions' = decisions /\ \A d : CaseOf(d)' = CaseOf(d)  BY <1>1 DEF vars
  <2>2. ASSUME NEW d \in decisions
        PROVE  \/ \E r \in results' : r.source = "DETERMINISTIC" /\ r.case = CaseOf(d)
               \/ \E p \in DOMAIN work' : CaseOf(d) \in {p} \cup work'[p].candidates
    <3>1. CASE d \in Autos
      <4>1. ByRules(CaseOf(d), "RECONCILED", d.records) \in results'  BY <1>1, <3>1
      <4> QED  BY <4>1 DEF ByRules
    <3>2. CASE CaseOf(d) \in Exceptions
      <4>1. ByRules(CaseOf(d), "EXPLAINED_OUTSTANDING", {CaseOf(d)}) \in results'
        BY <1>1, <3>2
      <4> QED  BY <4>1 DEF ByRules
    <3>3. CASE CaseOf(d) \in hopeless
      <4>1. ByRules(CaseOf(d), "UNRESOLVED", {CaseOf(d)}) \in results'  BY <1>1, <3>3
      <4> QED  BY <4>1 DEF ByRules
    <3>4. CASE d \in Asides /\ CaseOf(d) \notin Exceptions /\ CaseOf(d) \notin hopeless
      <4>1. CaseOf(d) \in DOMAIN Context  BY <3>4 DEF Context, Primaries
      <4>2. CASE CaseOf(d) \in chosen
        <5>1. CaseOf(d) \in DOMAIN work'  BY <1>1, <3>4, <4>2
        <5> QED  BY <5>1
      <4>3. CASE \E q \in chosen : CaseOf(d) \in Context[q]
        <5>1. PICK q \in chosen : CaseOf(d) \in Context[q]  BY <4>3
        <5>2. q \in DOMAIN work' /\ work'[q].candidates = Context[q]  BY <1>1, <5>1
        <5> QED  BY <5>1, <5>2
      <4> QED  BY <1>8, <4>1, <4>2, <4>3
    <3>5. d \in Autos \/ d \in Asides
      BY <1>4 DEF TypeOK, Decision, Autos, Asides
    <3> QED  BY <3>1, <3>2, <3>3, <3>4, <3>5
  <2> QED  BY <2>1, <2>2 DEF CasesAccountedFor, ResultsBy
<1>12. PlannedWhenDone'  BY <1>1 DEF PlannedWhenDone, vars
<1> QED  BY <1>2, <1>3, <1>10, <1>11, <1>12 DEF PlanInv

\* A component that moves on keeps its shortlist, and results only come.
LEMMA ComponentKeeps ==
  ASSUME PlanInv, PipeInv', NEW p \in DOMAIN work, NEW to,
         work' = [work EXCEPT ![p].phase = to], UNCHANGED <<vars, planned>>,
         results \subseteq results', results' \subseteq Result
  PROVE  PlanInv'
<1>1. DecisionsHaveCases' /\ AsidesApart'  BY CasesGoOn
<1>2. DOMAIN work' = DOMAIN work
      /\ \A i \in DOMAIN work : work'[i].candidates = work[i].candidates
  <2>1. DOMAIN work' = DOMAIN work  OBVIOUS
  <2>2. ASSUME NEW i \in DOMAIN work PROVE work'[i].candidates = work[i].candidates
    <3>1. work[i] \in Entry  BY DEF PlanInv, PipeInv, WorkTyped
    <3>2. CASE i = p
      <4>1. work'[p] = [work[p] EXCEPT !.phase = to]  OBVIOUS
      <4> QED  BY <3>1, <3>2, <4>1 DEF Entry
    <3>3. CASE i # p  BY <3>3
    <3> QED  BY <3>2, <3>3
  <2> QED  BY <2>1, <2>2
<1>3. PlanTyped'  BY <1>2 DEF PlanInv, PlanTyped
<1>4. UNCHANGED <<decisions, stage>>  BY DEF vars
<1>5. PlannedWhenDone'  BY <1>4 DEF PlanInv, PlannedWhenDone
<1>6. CasesAccountedFor'
  <2>1. \A d : CaseOf(d)' = CaseOf(d)  OBVIOUS
  <2>2. ResultsBy("DETERMINISTIC") \subseteq ResultsBy("DETERMINISTIC")'  BY DEF ResultsBy
  <2> QED  BY <1>2, <1>4, <2>1, <2>2 DEF PlanInv, CasesAccountedFor
<1> QED  BY <1>1, <1>3, <1>5, <1>6 DEF PlanInv

LEMMA FinalizeAccounts ==
  ASSUME PlanInv, NEW p \in DOMAIN work, NEW q, Finalize(p, q)
  PROVE  PlanInv'
<1> DEFINE outcome == FinalOutcome(p, work[p].candidates, NothingTaken, q)
           r == [case |-> p, source |-> "AGENT_VERIFIED", outcome |-> outcome,
                 records |-> IF outcome = "UNRESOLVED" THEN work[p].cover ELSE q.records]
<1>1. /\ work' = [work EXCEPT ![p].phase = "done"]
      /\ results' = results \cup {r} /\ UNCHANGED <<vars, planned>>
  BY DEF Finalize
<1>2. PipeInv'  BY FinalizeKeeps DEF PlanInv
<1>3. work[p] \in Entry /\ p \in Records  BY DEF PlanInv, PipeInv, WorkTyped
<1>4. outcome \in {"RECONCILED", "EXPLAINED_OUTSTANDING", "DISCREPANCY", "UNRESOLVED"}
  BY DEF FinalOutcome, Verdict
<1>5. outcome # "UNRESOLVED" => q.records \subseteq {p} \cup work[p].candidates
  BY VerifierRefuses
<1> HIDE DEF outcome
<1>6. r \in Result  BY <1>3, <1>4, <1>5 DEF Result, Entry
<1> HIDE DEF r
<1>7. results \subseteq results' /\ results' \subseteq Result
  BY <1>1, <1>6 DEF PlanInv, PlanTyped
<1> QED  BY <1>1, <1>2, <1>7, ComponentKeeps

LEMMA GotoAccounts ==
  ASSUME PlanInv, NEW p \in DOMAIN work, NEW to \in {"first", "again", "done"}, Goto(p, to)
  PROVE  PlanInv'
<1>1. PipeInv'  BY GotoKeeps DEF PlanInv
<1>2. /\ work' = [work EXCEPT ![p].phase = to] /\ UNCHANGED <<vars, planned>>
      /\ results \subseteq results' /\ results' \subseteq Result
  BY DEF Goto, PlanInv, PlanTyped
<1> QED  BY <1>1, <1>2, ComponentKeeps

LEMMA PlanInvStep == PlanInv /\ [PipeNext]_pipeVars => PlanInv'
<1> SUFFICES ASSUME PlanInv, [PipeNext]_pipeVars PROVE PlanInv'  OBVIOUS
<1>1. PipeInv'  BY PipeInvStep DEF PlanInv
<1>2. CASE StageStep
  <2>1. Next /\ UNCHANGED <<planned, work, results>>  BY <1>2 DEF StageStep
  <2>2. TypeOK  BY DEF PlanInv, PipeInv, AllInv
  <2>3. ~planned  BY <2>1, <2>2, StagesOver DEF PlanInv, PlannedWhenDone
  <2>4. DecisionsHaveCases' /\ AsidesApart'  BY <2>1, CasesGoOn
  <2>5. PlanTyped' /\ PlannedWhenDone' /\ CasesAccountedFor'
    BY <2>1, <2>3 DEF PlanInv, PlanTyped, PlannedWhenDone, CasesAccountedFor
  <2> QED  BY <1>1, <2>4, <2>5 DEF PlanInv
<1>3. CASE Plan  BY <1>3, PlanAccounts
<1>4. ASSUME NEW p \in DOMAIN work, Investigate(p) PROVE PlanInv'
  <2>1. ASSUME NEW q, Propose(p, q) PROVE PlanInv'
    BY <2>1, GotoAccounts, FinalizeAccounts DEF Propose
  <2>2. ASSUME NEW q, ProposeAgain(p, q) PROVE PlanInv'
    BY <2>2, FinalizeAccounts DEF ProposeAgain
  <2>3. CASE GenerationFails(p)  BY <2>3, GotoAccounts DEF GenerationFails
  <2>4. CASE GenerationFailsAgain(p)  BY <2>4, FinalizeAccounts DEF GenerationFailsAgain
  <2>5. CASE StartOver(p)  BY <2>5, GotoAccounts DEF StartOver
  <2> QED  BY <1>4, <2>1, <2>2, <2>3, <2>4, <2>5 DEF Investigate
<1>5. CASE UNCHANGED pipeVars
  <2>1. UNCHANGED <<vars, planned, work, results>>  BY <1>5 DEF pipeVars
  <2>2. DecisionsHaveCases' /\ AsidesApart'  BY <2>1, CasesGoOn
  <2>3. UNCHANGED <<decisions, stage>>  BY <2>1 DEF vars
  <2>4. PlanTyped' /\ PlannedWhenDone'
    BY <2>1, <2>3 DEF PlanInv, PlanTyped, PlannedWhenDone
  <2>5. CasesAccountedFor'  BY <2>1, <2>3 DEF PlanInv, CasesAccountedFor, ResultsBy
  <2> QED  BY <1>1, <2>2, <2>4, <2>5 DEF PlanInv
<1> QED  BY <1>2, <1>3, <1>4, <1>5 DEF PipeNext

LEMMA PlanInvariant == PipeSpec => []PlanInv
BY PlanInvInit, PlanInvStep, PTL DEF PipeSpec

(* Every variable has its type; in particular no shortlist is longer than   *)
(* MAX_CANDIDATES_PER_PRIMARY (generate-candidates.ts:64), and no planned   *)
(* component is without candidates (run-reconciliation.ts:405-412).         *)
THEOREM PipelineTypeCorrect == PipeSpec => []PipeTypeOK
<1>1. PlanInv => PipeTypeOK
  <2> SUFFICES ASSUME PlanInv PROVE PipeTypeOK  OBVIOUS
  <2>1. TypeOK /\ DOMAIN work \subseteq Records  BY DEF PlanInv, PipeInv, AllInv, WorkTyped
  <2>2. ASSUME NEW p \in DOMAIN work PROVE work[p] \in Component
    <3>1. work[p] \in Entry /\ work[p].candidates \in Shortlists
      BY DEF PlanInv, PlanTyped, PipeInv, WorkTyped
    <3> QED  BY <3>1 DEF Entry, Component
  <2> QED  BY <2>1, <2>2 DEF PipeTypeOK, PlanInv, PlanTyped
<1> QED  BY <1>1, PlanInvariant, PTL

(* No two decisions of the rules name the same case, so that no result is   *)
(* dropped as a second one (run-reconciliation.ts:120,814-818;              *)
(* reconciliation-run-repository.ts:344).                                   *)
THEOREM EveryDecisionItsCase == PipeSpec => []CasesDistinct
<1>1. PlanInv => CasesDistinct  BY CasesDiffer DEF PlanInv, PipeInv
<1> QED  BY <1>1, PlanInvariant, PTL

(* The selection loses no case: each is settled by the rules, or its        *)
(* primary record is shown to the model (run-reconciliation.ts:664-688).    *)
THEOREM NoCaseForgotten == PipeSpec => []CasesAccountedFor
<1>1. PlanInv => CasesAccountedFor  BY DEF PlanInv
<1> QED  BY <1>1, PlanInvariant, PTL

-----------------------------------------------------------------------------
(* The stages within the pipeline.                                          *)

\* Planning, asking and storing leave the rule stages alone.
LEMMA PipelineRunsStages == PipeSpec => Spec
<1>1. PipeInit => Init  BY DEF PipeInit
<1>2. [PipeNext]_pipeVars => [Next]_vars
  <2> SUFFICES ASSUME [PipeNext]_pipeVars PROVE [Next]_vars  OBVIOUS
  <2>1. CASE StageStep  BY <2>1 DEF StageStep
  <2>2. CASE Plan  BY <2>2 DEF Plan
  <2>3. ASSUME NEW p, Investigate(p) PROVE UNCHANGED vars
    BY <2>3 DEF Investigate, Propose, ProposeAgain, GenerationFails, GenerationFailsAgain,
                StartOver, Finalize, Goto
  <2>4. CASE UNCHANGED pipeVars  BY <2>4 DEF pipeVars
  <2> QED  BY <2>1, <2>2, <2>3, <2>4 DEF PipeNext
<1> QED  BY <1>1, <1>2, PTL DEF PipeSpec, Spec

(* On the durable path too the rules match exactly what nothing competes    *)
(* with: what comes after them never runs, undoes or repeats a stage        *)
(* (run-reconciliation.ts:326-412, orchestrator.ts:136-178).                *)
THEOREM PipelineMatchesUniquely == PipeSpec => ImplementsUniqueMatching
BY PipelineRunsStages, UniqueMatchingImplemented, PTL

-----------------------------------------------------------------------------
(* The results of a run, by case.                                           *)

\* A case has one result.
SettledOnce == \A r, s \in results : r.case = s.case => r = s

\* Those of the rules are about other cases than the components, and those of
\* the model about components that are done.
ResultsPlaced ==
  \A r \in results :
    IF r.source = "DETERMINISTIC" THEN r.case \notin DOMAIN work
    ELSE r.case \in DOMAIN work /\ work[r.case].phase = "done"

\* The matches of the rules share no record.
RulesApart ==
  \A r, s \in results :
    /\ r.source = "DETERMINISTIC" /\ r.outcome = "RECONCILED"
    /\ s.source = "DETERMINISTIC" /\ s.outcome = "RECONCILED"
    => r = s \/ r.records \cap s.records = {}

ResultsInv == PlanInv /\ SettledOnce /\ ResultsPlaced /\ RulesApart

LEMMA ResultsInvInit == PipeInit => ResultsInv
BY PlanInvInit DEF PipeInit, ResultsInv, SettledOnce, ResultsPlaced, RulesApart

LEMMA PlanSettlesOnce ==
  ASSUME PlanInv, Plan
  PROVE  SettledOnce' /\ ResultsPlaced' /\ RulesApart'
<1> DEFINE chosen == Selected(Context)
           hopeless == {p \in chosen : Context[p] = {}}
           matched == {ByRules(CaseOf(d), "RECONCILED", d.records) : d \in Autos}
           explained == {ByRules(p, "EXPLAINED_OUTSTANDING", {p}) : p \in Exceptions}
           lost == {ByRules(p, "UNRESOLVED", {p}) : p \in hopeless}
<1>1. /\ DOMAIN work' = chosen \ hopeless
      /\ results' = matched \cup explained \cup lost
  BY DEF Plan
<1>2. TypeOK /\ RecordsUsedOnce /\ AmbiguityNeverClears /\ DecisionsHaveCases
  BY DEF PlanInv, PipeInv, AllInv
<1>3. /\ \A d \in Autos : CaseOf(d) \notin Primaries
      /\ \A d, e \in Autos : CaseOf(d) = CaseOf(e) => d = e
  BY <1>2, CasesUnmatched
<1>4. Exceptions \subseteq Primaries /\ chosen \subseteq Primaries \ Exceptions
  <2>1. chosen \subseteq DOMAIN Context  BY SelectedHaveShortlists
  <2> QED  BY <2>1 DEF Exceptions, Context
<1>5. \A r \in matched \cup explained \cup lost : r.source = "DETERMINISTIC"
  BY DEF ByRules
<1>6. /\ \A r \in matched : \E d \in Autos : r.case = CaseOf(d) /\ r.records = d.records
      /\ \A r, s \in matched : \E d, e \in Autos :
           /\ r.case = CaseOf(d) /\ r.records = d.records
           /\ s.case = CaseOf(e) /\ s.records = e.records /\ (d = e => r = s)
  BY DEF ByRules
<1>7. /\ \A r \in explained : r.case \in Exceptions /\ r.outcome # "RECONCILED"
      /\ \A r, s \in explained : r.case = s.case => r = s
  BY DEF ByRules
<1>8. /\ \A r \in lost : r.case \in hopeless /\ r.outcome # "RECONCILED"
      /\ \A r, s \in lost : r.case = s.case => r = s
  BY DEF ByRules
<1>9. hopeless \subseteq chosen  OBVIOUS
<1> HIDE DEF chosen, hopeless, matched, explained, lost
<1>10. SettledOnce'
  <2>1. \A r, s \in matched : r.case = s.case => r = s  BY <1>3, <1>6
  <2>2. \A r \in matched : r.case \notin Primaries  BY <1>3, <1>6
  <2> QED  BY <1>1, <1>4, <1>7, <1>8, <1>9, <2>1, <2>2 DEF SettledOnce
<1>11. ResultsPlaced'
  <2>1. \A r \in matched : r.case \notin Primaries  BY <1>3, <1>6
  <2> QED  BY <1>1, <1>4, <1>5, <1>7, <1>8, <1>9, <2>1 DEF ResultsPlaced
<1>12. RulesApart'
  <2>1. \A r, s \in matched : r = s \/ r.records \cap s.records = {}
    BY <1>2, <1>6 DEF RecordsUsedOnce
  <2> QED  BY <1>1, <1>7, <1>8, <2>1 DEF RulesApart
<1> QED  BY <1>10, <1>11, <1>12

\* A component that is not done has no result, and gets at most its own.
LEMMA ComponentSettlesOnce ==
  ASSUME ResultsInv, NEW p \in DOMAIN work, work[p].phase # "done", NEW to,
         work' = [work EXCEPT ![p].phase = to],
         \/ results' = results
         \/ /\ to = "done"
            /\ \E r : /\ results' = results \cup {r}
                      /\ r.case = p /\ r.source = "AGENT_VERIFIED"
  PROVE  SettledOnce' /\ ResultsPlaced' /\ RulesApart'
<1>1. /\ DOMAIN work' = DOMAIN work
      /\ \A i \in DOMAIN work : i # p => work'[i] = work[i]
  OBVIOUS
<1>2. work'[p].phase = to
  <2>1. work[p] \in Entry  BY DEF ResultsInv, PlanInv, PipeInv, WorkTyped
  <2>2. work'[p] = [work[p] EXCEPT !.phase = to]  OBVIOUS
  <2> QED  BY <2>1, <2>2 DEF Entry
<1>3. \A r \in results : r.case # p
  BY DEF ResultsInv, ResultsPlaced
<1>4. CASE results' = results
  BY <1>1, <1>3, <1>4 DEF ResultsInv, SettledOnce, ResultsPlaced, RulesApart
<1>5. CASE results' # results
  <2>1. PICK r : results' = results \cup {r} /\ r.case = p /\ r.source = "AGENT_VERIFIED"
    BY <1>5
  <2>2. to = "done"  BY <1>5
  <2>3. SettledOnce' /\ RulesApart'
    BY <1>3, <2>1 DEF ResultsInv, SettledOnce, RulesApart
  <2>4. ResultsPlaced'
    BY <1>1, <1>2, <1>3, <2>1, <2>2 DEF ResultsInv, ResultsPlaced
  <2> QED  BY <2>3, <2>4
<1> QED  BY <1>4, <1>5

LEMMA ResultsInvStep == ResultsInv /\ [PipeNext]_pipeVars => ResultsInv'
<1> SUFFICES ASSUME ResultsInv, [PipeNext]_pipeVars PROVE ResultsInv'  OBVIOUS
<1>1. PlanInv'  BY PlanInvStep DEF ResultsInv
<1>2. ASSUME UNCHANGED <<work, results>> PROVE SettledOnce' /\ ResultsPlaced' /\ RulesApart'
  BY <1>2 DEF ResultsInv, SettledOnce, ResultsPlaced, RulesApart
<1>3. CASE StageStep \/ UNCHANGED pipeVars  BY <1>1, <1>2, <1>3 DEF StageStep, pipeVars, ResultsInv
<1>4. CASE Plan  BY <1>1, <1>4, PlanSettlesOnce DEF ResultsInv
<1>5. ASSUME NEW p \in DOMAIN work, Investigate(p) PROVE ResultsInv'
  <2>1. ASSUME work[p].phase # "done", NEW to, Goto(p, to) PROVE ResultsInv'
    <3>1. work' = [work EXCEPT ![p].phase = to] /\ results' = results  BY <2>1 DEF Goto
    <3> QED  BY <1>1, <2>1, <3>1, ComponentSettlesOnce DEF ResultsInv
  <2>2. ASSUME work[p].phase # "done", NEW q, Finalize(p, q) PROVE ResultsInv'
    <3> DEFINE outcome == FinalOutcome(p, work[p].candidates, NothingTaken, q)
               r == [case |-> p, source |-> "AGENT_VERIFIED", outcome |-> outcome,
                     records |-> IF outcome = "UNRESOLVED" THEN work[p].cover ELSE q.records]
    <3>1. work' = [work EXCEPT ![p].phase = "done"] /\ results' = results \cup {r}
      BY <2>2 DEF Finalize
    <3>2. r.case = p /\ r.source = "AGENT_VERIFIED"  OBVIOUS
    <3> HIDE DEF r
    <3> QED  BY <1>1, <2>2, <3>1, <3>2, ComponentSettlesOnce DEF ResultsInv
  <2>3. work[p].phase # "done"
    BY <1>5 DEF Investigate, Propose, ProposeAgain, GenerationFails, GenerationFailsAgain,
                StartOver, InPhase
  <2> QED
    BY <1>5, <2>1, <2>2, <2>3 DEF Investigate, Propose, ProposeAgain, GenerationFails,
                GenerationFailsAgain, StartOver
<1> QED  BY <1>3, <1>4, <1>5 DEF PipeNext

LEMMA ResultsInvariant == PipeSpec => []ResultsInv
BY ResultsInvInit, ResultsInvStep, PTL DEF PipeSpec

(* No case is settled twice, in whatever order the components are worked on *)
(* and however often they are started over, so that the insert that drops a *)
(* second result of a case never drops one that says something else         *)
(* (reconciliation-run-repository.ts:344).                                  *)
THEOREM NoResultDropped == PipeSpec => []SettledOnce
<1>1. ResultsInv => SettledOnce  BY DEF ResultsInv
<1> QED  BY <1>1, ResultsInvariant, PTL

\* Two matches share a record only if the model made both, for two cases.
OnlyModelsClash ==
  \A r, s \in ResultsOf("RECONCILED") :
    r = s \/ r.records \cap s.records = {}
    \/ (r.source = "AGENT_VERIFIED" /\ s.source = "AGENT_VERIFIED" /\ r.case # s.case)

(* What is left of "reused records cannot silently participate in multiple  *)
(* final matches" (Docs/system-design.md:944) on the durable path: of two   *)
(* matches with a common record, none is the rules', and they answer two    *)
(* components (run-reconciliation.ts:435).                                  *)
THEOREM ReuseTakesTwoComponents == PipeSpec => []OnlyModelsClash
<1>1. ResultsInv => OnlyModelsClash
  <2> SUFFICES ASSUME ResultsInv,
                      NEW r \in ResultsOf("RECONCILED"), NEW s \in ResultsOf("RECONCILED"),
                      r # s, r.records \cap s.records # {}
               PROVE  r.source = "AGENT_VERIFIED" /\ s.source = "AGENT_VERIFIED"
                      /\ r.case # s.case
    BY DEF OnlyModelsClash
  <2>1. /\ r \in results /\ r.outcome = "RECONCILED" /\ s \in results /\ s.outcome = "RECONCILED"
        /\ r.source \in {"DETERMINISTIC", "AGENT_VERIFIED"}
        /\ s.source \in {"DETERMINISTIC", "AGENT_VERIFIED"}
    BY DEF ResultsOf, ResultsInv, PlanInv, PlanTyped, Result
  <2>2. r.case # s.case  BY <2>1 DEF ResultsInv, SettledOnce
  <2>3. ~(r.source = "DETERMINISTIC" /\ s.source = "DETERMINISTIC")
    BY <2>1 DEF ResultsInv, RulesApart
  <2>4. /\ ~(r.source = "AGENT_VERIFIED" /\ s.source = "DETERMINISTIC")
        /\ ~(s.source = "AGENT_VERIFIED" /\ r.source = "DETERMINISTIC")
    BY <2>1 DEF ResultsInv, PlanInv, PipeInv, AgentsApart, Apart, Settles
  <2> QED  BY <2>1, <2>2, <2>3, <2>4
<1> QED  BY <1>1, ResultsInvariant, PTL
=============================================================================
