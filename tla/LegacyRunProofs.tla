--------------------------- MODULE LegacyRunProofs ---------------------------
(* Theorems about LegacyRun, for every pair of files, any concurrency and   *)
(* budget, whatever the model answers and whenever the run is aborted.      *)
EXTENDS LegacyRun, CandidatesProofs

-----------------------------------------------------------------------------
(* The first n cases, in the order of a wave, are at most n.                *)
LEMMA ForemostBounded ==
  ASSUME NEW S \in SUBSET Records, NEW n \in Nat
  PROVE  /\ Foremost(n, S) \subseteq S
         /\ Cardinality(Foremost(n, S)) \in Nat /\ Cardinality(Foremost(n, S)) <= n
<1> DEFINE R == {x \in S \X S : Before(x[1], x[2])}
           F == Foremost(n, S)
<1>1. IsFiniteSet(S) /\ S \subseteq Nat
  BY CandidatesAssumption, FS_Subset DEF CandidatesAssumption
<1>2. \A x, y \in S : <<x, y>> \in R <=> Before(x, y)  OBVIOUS
<1>3. F = {p \in S : Place(R, S, p) < n}
  <2>1. \A p \in S : Ahead(R, S, p) = {q \in S : Before(q, p)}  BY <1>2 DEF Ahead
  <2> QED  BY <2>1 DEF Foremost, Place
<1> HIDE DEF R, F
<1>4. StrictOrder(R, S)
  <2>1. \A p \in S : ~Before(p, p)  BY <1>1 DEF Before
  <2>2. \A p, q \in S : p # q => Before(p, q) \/ Before(q, p)  BY <1>1 DEF Before
  <2>3. \A p, q, r \in S : Before(p, q) /\ Before(q, r) => Before(p, r)
    BY <1>1 DEF Before
  <2> QED  BY <1>2, <2>1, <2>2, <2>3 DEF StrictOrder
<1>5. Cardinality(F) \in Nat /\ Cardinality(F) <= n
  BY <1>1, <1>3, <1>4, FirstOnesBounded
<1> QED  BY <1>3, <1>5 DEF F

-----------------------------------------------------------------------------
(* The inductive invariant of the waves.                                    *)

WavesTyped ==
  /\ course \in {"rules", "waves", "returned"} \cup Reasons \cup Errors
  /\ taken \subseteq Records /\ results \subseteq Result
  /\ DOMAIN queue \subseteq Records /\ \A p \in DOMAIN queue : queue[p] \subseteq Records
  /\ DOMAIN wave \subseteq Records /\ \A p \in DOMAIN wave : wave[p] \in Item
  /\ calls \in Nat

\* Before the waves nothing has happened; they begin when the stages are over,
\* and the pipeline returns when nothing is left to do.
InSequence ==
  /\ course = "rules" =>
       taken = {} /\ results = {} /\ DOMAIN queue = {} /\ DOMAIN wave = {} /\ calls = 0
  /\ course # "rules" => stage = Done
  /\ course = "returned" => DOMAIN queue = {} /\ DOMAIN wave = {}

\* A record is used when a result shows it, and by every match that does.
UsedAreShown ==
  /\ taken \subseteq UNION {r.records : r \in results}
  /\ \A r \in ResultsOf("RECONCILED") : r.records \subseteq taken

\* A case waits, is being asked about, or has its result.
CasesApart ==
  /\ DOMAIN queue \cap DOMAIN wave = {}
  /\ \A r \in results : r.case \notin DOMAIN queue \cup DOMAIN wave

\* No selected case is lost.
CasesKept ==
  /\ \A p \in DOMAIN queue : p \in queue[p]
  /\ \A p \in DOMAIN wave : p \in wave[p].cover
  /\ course # "rules" =>
       \A p \in Selected(Context) :
         p \in DOMAIN queue \cup DOMAIN wave \cup UNION {r.records : r \in results}

WavesInv ==
  /\ WavesTyped /\ InSequence /\ UsedAreShown /\ CasesApart /\ CasesKept
  /\ NoRecordMatchedTwice /\ OneResultPerCase /\ CallBudgetKept

\* An abort is told as what it was.
Causes ==
  /\ course \in Reasons => course = signal
  /\ \A p \in DOMAIN wave : wave[p].phase \in Reasons => wave[p].phase = signal
  /\ failure \in Reasons => failure = signal

StagesPart == AllInv /\ DecisionsHaveCases

\* The waves look the same when only what is around them changes.
LEMMA WavesUntouched ==
  ASSUME WavesInv, UNCHANGED <<vars, waveVars>>
  PROVE  WavesInv'
<1>0. UNCHANGED <<course, taken, queue, wave, calls, results, stage>>
      /\ Selected(Context)' = Selected(Context)
  BY SelectionFixed DEF vars, waveVars
<1>1. WavesTyped' /\ InSequence' /\ UsedAreShown' /\ CasesApart' /\ CasesKept'
  BY <1>0 DEF WavesInv, WavesTyped, InSequence, UsedAreShown, CasesApart, CasesKept, ResultsOf
<1>2. NoRecordMatchedTwice' /\ OneResultPerCase' /\ CallBudgetKept'
  BY <1>0 DEF WavesInv, NoRecordMatchedTwice, OneResultPerCase, CallBudgetKept, ResultsOf
<1> QED  BY <1>1, <1>2 DEF WavesInv

\* A stage runs before the waves, and leaves them as they are.
LEMMA StageRuns ==
  ASSUME StagesPart, WavesInv, Next, UNCHANGED waveVars
  PROVE  WavesInv'
<1>1. course = "rules"  BY StagesOver DEF StagesPart, AllInv, WavesInv, InSequence
<1>2. UNCHANGED <<course, taken, queue, wave, calls, results>>  BY DEF waveVars
<1>3. WavesTyped' /\ InSequence' /\ UsedAreShown' /\ CasesApart' /\ CasesKept'
  BY <1>1, <1>2
  DEF WavesInv, WavesTyped, InSequence, UsedAreShown, CasesApart, CasesKept, ResultsOf
<1>4. NoRecordMatchedTwice' /\ OneResultPerCase' /\ CallBudgetKept'
  BY <1>2 DEF WavesInv, NoRecordMatchedTwice, OneResultPerCase, CallBudgetKept, ResultsOf
<1> QED  BY <1>3, <1>4 DEF WavesInv

LEMMA SelectStep ==
  ASSUME StagesPart, WavesInv, UNCHANGED vars, Select
  PROVE  WavesInv' /\ course' = "waves" /\ UNCHANGED wave
<1> DEFINE matches == {ByRules(CaseOf(d), "RECONCILED", d.records) : d \in Autos}
           exceptions == {ByRules(p, "EXPLAINED_OUTSTANDING", {p}) : p \in Exceptions}
<1>0. /\ TypeOK /\ DecisionsHaveCases /\ AmbiguityNeverClears /\ RecordsUsedOnce
      /\ used = UNION {d.records : d \in Autos}
  BY DEF StagesPart, AllInv, StagesInv, Books
<1>1. /\ course = "rules" /\ stage = Done /\ course' = "waves"
      /\ taken' = used \cup Exceptions
      /\ queue' = [p \in Selected(Context) |-> {p} \cup Leaves(Context, p)]
      /\ results' = matches \cup exceptions
      /\ UNCHANGED <<wave, calls, stage>>
  BY DEF Select, vars
<1>2. DOMAIN queue' = Selected(Context) /\ DOMAIN wave' = {} /\ calls' = 0
  BY <1>1 DEF WavesInv, InSequence
<1>3. ASSUME NEW d \in Autos
      PROVE  /\ d.records \subseteq Records /\ CaseOf(d) \in d.records
             /\ CaseOf(d) \notin Primaries
  <2>1. CaseOf(d) \in d.records /\ CaseOf(d) \notin Primaries  BY <1>0, CasesUnmatched
  <2>2. d.records \subseteq Records  BY <1>0 DEF DecisionsHaveCases, HasCase, Autos
  <2> QED  BY <2>1, <2>2
<1>4. /\ Exceptions \subseteq Records /\ Selected(Context) \subseteq Records
      /\ Selected(Context) \subseteq Primaries \ Exceptions /\ Exceptions \subseteq Primaries
      /\ \A p \in Selected(Context) : Leaves(Context, p) \subseteq Records
  <2>1. DOMAIN Context = Primaries \ Exceptions /\ Exceptions \subseteq Primaries
    BY DEF Context, Exceptions
  <2> QED  BY <1>0, <2>1, ContextTypes
<1>5. ASSUME NEW r \in matches
      PROVE  \E d \in Autos : r = ByRules(CaseOf(d), "RECONCILED", d.records)
  OBVIOUS
<1>6. ASSUME NEW r \in exceptions
      PROVE  \E p \in Exceptions : r = ByRules(p, "EXPLAINED_OUTSTANDING", {p})
  OBVIOUS
<1>7. /\ \A r \in matches : r \in Result /\ r.outcome = "RECONCILED"
      /\ \A r \in exceptions : /\ r \in Result /\ r.case \in Exceptions
                               /\ r.outcome # "RECONCILED"
  BY <1>3, <1>4 DEF ByRules, Result
<1>8. /\ \A d \in Autos : \E r \in matches : r.records = d.records
      /\ \A p \in Exceptions : \E r \in exceptions : r.records = {p}
  <2>1. \A d \in Autos : ByRules(CaseOf(d), "RECONCILED", d.records) \in matches  OBVIOUS
  <2>2. \A p \in Exceptions : ByRules(p, "EXPLAINED_OUTSTANDING", {p}) \in exceptions  OBVIOUS
  <2>3. \A case, outcome, records : ByRules(case, outcome, records).records = records
    BY DEF ByRules
  <2> HIDE DEF matches, exceptions
  <2> QED  BY <2>1, <2>2, <2>3
<1>9. /\ \A r \in matches : \E d \in Autos : r.records = d.records /\ r.case = CaseOf(d)
      /\ \A r, s \in matches : \E d, e \in Autos :
           /\ r.records = d.records /\ r.case = CaseOf(d)
           /\ s.records = e.records /\ s.case = CaseOf(e) /\ (d = e => r = s)
      /\ \A r, s \in exceptions : r.case = s.case => r = s
  BY DEF ByRules
<1> HIDE DEF matches, exceptions
<1>10. WavesTyped'
  <2>1. used \subseteq Records  BY <1>0 DEF TypeOK
  <2> QED  BY <1>1, <1>2, <1>4, <1>7, <2>1 DEF WavesTyped, WavesInv
<1>11. InSequence'  BY <1>1 DEF InSequence
<1>12. UsedAreShown'
  <2>1. used \subseteq UNION {r.records : r \in results'}  BY <1>0, <1>1, <1>8
  <2>2. Exceptions \subseteq UNION {r.records : r \in results'}  BY <1>1, <1>8
  <2>3. \A r \in results' : r.outcome = "RECONCILED" => r.records \subseteq used
    BY <1>0, <1>1, <1>7, <1>9
  <2> QED  BY <1>1, <2>1, <2>2, <2>3 DEF UsedAreShown, ResultsOf
<1>13. CasesApart'  BY <1>1, <1>2, <1>3, <1>4, <1>7, <1>9 DEF CasesApart
<1>14. CasesKept'
  <2>1. Selected(Context)' = Selected(Context)  BY SelectionFixed
  <2> QED  BY <1>1, <1>2, <2>1 DEF CasesKept
<1>15. NoRecordMatchedTwice'
  <2>1. \A r, s \in matches : r = s \/ r.records \cap s.records = {}
    BY <1>0, <1>9 DEF RecordsUsedOnce
  <2> QED  BY <1>1, <1>7, <2>1 DEF NoRecordMatchedTwice, ResultsOf
<1>16. OneResultPerCase'
  <2>1. \A r, s \in matches : r.case = s.case => r = s  BY <1>0, <1>9, CasesUnmatched
  <2>2. \A r \in matches, s \in exceptions : r.case # s.case  BY <1>3, <1>4, <1>7, <1>9
  <2> QED  BY <1>1, <1>9, <2>1, <2>2 DEF OneResultPerCase
<1>17. CallBudgetKept'  BY <1>2, WavesAssumption DEF CallBudgetKept, WavesAssumption
<1> QED  BY <1>1, <1>10, <1>11, <1>12, <1>13, <1>14, <1>15, <1>16, <1>17 DEF WavesInv

LEMMA OpenWaveStep ==
  ASSUME WavesInv, UNCHANGED vars, OpenWave
  PROVE  /\ WavesInv' /\ UNCHANGED course
         /\ \A p \in DOMAIN wave' : wave'[p].phase \notin Reasons
<1> DEFINE shortlist == [p \in ThisWave \ taken |-> WaveShortlist(p)]
           prepared == Askable(shortlist)
           asked == Foremost(MaxCalls - calls, prepared)
           added == NoCandidate(DOMAIN shortlist \ prepared)
<1>1. /\ course = "waves" /\ course' = "waves" /\ wave = NoItems /\ taken' = taken
      /\ queue' = LaterWaves
      /\ wave' = [p \in prepared |-> Prepared(p, shortlist[p], p \in asked)]
      /\ calls' = calls + Cardinality(asked)
      /\ results' = results \cup added
      /\ UNCHANGED stage
  BY DEF OpenWave, BetweenWaves, vars
<1>2. /\ ThisWave \subseteq DOMAIN queue /\ DOMAIN queue \subseteq Records
      /\ DOMAIN shortlist = ThisWave \ taken /\ prepared \subseteq DOMAIN shortlist
  BY DEF ThisWave, Foremost, Askable, WavesInv, WavesTyped
<1>3. DOMAIN queue' = DOMAIN queue \ ThisWave /\ \A p \in DOMAIN queue' : queue'[p] = queue[p]
  BY <1>1 DEF LaterWaves, Without
<1>4. ASSUME NEW p \in prepared
      PROVE  /\ shortlist[p] \subseteq Records /\ shortlist[p] # {}
             /\ p \in Records /\ queue[p] \subseteq Records
  <2>1. shortlist[p] = WaveShortlist(p)  BY <1>2
  <2>2. WaveShortlist(p) \subseteq Records
    BY DEF WaveShortlist, PruneCandidates, GenerateCandidates, Qualifying, OtherFile, Records
  <2>3. shortlist[p] # {}  BY DEF Askable
  <2>4. p \in Records /\ queue[p] \subseteq Records  BY <1>2 DEF WavesInv, WavesTyped
  <2> QED  BY <2>1, <2>2, <2>3, <2>4
<1>5. \A r \in added : \E p \in DOMAIN shortlist \ prepared : r = ByRules(p, "UNRESOLVED", {p})
  BY DEF NoCandidate
<1>6. \A p \in DOMAIN shortlist \ prepared : ByRules(p, "UNRESOLVED", {p}) \in added
  BY DEF NoCandidate
<1>7. \A r \in added : r.case \in DOMAIN shortlist \ prepared /\ r.records = {r.case}
                       /\ r.outcome = "UNRESOLVED" /\ r.source = "DETERMINISTIC"
  BY <1>5 DEF ByRules
<1>8. \A r \in added : r \in Result
  <2>1. \A p \in DOMAIN shortlist \ prepared : ByRules(p, "UNRESOLVED", {p}) \in Result
    BY <1>2 DEF ByRules, Result
  <2> QED  BY <1>5, <2>1
<1>9. \A p \in DOMAIN shortlist \ prepared : \E r \in added : r.records = {p}
  BY <1>6 DEF ByRules
<1>10. \A r, s \in added : r.case = s.case => r = s
  <2>1. \A r \in added : r = ByRules(r.case, "UNRESOLVED", {r.case})
    <3>1. \A p : ByRules(p, "UNRESOLVED", {p}).case = p  BY DEF ByRules
    <3> QED  BY <1>5, <3>1
  <2> QED  BY <2>1
<1>11. MaxCalls - calls \in Nat /\ calls \in Nat /\ MaxCalls \in Nat
  BY WavesAssumption DEF WavesAssumption, WavesInv, WavesTyped, CallBudgetKept
<1>12. Cardinality(asked) \in Nat /\ Cardinality(asked) <= MaxCalls - calls
  <2>1. prepared \in SUBSET Records  BY <1>2
  <2> HIDE DEF prepared
  <2> QED  BY <1>11, <2>1, ForemostBounded
<1> HIDE DEF shortlist, prepared, asked, added
<1>13. /\ DOMAIN wave' = prepared
       /\ \A p \in prepared : /\ wave'[p].cover = queue[p] /\ wave'[p] \in Item
                              /\ wave'[p].phase \in {"first", "settled"}
  <2>1. DOMAIN wave' = prepared
        /\ \A p \in prepared : wave'[p] = Prepared(p, shortlist[p], p \in asked)
    BY <1>1
  <2>2. ASSUME NEW p \in prepared
        PROVE  LET item == Prepared(p, shortlist[p], p \in asked)
               IN  item.cover = queue[p] /\ item \in Item /\ item.phase \in {"first", "settled"}
    <3>1. Insufficient(p) \in Proposal
      BY <1>4 DEF Insufficient, Proposal, Flaws
    <3> QED  BY <1>4, <3>1 DEF Prepared, Item, InFlight
  <2> QED  BY <2>1, <2>2
<1>14. WavesTyped'
  BY <1>1, <1>2, <1>3, <1>8, <1>11, <1>12, <1>13 DEF WavesInv, WavesTyped
<1>15. InSequence'  BY <1>1 DEF WavesInv, InSequence
<1>16. UsedAreShown'
  BY <1>1, <1>7 DEF WavesInv, UsedAreShown, ResultsOf
<1>17. CasesApart'
  <2>1. \A r \in results : r.case \notin DOMAIN queue' \cup DOMAIN wave'
    BY <1>2, <1>3, <1>13 DEF WavesInv, CasesApart
  <2>2. \A r \in added : r.case \notin DOMAIN queue' \cup DOMAIN wave'
    BY <1>2, <1>3, <1>7, <1>13
  <2> QED  BY <1>1, <1>2, <1>3, <1>13, <2>1, <2>2 DEF CasesApart
<1>18. CasesKept'
  <2>1. \A p \in DOMAIN queue' : p \in queue'[p]  BY <1>3 DEF WavesInv, CasesKept
  <2>2. \A p \in DOMAIN wave' : p \in wave'[p].cover
    BY <1>2, <1>13 DEF WavesInv, CasesKept
  <2>3. ASSUME NEW p \in DOMAIN queue
        PROVE  p \in DOMAIN queue' \cup DOMAIN wave' \cup UNION {r.records : r \in results'}
    <3>1. CASE p \notin ThisWave  BY <1>3, <3>1
    <3>2. CASE p \in taken
      BY <1>1, <3>2 DEF WavesInv, UsedAreShown
    <3>3. CASE p \in prepared  BY <1>13, <3>3
    <3>4. CASE p \in DOMAIN shortlist \ prepared  BY <1>1, <1>9, <3>4
    <3> QED  BY <1>2, <3>1, <3>2, <3>3, <3>4
  <2>4. \A p \in Selected(Context) :
          p \in DOMAIN queue \cup UNION {r.records : r \in results}
    BY <1>1 DEF WavesInv, CasesKept, NoItems
  <2>5. UNION {r.records : r \in results} \subseteq UNION {r.records : r \in results'}
    BY <1>1
  <2>6. Selected(Context)' = Selected(Context)  BY SelectionFixed
  <2> QED  BY <1>1, <2>1, <2>2, <2>3, <2>4, <2>5, <2>6 DEF CasesKept
<1>19. NoRecordMatchedTwice'
  BY <1>1, <1>7 DEF WavesInv, NoRecordMatchedTwice, ResultsOf
<1>20. OneResultPerCase'
  <2>1. \A r \in results, s \in added : r.case # s.case
    BY <1>2, <1>7 DEF WavesInv, CasesApart
  <2> QED  BY <1>1, <1>10, <2>1 DEF WavesInv, OneResultPerCase
<1>21. CallBudgetKept'  BY <1>1, <1>11, <1>12 DEF CallBudgetKept
<1>22. \A p \in DOMAIN wave' : wave'[p].phase \notin Reasons  BY <1>13 DEF Reasons
<1> QED
  BY <1>1, <1>14, <1>15, <1>16, <1>17, <1>18, <1>19, <1>20, <1>21, <1>22 DEF WavesInv

\* Where the pipeline only ends, in an error or with what it has.
LEMMA EndStep ==
  ASSUME WavesInv, UNCHANGED <<vars, taken, queue, wave, calls, results>>,
         course = "waves", course' \in Reasons \cup Errors \cup {"returned"},
         course' = "returned" => DOMAIN queue = {} /\ DOMAIN wave = {}
  PROVE  WavesInv'
<1>1. UNCHANGED <<stage, taken, queue, wave, calls, results>> /\ course' # "rules"
  BY DEF vars, Reasons, Errors
<1>2. Selected(Context)' = Selected(Context)  BY SelectionFixed
<1>3. WavesTyped' /\ InSequence' /\ UsedAreShown' /\ CasesApart' /\ CasesKept'
  BY <1>1, <1>2
  DEF WavesInv, WavesTyped, InSequence, UsedAreShown, CasesApart, CasesKept, ResultsOf
<1>4. NoRecordMatchedTwice' /\ OneResultPerCase' /\ CallBudgetKept'
  BY <1>1 DEF WavesInv, NoRecordMatchedTwice, OneResultPerCase, CallBudgetKept, ResultsOf
<1> QED  BY <1>3, <1>4 DEF WavesInv

Phases == InFlight \cup {"settled"} \cup Reasons \cup Errors

\* What an answer or an error makes of a case that is being asked about.
LEMMA InvestigateBecomes ==
  ASSUME WavesInv, signal \in {NoSignal} \cup Reasons, NEW p \in DOMAIN wave, Investigate(p)
  PROVE  /\ course = "waves"
         /\ \E to \in Phases, answer \in Proposal :
              Becomes(p, to, answer) /\ (to \in Reasons => to = signal)
         /\ calls' = calls \/ (calls < MaxCalls /\ calls' = calls + 1)
<1>0. p \in Records /\ wave[p] \in Item /\ wave[p].answer \in Proposal
      /\ wave[p].candidates \subseteq Records
  BY DEF WavesInv, WavesTyped, Item
<1> DEFINE Goal == /\ \E to \in Phases, answer \in Proposal :
                        Becomes(p, to, answer) /\ (to \in Reasons => to = signal)
                   /\ calls' = calls \/ (calls < MaxCalls /\ calls' = calls + 1)
<1>1. Refused \in Proposal /\ Insufficient(p) \in Proposal
  BY <1>0 DEF Refused, Insufficient, Proposal, Flaws
<1>2. \A q \in Proposals(p, wave[p].candidates) : q \in Proposal
  BY <1>0 DEF Proposals, Proposal
<1>3. /\ "settled" \in Phases /\ "again" \in Phases /\ Reasons \subseteq Phases
      /\ Errors \subseteq Phases /\ {"settled", "again"} \cap Reasons = {}
      /\ Errors \cap Reasons = {}
  BY DEF Phases, InFlight, Reasons, Errors
<1>4. ASSUME NEW q \in Proposal, Settle(p, q) PROVE Goal
  <2>1. CASE FailuresOf(p, q) # {}
    <3>1. Becomes(p, "settled", Refused) /\ calls' = calls  BY <1>4, <2>1 DEF Settle
    <3> QED  BY <1>1, <1>3, <3>1
  <2>2. CASE FailuresOf(p, q) = {}
    <3>1. Becomes(p, "settled", q) /\ calls' = calls  BY <1>4, <2>2 DEF Settle
    <3> QED  BY <1>3, <1>4, <3>1
  <2> QED  BY <2>1, <2>2
<1>5. ASSUME NEW error \in Errors \cup Reasons, Reject(p, error),
             error \in Reasons => error = signal
      PROVE  Goal
  <2>1. CASE signal # NoSignal
    <3>1. Becomes(p, signal, Refused) /\ calls' = calls  BY <1>5, <2>1 DEF Reject
    <3> QED  BY <1>1, <1>3, <2>1, <3>1
  <2>2. CASE signal = NoSignal
    <3>1. Becomes(p, error, Refused) /\ calls' = calls  BY <1>5, <2>2 DEF Reject
    <3> QED  BY <1>1, <1>3, <1>5, <3>1
  <2> QED  BY <2>1, <2>2
<1>6. ASSUME FallBack(p) PROVE Goal
  <2>1. CASE signal # NoSignal
    <3>1. signal \in Reasons /\ Reject(p, signal)  BY <1>6, <2>1 DEF FallBack
    <3> QED  BY <1>5, <3>1
  <2>2. CASE signal = NoSignal  BY <1>1, <1>4, <1>6, <2>2 DEF FallBack
  <2> QED  BY <2>1, <2>2
<1>7. ASSUME AskAgain(p) PROVE Goal
  <2>1. CASE calls < MaxCalls
    <3>1. Becomes(p, "again", wave[p].answer) /\ calls' = calls + 1
      BY <1>7, <2>1 DEF AskAgain
    <3> QED  BY <1>0, <1>3, <2>1, <3>1
  <2>2. CASE ~(calls < MaxCalls)  BY <1>6, <1>7, <2>2 DEF AskAgain
  <2> QED  BY <2>1, <2>2
<1> HIDE DEF Goal
<1>8. CASE \E q \in Proposals(p, wave[p].candidates) : Propose(p, q)
  BY <1>2, <1>4, <1>7, <1>8 DEF Propose, InPhase, Goal
<1>9. CASE GenerationFails(p)
  BY <1>1, <1>4, <1>7, <1>9 DEF GenerationFails, InPhase, Goal
<1>10. CASE SchemaFails(p)
  BY <1>6, <1>10 DEF SchemaFails, InPhase, Goal
<1>11. CASE \E error \in Errors : RequestFails(p, error)
  BY <1>3, <1>5, <1>11 DEF RequestFails, InPhase, Goal
<1> QED  BY <1>8, <1>9, <1>10, <1>11 DEF Investigate

LEMMA InvestigateStep ==
  ASSUME WavesInv, UNCHANGED vars, signal \in {NoSignal} \cup Reasons,
         NEW p \in DOMAIN wave, Investigate(p),
         \A x \in DOMAIN wave : wave[x].phase \in Reasons => wave[x].phase = signal
  PROVE  /\ WavesInv' /\ UNCHANGED course
         /\ \A x \in DOMAIN wave' : wave'[x].phase \in Reasons => wave'[x].phase = signal
<1>1. PICK to \in Phases, answer \in Proposal :
        Becomes(p, to, answer) /\ (to \in Reasons => to = signal)
  BY InvestigateBecomes
<1>2. /\ wave' = [wave EXCEPT ![p].phase = to, ![p].answer = answer]
      /\ UNCHANGED <<course, taken, queue, results, stage>>
  BY <1>1 DEF Becomes, vars
<1>3. /\ calls' = calls \/ (calls < MaxCalls /\ calls' = calls + 1)
      /\ calls \in Nat /\ MaxCalls \in Nat /\ calls <= MaxCalls /\ course = "waves"
  BY InvestigateBecomes, WavesAssumption
  DEF WavesAssumption, WavesInv, WavesTyped, CallBudgetKept
<1>4. DOMAIN wave' = DOMAIN wave /\ \A x \in DOMAIN wave : x # p => wave'[x] = wave[x]
  BY <1>2
<1>5. wave'[p].phase = to /\ wave'[p].cover = wave[p].cover /\ wave'[p] \in Item
  <2>1. wave[p] \in Item  BY DEF WavesInv, WavesTyped
  <2>2. wave'[p] = [wave[p] EXCEPT !.phase = to, !.answer = answer]  BY <1>2
  <2> QED  BY <2>1, <2>2 DEF Item, Phases
<1>6. WavesTyped'  BY <1>2, <1>3, <1>4, <1>5 DEF WavesInv, WavesTyped
<1>7. InSequence' /\ UsedAreShown' /\ CasesApart'
  BY <1>2, <1>3, <1>4 DEF WavesInv, InSequence, UsedAreShown, CasesApart, ResultsOf
<1>8. CasesKept'
  <2>1. Selected(Context)' = Selected(Context)  BY SelectionFixed
  <2> QED  BY <1>2, <1>4, <1>5, <2>1 DEF WavesInv, CasesKept
<1>9. NoRecordMatchedTwice' /\ OneResultPerCase' /\ CallBudgetKept'
  BY <1>2, <1>3
  DEF WavesInv, NoRecordMatchedTwice, OneResultPerCase, CallBudgetKept, ResultsOf
<1> QED  BY <1>1, <1>2, <1>4, <1>5, <1>6, <1>7, <1>8, <1>9 DEF WavesInv

(* What the verifier answers: a claim names its case, and a match nothing   *)
(* that is used (verifier/match-verifier.ts, non-match-verifier.ts).  *)
LEMMA VerifierHolds ==
  ASSUME NEW p, NEW candidates, NEW t, NEW q, NEW outcome,
         outcome = FinalOutcome(p, candidates, t, q)
  PROVE  /\ outcome \in {"RECONCILED", "EXPLAINED_OUTSTANDING", "DISCREPANCY", "UNRESOLVED"}
         /\ outcome # "UNRESOLVED" => p \in q.records
         /\ outcome = "RECONCILED" => q.records \cap t = {}
<1>1. outcome # "UNRESOLVED" =>
        Failures(p, candidates, t, q) = {} /\ outcome = Verdict(p, t, q)
  BY DEF FinalOutcome
<1>2. Verdict(p, t, q) \in {"RECONCILED", "EXPLAINED_OUTSTANDING", "DISCREPANCY", "UNRESOLVED"}
      /\ (Verdict(p, t, q) = "RECONCILED" => q.outcome = "MATCH")
  BY DEF Verdict
<1>3. p \notin q.records => "PRIMARY_NOT_INCLUDED" \in StructureFailures(p, candidates, q)
  BY DEF StructureFailures
<1>4. q.records \cap t # {} => "RECORD_ALREADY_USED" \in MatchFailures(t, q)
  BY DEF MatchFailures
<1> QED  BY <1>1, <1>2, <1>3, <1>4 DEF Failures

LEMMA FinalizeStep ==
  ASSUME WavesInv, UNCHANGED vars, NEW p \in DOMAIN wave, Finalize(p)
  PROVE  /\ WavesInv' /\ UNCHANGED course
         /\ DOMAIN wave' \subseteq DOMAIN wave /\ \A x \in DOMAIN wave' : wave'[x] = wave[x]
<1> DEFINE outcome == FinalOutcome(p, wave[p].candidates, taken, wave[p].answer)
           named == wave[p].answer.records
           shown == IF outcome = "UNRESOLVED" THEN wave[p].cover ELSE named
           result == [case |-> p, source |-> "AGENT_VERIFIED", outcome |-> outcome,
                      records |-> shown]
           consumed == Consumed(p, outcome, wave[p].answer)
<1>1. /\ course = "waves" /\ UNCHANGED <<course, queue, calls, stage>>
      /\ results' = results \cup {result}
      /\ taken' = taken \cup consumed
      /\ wave' = Without(wave, {p})
  BY DEF Finalize, Turn, FinalizeWith, vars
<1>2. /\ outcome \in {"RECONCILED", "EXPLAINED_OUTSTANDING", "DISCREPANCY", "UNRESOLVED"}
      /\ outcome # "UNRESOLVED" => p \in named
      /\ outcome = "RECONCILED" => named \cap taken = {}
  BY VerifierHolds
<1>3. /\ p \in Records /\ p \in wave[p].cover
      /\ named \subseteq Records /\ wave[p].cover \subseteq Records
  <2>1. p \in Records /\ wave[p] \in Item /\ p \in wave[p].cover
    BY DEF WavesInv, WavesTyped, CasesKept
  <2>2. wave[p].answer \in Proposal  BY <2>1 DEF Item
  <2>3. named \subseteq Records  BY <2>2 DEF Proposal
  <2> QED  BY <2>1, <2>3 DEF Item
<1>4. DOMAIN wave' = DOMAIN wave \ {p} /\ \A x \in DOMAIN wave' : wave'[x] = wave[x]
  BY <1>1 DEF Without
<1>5. shown \subseteq Records /\ p \in shown  BY <1>2, <1>3
<1>6. consumed \subseteq shown /\ (outcome = "RECONCILED" => shown = named /\ consumed = named)
  BY <1>2 DEF Consumed
<1>7. /\ result \in Result /\ result.case = p /\ result.outcome = outcome
      /\ result.records = shown
  <2> HIDE DEF outcome, shown
  <2> QED  BY <1>2, <1>3, <1>5 DEF Result
<1> HIDE DEF outcome, named, shown, result, consumed
<1>8. WavesTyped'
  BY <1>1, <1>4, <1>5, <1>6, <1>7 DEF WavesInv, WavesTyped
<1>9. InSequence'  BY <1>1 DEF WavesInv, InSequence
<1>10. UsedAreShown'
  <2>1. taken \subseteq UNION {r.records : r \in results}  BY DEF WavesInv, UsedAreShown
  <2>2. taken' \subseteq UNION {r.records : r \in results'}
    BY <1>1, <1>6, <1>7, <2>1
  <2>3. \A r \in results' : r.outcome = "RECONCILED" => r.records \subseteq taken'
    BY <1>1, <1>6, <1>7 DEF WavesInv, UsedAreShown, ResultsOf
  <2> QED  BY <2>2, <2>3 DEF UsedAreShown, ResultsOf
<1>11. CasesApart'
  <2>1. p \notin DOMAIN queue  BY DEF WavesInv, CasesApart
  <2> QED  BY <1>1, <1>4, <1>7, <2>1 DEF WavesInv, CasesApart
<1>12. CasesKept'
  <2>1. Selected(Context)' = Selected(Context)  BY SelectionFixed
  <2>2. /\ p \in UNION {r.records : r \in results'}
        /\ UNION {r.records : r \in results} \subseteq UNION {r.records : r \in results'}
    BY <1>1, <1>5, <1>7
  <2>3. \A x \in Selected(Context) :
          x \in DOMAIN queue \cup DOMAIN wave \cup UNION {r.records : r \in results}
    BY <1>1 DEF WavesInv, CasesKept
  <2>4. \A x \in Selected(Context)' :
          x \in DOMAIN queue' \cup DOMAIN wave' \cup UNION {r.records : r \in results'}
    BY <1>1, <1>4, <2>1, <2>2, <2>3
  <2> QED  BY <1>1, <1>4, <2>4 DEF WavesInv, CasesKept
<1>13. NoRecordMatchedTwice'
  <2>1. \A r \in ResultsOf("RECONCILED") : r.records \subseteq taken
    BY DEF WavesInv, UsedAreShown
  <2>2. outcome = "RECONCILED" =>
          \A r \in ResultsOf("RECONCILED") : r.records \cap result.records = {}
    BY <1>2, <1>6, <1>7, <2>1
  <2>3. \A r \in ResultsOf("RECONCILED")' :
          r \in ResultsOf("RECONCILED") \/ (r = result /\ outcome = "RECONCILED")
    BY <1>1, <1>7 DEF ResultsOf
  <2> QED  BY <2>2, <2>3 DEF WavesInv, NoRecordMatchedTwice
<1>14. OneResultPerCase'
  <2>1. \A r \in results : r.case # result.case  BY <1>7 DEF WavesInv, CasesApart
  <2> QED  BY <1>1, <2>1 DEF WavesInv, OneResultPerCase
<1>15. CallBudgetKept'  BY <1>1 DEF WavesInv, CallBudgetKept
<1> QED
  BY <1>1, <1>4, <1>8, <1>9, <1>10, <1>11, <1>12, <1>13, <1>14, <1>15 DEF WavesInv

\* A step of the waves keeps what they rest on, and tells an abort as what it was.
LEMMA WavesStep ==
  ASSUME StagesPart, WavesInv, Causes, signal \in {NoSignal} \cup Reasons,
         UNCHANGED <<vars, signal, failure>>, RunWaves
  PROVE  WavesInv' /\ Causes'
<1>0. /\ course \in Reasons => course = signal
      /\ \A x \in DOMAIN wave : wave[x].phase \in Reasons => wave[x].phase = signal
      /\ failure' \in Reasons => failure' = signal'
      /\ UNCHANGED signal
  BY DEF Causes
<1>1. CASE Select
  BY <1>0, <1>1, SelectStep DEF Causes, Reasons
<1>2. CASE OpenWave
  BY <1>0, <1>2, OpenWaveStep DEF Causes
<1>3. CASE StopBetweenWaves
  <2>1. course = "waves" /\ course' = signal /\ signal \in Reasons
        /\ UNCHANGED <<taken, queue, wave, calls, results>>
    BY <1>3 DEF StopBetweenWaves, BetweenWaves
  <2>2. WavesInv'  BY <2>1, EndStep DEF Reasons
  <2> QED  BY <1>0, <2>1, <2>2 DEF Causes
<1>4. CASE Return
  <2>1. course = "waves" /\ course' = "returned" /\ DOMAIN queue = {} /\ DOMAIN wave = {}
        /\ UNCHANGED <<taken, queue, wave, calls, results>>
    BY <1>4 DEF Return, BetweenWaves, NoItems
  <2>2. WavesInv'  BY <2>1, EndStep
  <2> QED  BY <1>0, <2>1, <2>2 DEF Causes, Reasons
<1>5. ASSUME NEW p \in DOMAIN wave, Investigate(p) PROVE WavesInv' /\ Causes'
  BY <1>0, <1>5, InvestigateStep DEF Causes
<1>6. ASSUME NEW p \in DOMAIN wave, Finalize(p) PROVE WavesInv' /\ Causes'
  BY <1>0, <1>6, FinalizeStep DEF Causes
<1>7. ASSUME NEW p \in DOMAIN wave, Throw(p) PROVE WavesInv' /\ Causes'
  <2>1. course = "waves" /\ course' = wave[p].phase
        /\ UNCHANGED <<taken, queue, wave, calls, results>>
        /\ wave[p].phase \notin InFlight \cup {"settled"}
    BY <1>7 DEF Throw, Turn
  <2>2. course' \in Reasons \cup Errors
    BY <2>1 DEF WavesInv, WavesTyped, Item
  <2>3. WavesInv'  BY <2>1, <2>2, EndStep DEF Reasons, Errors
  <2> QED  BY <1>0, <2>1, <2>3 DEF Causes
<1> QED  BY <1>1, <1>2, <1>3, <1>4, <1>5, <1>6, <1>7 DEF RunWaves

-----------------------------------------------------------------------------
(* The inductive invariant of a run.                                        *)

\* The row follows the task, and has results only when it is COMPLETED.
RowFollows ==
  /\ signal \in {NoSignal} \cup Reasons
  /\ status \in {"ABSENT", "PENDING", "PROCESSING", "COMPLETED", "FAILED"}
  /\ failure \in {NoFailure} \cup Reasons \cup Errors
  /\ stored \subseteq Result /\ exec \in Where /\ lost \in BOOLEAN
  /\ exec = "absent" => status = "ABSENT"
  /\ exec = "scheduled" => status = "PENDING"
  /\ exec \in {"running", "failing"} => status = "PROCESSING"
  /\ IF status = "COMPLETED"
     THEN exec = "over" /\ course = "returned" /\ stored = results
     ELSE stored = {}

RunInv == StagesPart /\ WavesInv /\ Causes /\ RowFollows

\* The stages keep their part, and so does everything that leaves them alone.
LEMMA StagesPartStep == StagesPart /\ [Next]_vars => StagesPart'
BY StageKeepsType, AllInvStep, DecisionsKeepCases DEF StagesPart, AllInv

LEMMA RunInvInit == LegacyInit => RunInv
<1> SUFFICES ASSUME LegacyInit PROVE RunInv  OBVIOUS
<1>0. /\ Init /\ course = "rules" /\ taken = {} /\ queue = NoItems /\ wave = NoItems
      /\ calls = 0 /\ results = {} /\ signal = NoSignal /\ stored = {}
      /\ status = "ABSENT" /\ failure = NoFailure /\ exec = "absent" /\ lost = FALSE
  BY DEF LegacyInit, WavesInit
<1>1. DOMAIN queue = {} /\ DOMAIN wave = {}  BY <1>0 DEF NoItems
<1>2. StagesPart  BY <1>0, AllInvInit DEF StagesPart, DecisionsHaveCases, Init
<1>3. WavesTyped /\ InSequence /\ UsedAreShown /\ CasesApart /\ CasesKept
  BY <1>0, <1>1 DEF WavesTyped, InSequence, UsedAreShown, CasesApart, CasesKept, ResultsOf
<1>4. NoRecordMatchedTwice /\ OneResultPerCase /\ CallBudgetKept
  BY <1>0, WavesAssumption
  DEF NoRecordMatchedTwice, OneResultPerCase, CallBudgetKept, ResultsOf, WavesAssumption
<1>5. Causes  BY <1>0, <1>1 DEF Causes, Reasons, NoFailure
<1>6. RowFollows  BY <1>0 DEF RowFollows, Where
<1> QED  BY <1>2, <1>3, <1>4, <1>5, <1>6 DEF RunInv, WavesInv

LEMMA RunInvStep == RunInv /\ [LegacyNext]_legacyVars => RunInv'
<1> SUFFICES ASSUME RunInv, [LegacyNext]_legacyVars PROVE RunInv'  OBVIOUS
<1>0. StagesPart /\ WavesInv /\ Causes /\ RowFollows  BY DEF RunInv
<1>1. ASSUME UNCHANGED <<vars, waveVars>> PROVE StagesPart' /\ WavesInv'
  BY <1>0, <1>1, StagesPartStep, WavesUntouched
\* What the actions around the pipeline do to the causes.
<1>2. ASSUME UNCHANGED <<vars, waveVars, signal>>,
             failure' = failure \/ (failure' \in Reasons => failure' = signal)
      PROVE  Causes'
  BY <1>0, <1>2 DEF Causes, waveVars
<1>3. CASE StartRun
  <2>1. RowFollows'
    BY <1>0, <1>3 DEF StartRun, RowFollows, Where, waveVars
  <2> QED  BY <1>1, <1>2, <1>3, <2>1 DEF StartRun, RunInv
<1>4. CASE MarkProcessing
  <2>1. RowFollows'
    BY <1>0, <1>4 DEF MarkProcessing, RowFollows, Where, waveVars
  <2> QED  BY <1>1, <1>2, <1>4, <2>1 DEF MarkProcessing, RunInv
<1>5. CASE Pipeline
  <2>1. UNCHANGED <<signal, status, failure, stored, exec, lost>> /\ exec = "running"
    BY <1>5 DEF Pipeline, PipelineStep
  <2>2. RowFollows'  BY <1>0, <2>1 DEF RowFollows
  <2>3. CASE Next /\ UNCHANGED waveVars
    BY <1>0, <1>2, <2>1, <2>2, <2>3, StagesPartStep, StageRuns DEF RunInv, Causes, waveVars
  <2>4. CASE RunWaves /\ UNCHANGED vars
    <3>1. StagesPart'  BY <1>0, <2>4, StagesPartStep
    <3>2. WavesInv' /\ Causes'
      BY <1>0, <2>1, <2>4, WavesStep DEF RowFollows
    <3> QED  BY <2>2, <3>1, <3>2 DEF RunInv
  <2> QED  BY <1>5, <2>3, <2>4 DEF Pipeline, PipelineStep
<1>6. CASE PipelineThrows
  <2>1. RowFollows'
    BY <1>0, <1>6 DEF PipelineThrows, Fails, RowFollows, Where, waveVars
  <2>2. failure' \in Reasons => failure' = signal
    BY <1>0, <1>6 DEF PipelineThrows, Fails, Causes
  <2> QED  BY <1>1, <1>2, <1>6, <2>1, <2>2 DEF PipelineThrows, Fails, RunInv
<1>7. CASE SaveCompletedRun
  <2>1. RowFollows'
    BY <1>0, <1>7 DEF SaveCompletedRun, RowFollows, Where, waveVars, WavesInv, WavesTyped
  <2> QED  BY <1>1, <1>2, <1>7, <2>1 DEF SaveCompletedRun, RunInv
<1>8. CASE SaveFails
  <2>1. RowFollows'
    BY <1>0, <1>8 DEF SaveFails, Fails, RowFollows, Where, waveVars, Errors
  <2> QED  BY <1>1, <1>2, <1>8, <2>1 DEF SaveFails, Fails, RunInv, Reasons
<1>9. CASE MarkRunFailed
  <2>1. RowFollows'
    BY <1>0, <1>9 DEF MarkRunFailed, RowFollows, Where, waveVars
  <2> QED  BY <1>1, <1>2, <1>9, <2>1 DEF MarkRunFailed, RunInv
<1>10. CASE MarkProcessingFails \/ MarkRunFailedFails
  <2>1. RowFollows'
    BY <1>0, <1>10 DEF MarkProcessingFails, MarkRunFailedFails, RowFollows, Where, waveVars
  <2> QED
    BY <1>1, <1>2, <1>10, <2>1 DEF MarkProcessingFails, MarkRunFailedFails, RunInv
<1>11. ASSUME NEW reason \in Reasons, Abort(reason) PROVE RunInv'
  <2>1. signal = NoSignal /\ signal' = reason
        /\ UNCHANGED <<vars, waveVars, status, failure, stored, exec, lost>>
    BY <1>11 DEF Abort
  <2>2. RowFollows'  BY <1>0, <2>1 DEF RowFollows, waveVars
  <2>3. Causes'  BY <1>0, <2>1 DEF Causes, waveVars, Reasons, NoSignal
  <2> QED  BY <1>1, <2>1, <2>2, <2>3 DEF RunInv
<1>12. CASE Cancel \/ Deadline  BY <1>11, <1>12 DEF Cancel, Deadline, Reasons
<1>13. CASE UNCHANGED legacyVars
  <2>1. RowFollows'  BY <1>0, <1>13 DEF legacyVars, RowFollows, waveVars
  <2> QED  BY <1>1, <1>2, <1>13, <2>1 DEF legacyVars, RunInv
<1> QED
  BY <1>3, <1>4, <1>5, <1>6, <1>7, <1>8, <1>9, <1>10, <1>12, <1>13 DEF LegacyNext, Executor

LEMMA RunInvariant == LegacySpec => []RunInv
BY RunInvInit, RunInvStep, PTL DEF LegacySpec

-----------------------------------------------------------------------------
(* Theorems.                                                                *)

(* Every variable of a run keeps its type (run-service.ts:204-310).         *)
THEOREM RunTypeCorrect == LegacySpec => []RunTypeOK
<1>1. RunInv => RunTypeOK
  BY DEF RunInv, StagesPart, AllInv, WavesInv, WavesTyped, RowFollows, RunTypeOK
<1> QED  BY <1>1, RunInvariant, PTL

(* No record takes part in two matches of a run, whatever cases are asked   *)
(* about concurrently (run-reconciliation.ts:180,268).                      *)
THEOREM RunMatchesOnce == LegacySpec => []NoRecordMatchedTwice
<1>1. RunInv => NoRecordMatchedTwice  BY DEF RunInv, WavesInv
<1> QED  BY <1>1, RunInvariant, PTL

(* No case has two results, so that saveCompletedRun never refuses them     *)
(* (reconciliation-run-repository.ts:447).                                  *)
THEOREM RunSettlesOnce == LegacySpec => []OneResultPerCase
<1>1. RunInv => OneResultPerCase  BY DEF RunInv, WavesInv
<1> QED  BY <1>1, RunInvariant, PTL

(* The requests of a run never exceed its budget (run-reconciliation.ts:55-64). *)
THEOREM RunKeepsBudget == LegacySpec => []CallBudgetKept
<1>1. RunInv => CallBudgetKept  BY DEF RunInv, WavesInv
<1> QED  BY <1>1, RunInvariant, PTL

(* A COMPLETED run shows every selected case, any other run nothing         *)
(* (run-service.ts:220-254).                                                *)
THEOREM RunShowsAllOrNothing == LegacySpec => []CompletedOrNothing
<1>1. RunInv => CompletedOrNothing
  <2> SUFFICES ASSUME RunInv PROVE CompletedOrNothing  OBVIOUS
  <2>1. CASE status = "COMPLETED"
    <3>1. course = "returned" /\ stored = results  BY <2>1 DEF RunInv, RowFollows
    <3>2. DOMAIN queue = {} /\ DOMAIN wave = {}
      BY <3>1 DEF RunInv, WavesInv, InSequence
    <3>3. \A p \in Selected(Context) : p \in UNION {r.records : r \in results}
      BY <3>1, <3>2 DEF RunInv, WavesInv, CasesKept
    <3> QED  BY <2>1, <3>1, <3>3 DEF CompletedOrNothing
  <2>2. CASE status # "COMPLETED"  BY <2>2 DEF RunInv, RowFollows, CompletedOrNothing
  <2> QED  BY <2>1, <2>2
<1> QED  BY <1>1, RunInvariant, PTL

(* A run fails as cancelled or as late only when it was                     *)
(* (run-service.ts:219,291).                                                *)
THEOREM RunTellsWhy == LegacySpec => []FailureCodeTellsWhy
<1>1. RunInv => FailureCodeTellsWhy  BY DEF RunInv, Causes, FailureCodeTellsWhy
<1> QED  BY <1>1, RunInvariant, PTL

(* The in-process run keeps the promises of RunLifecycle to whoever polls   *)
(* (run-service.ts:204-310).                                                *)
THEOREM RunImplementsLifecycle == LegacySpec => FollowsLifecycle
<1> DEFINE bar == [r \in {"run"} |-> status]
<1>1. LegacyInit => Lifecycle!Init
  <2>1. NoItems = [c \in {} |-> NoFailure]  BY DEF NoItems
  <2> QED  BY <2>1 DEF LegacyInit, Lifecycle!Init
<1>2. RunInv /\ [LegacyNext]_legacyVars => [Lifecycle!Next]_(Lifecycle!vars)
  <2> SUFFICES ASSUME RunInv, LegacyNext, status' # status PROVE Lifecycle!Next
    BY DEF legacyVars, Lifecycle!vars
  <2>0. RowFollows  BY DEF RunInv
  <2>1. ASSUME NEW to PROVE status' = to => bar' = [bar EXCEPT !["run"] = to]
    OBVIOUS
  <2>2. CASE StartRun
    <3>1. Lifecycle!Accept("run")
      BY <2>0, <2>1, <2>2 DEF StartRun, RowFollows, Lifecycle!Accept, Lifecycle!Move
    <3> QED  BY <3>1 DEF Lifecycle!Next
  <2>3. CASE MarkProcessing
    <3>1. Lifecycle!Plan("run")
      BY <2>0, <2>1, <2>3 DEF MarkProcessing, RowFollows, Lifecycle!Plan, Lifecycle!Move
    <3> QED  BY <3>1 DEF Lifecycle!Next
  <2>4. CASE SaveCompletedRun
    <3>1. Lifecycle!Complete("run")
      BY <2>0, <2>1, <2>4
      DEF SaveCompletedRun, RowFollows, Lifecycle!Complete, Lifecycle!Move, Lifecycle!CasesOf
    <3> QED  BY <3>1 DEF Lifecycle!Next
  <2>5. CASE MarkRunFailed
    <3>1. Lifecycle!Fail("run")
      BY <2>0, <2>1, <2>5 DEF MarkRunFailed, RowFollows, Lifecycle!Fail, Lifecycle!Move
    <3> QED  BY <3>1 DEF Lifecycle!Next
  <2> QED
    BY <2>2, <2>3, <2>4, <2>5
    DEF LegacyNext, Executor, Pipeline, PipelineThrows, SaveFails, Fails, MarkProcessingFails,
        MarkRunFailedFails, Cancel, Deadline, Abort
<1> QED
  BY <1>1, <1>2, RunInvariant, PTL
  DEF LegacySpec, FollowsLifecycle, Lifecycle!Spec

\* Waves, aborts and the store leave the rule stages alone.
LEMMA RunRunsStages == LegacySpec => Spec
<1>1. LegacyInit => Init  BY DEF LegacyInit, WavesInit
<1>2. [LegacyNext]_legacyVars => [Next]_vars
  <2> SUFFICES ASSUME [LegacyNext]_legacyVars PROVE [Next]_vars  OBVIOUS
  <2>1. CASE Pipeline  BY <2>1 DEF Pipeline, PipelineStep
  <2>2. CASE UNCHANGED legacyVars  BY <2>2 DEF legacyVars
  <2> QED
    BY <2>1, <2>2
    DEF LegacyNext, Executor, StartRun, MarkProcessing, PipelineThrows, SaveCompletedRun,
        MarkRunFailed, Cancel, Deadline, Abort, MarkProcessingFails, SaveFails, Fails,
        MarkRunFailedFails
<1> QED  BY <1>1, <1>2, PTL DEF LegacySpec, Spec

(* In process too the rules match exactly what nothing competes with,       *)
(* whenever the run is aborted and whatever the store refuses               *)
(* (run-reconciliation.ts:80-157, orchestrator.ts:136-178).                 *)
THEOREM RunMatchesUniquely == LegacySpec => ImplementsUniqueMatching
BY RunRunsStages, UniqueMatchingImplemented, PTL

-----------------------------------------------------------------------------
(* What the matches of a run are worth, and what the model leaves alone.    *)

\* The records that were settled before the first wave.
SettledFirst == used \cup Exceptions

\* No part of a case that waits or is being asked about has been settled.
CasesOpen ==
  /\ \A p \in DOMAIN queue : queue[p] \cap SettledFirst = {}
  /\ \A p \in DOMAIN wave :
       ({p} \cup wave[p].candidates \cup wave[p].cover) \cap SettledFirst = {}

ResultsApart ==
  /\ \A r \in results : Settles(r) => r.records \subseteq SettledFirst
  /\ \A r \in results : r.source = "AGENT_VERIFIED" => r.records \cap SettledFirst = {}

MatchesSound == \A r \in ResultsOf("RECONCILED") : SoundMatch(r.records)

MatchesInv ==
  /\ course # "rules" => SettledFirst \subseteq taken
  /\ CasesOpen /\ ResultsApart /\ StagesSound /\ MatchesSound

LEMMA SettledFixed ==
  ASSUME UNCHANGED vars
  PROVE  /\ SettledFirst' = SettledFirst /\ (StagesSound => StagesSound')
         /\ \A g : SoundMatch(g)' <=> SoundMatch(g)
<1>1. UNCHANGED <<bank, ledger, used, proposals, decisions>> /\ Autos' = Autos
  BY DEF vars, Autos
<1>2. \A g : SoundMatch(g)' <=> SoundMatch(g)  BY <1>1, SoundStays
<1>3. SettledFirst' = SettledFirst  BY <1>1, SelectionFixed DEF SettledFirst
<1> QED  BY <1>1, <1>2, <1>3 DEF StagesSound

\* A step that settles nothing, and asks about what was open.
LEMMA NothingSettled ==
  ASSUME MatchesInv, UNCHANGED <<vars, taken, results>>,
         course' = "rules" => course = "rules", course = "rules" => course' = "rules",
         \A p \in DOMAIN queue' : p \in DOMAIN queue /\ queue'[p] = queue[p],
         \A p \in DOMAIN wave' : p \in DOMAIN wave /\ wave'[p].candidates = wave[p].candidates
                                 /\ wave'[p].cover = wave[p].cover
  PROVE  MatchesInv'
<1>1. SettledFirst' = SettledFirst /\ StagesSound' /\ \A g : SoundMatch(g)' <=> SoundMatch(g)
  BY SettledFixed DEF MatchesInv
<1>2. CasesOpen'  BY <1>1 DEF MatchesInv, CasesOpen
<1>3. ResultsApart' /\ MatchesSound'
  BY <1>1 DEF MatchesInv, ResultsApart, MatchesSound, ResultsOf, Settles
<1> QED  BY <1>1, <1>2, <1>3 DEF MatchesInv

\* A stage runs before anything is settled, selected or asked about.
LEMMA StageSettlesNothing ==
  ASSUME RunInv, MatchesInv, Next, UNCHANGED waveVars
  PROVE  MatchesInv'
<1>1. /\ course = "rules" /\ DOMAIN queue = {} /\ DOMAIN wave = {} /\ results = {}
      /\ TypeOK /\ StagesSound
  BY StagesOver DEF RunInv, StagesPart, AllInv, WavesInv, InSequence, MatchesInv
<1>2. UNCHANGED <<course, queue, wave, results>>  BY DEF waveVars
<1>3. StagesSound'  BY <1>1, StagesSoundStep
<1>4. CasesOpen' /\ ResultsApart' /\ MatchesSound'
  BY <1>1, <1>2 DEF CasesOpen, ResultsApart, MatchesSound, ResultsOf
<1> QED  BY <1>1, <1>2, <1>3, <1>4 DEF MatchesInv

LEMMA SelectSettles ==
  ASSUME RunInv, MatchesInv, UNCHANGED vars, Select
  PROVE  MatchesInv'
<1> DEFINE matches == {ByRules(CaseOf(d), "RECONCILED", d.records) : d \in Autos}
           exceptions == {ByRules(p, "EXPLAINED_OUTSTANDING", {p}) : p \in Exceptions}
<1>1. /\ course = "rules" /\ taken' = used \cup Exceptions
      /\ queue' = [p \in Selected(Context) |-> {p} \cup Leaves(Context, p)]
      /\ results' = matches \cup exceptions /\ UNCHANGED wave
  BY DEF Select
<1>2. /\ AmbiguityNeverClears /\ DecisionsHaveCases /\ TypeOK /\ RecordsUsedOnce
      /\ used = UNION {d.records : d \in Autos} /\ DOMAIN wave = {} /\ StagesSound
  BY <1>1 DEF RunInv, StagesPart, AllInv, StagesInv, Books, WavesInv, InSequence, MatchesInv
<1>3. /\ SettledFirst' = SettledFirst /\ StagesSound'
      /\ \A g : SoundMatch(g)' <=> SoundMatch(g)
  BY <1>2, SettledFixed
<1>4. /\ \A r \in matches : \E d \in Autos : r.records = d.records
      /\ \A r \in exceptions : r.records \subseteq Exceptions /\ r.outcome # "RECONCILED"
      /\ \A r \in matches \cup exceptions : r.source = "DETERMINISTIC"
  BY DEF ByRules
<1> HIDE DEF matches, exceptions
<1>5. ASSUME NEW p \in Selected(Context)
      PROVE  ({p} \cup Leaves(Context, p)) \cap SettledFirst = {}
  <2>1. p \in DOMAIN Context /\ Leaves(Context, p) \subseteq Context[p]
    BY SelectedHaveShortlists
  <2>2. Context[p] \subseteq Unsettled  BY <2>1, ShortlistsUnsettled
  <2>3. p \notin Exceptions /\ p \in Primaries  BY <2>1 DEF Context
  <2>4. p \notin used
    <3>1. PICK e \in Asides : CaseOf(e) = p  BY <2>3 DEF Primaries
    <3>2. p \in e.records  BY <1>2, <3>1, CaseIsRecord DEF DecisionsHaveCases, Asides
    <3> QED  BY <1>2, <3>2 DEF AmbiguityNeverClears
  <2> QED  BY <2>1, <2>2, <2>3, <2>4 DEF Unsettled, SettledFirst
<1>6. CasesOpen'  BY <1>1, <1>2, <1>3, <1>5 DEF CasesOpen
<1>7. ResultsApart'
  <2>1. \A r \in results' : r.records \subseteq SettledFirst /\ r.source = "DETERMINISTIC"
    BY <1>1, <1>2, <1>4 DEF SettledFirst
  <2> QED  BY <1>3, <2>1 DEF ResultsApart
<1>8. MatchesSound'
  BY <1>1, <1>2, <1>3, <1>4 DEF MatchesSound, ResultsOf, StagesSound
<1>9. SettledFirst' \subseteq taken'  BY <1>1, <1>3 DEF SettledFirst
<1> QED  BY <1>3, <1>6, <1>7, <1>8, <1>9 DEF MatchesInv

LEMMA OpenWaveAsksOpen ==
  ASSUME RunInv, MatchesInv, UNCHANGED vars, OpenWave
  PROVE  MatchesInv'
<1> DEFINE shortlist == [p \in ThisWave \ taken |-> WaveShortlist(p)]
           prepared == Askable(shortlist)
           asked == Foremost(MaxCalls - calls, prepared)
           added == NoCandidate(DOMAIN shortlist \ prepared)
<1>1. /\ course = "waves" /\ course' = "waves" /\ taken' = taken
      /\ queue' = LaterWaves
      /\ wave' = [p \in prepared |-> Prepared(p, shortlist[p], p \in asked)]
      /\ results' = results \cup added
  BY DEF OpenWave, BetweenWaves
<1>2. /\ SettledFirst' = SettledFirst /\ StagesSound'
      /\ \A g : SoundMatch(g)' <=> SoundMatch(g)
  BY SettledFixed DEF MatchesInv
<1>3. SettledFirst \subseteq taken  BY <1>1 DEF MatchesInv
<1>4. ASSUME NEW p \in prepared
      PROVE  /\ p \in DOMAIN queue /\ p \notin taken /\ shortlist[p] \cap taken = {}
             /\ wave'[p].candidates = shortlist[p] /\ wave'[p].cover = queue[p]
  <2>1. p \in ThisWave \ taken /\ shortlist[p] = WaveShortlist(p)  BY DEF Askable
  <2>2. ThisWave \subseteq DOMAIN queue  BY DEF ThisWave, Foremost
  <2>3. WaveShortlist(p) \subseteq Records \ taken
    BY DEF WaveShortlist, PruneCandidates, GenerateCandidates, Qualifying
  <2> HIDE DEF shortlist, prepared, asked
  <2>4. wave'[p] = Prepared(p, shortlist[p], p \in asked)  BY <1>1
  <2>5. wave'[p].candidates = shortlist[p] /\ wave'[p].cover = queue[p]
    BY <2>4 DEF Prepared
  <2> QED  BY <2>1, <2>2, <2>3, <2>5
<1>5. \A r \in added : r.outcome = "UNRESOLVED" /\ r.source = "DETERMINISTIC"
  <2>1. \A r \in added : \E p \in DOMAIN shortlist \ prepared : r = ByRules(p, "UNRESOLVED", {p})
    BY DEF NoCandidate
  <2> HIDE DEF shortlist, prepared, added
  <2> QED  BY <2>1 DEF ByRules
<1>6. DOMAIN wave' = prepared  BY <1>1
<1> HIDE DEF shortlist, prepared, asked, added
<1>7. \A p \in DOMAIN queue' : p \in DOMAIN queue /\ queue'[p] = queue[p]
  BY <1>1 DEF LaterWaves, Without
<1>8. CasesOpen'
  <2>1. \A p \in DOMAIN queue : queue[p] \cap SettledFirst = {}  BY DEF MatchesInv, CasesOpen
  <2> QED  BY <1>2, <1>3, <1>4, <1>6, <1>7, <2>1 DEF CasesOpen
<1>9. ResultsApart'  BY <1>1, <1>2, <1>5 DEF MatchesInv, ResultsApart, Settles
<1>10. MatchesSound'  BY <1>1, <1>2, <1>5 DEF MatchesInv, MatchesSound, ResultsOf
<1> QED  BY <1>1, <1>2, <1>3, <1>8, <1>9, <1>10 DEF MatchesInv

LEMMA FinalizeSettlesOpen ==
  ASSUME RunInv, MatchesInv, UNCHANGED vars, NEW p \in DOMAIN wave, Finalize(p)
  PROVE  MatchesInv'
<1> DEFINE outcome == FinalOutcome(p, wave[p].candidates, taken, wave[p].answer)
           result == [case |-> p, source |-> "AGENT_VERIFIED", outcome |-> outcome,
                      records |-> IF outcome = "UNRESOLVED" THEN wave[p].cover
                                  ELSE wave[p].answer.records]
<1>1. /\ course = "waves" /\ UNCHANGED <<course, queue>>
      /\ results' = results \cup {result}
      /\ taken \subseteq taken'
      /\ wave' = Without(wave, {p})
  BY DEF Finalize, Turn, FinalizeWith
<1>2. /\ SettledFirst' = SettledFirst /\ StagesSound'
      /\ \A g : SoundMatch(g)' <=> SoundMatch(g)
  BY SettledFixed DEF MatchesInv
<1>3. /\ result.records \subseteq {p} \cup wave[p].candidates \cup wave[p].cover
      /\ result.outcome = "RECONCILED" => SoundMatch(result.records)
      /\ result.source = "AGENT_VERIFIED"
  BY VerifierRefuses
<1> HIDE DEF outcome, result
<1>4. \A x \in DOMAIN wave' : x \in DOMAIN wave /\ wave'[x] = wave[x]  BY <1>1 DEF Without
<1>5. CasesOpen'  BY <1>1, <1>2, <1>4 DEF MatchesInv, CasesOpen
<1>6. ResultsApart'
  <2>1. result.records \cap SettledFirst = {}  BY <1>3 DEF MatchesInv, CasesOpen
  <2> QED  BY <1>1, <1>2, <1>3, <2>1 DEF MatchesInv, ResultsApart, Settles
<1>7. MatchesSound'  BY <1>1, <1>2, <1>3 DEF MatchesInv, MatchesSound, ResultsOf
<1> QED  BY <1>1, <1>2, <1>5, <1>6, <1>7 DEF MatchesInv

LEMMA MatchesInvStep == RunInv /\ MatchesInv /\ [LegacyNext]_legacyVars => MatchesInv'
<1> SUFFICES ASSUME RunInv, MatchesInv, [LegacyNext]_legacyVars PROVE MatchesInv'  OBVIOUS
<1>1. ASSUME UNCHANGED <<vars, waveVars>> PROVE MatchesInv'
  BY <1>1, NothingSettled DEF waveVars
<1>2. ASSUME RunWaves, UNCHANGED vars PROVE MatchesInv'
  <2>1. ASSUME NEW to, course = "waves", course' = to, to # "rules",
               UNCHANGED <<taken, queue, wave, calls, results>>
        PROVE  MatchesInv'
    BY <1>2, <2>1, NothingSettled
  <2>2. ASSUME NEW p \in DOMAIN wave, Investigate(p) PROVE MatchesInv'
    <3>1. WavesInv /\ signal \in {NoSignal} \cup Reasons  BY DEF RunInv, RowFollows
    <3>2. PICK to \in Phases, answer \in Proposal :
            course = "waves" /\ Becomes(p, to, answer)
      BY <2>2, <3>1, InvestigateBecomes
    <3>3. /\ wave' = [wave EXCEPT ![p].phase = to, ![p].answer = answer]
          /\ UNCHANGED <<course, taken, queue, results>>
      BY <3>2 DEF Becomes
    <3>4. \A x \in DOMAIN wave' :
            /\ x \in DOMAIN wave /\ wave'[x].candidates = wave[x].candidates
            /\ wave'[x].cover = wave[x].cover
      <4>1. wave[p] \in Item  BY <3>1 DEF WavesInv, WavesTyped
      <4>2. DOMAIN wave' = DOMAIN wave /\ \A x \in DOMAIN wave : x # p => wave'[x] = wave[x]
        BY <3>3
      <4>3. wave'[p] = [wave[p] EXCEPT !.phase = to, !.answer = answer]  BY <3>3
      <4>4. wave'[p].candidates = wave[p].candidates /\ wave'[p].cover = wave[p].cover
        BY <4>1, <4>3 DEF Item
      <4> QED  BY <4>2, <4>4
    <3> QED  BY <1>2, <3>3, <3>4, NothingSettled
  <2>3. CASE Select  BY <1>2, <2>3, SelectSettles
  <2>4. CASE OpenWave  BY <1>2, <2>4, OpenWaveAsksOpen
  <2>5. CASE StopBetweenWaves
    <3>1. signal # "rules"  BY DEF RunInv, RowFollows, NoSignal, Reasons
    <3> QED  BY <2>1, <2>5, <3>1 DEF StopBetweenWaves, BetweenWaves
  <2>6. CASE Return  BY <2>1, <2>6 DEF Return, BetweenWaves
  <2>7. ASSUME NEW p \in DOMAIN wave, Throw(p) PROVE MatchesInv'
    <3>1. wave[p].phase # "rules"
      BY DEF RunInv, WavesInv, WavesTyped, Item, InFlight, Reasons, Errors
    <3> QED  BY <2>1, <2>7, <3>1 DEF Throw, Turn
  <2>8. ASSUME NEW p \in DOMAIN wave, Finalize(p) PROVE MatchesInv'
    BY <1>2, <2>8, FinalizeSettlesOpen
  <2> QED  BY <1>2, <2>2, <2>3, <2>4, <2>5, <2>6, <2>7, <2>8 DEF RunWaves
<1>3. CASE Pipeline
  BY <1>2, <1>3, StageSettlesNothing DEF Pipeline, PipelineStep
<1>4. CASE UNCHANGED legacyVars  BY <1>1, <1>4 DEF legacyVars
<1> QED
  BY <1>1, <1>3, <1>4
  DEF LegacyNext, Executor, StartRun, MarkProcessing, PipelineThrows, SaveCompletedRun,
      MarkRunFailed, Cancel, Deadline, Abort, MarkProcessingFails, SaveFails, Fails,
      MarkRunFailedFails

LEMMA MatchesInvariant == LegacySpec => []MatchesInv
<1>1. LegacyInit => MatchesInv
  <2> SUFFICES ASSUME LegacyInit PROVE MatchesInv  OBVIOUS
  <2>1. /\ course = "rules" /\ results = {} /\ proposals = {} /\ Autos = {}
        /\ DOMAIN queue = {} /\ DOMAIN wave = {}
    BY DEF LegacyInit, WavesInit, Init, Autos, NoItems
  <2> QED  BY <2>1 DEF MatchesInv, CasesOpen, ResultsApart, StagesSound, MatchesSound, ResultsOf
<1> QED  BY <1>1, MatchesInvStep, RunInvariant, PTL DEF LegacySpec

(* In process too every match, of a rule or of the model, relates one       *)
(* record to at most three of the other file, is compatible and balances,   *)
(* whatever the model proposed when and which records were used meanwhile   *)
(* (Docs/system-design.md:941-947, run-reconciliation.ts:261-268).          *)
THEOREM RunMatchesSound == LegacySpec => []MatchesSound
<1>1. MatchesInv => MatchesSound  BY DEF MatchesInv
<1> QED  BY <1>1, MatchesInvariant, PTL

\* A result of the model has no record in common with what the rules settled.
ModelLeavesSettledAlone ==
  \A r, s \in results :
    r.source = "AGENT_VERIFIED" /\ Settles(s) => r.records \cap s.records = {}

(* No answer of the model, no repair and no abstention shows a record that  *)
(* the rules matched or explained: the shortlists of every wave are made    *)
(* from the records free by then, and an abstention accounts for its        *)
(* component only (run-reconciliation.ts:190-196,858-898).                  *)
THEOREM RunLeavesSettledAlone == LegacySpec => []ModelLeavesSettledAlone
<1>1. MatchesInv => ModelLeavesSettledAlone
  BY DEF MatchesInv, ResultsApart, ModelLeavesSettledAlone
<1> QED  BY <1>1, MatchesInvariant, PTL
=============================================================================
