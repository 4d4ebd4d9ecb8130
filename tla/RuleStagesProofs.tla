-------------------------- MODULE RuleStagesProofs --------------------------
(* Theorems about RuleStages, for every pair of files.                      *)
EXTENDS RuleStages, FiniteSetTheorems, TLAPS

(* A record against two or three of the other file has a supported shape,   *)
(* and so has a pair (one-to-many-grouped-rule.ts:28-35).                   *)
LEMMA GroupShapes ==
  /\ \A b \in Banks, l \in Ledgers : {b, l} \in Shapes
  /\ \A b \in Banks : \A ls \in Combinations(Ledgers) : {b} \cup ls \in Shapes
  /\ \A l \in Ledgers : \A bs \in Combinations(Banks) : {l} \cup bs \in Shapes
<1>0. Banks \cap Ledgers = {}  BY RowsAssumption DEF RowsAssumption
<1>1. \A x : Cardinality({x}) = 1  BY FS_Singleton
<1>2. ASSUME NEW b \in Banks, NEW l \in Ledgers PROVE {b, l} \in Shapes
  <2> DEFINE g == {b, l}
  <2>0. l \notin Banks /\ b \notin Ledgers  BY <1>0
  <2>1. g \cap Banks = {b} /\ g \cap Ledgers = {l} /\ g \in SUBSET Records
    BY <2>0, Zenon DEF Records
  <2>2. Cardinality(g \cap Banks) = 1 /\ Cardinality(g \cap Ledgers) \in 1..3
    BY <2>1, <1>1
  <2> HIDE DEF g
  <2>3. g \in Shapes  BY <2>1, <2>2 DEF Shapes
  <2> QED  BY <2>3 DEF g
<1>3. ASSUME NEW b \in Banks, NEW ls \in Combinations(Ledgers) PROVE {b} \cup ls \in Shapes
  <2>1. ls \subseteq Ledgers /\ Cardinality(ls) \in 1..3  BY DEF Combinations, kSubset
  <2>2. ({b} \cup ls) \cap Banks = {b} /\ ({b} \cup ls) \cap Ledgers = ls
        /\ {b} \cup ls \in SUBSET Records
    BY <1>0, <2>1 DEF Records
  <2>3. Cardinality(({b} \cup ls) \cap Banks) = 1
        /\ Cardinality(({b} \cup ls) \cap Ledgers) \in 1..3
    BY <2>1, <2>2, <1>1
  <2> QED  BY <2>2, <2>3 DEF Shapes
<1>4. ASSUME NEW l \in Ledgers, NEW bs \in Combinations(Banks) PROVE {l} \cup bs \in Shapes
  <2>1. bs \subseteq Banks /\ Cardinality(bs) \in 1..3  BY DEF Combinations, kSubset
  <2>2. ({l} \cup bs) \cap Ledgers = {l} /\ ({l} \cup bs) \cap Banks = bs
        /\ {l} \cup bs \in SUBSET Records
    BY <1>0, <2>1 DEF Records
  <2>3. Cardinality(({l} \cup bs) \cap Ledgers) = 1
        /\ Cardinality(({l} \cup bs) \cap Banks) \in 1..3
    BY <2>1, <2>2, <1>1
  <2> QED  BY <2>2, <2>3 DEF Shapes
<1> QED  BY <1>2, <1>3, <1>4

(* Every option of an anchor is a supported group of free records that      *)
(* holds the anchor (matching/*.ts).                                        *)
LEMMA OptionsHoldAnchor ==
  ASSUME NEW rule \in 1..LastRule, NEW bk, NEW lg, NEW free \in SUBSET Records,
         NEW a \in Anchors(rule) \cap free, NEW g \in Options(rule, bk, lg, a, free)
  PROVE  a \in g /\ g \subseteq free /\ g \in Shapes
<1>1. rule = 1 \/ rule = 2 \/ rule = 3 \/ rule = 4 \/ rule = 5  BY DEF LastRule
<1>2. CASE rule \in {1, 2, 3}
  <2>1. a \in Banks  BY <1>2 DEF Anchors, LastRule
  <2>2. PICK l \in Ledgers \cap free : g = {a, l}
    BY <1>2 DEF Options, Pairs
  <2> QED  BY <2>1, <2>2, GroupShapes
<1>3. CASE rule = 4
  <2>1. a \in Banks  BY <1>3 DEF Anchors, LastRule
  <2>2. PICK ls \in Combinations({l \in Ledgers \cap free : SameBatch(bk[a], lg[l])}) :
          g = {a} \cup ls
    BY <1>3 DEF Options, OneToMany
  <2>3. ls \subseteq Ledgers \cap free /\ ls \in Combinations(Ledgers)
    BY <2>2 DEF Combinations, kSubset
  <2> QED  BY <2>1, <2>2, <2>3, GroupShapes
<1>4. CASE rule = 5
  <2>1. a \in Ledgers  BY <1>4 DEF Anchors, LastRule
  <2>2. PICK bs \in Combinations({b \in Banks \cap free : SameBatch(bk[b], lg[a])}) :
          g = {a} \cup bs
    BY <1>4 DEF Options, ManyToOne
  <2>3. bs \subseteq Banks \cap free /\ bs \in Combinations(Banks)
    BY <2>2 DEF Combinations, kSubset
  <2> QED  BY <2>1, <2>2, <2>3, GroupShapes
<1> QED  BY <1>1, <1>2, <1>3, <1>4

\* The same, of the current stage.
LEMMA OptionsNow ==
  ASSUME stage \in 1..LastRule, NEW a \in OpenAnchors, NEW g \in OptionsOf(a)
  PROVE  a \in g /\ g \subseteq Free /\ g \in Shapes
<1>1. Free \in SUBSET Records /\ a \in Anchors(stage) \cap Free  BY DEF Free, OpenAnchors
<1>2. g \in Options(stage, bank, ledger, a, Free)  BY DEF OptionsOf
<1> QED  BY <1>1, <1>2, OptionsHoldAnchor

LEMMA ProposedNow ==
  ASSUME stage \in 1..LastRule
  PROVE  /\ Proposed \subseteq Shapes
         /\ UNION Proposed \subseteq Free
         /\ \A a \in Ambiguous : Contested(a) \subseteq Free
<1>1. ASSUME NEW p \in Proposed PROVE p \in Shapes /\ p \subseteq Free
  <2>1. PICK a \in OpenAnchors : p \in OptionsOf(a)  BY DEF Proposed
  <2> QED  BY <2>1, OptionsNow
<1>2. ASSUME NEW a \in Ambiguous PROVE Contested(a) \subseteq Free
  <2>1. a \in OpenAnchors /\ a \in Free  BY DEF Ambiguous, OpenAnchors
  <2>2. \A g \in OptionsOf(a) : g \subseteq Free  BY <2>1, OptionsNow
  <2> QED  BY <2>1, <2>2 DEF Contested
<1> QED  BY <1>1, <1>2

-----------------------------------------------------------------------------
\* What the stages record are decisions.
LEMMA DecisionTypes ==
  /\ \A i \in 1..LastRule, gs \in SUBSET Shapes : Reconciled(i, gs) \subseteq Decision
  /\ \A i \in 1..(LastRule + 1), gs \in SUBSET SUBSET Records : Needs(i, gs) \subseteq Decision
BY DEF Reconciled, Needs, Decision

\* The type is preserved by every step.
LEMMA StageKeepsType == TypeOK /\ [Next]_vars => TypeOK'
<1> USE DEF Done, LastRule
<1> SUFFICES ASSUME TypeOK, [Next]_vars PROVE TypeOK'  OBVIOUS
<1>1. CASE Evaluate
  <2>1. stage \in 1..LastRule  BY <1>1 DEF Evaluate
  <2> DEFINE asides == {Contested(a) : a \in Ambiguous} \cup Conflicting(Proposed)
  <2>2. \A g \in asides : g \subseteq Records
    BY <2>1, ProposedNow DEF Conflicting, Free
  <2>2a. asides \in SUBSET SUBSET Records  BY <2>2
  <2>3. Needs(stage, asides) \subseteq Decision
    <3> HIDE DEF asides
    <3> QED  BY <2>1, <2>2a, DecisionTypes
  <2>4. proposals' \subseteq Shapes /\ pending' \subseteq proposals'
    BY <1>1, <2>1, ProposedNow DEF Evaluate
  <2>5. stageBlocked' \subseteq Records
    BY <1>1, <2>2 DEF Evaluate
  <2>6. decisions' \subseteq Decision
    BY <1>1, <2>3 DEF Evaluate, TypeOK
  <2> QED  BY <1>1, <2>4, <2>5, <2>6 DEF Evaluate, TypeOK
<1>2. ASSUME NEW p \in pending, Weigh(p) PROVE TypeOK'
  <2>1. p \subseteq Records  BY DEF TypeOK, Shapes
  <2>2. CASE p \cap stageBlocked # {}
    <3>1. Needs(stage, {p}) \subseteq Decision  BY <1>2, <2>1, DecisionTypes DEF Weigh, TypeOK
    <3> QED  BY <1>2, <2>1, <2>2, <3>1 DEF Weigh, TypeOK
  <2>3. CASE p \cap stageBlocked = {}
    BY <1>2, <2>3 DEF Weigh, TypeOK
  <2> QED  BY <2>2, <2>3
<1>3. CASE CommitStage
  <2> DEFINE committed == {p \in proposals : p \cap stageBlocked = {}}
  <2>1. stage \in 1..LastRule  BY <1>3 DEF CommitStage, TypeOK
  <2>2. \A p \in committed : p \in Shapes /\ p \subseteq Records  BY DEF TypeOK, Shapes
  <2>3. Reconciled(stage, committed) \subseteq Decision  BY <2>1, <2>2, DecisionTypes
  <2>4. decisions' \subseteq Decision
    BY <1>3, <2>3 DEF CommitStage, TypeOK
  <2>5. used' \subseteq Records  BY <1>3, <2>2 DEF CommitStage, TypeOK
  <2> QED  BY <1>3, <2>1, <2>4, <2>5 DEF CommitStage, TypeOK
<1>4. CASE Leftovers
  <2>0. stage \in 1..(LastRule + 1) /\ \A r \in Free : {r} \in SUBSET Records
    BY <1>4 DEF Leftovers, Free
  <2>1. Needs(stage, {{r} : r \in Free}) \subseteq Decision
    BY <2>0, DecisionTypes
  <2>2. decisions' \subseteq Decision
    BY <1>4, <2>1 DEF Leftovers, TypeOK
  <2>3. phase # "weigh" /\ stage' \in 1..Done  BY <1>4 DEF Leftovers, TypeOK
  <2> QED  BY <1>4, <2>2, <2>3 DEF Leftovers, TypeOK
<1>5. CASE UNCHANGED vars  BY <1>5 DEF vars, TypeOK
<1> QED  BY <1>1, <1>2, <1>3, <1>4, <1>5 DEF Next

(* Type correctness (orchestrator.ts:45-191).                               *)
THEOREM StagesTypeCorrect == Spec => []TypeOK
<1>1. Init => TypeOK
  BY DEF Init, TypeOK, Done, LastRule
<1> QED  BY <1>1, StageKeepsType, PTL DEF Spec

-----------------------------------------------------------------------------
(* The inductive invariant.                                                 *)

\* The abstract specification sees the same options.
LEMMA SameOptions ==
  /\ Unique!Free = Free
  /\ Unique!AllOptions = UNION {OptionsOf(a) : a \in OpenAnchors}
<1>1. Unique!Free = Free  BY DEF Unique!Free, Free
<1>2. Unique!AllOptions = UNION {Options(stage, bank, ledger, a, Free) : a \in OpenAnchors}
  BY <1>1 DEF Unique!AllOptions, OpenAnchors
<1> QED  BY <1>1, <1>2 DEF OptionsOf

\* They depend on the stage, and what was used and blocked before it.
LEMMA SameStageSameOptions ==
  ASSUME UNCHANGED <<bank, ledger, stage, used, blocked>>
  PROVE  /\ Free' = Free
         /\ Unique!AllOptions' = Unique!AllOptions
         /\ Unique!Uncontested' = Unique!Uncontested
<1>1. Free' = Free /\ Unique!Free' = Unique!Free  BY DEF Free, Unique!Free
<1>2. Unique!AllOptions' = Unique!AllOptions  BY <1>1 DEF Unique!AllOptions
<1> QED  BY <1>1, <1>2 DEF Unique!Uncontested

(* What the evaluation of a stage leaves: the uncontested groups among the  *)
(* proposals and clear of what is set aside, everything else set aside or   *)
(* touching it (orchestrator.ts:136-151).                                   *)
Sorted(props, aside) ==
  /\ Unique!Uncontested \subseteq props /\ props \subseteq Unique!AllOptions
  /\ \A g \in Unique!Uncontested : g \cap aside = {}
  /\ \A p \in props \ Unique!Uncontested : p \cap aside # {}
  /\ UNION (Unique!AllOptions \ props) \subseteq aside
  /\ aside \subseteq UNION (Unique!AllOptions \ Unique!Uncontested)

LEMMA EvaluationSorts ==
  ASSUME stage \in 1..LastRule
  PROVE  Sorted(Proposed \ Conflicting(Proposed),
                UNION ({Contested(a) : a \in Ambiguous} \cup Conflicting(Proposed)))
<1> DEFINE all == Unique!AllOptions
           clear == Unique!Uncontested
           aside == UNION ({Contested(a) : a \in Ambiguous} \cup Conflicting(Proposed))
           props == Proposed \ Conflicting(Proposed)
<1>1. \A g : g \in all <=> \E a \in OpenAnchors : g \in OptionsOf(a)  BY SameOptions
<1>2. \A g : g \in clear <=> g \in all /\ \A h \in all : h = g \/ h \cap g = {}
  BY DEF Unique!Uncontested
<1>3. \A g : g \in Proposed <=> \E a \in OpenAnchors \ Ambiguous : g \in OptionsOf(a)
  BY DEF Proposed
<1>4. \A a : a \in Ambiguous <=> a \in OpenAnchors /\ \E g, h \in OptionsOf(a) : g # h
  BY DEF Ambiguous
<1>5. \A p : p \in Conflicting(Proposed) <=>
               p \in Proposed /\ \E q \in Proposed : q # p /\ q \cap p # {}
  BY DEF Conflicting
<1>6. \A a \in OpenAnchors : \A g \in OptionsOf(a) : a \in g  BY OptionsNow
<1>7. \A a \in Ambiguous : \A g \in OptionsOf(a) : g \subseteq aside /\ g \notin clear
  <2> SUFFICES ASSUME NEW a \in Ambiguous, NEW g \in OptionsOf(a)
               PROVE  g \subseteq aside /\ g \notin clear
    OBVIOUS
  <2>0. Contested(a) \subseteq aside  OBVIOUS
  <2>1. g \subseteq aside  BY <2>0 DEF Contested
  <2>2. PICK h \in OptionsOf(a) : h # g  BY <1>4
  <2>3. a \in g \cap h /\ h \in all  BY <1>1, <1>4, <1>6
  <2> QED  BY <1>2, <2>1, <2>2, <2>3
<1>8. \A p \in Conflicting(Proposed) : p \subseteq aside /\ p \in all \ clear
  <2> SUFFICES ASSUME NEW p \in Conflicting(Proposed)
               PROVE  p \subseteq aside /\ p \in all \ clear
    OBVIOUS
  <2>1. p \subseteq aside  OBVIOUS
  <2>2. PICK q \in Proposed : q # p /\ q \cap p # {}  BY <1>5
  <2>3. p \in all /\ q \in all  BY <1>1, <1>3, <1>5
  <2> QED  BY <1>2, <2>1, <2>2, <2>3
<1>9. props \subseteq all  BY <1>1, <1>3
<1>10. \A g \in all \ props : g \subseteq aside /\ g \notin clear
  BY <1>1, <1>3, <1>7, <1>8
<1>11. clear \subseteq props  BY <1>2, <1>10
<1>12. \A p \in props \ clear : p \cap aside # {}
  <2> SUFFICES ASSUME NEW p \in props \ clear PROVE p \cap aside # {}  OBVIOUS
  <2>1. PICK h \in all : h # p /\ h \cap p # {}  BY <1>2, <1>9
  <2>2. h \notin props  BY <1>5, <2>1
  <2> QED  BY <1>10, <2>1, <2>2
<1>13. aside \subseteq UNION (all \ clear)
  <2> SUFFICES ASSUME NEW r \in aside PROVE \E g \in all \ clear : r \in g  OBVIOUS
  <2>1. CASE \E p \in Conflicting(Proposed) : r \in p  BY <1>8, <2>1
  <2>2. ASSUME NEW a \in Ambiguous, r \in Contested(a) PROVE \E g \in all \ clear : r \in g
    <3>1. PICK g \in OptionsOf(a) : r \in g  BY <1>4, <1>6, <2>2 DEF Contested
    <3> QED  BY <1>1, <1>4, <1>7, <3>1
  <2> QED  BY <2>1, <2>2
<1>14. \A g \in clear : g \cap aside = {}
  <2> SUFFICES ASSUME NEW g \in clear, NEW r \in g, r \in aside PROVE FALSE  OBVIOUS
  <2>1. PICK h \in all \ clear : r \in h  BY <1>13
  <2> QED  BY <1>2, <2>1
<1> QED  BY <1>9, <1>10, <1>11, <1>12, <1>13, <1>14 DEF Sorted

Matched == UNION {d.records : d \in Autos}
SetAside == UNION {d.records : d \in Asides}

\* Recording groups for reasoning leaves the matches alone, and the reverse.
LEMMA RecordNeeds ==
  ASSUME NEW i, NEW gs, decisions' = decisions \cup Needs(i, gs)
  PROVE  Autos' = Autos /\ Matched' = Matched /\ SetAside' = SetAside \cup UNION gs
<1>1. /\ \A d \in Needs(i, gs) : d.status = "NEEDS_REASONING"
      /\ \A r : (\E d \in Needs(i, gs) : r \in d.records) <=> r \in UNION gs
  <2>1. \A d \in Needs(i, gs) : d.status = "NEEDS_REASONING" /\ d.records \in gs  BY DEF Needs
  <2>2. ASSUME NEW g \in gs PROVE \E d \in Needs(i, gs) : d.records = g
    <3> DEFINE d == [status |-> "NEEDS_REASONING", rule |-> i, records |-> g]
    <3>1. d \in Needs(i, gs)  BY DEF Needs
    <3>2. d.records = g  OBVIOUS
    <3> QED  BY <3>1, <3>2
  <2> QED  BY <2>1, <2>2
<1>2. Autos' = Autos  BY <1>1 DEF Autos
<1>3. Asides' = Asides \cup Needs(i, gs)  BY <1>1 DEF Asides
<1>4. Matched' = Matched  BY <1>2 DEF Matched
<1>5. ASSUME NEW r PROVE r \in SetAside' <=> r \in SetAside \cup UNION gs
  <2>1. r \in SetAside' <=> \E d \in Asides' : r \in d.records  BY DEF SetAside
  <2>2. r \in SetAside <=> \E d \in Asides : r \in d.records  BY DEF SetAside
  <2> QED  BY <1>1, <1>3, <2>1, <2>2
<1> QED  BY <1>2, <1>4, <1>5

LEMMA RecordReconciled ==
  ASSUME NEW i, NEW gs, decisions' = decisions \cup Reconciled(i, gs)
  PROVE  /\ Autos' = Autos \cup Reconciled(i, gs)
         /\ Asides' = Asides /\ SetAside' = SetAside
         /\ Matched' = Matched \cup UNION gs
<1>1. /\ \A d \in Reconciled(i, gs) : d.status = "AUTO_RECONCILED"
      /\ \A r : (\E d \in Reconciled(i, gs) : r \in d.records) <=> r \in UNION gs
  <2>1. \A d \in Reconciled(i, gs) : d.status = "AUTO_RECONCILED" /\ d.records \in gs  BY DEF Reconciled
  <2>2. ASSUME NEW g \in gs PROVE \E d \in Reconciled(i, gs) : d.records = g
    <3> DEFINE d == [status |-> "AUTO_RECONCILED", rule |-> i, records |-> g]
    <3>1. d \in Reconciled(i, gs)  BY DEF Reconciled
    <3>2. d.records = g  OBVIOUS
    <3> QED  BY <3>1, <3>2
  <2> QED  BY <2>1, <2>2
<1>2. Asides' = Asides  BY <1>1 DEF Asides
<1>3. Autos' = Autos \cup Reconciled(i, gs)  BY <1>1 DEF Autos
<1>4. SetAside' = SetAside  BY <1>2 DEF SetAside
<1>5. ASSUME NEW r PROVE r \in Matched' <=> r \in Matched \cup UNION gs
  <2>1. r \in Matched' <=> \E d \in Autos' : r \in d.records  BY DEF Matched
  <2>2. r \in Matched <=> \E d \in Autos : r \in d.records  BY DEF Matched
  <2> QED  BY <1>1, <1>3, <2>1, <2>2
<1> QED  BY <1>2, <1>3, <1>4, <1>5

\* The books, in one line each.
LEMMA BooksBalance ==
  Books <=> /\ used = Matched
            /\ stage # Done => blocked \cup stageBlocked = SetAside
            /\ used \cap (blocked \cup stageBlocked) = {}
BY DEF Books, Matched, SetAside

LEMMA BooksBalanceNext ==
  Books' <=> /\ used' = Matched'
             /\ stage' # Done => blocked' \cup stageBlocked' = SetAside'
             /\ used' \cap (blocked' \cup stageBlocked') = {}
BY DEF Books, Matched, SetAside

LEMMA EvaluateStep ==
  ASSUME TypeOK, StagesInv, Evaluate
  PROVE  StagesInv' /\ Autos' = Autos
<1> DEFINE asides == {Contested(a) : a \in Ambiguous} \cup Conflicting(Proposed)
<1>1. stage \in 1..LastRule /\ phase = "evaluate" /\ stageBlocked = {}
  BY DEF Evaluate, StagesInv, BetweenStages
<1>2. /\ stageBlocked' = UNION asides /\ proposals' = Proposed \ Conflicting(Proposed)
      /\ pending' = proposals' /\ phase' = "weigh"
      /\ decisions' = decisions \cup Needs(stage, asides)
      /\ UNCHANGED <<bank, ledger, stage, used, blocked>>
  BY DEF Evaluate
<1>3. \A g \in asides : g \subseteq Free  BY <1>1, ProposedNow DEF Conflicting
<1> HIDE DEF asides
<1>4. Autos' = Autos /\ Matched' = Matched /\ SetAside' = SetAside \cup stageBlocked'
  BY <1>2, RecordNeeds
<1>5. stageBlocked' \subseteq Free /\ Free' = Free  BY <1>2, <1>3, SameStageSameOptions
<1>6. Books'
  <2>1. Books  BY DEF StagesInv
  <2>2. stage # Done /\ stage' # Done  BY <1>1, <1>2 DEF Done, LastRule
  <2>3. used' \cap stageBlocked' = {}  BY <1>2, <1>5 DEF Free
  <2> QED  BY <1>1, <1>2, <1>4, <2>1, <2>2, <2>3, BooksBalance, BooksBalanceNext
<1>7. ProposalsApart'
  <2>1. UNION proposals' \subseteq Free'  BY <1>1, <1>2, <1>5, ProposedNow
  <2>2. \A p, q \in proposals' : p = q \/ p \cap q = {}  BY <1>2 DEF Conflicting
  <2> QED  BY <2>1, <2>2 DEF ProposalsApart
<1>8. BetweenStages'  BY <1>2 DEF BetweenStages
<1>9. WeighedInOrder'
  <2>1. /\ Unique!AllOptions' = Unique!AllOptions /\ Unique!Uncontested' = Unique!Uncontested
    BY <1>2, SameStageSameOptions
  <2>2. Sorted(proposals', stageBlocked')
    BY <1>1, <1>2, EvaluationSorts DEF asides
  <2> QED  BY <1>2, <2>1, <2>2 DEF WeighedInOrder, Sorted
<1> QED  BY <1>4, <1>6, <1>7, <1>8, <1>9 DEF StagesInv

LEMMA WeighStep ==
  ASSUME TypeOK, StagesInv, NEW p \in pending, Weigh(p)
  PROVE  StagesInv' /\ Autos' = Autos
<1>1. /\ phase = "weigh" /\ stage \in 1..LastRule /\ p \in proposals
      /\ pending' = pending \ {p}
      /\ UNCHANGED <<bank, ledger, stage, phase, used, blocked, proposals>>
  BY DEF Weigh, TypeOK
<1>2. /\ Free' = Free /\ Unique!AllOptions' = Unique!AllOptions
      /\ Unique!Uncontested' = Unique!Uncontested
  BY <1>1, SameStageSameOptions
<1>3. ProposalsApart' /\ BetweenStages'
  BY <1>1, <1>2 DEF ProposalsApart, BetweenStages, StagesInv
<1>4. CASE p \cap stageBlocked = {}
  <2>1. UNCHANGED <<stageBlocked, decisions>>  BY <1>4 DEF Weigh
  <2>2. Books' /\ Autos' = Autos
    BY <1>1, <2>1 DEF StagesInv, Books, Autos, Asides
  <2>3. WeighedInOrder'
    BY <1>1, <1>2, <1>4, <2>1 DEF StagesInv, WeighedInOrder
  <2> QED  BY <1>3, <2>2, <2>3 DEF StagesInv
<1>5. CASE p \cap stageBlocked # {}
  <2>1. stageBlocked' = stageBlocked \cup p /\ decisions' = decisions \cup Needs(stage, {p})
    BY <1>5 DEF Weigh
  <2> DEFINE ps == {p}
  <2>2. decisions' = decisions \cup Needs(stage, ps) /\ UNION ps = p
    BY <2>1
  <2> HIDE DEF ps
  <2>3. Autos' = Autos /\ Matched' = Matched /\ SetAside' = SetAside \cup p
    BY <2>2, RecordNeeds
  <2>4. p \subseteq Free  BY <1>1 DEF StagesInv, ProposalsApart
  <2>5. Books'
    <3>1. stage # Done /\ Books  BY <1>1 DEF Done, LastRule, StagesInv
    <3> QED  BY <1>1, <2>1, <2>2, <2>3, <2>4, <3>1, BooksBalance, BooksBalanceNext DEF Free
  <2>6. WeighedInOrder'
    <3> DEFINE clear == Unique!Uncontested
               all == Unique!AllOptions
    <3>1. /\ clear \subseteq proposals /\ proposals \subseteq all
          /\ \A g \in clear : g \cap stageBlocked = {}
          /\ \A q \in proposals \ clear :
               q \cap stageBlocked # {} /\ (q \in pending \/ q \subseteq stageBlocked)
          /\ UNION (all \ proposals) \subseteq stageBlocked
          /\ stageBlocked \subseteq UNION (all \ clear)
      BY <1>1 DEF StagesInv, WeighedInOrder
    <3>2. p \in all \ clear  BY <1>1, <1>5, <3>1
    <3>3. \A q \in proposals : q = p \/ q \cap p = {}
      BY <1>1 DEF StagesInv, ProposalsApart
    <3> HIDE DEF clear, all
    <3>4. \A g \in clear : g \cap stageBlocked' = {}  BY <2>1, <3>1, <3>2, <3>3
    <3>5. \A q \in proposals \ clear :
            q \cap stageBlocked' # {} /\ (q \in pending' \/ q \subseteq stageBlocked')
      BY <1>1, <2>1, <3>1
    <3>6. UNION (all \ proposals) \subseteq stageBlocked'
          /\ stageBlocked' \subseteq UNION (all \ clear)
      BY <2>1, <3>1, <3>2
    <3> QED  BY <1>1, <1>2, <3>1, <3>4, <3>5, <3>6 DEF WeighedInOrder, clear, all
  <2> QED  BY <1>3, <2>3, <2>5, <2>6 DEF StagesInv
<1> QED  BY <1>4, <1>5

LEMMA CommitStep ==
  ASSUME TypeOK, StagesInv, CommitStage
  PROVE  /\ StagesInv' /\ Asides' = Asides
         /\ \E gs \in SUBSET proposals :
              /\ Autos' = Autos \cup Reconciled(stage, gs)
              /\ used' = used \cup UNION gs
         /\ used' = used \cup UNION Unique!Uncontested
         /\ blocked' = blocked \cup UNION (Unique!AllOptions \ Unique!Uncontested)
<1> DEFINE committed == {p \in proposals : p \cap stageBlocked = {}}
           clear == Unique!Uncontested
           all == Unique!AllOptions
<1>1. /\ phase = "weigh" /\ stage \in 1..LastRule /\ pending = {}
      /\ used' = used \cup UNION committed
      /\ decisions' = decisions \cup Reconciled(stage, committed)
      /\ blocked' = blocked \cup stageBlocked
      /\ stage' = stage + 1 /\ phase' = "evaluate"
      /\ stageBlocked' = {} /\ proposals' = {}
  BY DEF CommitStage, TypeOK
<1>0. /\ committed \in SUBSET proposals
      /\ \A p : p \in committed <=> p \in proposals /\ p \cap stageBlocked = {}
  OBVIOUS
<1> HIDE DEF committed
<1>d. decisions' = decisions \cup Reconciled(stage, committed)  BY <1>1
<1>2. /\ Autos' = Autos \cup Reconciled(stage, committed)
      /\ Asides' = Asides /\ SetAside' = SetAside
      /\ Matched' = Matched \cup UNION committed
  BY ONLY <1>d, RecordReconciled
<1>3. committed = clear /\ stageBlocked = UNION (all \ clear)
  <2>1. /\ clear \subseteq proposals /\ proposals \subseteq all
        /\ \A g \in clear : g \cap stageBlocked = {}
        /\ \A q \in proposals \ clear : q \cap stageBlocked # {} /\ q \subseteq stageBlocked
        /\ UNION (all \ proposals) \subseteq stageBlocked
        /\ stageBlocked \subseteq UNION (all \ clear)
    BY <1>1 DEF StagesInv, WeighedInOrder
  <2> HIDE DEF clear, all
  <2>2. committed = clear  BY <1>0, <2>1
  <2>3. UNION (all \ clear) \subseteq stageBlocked  BY <2>1
  <2> QED  BY <2>1, <2>2, <2>3
<1>4. Books'
  <2>1. Books /\ stage # Done /\ stage' # Done  BY <1>1 DEF Done, LastRule, StagesInv
  <2>2. UNION committed \subseteq Free  BY <1>0 DEF StagesInv, ProposalsApart
  <2>3. (UNION committed) \cap stageBlocked = {}  BY <1>0
  <2> QED  BY <1>1, <1>2, <2>1, <2>2, <2>3, BooksBalance, BooksBalanceNext DEF Free
<1>5. ProposalsApart' /\ BetweenStages' /\ WeighedInOrder'
  BY <1>1 DEF ProposalsApart, BetweenStages, WeighedInOrder
<1> QED  BY <1>0, <1>1, <1>2, <1>3, <1>4, <1>5 DEF StagesInv

LEMMA LeftoversStep ==
  ASSUME TypeOK, StagesInv, Leftovers
  PROVE  /\ StagesInv' /\ Autos' = Autos
         /\ SetAside' = SetAside \cup Free
         /\ used' = Matched'
         /\ Records \subseteq Matched' \cup SetAside'
<1>1. /\ stage = LastRule + 1 /\ stage' = Done /\ phase = "evaluate"
      /\ UNCHANGED <<phase, used, blocked, stageBlocked, proposals, pending>>
  BY DEF Leftovers, TypeOK, LastRule
<1> DEFINE singles == {{r} : r \in Free}
<1>2. decisions' = decisions \cup Needs(stage, singles)
  BY DEF Leftovers
<1>4. UNION singles = Free  OBVIOUS
<1> HIDE DEF singles
<1>3. /\ Autos' = Autos /\ Matched' = Matched
      /\ SetAside' = SetAside \cup UNION singles
  BY <1>2, RecordNeeds
<1>5. Books /\ stage # Done  BY <1>1 DEF StagesInv, Done, LastRule
<1>6. Books'  BY <1>1, <1>3, <1>5, BooksBalance, BooksBalanceNext
<1>7. proposals = {} /\ stageBlocked = {}  BY <1>1 DEF StagesInv, BetweenStages
<1>8. ProposalsApart' /\ BetweenStages' /\ WeighedInOrder'
  BY <1>1, <1>7 DEF ProposalsApart, BetweenStages, WeighedInOrder
<1>9. Records \subseteq Matched' \cup SetAside'
  BY <1>3, <1>4, <1>5, <1>7, BooksBalance DEF Free
<1> QED  BY <1>1, <1>3, <1>4, <1>5, <1>6, <1>8, <1>9, BooksBalance DEF StagesInv

(* The four invariants at once (orchestrator.ts:45-191).                    *)
AllInv == TypeOK /\ StagesInv /\ RecordsUsedOnce /\ AmbiguityNeverClears /\ EveryRecordDecided

\* What is matched and what is set aside never meet, in the decisions' terms.
LEMMA ClearedApart ==
  AmbiguityNeverClears <=> Matched \cap SetAside = {}
BY DEF AmbiguityNeverClears, Matched, SetAside

LEMMA ClearedApartNext ==
  AmbiguityNeverClears' <=> Matched' \cap SetAside' = {}
BY DEF AmbiguityNeverClears, Matched, SetAside

LEMMA AllInvInit == Init => AllInv
<1> SUFFICES ASSUME Init PROVE AllInv  OBVIOUS
<1> USE DEF Done, LastRule
<1>1. TypeOK  BY DEF Init, TypeOK
<1>2. Autos = {} /\ Asides = {}  BY DEF Init, Autos, Asides
<1>3. StagesInv
  BY <1>2 DEF Init, StagesInv, Books, ProposalsApart, BetweenStages, WeighedInOrder
<1> QED
  BY <1>1, <1>2, <1>3
  DEF Init, AllInv, RecordsUsedOnce, AmbiguityNeverClears, EveryRecordDecided

LEMMA AllInvStep == AllInv /\ TypeOK' /\ [Next]_vars => AllInv'
<1> SUFFICES ASSUME AllInv, TypeOK', [Next]_vars PROVE AllInv'  OBVIOUS
<1>0. /\ TypeOK /\ StagesInv /\ RecordsUsedOnce /\ AmbiguityNeverClears
      /\ Matched \cap SetAside = {} /\ used = Matched
      /\ stage # Done => blocked \cup stageBlocked = SetAside
  BY ClearedApart, BooksBalance DEF AllInv, StagesInv
<1>1. ASSUME StagesInv', Autos' = Autos, stage' # Done PROVE AllInv'
  <2>1. RecordsUsedOnce'  BY <1>0, <1>1 DEF RecordsUsedOnce
  <2>2. Matched' \cap SetAside' = {}
    BY <1>1, BooksBalanceNext DEF StagesInv
  <2>3. AmbiguityNeverClears'  BY <2>2, ClearedApartNext
  <2>4. EveryRecordDecided'  BY <1>1 DEF EveryRecordDecided
  <2> QED  BY <1>1, <2>1, <2>3, <2>4 DEF AllInv
<1>2. CASE Evaluate
  <2>1. stage' # Done  BY <1>2 DEF Evaluate, Done, LastRule
  <2> QED  BY <1>0, <1>1, <1>2, <2>1, EvaluateStep
<1>3. ASSUME NEW p \in pending, Weigh(p) PROVE AllInv'
  <2>1. stage' # Done  BY <1>0, <1>3 DEF Weigh, TypeOK, Done, LastRule
  <2> QED  BY <1>0, <1>1, <1>3, <2>1, WeighStep
<1>4. CASE CommitStage
  <2>1. stage' # Done  BY <1>0, <1>4 DEF CommitStage, TypeOK, Done, LastRule
  <2>2. StagesInv' /\ Asides' = Asides  BY <1>0, <1>4, CommitStep
  <2>3. PICK gs \in SUBSET proposals : Autos' = Autos \cup Reconciled(stage, gs)
    BY <1>0, <1>4, CommitStep
  <2>4. \A d \in Reconciled(stage, gs) : d.records \in gs  BY DEF Reconciled
  <2>5. \A d, e \in Reconciled(stage, gs) : d = e \/ d.records \cap e.records = {}
    <3>1. \A d, e \in Reconciled(stage, gs) : d.records = e.records => d = e
      BY DEF Reconciled
    <3>2. \A p, q \in gs : p = q \/ p \cap q = {}
      BY <1>0 DEF StagesInv, ProposalsApart
    <3> QED  BY <2>4, <3>1, <3>2
  <2>6. \A d \in Autos, e \in Reconciled(stage, gs) : d.records \cap e.records = {}
    <3>1. \A d \in Autos : d.records \subseteq used  BY <1>0 DEF Matched
    <3>2. \A g \in gs : g \subseteq Free  BY <1>0 DEF StagesInv, ProposalsApart
    <3> QED  BY <2>4, <3>1, <3>2 DEF Free
  <2>7. RecordsUsedOnce'  BY <1>0, <2>3, <2>5, <2>6 DEF RecordsUsedOnce
  <2>8. Matched' \cap SetAside' = {}  BY <2>1, <2>2, BooksBalanceNext DEF StagesInv
  <2>9. AmbiguityNeverClears' /\ EveryRecordDecided'
    BY <2>1, <2>8, ClearedApartNext DEF EveryRecordDecided
  <2> QED  BY <2>2, <2>7, <2>9 DEF AllInv
<1>5. CASE Leftovers
  <2>1. /\ StagesInv' /\ Autos' = Autos /\ SetAside' = SetAside \cup Free
        /\ used' = Matched' /\ Records \subseteq Matched' \cup SetAside'
    BY <1>0, <1>5, LeftoversStep
  <2>2. RecordsUsedOnce'  BY <1>0, <2>1 DEF RecordsUsedOnce
  <2>3. Matched' = Matched  BY <2>1 DEF Matched
  <2>4. Matched' \cap SetAside' = {}  BY <1>0, <2>1, <2>3 DEF Free
  <2>5. EveryRecordDecided'
    <3>1. \A r \in Matched' \cup SetAside' : \E d \in Autos' \cup Asides' : r \in d.records
      BY DEF Matched, SetAside
    <3>2. Autos' \cup Asides' \subseteq decisions'  BY DEF Autos, Asides
    <3> QED  BY <2>1, <3>1, <3>2 DEF EveryRecordDecided, Records
  <2> QED  BY <2>1, <2>2, <2>4, <2>5, ClearedApartNext DEF AllInv
<1>6. CASE UNCHANGED vars
  <2>1. Autos' = Autos /\ Asides' = Asides  BY <1>6 DEF vars, Autos, Asides
  <2>2. StagesInv'
    <3>1. Books'  BY <1>0, <1>6, <2>1 DEF vars, StagesInv, Books
    <3>2. ProposalsApart' /\ BetweenStages'
      BY <1>0, <1>6 DEF vars, StagesInv, ProposalsApart, BetweenStages, Free
    <3>3. WeighedInOrder'
      <4>1. UNCHANGED <<bank, ledger, stage, used, blocked>>  BY <1>6 DEF vars
      <4>2. Unique!AllOptions' = Unique!AllOptions /\ Unique!Uncontested' = Unique!Uncontested
        BY <4>1, SameStageSameOptions
      <4> QED  BY <1>0, <1>6, <4>2 DEF vars, StagesInv, WeighedInOrder
    <3> QED  BY <3>1, <3>2, <3>3 DEF StagesInv
  <2>3. RecordsUsedOnce' /\ AmbiguityNeverClears'
    BY <1>0, <2>1 DEF RecordsUsedOnce, AmbiguityNeverClears
  <2>4. EveryRecordDecided'
    BY <1>6 DEF AllInv, vars, EveryRecordDecided
  <2> QED  BY <2>2, <2>3, <2>4 DEF AllInv
<1> QED  BY <1>2, <1>3, <1>4, <1>5, <1>6 DEF Next

(* The invariants together, in particular StagesInv.                        *)
THEOREM StagesInvariant == Spec => []AllInv
<1>1. TypeOK /\ TypeOK' /\ AllInv /\ [Next]_vars => AllInv'  BY AllInvStep
<1> QED  BY <1>1, AllInvInit, StagesTypeCorrect, PTL DEF Spec

(* No record takes part in two automatic matches (Docs/system-design.md:944). *)
THEOREM EveryRecordUsedOnce == Spec => []RecordsUsedOnce
<1>1. AllInv => RecordsUsedOnce  BY DEF AllInv
<1> QED  BY <1>1, StagesInvariant, PTL

(* What was set aside as ambiguous is never reconciled automatically        *)
(* (Docs/system-design.md:943).                                             *)
THEOREM AmbiguousNeverReconciled == Spec => []AmbiguityNeverClears
<1>1. AllInv => AmbiguityNeverClears  BY DEF AllInv
<1> QED  BY <1>1, StagesInvariant, PTL

(* At the end every record has a decision (orchestrator.ts:181-188).        *)
THEOREM NothingLeftUndecided == Spec => []EveryRecordDecided
<1>1. AllInv => EveryRecordDecided  BY DEF AllInv
<1> QED  BY <1>1, StagesInvariant, PTL

(* The stages match exactly the uncontested groups, in whatever order       *)
(* proposals are weighed (orchestrator.ts:136-178).                         *)
THEOREM UniqueMatchingImplemented == Spec => ImplementsUniqueMatching
<1>1. Init => Unique!Init  BY DEF Init, Unique!Init
<1>2. AllInv /\ [Next]_vars => [Unique!Next]_(Unique!vars)
  <2> SUFFICES ASSUME AllInv, [Next]_vars PROVE [Unique!Next]_(Unique!vars)  OBVIOUS
  <2>0. TypeOK /\ StagesInv  BY DEF AllInv
  <2>1. CASE Evaluate  BY <2>1 DEF Evaluate, Unique!vars
  <2>2. CASE \E p \in pending : Weigh(p)  BY <2>2 DEF Weigh, Unique!vars
  <2>3. CASE CommitStage
    <3>1. stage \in 1..LastRule /\ stage' = stage + 1 /\ UNCHANGED <<bank, ledger>>
      BY <2>0, <2>3 DEF CommitStage, TypeOK
    <3>2. /\ used' = used \cup UNION Unique!Uncontested
          /\ blocked' = blocked \cup UNION (Unique!AllOptions \ Unique!Uncontested)
      BY <2>0, <2>3, CommitStep
    <3>3. Unique!Stage  BY <3>1, <3>2 DEF Unique!Stage
    <3> QED  BY <3>3 DEF Unique!Next
  <2>4. CASE Leftovers
    <3>1. Unique!Finish  BY <2>4 DEF Leftovers, Unique!Finish, Done, LastRule
    <3> QED  BY <3>1 DEF Unique!Next
  <2>5. CASE UNCHANGED vars  BY <2>5 DEF vars, Unique!vars
  <2> QED  BY <2>1, <2>2, <2>3, <2>4, <2>5 DEF Next
<1> QED  BY <1>1, <1>2, StagesInvariant, PTL DEF Spec, ImplementsUniqueMatching, Unique!Spec
=============================================================================
