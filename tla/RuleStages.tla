----------------------------- MODULE RuleStages -----------------------------
(***************************************************************************)
(* runDeterministicReconciliation                                           *)
(* (packages/reconciliation/src/deterministic/orchestrator.ts): the rules   *)
(* run one after the other; each evaluates all its anchors on one snapshot, *)
(* blocks what is ambiguous, weighs the remaining proposals one at a time   *)
(* and commits the rest.  Records are weighed in the order of their ids,    *)
(* which are arbitrary, so the model weighs in any order.                   *)
(***************************************************************************)
EXTENDS MatchingRules

VARIABLES
  bank, ledger,  \* the rows of the two files
  stage,         \* the rule that runs: R1 to R5, then leftovers, then done
  phase,         \* of the stage: "evaluate" its anchors, then "weigh" its proposals
  used,          \* records of committed matches
  blocked,       \* records set aside by earlier stages
  stageBlocked,  \* records set aside by this stage
  proposals,     \* the stage's proposals that share no record
  pending,       \* those not weighed yet
  decisions

vars == <<bank, ledger, stage, phase, used, blocked, stageBlocked, proposals, pending,
          decisions>>

Done == LastRule + 2

\* The decisions a stage takes on groups of records.
Reconciled(rule, groups) ==
  {[status |-> "AUTO_RECONCILED", rule |-> rule, records |-> g] : g \in groups}
Needs(rule, groups) ==
  {[status |-> "NEEDS_REASONING", rule |-> rule, records |-> g] : g \in groups}

Decision ==
  [status : {"AUTO_RECONCILED"}, rule : 1..LastRule, records : Shapes] \cup
  [status : {"NEEDS_REASONING"}, rule : 1..(LastRule + 1), records : SUBSET Records]

\* Every variable has its type, and what is reconciled has a supported shape.
TypeOK ==
  /\ bank \in [Banks -> BankRows] /\ ledger \in [Ledgers -> LedgerRows]
  /\ stage \in 1..Done
  /\ phase \in {"evaluate", "weigh"}
  /\ phase = "weigh" => stage \in 1..LastRule
  /\ used \subseteq Records /\ blocked \subseteq Records /\ stageBlocked \subseteq Records
  /\ proposals \subseteq Shapes /\ pending \subseteq proposals
  /\ decisions \subseteq Decision

Init ==
  /\ bank \in [Banks -> BankRows]
  /\ ledger \in [Ledgers -> LedgerRows]
  /\ stage = 1 /\ phase = "evaluate"
  /\ used = {} /\ blocked = {} /\ stageBlocked = {}
  /\ proposals = {} /\ pending = {}
  /\ decisions = {}

\* Variant: records set aside by earlier stages may be matched.
FreeUnblocked == Records \ used

Free == Records \ (used \cup blocked)

OptionsOf(a) == Options(stage, bank, ledger, a, Free)

OpenAnchors == Anchors(stage) \cap Free

Ambiguous == {a \in OpenAnchors : \E g, h \in OptionsOf(a) : g # h}

\* The proposals of the anchors with one option.
Proposed == UNION {OptionsOf(a) : a \in OpenAnchors \ Ambiguous}

\* Variant: only claims on ledger records are compared.
ConflictingOnLedgers(props) == {p \in props : \E q \in props : q # p /\ q \cap p \cap Ledgers # {}}

Conflicting(props) == {p \in props : \E q \in props : q # p /\ q \cap p # {}}

Contested(a) == {a} \cup UNION OptionsOf(a)

Evaluate ==
  LET conflicts == Conflicting(Proposed)
      asides == {Contested(a) : a \in Ambiguous} \cup conflicts
  IN  /\ stage \in 1..LastRule /\ phase = "evaluate"
      /\ phase' = "weigh"
      /\ stageBlocked' = UNION asides
      /\ proposals' = Proposed \ conflicts
      /\ pending' = proposals'
      /\ decisions' = decisions \cup Needs(stage, asides)
      /\ UNCHANGED <<bank, ledger, stage, used, blocked>>

\* Variant: a proposal is not compared with the records set aside.
WeighNothing(p) ==
  /\ phase = "weigh" /\ p \in pending
  /\ pending' = pending \ {p}
  /\ UNCHANGED <<bank, ledger, stage, phase, used, blocked, stageBlocked, proposals, decisions>>

Weigh(p) ==
  /\ phase = "weigh" /\ p \in pending
  /\ pending' = pending \ {p}
  /\ IF p \cap stageBlocked # {}
     THEN /\ stageBlocked' = stageBlocked \cup p
          /\ decisions' = decisions \cup Needs(stage, {p})
     ELSE UNCHANGED <<stageBlocked, decisions>>
  /\ UNCHANGED <<bank, ledger, stage, phase, used, blocked, proposals>>

CommitStage ==
  LET committed == {p \in proposals : p \cap stageBlocked = {}}
  IN  /\ phase = "weigh" /\ pending = {}
      /\ used' = used \cup UNION committed
      /\ decisions' = decisions \cup Reconciled(stage, committed)
      /\ blocked' = blocked \cup stageBlocked
      /\ stage' = stage + 1
      /\ phase' = "evaluate"
      /\ stageBlocked' = {} /\ proposals' = {}
      /\ UNCHANGED <<bank, ledger, pending>>

\* Variant: only the bank records left over are reported.
LeftoverBanks ==
  /\ stage = LastRule + 1
  /\ decisions' = decisions \cup Needs(stage, {{r} : r \in Banks \ (used \cup blocked)})
  /\ stage' = Done
  /\ UNCHANGED <<bank, ledger, phase, used, blocked, stageBlocked, proposals, pending>>

Leftovers ==
  /\ stage = LastRule + 1
  /\ decisions' = decisions \cup Needs(stage, {{r} : r \in Free})
  /\ stage' = Done
  /\ UNCHANGED <<bank, ledger, phase, used, blocked, stageBlocked, proposals, pending>>

Next == Evaluate \/ (\E p \in pending : Weigh(p)) \/ CommitStage \/ Leftovers

Spec == Init /\ [][Next]_vars

-----------------------------------------------------------------------------
(* Properties.                                                              *)

Autos == {d \in decisions : d.status = "AUTO_RECONCILED"}
Asides == {d \in decisions : d.status = "NEEDS_REASONING"}

(* No record takes part in two automatic matches, of one stage or of two    *)
(* (orchestrator.ts:102,146,161-165; Docs/system-design.md:944).            *)
RecordsUsedOnce == \A d, e \in Autos : d = e \/ d.records \cap e.records = {}

(* A record that a stage sets aside as ambiguous is never reconciled        *)
(* automatically, by that stage or by a later one, and a record that is     *)
(* reconciled is never sent to reasoning (orchestrator.ts:102,153-163).     *)
AmbiguityNeverClears == \A d \in Autos, e \in Asides : d.records \cap e.records = {}

(* When the stages are over every record of both files has a decision       *)
(* (orchestrator.ts:181-188).                                               *)
EveryRecordDecided == stage = Done => \A r \in Records : \E d \in decisions : r \in d.records

Unique == INSTANCE UniqueMatching

(* Blocking, conflict detection and the weighing of proposals in any order  *)
(* amount to: each stage matches the groups that nothing competes with, and *)
(* sets aside all the others (orchestrator.ts:136-178).                     *)
ImplementsUniqueMatching == Unique!Spec

(* What the others rest on.  The books: what is used has been matched, what  *)
(* is blocked has been sent to reasoning.                                   *)
Books ==
  /\ used = UNION {d.records : d \in Autos}
  /\ stage # Done => blocked \cup stageBlocked = UNION {d.records : d \in Asides}
  /\ used \cap (blocked \cup stageBlocked) = {}

\* Proposals are made of free records and share none.
ProposalsApart ==
  /\ UNION proposals \subseteq Free
  /\ \A p, q \in proposals : p = q \/ p \cap q = {}

BetweenStages == phase = "evaluate" => proposals = {} /\ stageBlocked = {}

\* While proposals are weighed, those without a competitor stay clear of what
\* is set aside, and of the others those already weighed have joined it.
WeighedInOrder ==
  phase = "weigh" =>
    LET clear == Unique!Uncontested
    IN  /\ clear \subseteq proposals /\ proposals \subseteq Unique!AllOptions
        /\ \A g \in clear : g \cap stageBlocked = {}
        /\ \A p \in proposals \ clear :
             /\ p \cap stageBlocked # {}
             /\ p \in pending \/ p \subseteq stageBlocked
        /\ UNION (Unique!AllOptions \ proposals) \subseteq stageBlocked
        /\ stageBlocked \subseteq UNION (Unique!AllOptions \ clear)

StagesInv == Books /\ ProposalsApart /\ BetweenStages /\ WeighedInOrder
=============================================================================
