--------------------------- MODULE UniqueMatching ---------------------------
(***************************************************************************)
(* What the deterministic stages promise: each stage matches exactly the    *)
(* groups that no other group of the stage competes with, whatever the      *)
(* order of the records, and sets aside the records of all the others.      *)
(***************************************************************************)
EXTENDS Integers

CONSTANTS
  Banks, Ledgers, BankRows, LedgerRows,
  Records,             \* of both files
  LastRule,            \* the stages are 1..LastRule
  Anchors(_),          \* the records a stage starts from
  Options(_, _, _, _, _) \* the groups a stage would match an anchor with

VARIABLES bank, ledger, stage, used, blocked

vars == <<bank, ledger, stage, used, blocked>>

Init ==
  /\ bank \in [Banks -> BankRows]
  /\ ledger \in [Ledgers -> LedgerRows]
  /\ stage = 1
  /\ used = {} /\ blocked = {}

Free == Records \ (used \cup blocked)

AllOptions ==
  UNION {Options(stage, bank, ledger, a, Free) : a \in Anchors(stage) \cap Free}

Uncontested == {g \in AllOptions : \A h \in AllOptions : h = g \/ h \cap g = {}}

Stage ==
  /\ stage \in 1..LastRule
  /\ used' = used \cup UNION Uncontested
  /\ blocked' = blocked \cup UNION (AllOptions \ Uncontested)
  /\ stage' = stage + 1
  /\ UNCHANGED <<bank, ledger>>

Finish ==
  /\ stage = LastRule + 1
  /\ stage' = stage + 1
  /\ UNCHANGED <<bank, ledger, used, blocked>>

Next == Stage \/ Finish

Spec == Init /\ [][Next]_vars
=============================================================================
