--------------------------- MODULE MatchingRules ---------------------------
(***************************************************************************)
(* The five deterministic rules of packages/reconciliation/src/matching as  *)
(* predicates over the rows of a bank file and a ledger.  A rule names, for *)
(* an anchor record, the groups of records it would match with.             *)
(*                                                                          *)
(* Values are abstracted to what the rules compare: a day is a number, an   *)
(* amount is in paise and of either sign, a counterparty is its normalised  *)
(* name, and "flow" stands for the currency and the direction of a record.  *)
(***************************************************************************)
EXTENDS Integers, FiniteSetsExt

CONSTANTS
  Banks, Ledgers,       \* record ids
  None,                 \* an empty cell of a file
  Normalized,           \* the normal form of each reference, None if nothing is left
  Parties, Batches, Flows,
  BankRows, LedgerRows  \* the rows the files may hold

References == DOMAIN Normalized
Records == Banks \cup Ledgers

Row == [reference : References \cup {None}, party : Parties \cup {None},
        batch : Batches \cup {None}, flow : Flows, amount : Int, day : Int]

\* A ledger row also says whether it matures after the as-of date of the run.
LedgerRow ==
  [reference : References \cup {None}, party : Parties \cup {None},
   batch : Batches \cup {None}, flow : Flows, amount : Int, day : Int, future : BOOLEAN]

ASSUME RowsAssumption ==
  /\ Banks \cap Ledgers = {}
  /\ None \notin References \cup Parties \cup Batches
  /\ BankRows \subseteq Row /\ LedgerRows \subseteq LedgerRow

Compatible(b, l) == b.flow = l.flow

\* Days from the ledger's accounting date to the bank's booking date.
InWindow(b, l) == b.day - l.day \in -1..3

SameAmount(b, l) == b.amount = l.amount

SameReference(b, l) == b.reference # None /\ l.reference = b.reference

SameNormalReference(b, l) ==
  /\ b.reference # None /\ l.reference # None
  /\ Normalized[b.reference] # None
  /\ Normalized[l.reference] = Normalized[b.reference]

ExactReference(b, l) == SameReference(b, l) /\ Compatible(b, l) /\ SameAmount(b, l)

NormalizedReference(b, l) ==
  /\ SameNormalReference(b, l) /\ ~SameReference(b, l)
  /\ Compatible(b, l) /\ SameAmount(b, l) /\ InWindow(b, l)

\* Pairs related by reference belong to the first two rules.
StrongContext(b, l) ==
  /\ ~SameReference(b, l) /\ ~SameNormalReference(b, l)
  /\ b.party # None /\ l.party = b.party
  /\ Compatible(b, l) /\ SameAmount(b, l) /\ InWindow(b, l)

SameBatch(b, l) ==
  b.batch # None /\ l.batch = b.batch /\ Compatible(b, l) /\ InWindow(b, l)

\* Variant: groups of four are tried as well.
CombinationsToFour(ids) == kSubset(2, ids) \cup kSubset(3, ids) \cup kSubset(4, ids)

Combinations(ids) == kSubset(2, ids) \cup kSubset(3, ids)

Total(rows, ids) == MapThenSumSet(LAMBDA i : rows[i].amount, ids)

(***************************************************************************)
(* The groups that satisfy the rule of a stage for one anchor, when only    *)
(* the records in free may be used.                                         *)
(***************************************************************************)

PairRule(rule, b, l) ==
  \/ rule = 1 /\ ExactReference(b, l)
  \/ rule = 2 /\ NormalizedReference(b, l)
  \/ rule = 3 /\ StrongContext(b, l)

Pairs(rule, bank, ledger, b, free) ==
  {{b, l} : l \in {l \in Ledgers \cap free : PairRule(rule, bank[b], ledger[l])}}

OneToMany(bank, ledger, b, free) ==
  LET eligible == {l \in Ledgers \cap free : SameBatch(bank[b], ledger[l])}
  IN  {{b} \cup ls : ls \in {ls \in Combinations(eligible) :
                               Total(ledger, ls) = bank[b].amount}}

ManyToOne(bank, ledger, l, free) ==
  LET eligible == {b \in Banks \cap free : SameBatch(bank[b], ledger[l])}
  IN  {{l} \cup bs : bs \in {bs \in Combinations(eligible) :
                               Total(bank, bs) = ledger[l].amount}}

LastRule == 5

Anchors(rule) == IF rule = LastRule THEN Ledgers ELSE Banks

Options(rule, bank, ledger, a, free) ==
  IF rule \in 1..3 THEN Pairs(rule, bank, ledger, a, free)
  ELSE IF rule = 4 THEN OneToMany(bank, ledger, a, free)
  ELSE ManyToOne(bank, ledger, a, free)

\* One record against at most three of the other file.
Shapes ==
  {g \in SUBSET Records :
     \/ Cardinality(g \cap Banks) = 1 /\ Cardinality(g \cap Ledgers) \in 1..3
     \/ Cardinality(g \cap Ledgers) = 1 /\ Cardinality(g \cap Banks) \in 1..3}
=============================================================================
