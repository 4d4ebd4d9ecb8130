---------------------------- MODULE MCRuleStages ----------------------------
(* Instances of RuleStages for TLC: pairs are told apart by references,     *)
(* counterparties and days, groups by amounts and batches.                  *)
EXTENDS RuleStages, TLC

CONSTANTS acme, batch, credit

\* Two spellings of one reference.
Spellings == "INV-1" :> "INV1" @@ "inv 1" :> "INV1"

PairRow(parties, days) ==
  [reference : {None, "INV-1", "inv 1"}, party : parties, batch : {None},
   flow : {credit}, amount : {1}, day : days]

\* Amounts may be negative: a group of them can total less than one of its parts.
GroupRow(amounts) ==
  [reference : {None}, party : {None}, batch : {batch}, flow : {credit}, amount : amounts,
   day : {1}]

\* Day 2 of a ledger is beyond the window of day 0 of a bank, day 1 at its edge.
Due(rows) == {r @@ "future" :> FALSE : r \in rows}

FileBanks == PairRow({None, acme}, {0}) \cup GroupRow({1, 2, 4})
FileLedgers == Due(PairRow({None, acme}, {1}) \cup PairRow({acme}, {2}) \cup GroupRow({-1, 1, 2, 3}))

FileSymmetry == Permutations(Banks) \cup Permutations(Ledgers)
=============================================================================
