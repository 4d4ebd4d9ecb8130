---------------------------- MODULE MCLegacyRun ----------------------------
(* An instance of LegacyRun for TLC: records that compete for one another,  *)
(* a payment that two entries explain, an instrument that matures later.    *)
EXTENDS LegacyRun, TLC

CONSTANT credit

Spellings == "INV-1" :> "INV1"

Cells(reference, amount) ==
  [reference |-> reference, party |-> None, batch |-> None, flow |-> credit,
   amount |-> amount, day |-> 1]

\* Two records of 1 may make up for one of 2.
SomeBanks == {Cells(None, 1), Cells("INV-1", 2)}
SomeLedgers ==
  {Cells(None, 1) @@ "future" :> TRUE, Cells("INV-1", 1) @@ "future" :> FALSE}
=============================================================================
