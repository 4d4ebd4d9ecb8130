------------------------ MODULE MCPlannedComponents ------------------------
(* Instances of PlannedComponents for TLC.                                  *)
EXTENDS PlannedComponents, TLC

CONSTANTS acme, batch, credit

Spellings == "INV-1" :> "INV1"

Cells(reference, batchId, amount, day) ==
  [reference |-> reference, party |-> None, batch |-> batchId, flow |-> credit,
   amount |-> amount, day |-> day]

Plain(amount, day) == Cells(None, None, amount, day)
Referenced(amount) == Cells("INV-1", None, amount, 1)
Batched(amount) == Cells(None, batch, amount, 1)

Due(rows) == {r @@ "future" :> FALSE : r \in rows}
Maturing(rows) == {r @@ "future" :> TRUE : r \in rows}

SomeBanks == {Plain(1, 1), Referenced(1), Referenced(2), Batched(1)}
SomeLedgers ==
  Due({Plain(1, 1), Referenced(1), Batched(2)}) \cup Maturing({Plain(1, 1)})
=============================================================================
