------------------------------ MODULE Verifier ------------------------------
(***************************************************************************)
(* packages/reconciliation/src/verifier: what becomes of a proposal of the  *)
(* model about a primary record p with the given candidates, when the       *)
(* records in taken are used.                                               *)
(*                                                                          *)
(* A proposal is abstracted to its outcome, the known records it names, and *)
(* what may be wrong with the rest of it: an id is unknown or repeated, no  *)
(* evidence beyond the amount relates all its records, or some evidence     *)
(* conflicts.  The schema has seen to it that there is some evidence.       *)
(***************************************************************************)
EXTENDS Candidates

Flaws == {"NONE", "MALFORMED", "UNSUPPORTED", "CONFLICTING"}

\* Records out of context are refused whichever they are: all stand for any.
Proposals(p, candidates) ==
  [outcome : {"MATCH", "TIMING_DIFFERENCE", "DISCREPANCY", "INSUFFICIENT_EVIDENCE"},
   records : (SUBSET ({p} \cup candidates)) \cup {Records}, flaw : Flaws]

Balanced(records) == Total(bank, records \cap Banks) = Total(ledger, records \cap Ledgers)

AllCompatible(records) ==
  \A b \in records \cap Banks, l \in records \cap Ledgers : Compatible(bank[b], ledger[l])

\* What is wrong with the records a proposal names, whatever it says of them.
StructureFailures(p, candidates, q) ==
  LET fails == [UNKNOWN_OR_REPEATED_RECORD |-> q.flaw = "MALFORMED",
                OUT_OF_CONTEXT_RECORD |-> ~(q.records \subseteq {p} \cup candidates),
                PRIMARY_NOT_INCLUDED |-> p \notin q.records,
                INVALID_RELATIONSHIP_SHAPE |->
                  \/ q.outcome \in {"MATCH", "DISCREPANCY"} /\ q.records \notin Shapes
                  \/ q.outcome = "TIMING_DIFFERENCE" /\ ~(p \in Ledgers /\ q.records = {p})]
  IN  {code \in DOMAIN fails : fails[code]}

MatchFailures(taken, q) ==
  LET fails == [INSUFFICIENT_EVIDENCE |-> q.flaw = "UNSUPPORTED",
                CONFLICTING_EVIDENCE |-> q.flaw = "CONFLICTING",
                RECORD_ALREADY_USED |-> q.records \cap taken # {},
                HARD_COMPATIBILITY_FAILED |-> ~AllCompatible(q.records),
                AMOUNT_MISMATCH |-> ~Balanced(q.records)]
  IN  {code \in DOMAIN fails : fails[code]}

Failures(p, candidates, taken, q) ==
  StructureFailures(p, candidates, q) \cup
    IF q.outcome = "MATCH" THEN MatchFailures(taken, q) ELSE {}

\* Another request may mend any failure but these.
Repairable(failures) == failures \ {"RECORD_ALREADY_USED", "HARD_COMPATIBILITY_FAILED"} # {}

\* The claim of a proposal that is not rejected, as far as the records bear it out.
Verdict(p, taken, q) ==
  IF q.outcome = "MATCH" THEN "RECONCILED"
  ELSE IF \/ q.records \cap taken # {}
          \/ /\ q.outcome = "DISCREPANCY"
             /\ ~AllCompatible(q.records) \/ ~Balanced(q.records) \/ q.flaw = "CONFLICTING"
       THEN "DISCREPANCY"
  ELSE IF q.outcome = "TIMING_DIFFERENCE" /\ ledger[p].future
       THEN "EXPLAINED_OUTSTANDING"
  ELSE "UNRESOLVED"

\* Variant: a MATCH is taken at its word.
FinalOutcomeTrusting(p, candidates, taken, q) ==
  IF q.outcome = "MATCH" /\ StructureFailures(p, candidates, q) = {} THEN "RECONCILED"
  ELSE IF Failures(p, candidates, taken, q) # {} THEN "UNRESOLVED" ELSE Verdict(p, taken, q)

\* finalizeAgentResult: a rejected proposal leaves its case unresolved.
FinalOutcome(p, candidates, taken, q) ==
  IF Failures(p, candidates, taken, q) # {} THEN "UNRESOLVED" ELSE Verdict(p, taken, q)

-----------------------------------------------------------------------------
(* The results of a run.                                                    *)

Result ==
  [case : Records, source : {"DETERMINISTIC", "AGENT_VERIFIED"}, records : SUBSET Records,
   outcome : {"RECONCILED", "EXPLAINED_OUTSTANDING", "DISCREPANCY", "UNRESOLVED"}]

ByRules(case, outcome, records) ==
  [case |-> case, source |-> "DETERMINISTIC", outcome |-> outcome, records |-> records]

\* What stands for the proposal of a model that gave none.
Insufficient(p) ==
  [outcome |-> "INSUFFICIENT_EVIDENCE", records |-> {p}, flaw |-> "UNSUPPORTED"]
=============================================================================
