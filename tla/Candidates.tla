----------------------------- MODULE Candidates -----------------------------
(***************************************************************************)
(* Which records the model is shown with a record that needs reasoning:     *)
(* generateCandidates (packages/reconciliation/src/candidates) and the      *)
(* pruning and selection of pipeline/run-reconciliation.ts.                 *)
(*                                                                          *)
(* Record ids are numbers here: their order breaks the ties of the          *)
(* shortlist.                                                               *)
(***************************************************************************)
EXTENDS RuleStages

CONSTANT MaxCandidates  \* MAX_CANDIDATES_PER_PRIMARY

ASSUME CandidatesAssumption ==
  IsFiniteSet(Records) /\ Records \subseteq Nat /\ MaxCandidates \in Nat \ {0}

\* The pair that a primary record and a record of the other file make.
BankOf(p, c) == IF p \in Banks THEN bank[p] ELSE bank[c]
LedgerOf(p, c) == IF p \in Banks THEN ledger[c] ELSE ledger[p]

OtherFile(p) == IF p \in Banks THEN Ledgers ELSE Banks

SameParty(b, l) == b.party # None /\ l.party = b.party
SameBatchId(b, l) == b.batch # None /\ l.batch = b.batch

\* What makes a pair worth showing, the strongest first.
Signals(b, l) ==
  <<SameReference(b, l), SameNormalReference(b, l), SameBatchId(b, l),
    SameAmount(b, l) /\ SameParty(b, l), SameAmount(b, l) /\ InWindow(b, l),
    SameParty(b, l) /\ InWindow(b, l)>>

BatchTier == 3
NoTier == 7

Tier(p, c) ==
  Min({t \in 1..6 : Signals(BankOf(p, c), LedgerOf(p, c))[t]} \cup {NoTier})

ExactAmount(p, c) == SameAmount(BankOf(p, c), LedgerOf(p, c))

DaysApart(p, c) ==
  LET d == BankOf(p, c).day - LedgerOf(p, c).day IN IF d < 0 THEN -d ELSE d

Qualifying(p, free) ==
  {c \in OtherFile(p) \cap free :
     Compatible(BankOf(p, c), LedgerOf(p, c)) /\ Tier(p, c) # NoTier}

\* The records of the deterministic decision come first, then tier, days, id.
Rank(p, c, required) ==
  <<IF c \in required THEN 0 ELSE 1, Tier(p, c), DaysApart(p, c), c>>

Precedes(s, t) == \E i \in 1..4 : s[i] < t[i] /\ \A j \in 1..(i - 1) : s[j] = t[j]

\* Variant: required records do not count towards the bound.
GenerateCandidatesBeyond(p, required, free) ==
  LET ahead(c) == {d \in Qualifying(p, free) :
                     Precedes(Rank(p, d, required), Rank(p, c, required))}
  IN  {c \in Qualifying(p, free) :
         p \in free /\ Cardinality(ahead(c) \ required) < MaxCandidates}

GenerateCandidates(p, required, free) ==
  LET ahead(c) == {d \in Qualifying(p, free) :
                     Precedes(Rank(p, d, required), Rank(p, c, required))}
  IN  {c \in Qualifying(p, free) : p \in free /\ Cardinality(ahead(c)) < MaxCandidates}

\* Next to an exact amount, other amounts are kept for their batch only.
PruneCandidates(p, candidates) ==
  {c \in candidates : \/ ExactAmount(p, c) \/ Tier(p, c) = BatchTier
                      \/ ~\E d \in candidates : ExactAmount(p, d)}

\* The candidates an unresolved answer accounts for: those related by a
\* reference or a batch, or else the only one there is.
ComponentCandidates(p, candidates) ==
  LET strong == {c \in candidates : Tier(p, c) <= BatchTier}
  IN  IF strong # {} \/ Cardinality(candidates) # 1 THEN strong ELSE candidates

-----------------------------------------------------------------------------
(* The cases: primaryForDecision.                                           *)
\* Variant: the first bank record, whatever the rule.
CaseOfBank(d) ==
  IF d.records \cap Banks = {} THEN Min(d.records \cap Ledgers) ELSE Min(d.records \cap Banks)

CaseOf(d) ==
  IF d.records \cap Banks = {} \/ d.rule = LastRule
  THEN Min(d.records \cap Ledgers) ELSE Min(d.records \cap Banks)

Primaries == {CaseOf(d) : d \in Asides}
DecisionOf(p) == CHOOSE d \in Asides : CaseOf(d) = p

\* mechanicalExceptionResult.  Only bank records are candidates of a ledger
\* record, so one exception does not depend on another.
Exceptions ==
  {p \in Primaries \cap Ledgers :
     ledger[p].future /\ GenerateCandidates(p, {}, Records \ used) = {}}

\* Variant: records the rules matched remain candidates.
UnsettledByRules == Records \ Exceptions

Unsettled == Records \ (used \cup Exceptions)

\* The shortlist of each case that is left.
Context ==
  [p \in Primaries \ Exceptions |->
     PruneCandidates(p, GenerateCandidates(p, DecisionOf(p).records, Unsettled))]

-----------------------------------------------------------------------------
(* selectConnectedReasoningDecisions, for the shortlists in context.        *)
Leaves(context, h) == ComponentCandidates(h, context[h])

\* A hub and leaves that lead nowhere else.  Two stars cannot overlap, so the
\* order in which hubs are considered does not matter.
Stars(context) ==
  {h \in DOMAIN context :
     /\ Cardinality(Leaves(context, h)) > 1
     /\ \A c \in Leaves(context, h) : c \in DOMAIN context /\ Leaves(context, c) = {h}}

CoveredByStars(context) ==
  Stars(context) \cup UNION {Leaves(context, h) : h \in Stars(context)}

\* Variant: one of the two cases shows the other.
ReciprocalOneWay(context, p, q) == p \in context[q] \/ q \in context[p]

Reciprocal(context, p, q) == p \in context[q] /\ q \in context[p]

\* The remaining cases are taken in order, bank records first, unless a case
\* that has been selected already asks about the same pair.
OpenCases(context, side, selected) ==
  {p \in (DOMAIN context \cap side) \ CoveredByStars(context) :
     \A q \in selected : ~Reciprocal(context, p, q)}

Selected(context) ==
  LET stars == Stars(context)
      banks == OpenCases(context, Banks, stars)
  IN  stars \cup banks \cup OpenCases(context, Ledgers, stars \cup banks)
=============================================================================
