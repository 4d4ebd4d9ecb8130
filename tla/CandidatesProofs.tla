-------------------------- MODULE CandidatesProofs --------------------------
(* What both ways to work on the cases of a run rest on: the order of       *)
(* records, the case of a decision, the length of shortlists, that the      *)
(* selection of cases loses none, and what makes a match sound.             *)
EXTENDS Verifier, RuleStagesProofs

-----------------------------------------------------------------------------
(* The first elements of a finite set, for an order given as a set of pairs. *)

StrictOrder(R, S) ==
  /\ \A x \in S : <<x, x>> \notin R
  /\ \A x, y \in S : x # y => <<x, y>> \in R \/ <<y, x>> \in R
  /\ \A x, y, z \in S : <<x, y>> \in R /\ <<y, z>> \in R => <<x, z>> \in R

Ahead(R, S, p) == {q \in S : <<q, p>> \in R}

Place(R, S, p) == Cardinality(Ahead(R, S, p))

LEMMA PlacesAreNumbers ==
  ASSUME NEW R, NEW S, IsFiniteSet(S), NEW p
  PROVE  IsFiniteSet(Ahead(R, S, p)) /\ Place(R, S, p) \in Nat
<1>1. Ahead(R, S, p) \subseteq S  BY DEF Ahead
<1> QED  BY <1>1, FS_Subset, FS_CardinalityType DEF Place

\* No two elements have the same number of elements before them.
LEMMA PlacesDiffer ==
  ASSUME NEW R, NEW S, IsFiniteSet(S), StrictOrder(R, S),
         NEW p \in S, NEW q \in S, p # q
  PROVE  Place(R, S, p) # Place(R, S, q)
<1>1. ASSUME NEW x \in S, NEW y \in S, <<x, y>> \in R
      PROVE  Place(R, S, x) < Place(R, S, y)
  <2>1. /\ Ahead(R, S, x) \subseteq Ahead(R, S, y)
        /\ x \in Ahead(R, S, y) /\ x \notin Ahead(R, S, x)
    BY <1>1 DEF Ahead, StrictOrder
  <2>2. Ahead(R, S, x) # Ahead(R, S, y)  BY <2>1
  <2>3. /\ IsFiniteSet(Ahead(R, S, y)) /\ Place(R, S, x) \in Nat /\ Place(R, S, y) \in Nat
    BY PlacesAreNumbers
  <2>4. /\ Place(R, S, x) <= Place(R, S, y)
        /\ Place(R, S, x) = Place(R, S, y) => Ahead(R, S, x) = Ahead(R, S, y)
    BY <2>1, <2>3, FS_Subset DEF Place
  <2> QED  BY <2>2, <2>3, <2>4
<1>2. <<p, q>> \in R \/ <<q, p>> \in R  BY DEF StrictOrder
<1>3. Place(R, S, p) \in Nat /\ Place(R, S, q) \in Nat  BY PlacesAreNumbers
<1> QED  BY <1>1, <1>2, <1>3

\* The first n elements are at most n.
LEMMA FirstOnesBounded ==
  ASSUME NEW R, NEW S, IsFiniteSet(S), StrictOrder(R, S), NEW n \in Nat,
         NEW F, F = {p \in S : Place(R, S, p) < n}
  PROVE  IsFiniteSet(F) /\ Cardinality(F) \in Nat /\ Cardinality(F) <= n
<1> DEFINE f == [p \in F |-> Place(R, S, p)]
<1>1. F \subseteq S  OBVIOUS
<1>2. IsFiniteSet(F) /\ Cardinality(F) \in Nat  BY <1>1, FS_Subset, FS_CardinalityType
<1>3. ASSUME Cardinality(F) > n PROVE FALSE
  <2>1. IsFiniteSet(0..(n - 1)) /\ Cardinality(0..(n - 1)) = n  BY FS_Interval
  <2>2. \A p \in F : Place(R, S, p) < n /\ Place(R, S, p) \in Nat
    BY PlacesAreNumbers
  <2>3. f \in [F -> 0..(n - 1)]  BY <2>2
  <2> HIDE DEF f
  <2>4. PICK p, q \in F : p # q /\ f[p] = f[q]  BY <1>2, <1>3, <2>1, <2>3, FS_PigeonHole
  <2>5. Place(R, S, p) = Place(R, S, q)  BY <2>4 DEF f
  <2> QED  BY <1>1, <2>4, <2>5, PlacesDiffer
<1> QED  BY <1>2, <1>3

\* Some element comes first.
LEMMA SomeoneFirst ==
  ASSUME NEW R, NEW S, IsFiniteSet(S), StrictOrder(R, S), S # {}
  PROVE  \E p \in S : \A q \in S : <<q, p>> \notin R
<1> DEFINE f == [p \in S |-> Place(R, S, p)]
<1>1. Cardinality(S) \in Nat /\ Cardinality(S) # 0  BY FS_CardinalityType, FS_EmptySet
<1>2. ASSUME \A p \in S : \E q \in S : <<q, p>> \in R PROVE FALSE
  <2>1. \A p \in S : Place(R, S, p) \in 1..(Cardinality(S) - 1)
    <3> TAKE p \in S
    <3>1. Ahead(R, S, p) \subseteq S /\ p \notin Ahead(R, S, p) /\ Ahead(R, S, p) # {}
      BY <1>2 DEF Ahead, StrictOrder
    <3>2. /\ Place(R, S, p) <= Cardinality(S)
          /\ Place(R, S, p) = Cardinality(S) => Ahead(R, S, p) = S
      BY <3>1, FS_Subset DEF Place
    <3>3. Place(R, S, p) # 0  BY <3>1, PlacesAreNumbers, FS_EmptySet DEF Place
    <3> QED  BY <1>1, <3>1, <3>2, <3>3, PlacesAreNumbers
  <2>2. /\ IsFiniteSet(1..(Cardinality(S) - 1))
        /\ Cardinality(1..(Cardinality(S) - 1)) < Cardinality(S)
    <3>1. ASSUME NEW n \in Nat \ {0}
          PROVE  IsFiniteSet(1..(n - 1)) /\ Cardinality(1..(n - 1)) < n
      <4>1. 1 \in Int /\ n - 1 \in Int  OBVIOUS
      <4>2. /\ IsFiniteSet(1..(n - 1))
            /\ Cardinality(1..(n - 1)) = IF 1 > n - 1 THEN 0 ELSE (n - 1) - 1 + 1
        BY <4>1, FS_Interval
      <4> QED  BY <4>2
    <3> QED  BY <1>1, <3>1
  <2>3. f \in [S -> 1..(Cardinality(S) - 1)]  BY <2>1
  <2> HIDE DEF f
  <2>4. PICK p, q \in S : p # q /\ f[p] = f[q]  BY <2>2, <2>3, FS_PigeonHole
  <2>5. Place(R, S, p) = Place(R, S, q)  BY <2>4 DEF f
  <2> QED  BY <2>4, <2>5, PlacesDiffer
<1> QED  BY <1>2

\* A finite set of numbers has a least one.
LEMMA LeastNumber ==
  ASSUME NEW S, S \subseteq Nat, IsFiniteSet(S), S # {}
  PROVE  Min(S) \in S
<1> DEFINE R == {x \in S \X S : x[1] < x[2]}
<1>1. \A x, y \in S : <<x, y>> \in R <=> x < y  OBVIOUS
<1> HIDE DEF R
<1>2. StrictOrder(R, S)  BY <1>1 DEF StrictOrder
<1>3. PICK p \in S : \A q \in S : <<q, p>> \notin R  BY <1>2, SomeoneFirst
<1>4. ASSUME NEW q \in S PROVE p <= q
  <2>1. p \in Nat /\ q \in Nat  OBVIOUS
  <2>2. ~(q < p)  BY <1>1, <1>3
  <2> QED  BY <2>1, <2>2
<1> QED  BY <1>4 DEF Min

LEMMA LeastOfFile ==
  ASSUME NEW S, S \subseteq Records, S # {}
  PROVE  Min(S) \in S
BY LeastNumber, CandidatesAssumption, FS_Subset DEF CandidatesAssumption

-----------------------------------------------------------------------------
(* The length of shortlists.                                                *)

LEMMA PrecedesIsLexicographic ==
  ASSUME NEW a, NEW b, NEW c, NEW d, NEW e, NEW f, NEW g, NEW h
  PROVE  Precedes(<<a, b, c, d>>, <<e, f, g, h>>) <=>
           a < e \/ (a = e /\ (b < f \/ (b = f /\ (c < g \/ (c = g /\ d < h)))))
<1> DEFINE s == <<a, b, c, d>>
           t == <<e, f, g, h>>
<1>1. Precedes(s, t) <=> \E i \in 1..4 : s[i] < t[i] /\ \A j \in 1..(i - 1) : s[j] = t[j]
  BY DEF Precedes
<1>2. /\ s[1] = a /\ s[2] = b /\ s[3] = c /\ s[4] = d
      /\ t[1] = e /\ t[2] = f /\ t[3] = g /\ t[4] = h
  OBVIOUS
<1> HIDE DEF s, t
<1>3. \A i \in 1..4 : i = 1 \/ i = 2 \/ i = 3 \/ i = 4  OBVIOUS
<1>4. /\ \A j \in 1..(1 - 1) : FALSE
      /\ \A j : j \in 1..(2 - 1) <=> j = 1
      /\ \A j : j \in 1..(3 - 1) <=> j = 1 \/ j = 2
      /\ \A j : j \in 1..(4 - 1) <=> j = 1 \/ j = 2 \/ j = 3
  OBVIOUS
<1>5. CASE Precedes(s, t)
  <2>1. PICK i \in 1..4 : s[i] < t[i] /\ \A j \in 1..(i - 1) : s[j] = t[j]  BY <1>1, <1>5
  <2>2. CASE i = 1  BY <1>2, <1>5, <2>1, <2>2 DEF s, t
  <2>3. CASE i = 2  BY <1>2, <1>4, <1>5, <2>1, <2>3 DEF s, t
  <2>4. CASE i = 3  BY <1>2, <1>4, <1>5, <2>1, <2>4 DEF s, t
  <2>5. CASE i = 4  BY <1>2, <1>4, <1>5, <2>1, <2>5 DEF s, t
  <2> QED  BY <1>3, <2>2, <2>3, <2>4, <2>5
<1>6. CASE a < e \/ (a = e /\ (b < f \/ (b = f /\ (c < g \/ (c = g /\ d < h)))))
  <2>1. \A i \in 1..4 : s[i] < t[i] /\ (\A j \in 1..(i - 1) : s[j] = t[j]) => Precedes(s, t)
    BY <1>1
  <2>2. CASE a < e  BY <1>2, <1>4, <2>1, <2>2 DEF s, t
  <2>3. CASE a = e /\ b < f  BY <1>2, <1>4, <2>1, <2>3 DEF s, t
  <2>4. CASE a = e /\ b = f /\ c < g  BY <1>2, <1>4, <2>1, <2>4 DEF s, t
  <2>5. CASE a = e /\ b = f /\ c = g /\ d < h  BY <1>2, <1>4, <2>1, <2>5 DEF s, t
  <2> QED  BY <1>6, <2>2, <2>3, <2>4, <2>5
<1> QED  BY <1>5, <1>6 DEF s, t

LEMMA RanksAreNumbers ==
  ASSUME TypeOK, NEW p \in Records, NEW c \in OtherFile(p), NEW required
  PROVE  /\ Rank(p, c, required) =
              <<IF c \in required THEN 0 ELSE 1, Tier(p, c), DaysApart(p, c), c>>
         /\ Tier(p, c) \in Int /\ DaysApart(p, c) \in Int /\ c \in Int
<1>1. Tier(p, c) \in Int
  <2> DEFINE ts == {t \in 1..6 : Signals(BankOf(p, c), LedgerOf(p, c))[t]} \cup {NoTier}
  <2>1. ts \subseteq 1..7 /\ ts # {}  BY DEF NoTier
  <2> HIDE DEF ts
  <2>2. IsFiniteSet(ts) /\ ts \subseteq Nat
    <3>1. 1 \in Int /\ 7 \in Int  OBVIOUS
    <3>2. IsFiniteSet(1..7)  BY <3>1, FS_Interval
    <3>3. IsFiniteSet(ts)  BY <2>1, <3>2, FS_Subset
    <3> QED  BY <2>1, <3>3
  <2>3. Min(ts) \in ts  BY <2>1, <2>2, LeastNumber
  <2>4. Tier(p, c) = Min(ts)  BY DEF Tier, ts
  <2>5. Min(ts) \in Nat  BY <2>2, <2>3
  <2> QED  BY <2>4, <2>5
<1>2. c \in Int
  BY CandidatesAssumption DEF CandidatesAssumption, OtherFile, Records
<1>3. BankOf(p, c) \in Row /\ LedgerOf(p, c) \in LedgerRow
  <2>1. /\ \A b \in Banks : bank[b] \in Row
        /\ \A l \in Ledgers : ledger[l] \in LedgerRow
    BY RowsAssumption DEF TypeOK, RowsAssumption
  <2>2. p \in Banks => c \in Ledgers  BY DEF OtherFile
  <2>3. p \notin Banks => p \in Ledgers /\ c \in Banks  BY DEF OtherFile, Records
  <2> QED  BY <2>1, <2>2, <2>3 DEF BankOf, LedgerOf
<1>4. BankOf(p, c).day \in Int /\ LedgerOf(p, c).day \in Int  BY <1>3 DEF Row, LedgerRow
<1> QED  BY <1>1, <1>2, <1>4 DEF Rank, DaysApart

\* Ranks order candidates strictly: ids break the ties.
LEMMA RanksOrder ==
  ASSUME TypeOK, NEW p \in Records, NEW S \in SUBSET OtherFile(p), NEW required,
         NEW R, \A x, y \in S : <<x, y>> \in R <=>
                  Precedes(Rank(p, x, required), Rank(p, y, required))
  PROVE  StrictOrder(R, S)
<1> DEFINE a(x) == IF x \in required THEN 0 ELSE 1
           b(x) == Tier(p, x)
           c(x) == DaysApart(p, x)
           less(x, y) ==
             a(x) < a(y) \/ (a(x) = a(y) /\ (b(x) < b(y) \/ (b(x) = b(y) /\
               (c(x) < c(y) \/ (c(x) = c(y) /\ x < y)))))
<1>1. \A x \in S : a(x) \in Int /\ b(x) \in Int /\ c(x) \in Int /\ x \in Int
  BY RanksAreNumbers
<1>2. ASSUME NEW x \in S, NEW y \in S PROVE <<x, y>> \in R <=> less(x, y)
  <2>1. /\ Rank(p, x, required) = <<a(x), b(x), c(x), x>>
        /\ Rank(p, y, required) = <<a(y), b(y), c(y), y>>
    BY RanksAreNumbers
  <2> HIDE DEF a, b, c
  <2> QED  BY <2>1, PrecedesIsLexicographic
<1> HIDE DEF a, b, c
<1>3. \A x \in S : ~less(x, x)  BY <1>1
<1>4. \A x, y \in S : x # y => less(x, y) \/ less(y, x)  BY <1>1
<1>5. ASSUME NEW x \in S, NEW y \in S, NEW z \in S, less(x, y), less(y, z)
      PROVE  less(x, z)
  BY <1>1, <1>5
<1> HIDE DEF less
<1> QED  BY <1>2, <1>3, <1>4, <1>5 DEF StrictOrder

LEMMA ShortlistsBounded ==
  ASSUME TypeOK, NEW p \in Records, NEW required, NEW free
  PROVE  LET cs == PruneCandidates(p, GenerateCandidates(p, required, free))
         IN  /\ cs \subseteq Records /\ Cardinality(cs) \in Nat
             /\ Cardinality(cs) <= MaxCandidates
<1> DEFINE S == Qualifying(p, free)
           R == {x \in S \X S : Precedes(Rank(p, x[1], required), Rank(p, x[2], required))}
           F == {c \in S : Place(R, S, c) < MaxCandidates}
           G == GenerateCandidates(p, required, free)
           cs == PruneCandidates(p, G)
<1>1. S \in SUBSET OtherFile(p) /\ S \subseteq Records
  BY DEF Qualifying, OtherFile, Records
<1>2. IsFiniteSet(S)  BY <1>1, CandidatesAssumption, FS_Subset DEF CandidatesAssumption
<1>3. \A x, y \in S : <<x, y>> \in R <=>
        Precedes(Rank(p, x, required), Rank(p, y, required))
  OBVIOUS
<1>4. G \subseteq F
  <2>1. ASSUME NEW c \in G PROVE c \in F
    <3>1. c \in S /\ Cardinality({d \in S : Precedes(Rank(p, d, required), Rank(p, c, required))})
                       < MaxCandidates
      BY DEF GenerateCandidates
    <3>2. {d \in S : Precedes(Rank(p, d, required), Rank(p, c, required))} = Ahead(R, S, c)
      BY <3>1 DEF Ahead
    <3> QED  BY <3>1, <3>2 DEF Place
  <2> QED  BY <2>1
<1> HIDE DEF R, S
<1>5. StrictOrder(R, S)  BY <1>1, <1>3, RanksOrder
<1>6. MaxCandidates \in Nat  BY CandidatesAssumption DEF CandidatesAssumption
<1>7. IsFiniteSet(F) /\ Cardinality(F) \in Nat /\ Cardinality(F) <= MaxCandidates
  BY <1>2, <1>5, <1>6, FirstOnesBounded
<1>8. cs \subseteq F /\ cs \subseteq Records  BY <1>1, <1>4 DEF PruneCandidates
<1> HIDE DEF F, cs
<1>9. Cardinality(cs) \in Nat /\ Cardinality(cs) <= Cardinality(F)
  BY <1>7, <1>8, FS_Subset, FS_CardinalityType
<1>10. Cardinality(cs) <= MaxCandidates  BY <1>6, <1>7, <1>9
<1> QED  BY <1>8, <1>9, <1>10 DEF cs

-----------------------------------------------------------------------------
(* The cases do not depend on how far the waves are.                        *)
LEMMA SelectionFixed ==
  ASSUME UNCHANGED vars
  PROVE  /\ Context' = Context /\ Exceptions' = Exceptions
         /\ Selected(Context)' = Selected(Context)
<1>0. /\ UNCHANGED <<bank, ledger, used, decisions>>
      /\ Asides' = Asides
  BY DEF vars, Asides
<1>1. ASSUME NEW p, NEW c
      PROVE  /\ BankOf(p, c)' = BankOf(p, c) /\ LedgerOf(p, c)' = LedgerOf(p, c)
             /\ Tier(p, c)' = Tier(p, c) /\ ExactAmount(p, c)' = ExactAmount(p, c)
             /\ DaysApart(p, c)' = DaysApart(p, c)
  <2>1. BankOf(p, c)' = BankOf(p, c) /\ LedgerOf(p, c)' = LedgerOf(p, c)
    BY <1>0 DEF BankOf, LedgerOf
  <2> QED  BY <2>1 DEF Tier, ExactAmount, DaysApart
<1>2. ASSUME NEW p, NEW free
      PROVE  /\ Qualifying(p, free)' = Qualifying(p, free)
             /\ \A required :
                  GenerateCandidates(p, required, free)' = GenerateCandidates(p, required, free)
             /\ \A cs : PruneCandidates(p, cs)' = PruneCandidates(p, cs)
             /\ \A cs : ComponentCandidates(p, cs)' = ComponentCandidates(p, cs)
  <2>1. Qualifying(p, free)' = Qualifying(p, free)  BY <1>1 DEF Qualifying
  <2>2. \A required, c : Rank(p, c, required)' = Rank(p, c, required)  BY <1>1 DEF Rank
  <2>3. \A required :
          GenerateCandidates(p, required, free)' = GenerateCandidates(p, required, free)
    BY <2>1, <2>2 DEF GenerateCandidates
  <2>4. \A cs : PruneCandidates(p, cs)' = PruneCandidates(p, cs)
    BY <1>1 DEF PruneCandidates
  <2>5. \A cs : ComponentCandidates(p, cs)' = ComponentCandidates(p, cs)
    BY <1>1 DEF ComponentCandidates
  <2> QED  BY <2>1, <2>3, <2>4, <2>5
<1>3. Primaries' = Primaries /\ \A p : DecisionOf(p)' = DecisionOf(p)
  BY <1>0 DEF Primaries, DecisionOf
<1>4. Exceptions' = Exceptions /\ Unsettled' = Unsettled
  <2>1. Exceptions' = Exceptions  BY <1>0, <1>2, <1>3 DEF Exceptions
  <2> QED  BY <1>0, <2>1 DEF Unsettled
<1>5. Context' = Context  BY <1>2, <1>3, <1>4 DEF Context
<1>6. \A cx, h : Leaves(cx, h)' = Leaves(cx, h)  BY <1>2 DEF Leaves
<1>7. \A cx : Stars(cx)' = Stars(cx)  BY <1>6 DEF Stars
<1>8. \A cx : CoveredByStars(cx)' = CoveredByStars(cx)  BY <1>6, <1>7 DEF CoveredByStars
<1>9. \A cx, side, chosen : OpenCases(cx, side, chosen)' = OpenCases(cx, side, chosen)
  BY <1>8 DEF OpenCases
<1>10. \A cx : Selected(cx)' = Selected(cx)  BY <1>7, <1>9 DEF Selected
<1> QED  BY <1>4, <1>5, <1>10

-----------------------------------------------------------------------------
(* The case of a decision is one of its records.                            *)

HasCase(d) ==
  /\ d.records \subseteq Records /\ d.records # {}
  /\ d.rule = LastRule => d.records \cap Ledgers # {}

LEMMA CaseIsRecord ==
  ASSUME NEW d, HasCase(d)
  PROVE  CaseOf(d) \in d.records
<1>1. CASE d.records \cap Banks = {} \/ d.rule = LastRule
  <2>1. d.records \cap Ledgers # {}  BY <1>1 DEF HasCase, Records
  <2>2. d.records \cap Ledgers \subseteq Records  BY DEF Records
  <2> QED  BY <1>1, <2>1, <2>2, LeastOfFile DEF CaseOf
<1>2. CASE ~(d.records \cap Banks = {} \/ d.rule = LastRule)
  <2>1. d.records \cap Banks \subseteq Records  BY DEF Records
  <2> QED  BY <1>2, <2>1, LeastOfFile DEF CaseOf
<1> QED  BY <1>1, <1>2

\* A supported group has a record of each file.
LEMMA ShapesHaveBoth ==
  ASSUME NEW g \in Shapes
  PROVE  g \subseteq Records /\ g \cap Banks # {} /\ g \cap Ledgers # {}
<1>1. \A S : S = {} => Cardinality(S) = 0  BY FS_EmptySet
<1> QED  BY <1>1 DEF Shapes

DecisionsHaveCases == \A d \in decisions : HasCase(d)

LEMMA DecisionsKeepCases == TypeOK /\ DecisionsHaveCases /\ [Next]_vars => DecisionsHaveCases'
<1> SUFFICES ASSUME TypeOK, DecisionsHaveCases, [Next]_vars PROVE DecisionsHaveCases'
  OBVIOUS
<1> USE DEF DecisionsHaveCases
<1>0. ASSUME NEW i, NEW gs,
             \A g \in gs : /\ g \subseteq Records /\ g # {}
                           /\ i = LastRule => g \cap Ledgers # {}
      PROVE  \A d \in Needs(i, gs) \cup Reconciled(i, gs) : HasCase(d)
  BY <1>0 DEF Needs, Reconciled, HasCase
<1>1. CASE Evaluate
  <2> DEFINE asides == {Contested(a) : a \in Ambiguous} \cup Conflicting(Proposed)
  <2>1. stage \in 1..LastRule /\ decisions' = decisions \cup Needs(stage, asides)
    BY <1>1 DEF Evaluate
  <2>2. ASSUME NEW a \in Ambiguous
        PROVE  /\ Contested(a) \subseteq Records /\ Contested(a) # {}
               /\ stage = LastRule => Contested(a) \cap Ledgers # {}
    <3>1. a \in Contested(a) /\ a \in Anchors(stage)
      BY DEF Contested, Ambiguous, OpenAnchors
    <3>2. Contested(a) \subseteq Records  BY <2>1, ProposedNow DEF Free
    <3> QED  BY <3>1, <3>2 DEF Anchors
  <2>3. \A g \in Conflicting(Proposed) : g \in Shapes  BY <2>1, ProposedNow DEF Conflicting
  <2>4. \A g \in asides : /\ g \subseteq Records /\ g # {}
                          /\ stage = LastRule => g \cap Ledgers # {}
    BY <2>2, <2>3, ShapesHaveBoth
  <2> HIDE DEF asides
  <2> QED  BY <1>0, <2>1, <2>4
<1>2. ASSUME NEW p \in pending, Weigh(p) PROVE DecisionsHaveCases'
  <2>1. p \in Shapes  BY DEF TypeOK
  <2>2. \A d \in Needs(stage, {p}) : HasCase(d)  BY <1>0, <2>1, ShapesHaveBoth
  <2> QED  BY <1>2, <2>2 DEF Weigh
<1>3. CASE CommitStage
  <2> DEFINE committed == {p \in proposals : p \cap stageBlocked = {}}
  <2>1. decisions' = decisions \cup Reconciled(stage, committed)  BY <1>3 DEF CommitStage
  <2>2. \A p \in committed : p \in Shapes  BY DEF TypeOK
  <2> HIDE DEF committed
  <2>3. \A d \in Reconciled(stage, committed) : HasCase(d)  BY <1>0, <2>2, ShapesHaveBoth
  <2> QED  BY <2>1, <2>3
<1>4. CASE Leftovers
  <2> DEFINE left == {{r} : r \in Free}
  <2>1. decisions' = decisions \cup Needs(stage, left) /\ stage # LastRule
    BY <1>4 DEF Leftovers, LastRule
  <2>2. \A g \in left : g \subseteq Records /\ g # {}  BY DEF Free
  <2> HIDE DEF left
  <2> QED  BY <1>0, <2>1, <2>2
<1>5. CASE UNCHANGED vars  BY <1>5 DEF vars
<1> QED  BY <1>1, <1>2, <1>3, <1>4, <1>5 DEF Next

\* Every case that may go to the model is a record, and is shown records.
LEMMA ContextTypes ==
  ASSUME TypeOK, DecisionsHaveCases
  PROVE  /\ Exceptions \subseteq Records /\ DOMAIN Context \subseteq Records
         /\ Selected(Context) \subseteq DOMAIN Context
         /\ DOMAIN Context \cap Exceptions = {}
         /\ \A p \in DOMAIN Context : Leaves(Context, p) \subseteq Records
<1>1. Primaries \subseteq Records
  <2>1. \A d \in Asides : CaseOf(d) \in d.records /\ d.records \subseteq Records
    BY CaseIsRecord DEF DecisionsHaveCases, HasCase, Asides
  <2> QED  BY <2>1 DEF Primaries
<1>2. DOMAIN Context = Primaries \ Exceptions /\ Exceptions \subseteq Primaries
  BY DEF Context, Exceptions
<1>3. Selected(Context) \subseteq DOMAIN Context
  BY DEF Selected, Stars, OpenCases
<1>4. ASSUME NEW p \in DOMAIN Context PROVE Leaves(Context, p) \subseteq Records
  <2>1. Context[p] \subseteq Qualifying(p, Unsettled)
    BY <1>2 DEF Context, PruneCandidates, GenerateCandidates
  <2>2. Qualifying(p, Unsettled) \subseteq Records  BY DEF Qualifying, OtherFile, Records
  <2>3. Leaves(Context, p) \subseteq Context[p]  BY DEF Leaves, ComponentCandidates
  <2> QED  BY <2>1, <2>2, <2>3
<1> QED  BY <1>1, <1>2, <1>3, <1>4

\* The cases of a run are records that the rules have not matched.
LEMMA CasesUnmatched ==
  ASSUME TypeOK, DecisionsHaveCases, AmbiguityNeverClears, RecordsUsedOnce
  PROVE  /\ \A d \in Autos : CaseOf(d) \in d.records /\ CaseOf(d) \notin Primaries
         /\ \A d, e \in Autos : CaseOf(d) = CaseOf(e) => d = e
<1>1. \A d \in decisions : CaseOf(d) \in d.records  BY CaseIsRecord DEF DecisionsHaveCases
<1>2. Autos \subseteq decisions /\ Asides \subseteq decisions  BY DEF Autos, Asides
<1>3. ASSUME NEW d \in Autos, CaseOf(d) \in Primaries PROVE FALSE
  <2>1. PICK e \in Asides : CaseOf(d) = CaseOf(e)  BY <1>3 DEF Primaries
  <2> QED  BY <1>1, <1>2, <2>1 DEF AmbiguityNeverClears
<1>4. \A d, e \in Autos : CaseOf(d) = CaseOf(e) => d = e
  BY <1>1, <1>2 DEF RecordsUsedOnce
<1> QED  BY <1>1, <1>2, <1>3, <1>4

-----------------------------------------------------------------------------
(* No two decisions have the same case.                                     *)

LEMMA LeastOfOne ==
  ASSUME NEW r \in Records
  PROVE  Min({r}) = r
<1>1. {r} \subseteq Records /\ {r} # {}  OBVIOUS
<1> QED  BY <1>1, LeastOfFile

\* The groups of an anchor have no other record of its file.
LEMMA OptionsHaveOneAnchor ==
  ASSUME NEW rule \in 1..LastRule, NEW bk, NEW lg, NEW free \in SUBSET Records,
         NEW a \in Anchors(rule) \cap free, NEW g \in Options(rule, bk, lg, a, free)
  PROVE  g \cap Anchors(rule) = {a}
<1>0. Banks \cap Ledgers = {}  BY RowsAssumption DEF RowsAssumption
<1>1. rule = 1 \/ rule = 2 \/ rule = 3 \/ rule = 4 \/ rule = 5  BY DEF LastRule
<1>2. CASE rule \in {1, 2, 3}
  <2>1. a \in Banks /\ Anchors(rule) = Banks  BY <1>2 DEF Anchors, LastRule
  <2>2. PICK l \in Ledgers \cap free : g = {a, l}  BY <1>2 DEF Options, Pairs
  <2> QED  BY <1>0, <2>1, <2>2
<1>3. CASE rule = 4
  <2>1. a \in Banks /\ Anchors(rule) = Banks  BY <1>3 DEF Anchors, LastRule
  <2>2. PICK ls : ls \subseteq Ledgers /\ g = {a} \cup ls
    BY <1>3 DEF Options, OneToMany, Combinations, kSubset
  <2> QED  BY <1>0, <2>1, <2>2
<1>4. CASE rule = 5
  <2>1. a \in Ledgers /\ Anchors(rule) = Ledgers  BY <1>4 DEF Anchors, LastRule
  <2>2. PICK bs : bs \subseteq Banks /\ g = {a} \cup bs
    BY <1>4 DEF Options, ManyToOne, Combinations, kSubset, LastRule
  <2> QED  BY <1>0, <2>1, <2>2
<1> QED  BY <1>1, <1>2, <1>3, <1>4

\* Whoever has one anchor has it for its case.
LEMMA CaseIsAnchor ==
  ASSUME NEW d, d.rule \in 1..LastRule, NEW a \in Records,
         d.records \cap Anchors(d.rule) = {a}
  PROVE  CaseOf(d) = a
<1>1. CASE d.rule = LastRule
  <2>1. d.records \cap Ledgers = {a}  BY <1>1 DEF Anchors
  <2> QED  BY <1>1, <2>1, LeastOfOne DEF CaseOf
<1>2. CASE d.rule # LastRule
  <2>1. d.records \cap Banks = {a}  BY <1>2 DEF Anchors
  <2> QED  BY <1>2, <2>1, LeastOfOne DEF CaseOf
<1> QED  BY <1>1, <1>2

\* The cases of what was set aside differ, and none is in a proposal that may follow.
AsidesApart ==
  /\ \A d, e \in Asides : CaseOf(d) = CaseOf(e) => d = e
  /\ \A p \in pending :
       /\ \E a \in Records : p \cap Anchors(stage) = {a}
       /\ \A d \in Asides : CaseOf(d) \notin p

\* New decisions with cases of their own, clear of the proposals, keep it so.
LEMMA AsidesExtended ==
  ASSUME AsidesApart, NEW i, NEW gs, decisions' = decisions \cup Needs(i, gs),
         \A d \in Needs(i, gs), e \in Asides \cup Needs(i, gs) : CaseOf(d) = CaseOf(e) => d = e
  PROVE  /\ Asides' = Asides \cup Needs(i, gs)
         /\ \A d, e \in Asides' : CaseOf(d) = CaseOf(e) => d = e
<1>1. \A d \in Needs(i, gs) : d.status = "NEEDS_REASONING"  BY DEF Needs
<1>2. Asides' = Asides \cup Needs(i, gs)  BY <1>1 DEF Asides
<1> QED  BY <1>2 DEF AsidesApart

\* Earlier decisions have no free record for their case.
LEMMA EarlierCasesBlocked ==
  ASSUME AllInv, DecisionsHaveCases, stage # Done, phase = "evaluate"
  PROVE  pending = {} /\ \A d \in Asides : CaseOf(d) \notin Free
<1>1. stageBlocked = {} /\ proposals = {} /\ blocked \cup stageBlocked = UNION {d.records : d \in Asides}
  BY DEF AllInv, StagesInv, BetweenStages, Books
<1>2. pending = {}  BY <1>1 DEF AllInv, TypeOK
<1>3. \A d \in Asides : CaseOf(d) \in d.records
  BY CaseIsRecord DEF DecisionsHaveCases, Asides
<1> QED  BY <1>1, <1>2, <1>3 DEF Free

\* What an evaluation proposes and sets aside is each for one anchor.
LEMMA EvaluationAnchored ==
  ASSUME stage \in 1..LastRule
  PROVE  /\ \A a \in Ambiguous : a \in Free /\ Contested(a) \cap Anchors(stage) = {a}
         /\ \A p \in Proposed : \E a \in OpenAnchors \ Ambiguous :
              a \in Free /\ p \in OptionsOf(a) /\ p \cap Anchors(stage) = {a}
         /\ \A a \in OpenAnchors \ Ambiguous : \A p, q \in OptionsOf(a) : p = q
<1>1. ASSUME NEW a \in OpenAnchors
      PROVE  a \in Free /\ a \in Anchors(stage)
             /\ \A g \in OptionsOf(a) : g \cap Anchors(stage) = {a}
  <2>1. a \in Anchors(stage) \cap Free /\ Free \in SUBSET Records
    BY DEF OpenAnchors, Free
  <2> QED  BY <2>1, OptionsHaveOneAnchor DEF OptionsOf
<1>2. ASSUME NEW a \in Ambiguous
      PROVE  a \in Free /\ Contested(a) \cap Anchors(stage) = {a}
  <2>1. a \in OpenAnchors  BY DEF Ambiguous
  <2> QED  BY <1>1, <2>1 DEF Contested
<1>3. \A p \in Proposed : \E a \in OpenAnchors \ Ambiguous : p \in OptionsOf(a)
  BY DEF Proposed
<1> QED  BY <1>1, <1>2, <1>3 DEF Ambiguous

LEMMA AsidesApartStep == AllInv /\ DecisionsHaveCases /\ AsidesApart /\ [Next]_vars => AsidesApart'
<1> SUFFICES ASSUME AllInv, DecisionsHaveCases, AsidesApart, [Next]_vars PROVE AsidesApart'
  OBVIOUS
<1>0. TypeOK /\ StagesInv  BY DEF AllInv
<1>1. CASE Evaluate
  <2> DEFINE conflicts == Conflicting(Proposed)
             asides == {Contested(a) : a \in Ambiguous} \cup conflicts
             new == Needs(stage, asides)
  <2>1. /\ stage \in 1..LastRule /\ phase = "evaluate" /\ stage # Done /\ stage' = stage
        /\ pending' = Proposed \ conflicts /\ decisions' = decisions \cup new
    BY <1>1 DEF Evaluate, Done, LastRule
  <2>2. \A d \in Asides : CaseOf(d) \notin Free  BY <2>1, EarlierCasesBlocked
  <2>3. /\ \A a \in Ambiguous : a \in Free /\ Contested(a) \cap Anchors(stage) = {a}
        /\ \A p \in Proposed : \E a \in OpenAnchors \ Ambiguous :
             a \in Free /\ p \in OptionsOf(a) /\ p \cap Anchors(stage) = {a}
        /\ \A a \in OpenAnchors \ Ambiguous : \A p, q \in OptionsOf(a) : p = q
    BY <2>1, EvaluationAnchored
  <2>4. conflicts \subseteq Proposed  BY DEF Conflicting
  <2>5. Free \subseteq Records  BY DEF Free
  <2>6. \A d \in new : d.status = "NEEDS_REASONING" /\ d.rule = stage /\ d.records \in asides
                       /\ \A e \in new : d.records = e.records => d = e
    BY DEF Needs
  <2> HIDE DEF new, conflicts
  <2>7. ASSUME NEW d \in new
        PROVE  /\ CaseOf(d) \in Free /\ CaseOf(d) \in Anchors(stage)
               /\ \/ CaseOf(d) \in Ambiguous /\ d.records = Contested(CaseOf(d))
                  \/ /\ CaseOf(d) \in OpenAnchors \ Ambiguous
                     /\ d.records \in OptionsOf(CaseOf(d)) /\ d.records \in conflicts
    <3>1. ASSUME NEW a \in Ambiguous, d.records = Contested(a)
          PROVE  CaseOf(d) = a /\ a \in Anchors(stage)
      BY <2>1, <2>3, <2>5, <2>6, <3>1, CaseIsAnchor
    <3>2. ASSUME NEW a \in OpenAnchors \ Ambiguous, a \in Free,
                 d.records \cap Anchors(stage) = {a}
          PROVE  CaseOf(d) = a /\ a \in Anchors(stage)
      BY <2>1, <2>5, <2>6, <3>2, CaseIsAnchor
    <3>3. CASE d.records \in conflicts
      <4>1. PICK a \in OpenAnchors \ Ambiguous :
              a \in Free /\ d.records \in OptionsOf(a) /\ d.records \cap Anchors(stage) = {a}
        BY <2>3, <2>4, <3>3
      <4> QED  BY <3>2, <3>3, <4>1
    <3>4. CASE d.records \notin conflicts
      <4>1. PICK a \in Ambiguous : d.records = Contested(a)  BY <2>6, <3>4
      <4> QED  BY <2>3, <3>1, <4>1
    <3> QED  BY <3>3, <3>4
  <2>8. ASSUME NEW d \in new, NEW e \in Asides \cup new, CaseOf(d) = CaseOf(e) PROVE d = e
    <3>1. e \in new  BY <2>2, <2>7, <2>8
    <3>2. d.records = e.records
      <4>1. CASE CaseOf(d) \in Ambiguous  BY <2>7, <2>8, <3>1, <4>1
      <4>2. CASE CaseOf(d) \notin Ambiguous  BY <2>3, <2>7, <2>8, <3>1, <4>2
      <4> QED  BY <4>1, <4>2
    <3> QED  BY <2>6, <3>1, <3>2
  <2> HIDE DEF asides
  <2>9. /\ Asides' = Asides \cup new
        /\ \A d, e \in Asides' : CaseOf(d) = CaseOf(e) => d = e
    BY <2>1, <2>8, AsidesExtended DEF new
  <2>10. ASSUME NEW p \in Proposed \ conflicts
         PROVE  /\ \E a \in Records : p \cap Anchors(stage) = {a}
                /\ \A d \in Asides \cup new : CaseOf(d) \notin p
    <3>1. PICK a \in OpenAnchors \ Ambiguous :
            a \in Free /\ p \in OptionsOf(a) /\ p \cap Anchors(stage) = {a}
      BY <2>3
    <3>2. p \subseteq Free  BY <2>1, ProposedNow
    <3>3. ASSUME NEW d \in new, CaseOf(d) \in p PROVE FALSE
      <4>1. CaseOf(d) = a  BY <2>7, <3>1, <3>3
      <4>2. d.records \in conflicts /\ d.records \in OptionsOf(a)  BY <2>7, <4>1
      <4> QED  BY <2>3, <3>1, <4>2
    <3> QED  BY <2>2, <2>5, <3>1, <3>2, <3>3
  <2>11. Anchors(stage)' = Anchors(stage)  BY <2>1
  <2> QED  BY <2>1, <2>9, <2>10, <2>11 DEF AsidesApart
<1>2. ASSUME NEW p \in pending, Weigh(p) PROVE AsidesApart'
  <2>1. /\ stage \in 1..LastRule /\ stage' = stage /\ pending' = pending \ {p}
        /\ p \in proposals /\ pending \subseteq proposals
    BY <1>0, <1>2 DEF Weigh, TypeOK
  <2>2. Anchors(stage)' = Anchors(stage)  BY <2>1
  <2>3. CASE p \cap stageBlocked = {}
    <3>1. decisions' = decisions  BY <1>2, <2>3 DEF Weigh
    <3>2. Asides' = Asides  BY <3>1 DEF Asides
    <3> QED  BY <2>1, <2>2, <3>2 DEF AsidesApart
  <2>4. CASE p \cap stageBlocked # {}
    <3> DEFINE new == Needs(stage, {p})
    <3>1. decisions' = decisions \cup new  BY <1>2, <2>4 DEF Weigh
    <3>2. PICK a \in Records : p \cap Anchors(stage) = {a}  BY DEF AsidesApart
    <3>3. \A d \in new : d.rule = stage /\ d.records = p /\ \A e \in new : d = e
      BY DEF Needs
    <3> HIDE DEF new
    <3>4. \A d \in new : CaseOf(d) = a /\ a \in p  BY <2>1, <3>2, <3>3, CaseIsAnchor
    <3>5. \A d \in new, e \in Asides \cup new : CaseOf(d) = CaseOf(e) => d = e
      BY <3>3, <3>4 DEF AsidesApart
    <3>6. /\ Asides' = Asides \cup new
          /\ \A d, e \in Asides' : CaseOf(d) = CaseOf(e) => d = e
      BY <3>1, <3>5, AsidesExtended DEF new
    <3>7. \A q \in pending' : a \notin q
      BY <1>0, <2>1, <3>2 DEF StagesInv, ProposalsApart
    <3> QED  BY <2>1, <2>2, <3>4, <3>6, <3>7 DEF AsidesApart
  <2> QED  BY <2>3, <2>4
<1>3. CASE CommitStage
  <2>1. pending' = {} /\ Asides' = Asides  BY <1>0, <1>3, CommitStep DEF CommitStage
  <2> QED  BY <2>1 DEF AsidesApart
<1>4. CASE Leftovers
  <2> DEFINE left == {{r} : r \in Free}
             new == Needs(stage, left)
  <2>1. /\ stage = LastRule + 1 /\ stage # Done /\ phase = "evaluate" /\ pending' = pending
        /\ decisions' = decisions \cup new
    BY <1>0, <1>4 DEF Leftovers, TypeOK, Done, LastRule
  <2>2. pending = {} /\ \A d \in Asides : CaseOf(d) \notin Free  BY <2>1, EarlierCasesBlocked
  <2>3. \A d \in new : d.rule = stage /\ d.records \in left
                       /\ \A e \in new : d.records = e.records => d = e
    BY DEF Needs
  <2> HIDE DEF new
  <2>4. ASSUME NEW d \in new PROVE CaseOf(d) \in Free /\ d.records = {CaseOf(d)}
    <3>1. PICK r \in Free : d.records = {r}  BY <2>3
    <3>2. r \in Records /\ d.rule # LastRule  BY <2>1, <2>3 DEF Free, LastRule
    <3>3. CaseOf(d) = r
      <4>1. CASE r \in Banks
        <5>1. d.records \cap Banks = {r}  BY <3>1, <4>1
        <5> QED  BY <3>2, <5>1, LeastOfOne DEF CaseOf
      <4>2. CASE r \notin Banks
        <5>1. d.records \cap Banks = {} /\ d.records \cap Ledgers = {r}
          BY <3>1, <3>2, <4>2 DEF Records
        <5> QED  BY <3>2, <5>1, LeastOfOne DEF CaseOf
      <4> QED  BY <4>1, <4>2
    <3> QED  BY <3>1, <3>3
  <2> HIDE DEF left
  <2>5. \A d \in new, e \in Asides \cup new : CaseOf(d) = CaseOf(e) => d = e
    BY <2>2, <2>3, <2>4
  <2>6. \A d, e \in Asides' : CaseOf(d) = CaseOf(e) => d = e
    BY <2>1, <2>5, AsidesExtended DEF new
  <2> QED  BY <2>1, <2>2, <2>6 DEF AsidesApart
<1>5. CASE UNCHANGED vars
  BY <1>5 DEF vars, AsidesApart, Asides
<1> QED  BY <1>1, <1>2, <1>3, <1>4, <1>5 DEF Next

\* No stage runs once they are over.
LEMMA StagesOver ==
  ASSUME TypeOK, stage = Done
  PROVE  ~Next
<1>1. stage = 7 /\ phase # "weigh"  BY DEF TypeOK, Done, LastRule
<1>2. ~Evaluate /\ ~Leftovers  BY <1>1 DEF Evaluate, Leftovers, LastRule
<1>3. ~CommitStage /\ \A p \in pending : ~Weigh(p)  BY <1>1 DEF CommitStage, Weigh
<1> QED  BY <1>2, <1>3 DEF Next

-----------------------------------------------------------------------------
(* The selection of cases.                                                  *)

\* A case that is not selected is shown with one that is.
LEMMA SelectionLosesNone ==
  ASSUME NEW context, DOMAIN context \subseteq Records, NEW p \in DOMAIN context
  PROVE  p \in Selected(context) \/ \E q \in Selected(context) : p \in context[q]
<1> DEFINE stars == Stars(context)
           banks == OpenCases(context, Banks, stars)
           ledgers == OpenCases(context, Ledgers, stars \cup banks)
<1>1. Selected(context) = stars \cup banks \cup ledgers  BY DEF Selected
<1>2. CASE p \in CoveredByStars(context)
  <2>1. ASSUME NEW h \in stars, p \in Leaves(context, h) PROVE p \in context[h]
    BY <2>1 DEF Leaves, ComponentCandidates
  <2> QED  BY <1>1, <1>2, <2>1 DEF CoveredByStars
<1>3. CASE p \notin CoveredByStars(context)
  <2>1. CASE p \in Banks
    <3>1. p \in banks \/ \E q \in stars : Reciprocal(context, p, q)
      BY <1>3, <2>1 DEF OpenCases
    <3> QED  BY <1>1, <3>1 DEF Reciprocal
  <2>2. CASE p \in Ledgers
    <3>1. p \in ledgers \/ \E q \in stars \cup banks : Reciprocal(context, p, q)
      BY <1>3, <2>2 DEF OpenCases
    <3> HIDE DEF stars, banks, ledgers
    <3> QED  BY <1>1, <3>1 DEF Reciprocal
  <2> QED  BY <2>1, <2>2 DEF Records
<1> QED  BY <1>2, <1>3

-----------------------------------------------------------------------------
(* Sound matches.                                                           *)

\* What makes a match sound.
SoundMatch(g) == g \in Shapes /\ AllCompatible(g) /\ Balanced(g)

-----------------------------------------------------------------------------
(* The total of a single record is its amount: the fold has one step.       *)
LEMMA TotalOfOne ==
  ASSUME NEW rows, NEW r, rows[r].amount \in Int
  PROVE  Total(rows, {r}) = rows[r].amount
<1> DEFINE F(g) == [s \in SUBSET {r} |->
                      IF s = {} THEN 0
                      ELSE LET x == CHOOSE x \in s : TRUE IN rows[x].amount + g[s \ {x}]]
           h == [s \in SUBSET {r} |-> IF s = {} THEN 0 ELSE rows[r].amount]
           iter == CHOOSE g : g = F(g)
<1>1. h = F(h)
  <2>1. ASSUME NEW s \in SUBSET {r}, s # {}
        PROVE  (CHOOSE x \in s : TRUE) = r /\ s \ {r} = {} /\ s = {r}
    <3>1. s = {r}  BY <2>1
    <3>2. (CHOOSE x \in {r} : TRUE) = r  OBVIOUS
    <3> QED  BY <3>1, <3>2
  <2>2. ASSUME NEW s \in SUBSET {r} PROVE h[s] = F(h)[s]
    <3>1. CASE s = {}  BY <3>1
    <3>2. CASE s # {}
      <4>1. h[{}] = 0  OBVIOUS
      <4>2. F(h)[s] = rows[r].amount + h[{}]  BY <2>1, <3>2
      <4> QED  BY <3>2, <4>1, <4>2
    <3> QED  BY <3>1, <3>2
  <2> QED  BY <2>2
<1>2. iter = F(iter)  BY <1>1
<1>3. iter[{r}] = rows[r].amount
  <2> HIDE DEF iter
  <2>1. (CHOOSE x \in {r} : TRUE) = r /\ {r} \ {r} = {}  OBVIOUS
  <2>2. iter[{}] = 0  BY <1>2
  <2>3. iter[{r}] = rows[r].amount + iter[{}]  BY <1>2, <2>1
  <2> QED  BY <2>2, <2>3
<1>4. Total(rows, {r}) = iter[{r}]  BY DEF Total, MapThenSumSet, MapThenFoldSet
<1> QED  BY <1>3, <1>4

LEMMA AmountsAreIntegers ==
  ASSUME TypeOK
  PROVE  /\ \A b \in Banks : bank[b].amount \in Int
         /\ \A l \in Ledgers : ledger[l].amount \in Int
<1>1. \A b \in Banks : bank[b] \in Row  BY RowsAssumption DEF RowsAssumption, TypeOK
<1>2. \A l \in Ledgers : ledger[l] \in LedgerRow  BY RowsAssumption DEF RowsAssumption, TypeOK
<1> QED  BY <1>1, <1>2 DEF Row, LedgerRow

(* Every option of a rule is a sound match: one record of one file, up to   *)
(* three of the other, compatible, with the same total (matching/*.ts).     *)
LEMMA OptionsSound ==
  ASSUME TypeOK, NEW rule \in 1..LastRule, NEW free \in SUBSET Records,
         NEW a \in Anchors(rule) \cap free, NEW g \in Options(rule, bank, ledger, a, free)
  PROVE  SoundMatch(g)
<1>0. Banks \cap Ledgers = {}  BY RowsAssumption DEF RowsAssumption
<1>1. rule = 1 \/ rule = 2 \/ rule = 3 \/ rule = 4 \/ rule = 5  BY DEF LastRule
<1>2. g \in Shapes  BY OptionsHoldAnchor
<1>3. CASE rule \in {1, 2, 3}
  <2>1. a \in Banks  BY <1>3 DEF Anchors, LastRule
  <2>2. PICK l \in Ledgers \cap free : g = {a, l} /\ PairRule(rule, bank[a], ledger[l])
    BY <1>3 DEF Options, Pairs
  <2>3. Compatible(bank[a], ledger[l]) /\ SameAmount(bank[a], ledger[l])
    BY <1>3, <2>2 DEF PairRule, ExactReference, NormalizedReference, StrongContext
  <2>4. g \cap Banks = {a} /\ g \cap Ledgers = {l}
    BY <1>0, <2>1, <2>2
  <2>5. Total(bank, {a}) = bank[a].amount /\ Total(ledger, {l}) = ledger[l].amount
    BY <2>1, AmountsAreIntegers, TotalOfOne
  <2>6. Balanced(g)  BY <2>3, <2>4, <2>5 DEF Balanced, SameAmount
  <2>7. AllCompatible(g)  BY <2>3, <2>4 DEF AllCompatible
  <2> QED  BY <1>2, <2>6, <2>7 DEF SoundMatch
<1>4. CASE rule = 4
  <2>1. a \in Banks  BY <1>4 DEF Anchors, LastRule
  <2> DEFINE eligible == {l \in Ledgers \cap free : SameBatch(bank[a], ledger[l])}
  <2>2. PICK ls \in Combinations(eligible) :
          g = {a} \cup ls /\ Total(ledger, ls) = bank[a].amount
    BY <1>4 DEF Options, OneToMany
  <2>3. ls \subseteq eligible  BY <2>2 DEF Combinations, kSubset
  <2>4. g \cap Banks = {a} /\ g \cap Ledgers = ls
    BY <1>0, <2>1, <2>2, <2>3
  <2>5. Total(bank, {a}) = bank[a].amount  BY <2>1, AmountsAreIntegers, TotalOfOne
  <2>6. Balanced(g)  BY <2>2, <2>4, <2>5 DEF Balanced
  <2>7. \A l \in ls : Compatible(bank[a], ledger[l])  BY <2>3 DEF SameBatch
  <2>8. AllCompatible(g)  BY <2>4, <2>7 DEF AllCompatible
  <2> QED  BY <1>2, <2>6, <2>8 DEF SoundMatch
<1>5. CASE rule = 5
  <2>1. a \in Ledgers  BY <1>5 DEF Anchors, LastRule
  <2> DEFINE eligible == {b \in Banks \cap free : SameBatch(bank[b], ledger[a])}
  <2>2. PICK bs \in Combinations(eligible) :
          g = {a} \cup bs /\ Total(bank, bs) = ledger[a].amount
    BY <1>5 DEF Options, ManyToOne
  <2>3. bs \subseteq eligible  BY <2>2 DEF Combinations, kSubset
  <2>4. g \cap Ledgers = {a} /\ g \cap Banks = bs
    BY <1>0, <2>1, <2>2, <2>3
  <2>5. Total(ledger, {a}) = ledger[a].amount  BY <2>1, AmountsAreIntegers, TotalOfOne
  <2>6. Balanced(g)  BY <2>2, <2>4, <2>5 DEF Balanced
  <2>7. \A b \in bs : Compatible(bank[b], ledger[a])  BY <2>3 DEF SameBatch
  <2>8. AllCompatible(g)  BY <2>4, <2>7 DEF AllCompatible
  <2> QED  BY <1>2, <2>6, <2>8 DEF SoundMatch
<1> QED  BY <1>1, <1>3, <1>4, <1>5

-----------------------------------------------------------------------------
(* What the stages propose and commit is sound.                             *)
StagesSound ==
  /\ \A p \in proposals : SoundMatch(p)
  /\ \A d \in Autos : SoundMatch(d.records)

\* The files never change.
LEMMA SoundStays ==
  ASSUME UNCHANGED <<bank, ledger>>, NEW g
  PROVE  SoundMatch(g)' <=> SoundMatch(g)
BY DEF SoundMatch, AllCompatible, Balanced, Compatible

LEMMA StagesSoundStep == TypeOK /\ StagesSound /\ [Next]_vars => StagesSound'
<1> SUFFICES ASSUME TypeOK, StagesSound, [Next]_vars PROVE StagesSound'  OBVIOUS
<1>1. UNCHANGED <<bank, ledger>>
  BY DEF Next, Evaluate, Weigh, CommitStage, Leftovers, vars
<1>2. CASE Evaluate
  <2>1. stage \in 1..LastRule /\ Free \in SUBSET Records  BY <1>2 DEF Evaluate, Free
  <2>2. ASSUME NEW p \in Proposed PROVE SoundMatch(p)
    <3>1. PICK a \in OpenAnchors : p \in OptionsOf(a)  BY DEF Proposed
    <3>2. a \in Anchors(stage) \cap Free /\ p \in Options(stage, bank, ledger, a, Free)
      BY <3>1 DEF OpenAnchors, OptionsOf
    <3> QED  BY <2>1, <3>2, OptionsSound
  <2> DEFINE asides == {Contested(a) : a \in Ambiguous} \cup Conflicting(Proposed)
  <2>3. decisions' = decisions \cup Needs(stage, asides) /\ proposals' \subseteq Proposed
    BY <1>2 DEF Evaluate
  <2> HIDE DEF asides
  <2>4. Autos' = Autos  BY <2>3, RecordNeeds
  <2> QED  BY <1>1, <2>2, <2>3, <2>4, SoundStays DEF StagesSound
<1>3. ASSUME NEW p \in pending, Weigh(p) PROVE StagesSound'
  <2>1. Autos' = Autos
    <3>1. CASE p \cap stageBlocked # {}  BY <1>3, <3>1, RecordNeeds DEF Weigh
    <3>2. CASE p \cap stageBlocked = {}  BY <1>3, <3>2 DEF Weigh, Autos
    <3> QED  BY <3>1, <3>2
  <2>2. proposals' = proposals  BY <1>3 DEF Weigh
  <2> QED  BY <1>1, <2>1, <2>2, SoundStays DEF StagesSound
<1>4. CASE CommitStage
  <2> DEFINE committed == {p \in proposals : p \cap stageBlocked = {}}
  <2>1. decisions' = decisions \cup Reconciled(stage, committed) /\ proposals' = {}
    BY <1>4 DEF CommitStage
  <2>2. \A d \in Reconciled(stage, committed) : d.records \in proposals  BY DEF Reconciled
  <2> HIDE DEF committed
  <2>3. Autos' = Autos \cup Reconciled(stage, committed)  BY <2>1, RecordReconciled
  <2> QED  BY <1>1, <2>1, <2>2, <2>3, SoundStays DEF StagesSound
<1>5. CASE Leftovers
  <2> DEFINE left == {{r} : r \in Free}
  <2>1. decisions' = decisions \cup Needs(stage, left) /\ proposals' = proposals
    BY <1>5 DEF Leftovers
  <2> HIDE DEF left
  <2>2. Autos' = Autos  BY <2>1, RecordNeeds
  <2> QED  BY <1>1, <2>1, <2>2, SoundStays DEF StagesSound
<1>6. CASE UNCHANGED vars
  <2>1. Autos' = Autos /\ proposals' = proposals  BY <1>6 DEF vars, Autos
  <2> QED  BY <1>1, <2>1, SoundStays DEF StagesSound
<1> QED  BY <1>2, <1>3, <1>4, <1>5, <1>6 DEF Next

-----------------------------------------------------------------------------
(* The shortlists.                                                          *)

\* What is on a shortlist is unsettled, and so is the record it is for.
LEMMA ShortlistsUnsettled ==
  ASSUME NEW p \in DOMAIN Context
  PROVE  /\ Context[p] \subseteq Unsettled
         /\ Context[p] # {} => p \in Unsettled
<1> DEFINE generated == GenerateCandidates(p, DecisionOf(p).records, Unsettled)
<1>1. Context[p] = PruneCandidates(p, generated)  BY DEF Context
<1>2. Context[p] \subseteq generated
  <2> HIDE DEF generated
  <2> QED  BY <1>1 DEF PruneCandidates
<1>3. generated \subseteq Unsettled /\ (generated # {} => p \in Unsettled)
  BY DEF GenerateCandidates, Qualifying
<1> QED  BY <1>2, <1>3

\* Only cases with a shortlist are selected, and a component covers its own.
LEMMA SelectedHaveShortlists ==
  ASSUME NEW context
  PROVE  /\ Selected(context) \subseteq DOMAIN context
         /\ \A p : Leaves(context, p) \subseteq context[p]
<1>1. Stars(context) \subseteq DOMAIN context  BY DEF Stars
<1>2. \A side, chosen : OpenCases(context, side, chosen) \subseteq DOMAIN context
  BY DEF OpenCases
<1>3. \A p : Leaves(context, p) \subseteq context[p]
  BY DEF Leaves, ComponentCandidates
<1> QED  BY <1>1, <1>2, <1>3 DEF Selected

-----------------------------------------------------------------------------
(* What the code reaches in some order and the model says at once.          *)

\* Two stars have no record in common: the hubs of selectConnectedReasoning-
\* Decisions can be considered in any order, and none meets a covered record.
THEOREM StarsApart ==
  ASSUME NEW context, NEW h \in Stars(context), NEW g \in Stars(context), h # g
  PROVE  ({h} \cup Leaves(context, h)) \cap ({g} \cup Leaves(context, g)) = {}
<1>1. ASSUME NEW k \in Stars(context), NEW c \in Leaves(context, k)
      PROVE  Leaves(context, c) = {k}
  BY DEF Stars
<1>2. ASSUME NEW k \in Stars(context), NEW j, Leaves(context, k) = {j} PROVE FALSE
  <2>1. Cardinality(Leaves(context, k)) > 1  BY DEF Stars
  <2>2. Cardinality(Leaves(context, k)) = 1  BY <1>2, FS_Singleton
  <2> QED  BY <2>1, <2>2
<1>3. h \notin Leaves(context, g) /\ g \notin Leaves(context, h)  BY <1>1, <1>2
<1>4. ASSUME NEW c \in Leaves(context, h), c \in Leaves(context, g) PROVE FALSE
  <2>1. Leaves(context, c) = {h} /\ Leaves(context, c) = {g}  BY <1>1, <1>4
  <2> QED  BY <2>1
<1> QED  BY <1>3, <1>4

\* One mechanical exception does not make another: mechanicalExceptionResult
\* asks for the candidates of a ledger record, and addPrimary takes away ledger
\* records only.
THEOREM ExceptionsIndependent ==
  ASSUME NEW p \in Ledgers, NEW gone \in SUBSET Ledgers, p \notin gone, NEW required, NEW free
  PROVE  GenerateCandidates(p, required, free \ gone) = GenerateCandidates(p, required, free)
<1>1. OtherFile(p) = Banks /\ Banks \cap Ledgers = {}
  BY RowsAssumption DEF RowsAssumption, OtherFile
<1>2. OtherFile(p) \cap (free \ gone) = OtherFile(p) \cap free  BY <1>1
<1>3. Qualifying(p, free \ gone) = Qualifying(p, free)  BY <1>2 DEF Qualifying
<1>4. p \in free \ gone <=> p \in free  OBVIOUS
<1> QED  BY <1>3, <1>4 DEF GenerateCandidates

\* A pair of records related by a reference or a batch is asked about once: two
\* selected cases that show each other are hubs, and each knows the other by an
\* amount and a date only.  Such a pair may be asked about twice.
THEOREM RelatedPairsAskedOnce ==
  ASSUME TypeOK, DecisionsHaveCases,
         NEW p \in Selected(Context), NEW q \in Selected(Context),
         Reciprocal(Context, p, q)
  PROVE  /\ p \in Stars(Context) /\ q \in Stars(Context)
         /\ ~(Tier(p, q) <= BatchTier) /\ ~(Tier(q, p) <= BatchTier)
<1> DEFINE stars == Stars(Context)
           banks == OpenCases(Context, Banks, stars)
           ledgers == OpenCases(Context, Ledgers, stars \cup banks)
<1>1. p \in stars \cup banks \cup ledgers /\ q \in stars \cup banks \cup ledgers
  BY DEF Selected
<1>2. /\ \A r \in banks : r \in Banks /\ \A s \in stars : ~Reciprocal(Context, r, s)
      /\ \A r \in ledgers :
           r \in Ledgers /\ \A s \in stars \cup banks : ~Reciprocal(Context, r, s)
  BY DEF OpenCases
<1>3. Reciprocal(Context, q, p)  BY DEF Reciprocal
<1>4. \A r \in DOMAIN Context : Context[r] \subseteq OtherFile(r)
  BY DEF Context, PruneCandidates, GenerateCandidates, Qualifying
<1>5. p \in DOMAIN Context /\ q \in DOMAIN Context  BY ContextTypes
<1>6. q \in OtherFile(p) /\ p \in OtherFile(q)  BY <1>4, <1>5 DEF Reciprocal
<1>7. ~(p \in Banks /\ q \in Banks) /\ ~(p \in Ledgers /\ q \in Ledgers)
  BY <1>6, RowsAssumption DEF RowsAssumption, OtherFile
<1> HIDE DEF stars, banks, ledgers
<1>8. p \in stars /\ q \in stars  BY <1>1, <1>2, <1>3, <1>7
<1>9. ASSUME NEW h \in stars, NEW g \in stars, g \in Context[h], Tier(h, g) <= BatchTier
      PROVE  FALSE
  <2>1. Leaves(Context, h) = {c \in Context[h] : Tier(h, c) <= BatchTier}
    BY <1>9 DEF Leaves, ComponentCandidates
  <2>2. Leaves(Context, g) = {h} /\ Cardinality(Leaves(Context, g)) > 1
    BY <1>9, <2>1 DEF stars, Stars
  <2> QED
    BY <2>2, FS_Singleton
<1>10. p \in Context[q] /\ q \in Context[p]  BY DEF Reciprocal
<1> QED  BY <1>8, <1>9, <1>10 DEF stars

\* The records of a decision are not crowded out: as long as they are no more
\* than MAX_CANDIDATES_PER_PRIMARY, every one that qualifies is on the list.
THEOREM RequiredComeFirst ==
  ASSUME TypeOK, NEW p \in Records, NEW free, p \in free, NEW required,
         Cardinality(Qualifying(p, free) \cap required) <= MaxCandidates
  PROVE  Qualifying(p, free) \cap required \subseteq GenerateCandidates(p, required, free)
<1> DEFINE S == Qualifying(p, free)
           wanted == S \cap required
           ahead(c) == {d \in S : Precedes(Rank(p, d, required), Rank(p, c, required))}
<1>1. S \subseteq OtherFile(p) /\ S \subseteq Records
  BY DEF Qualifying, OtherFile, Records
<1>2. IsFiniteSet(wanted) /\ Cardinality(wanted) \in Nat
  <2>1. wanted \subseteq Records  BY <1>1
  <2> QED  BY <2>1, CandidatesAssumption, FS_Subset, FS_CardinalityType
           DEF CandidatesAssumption
<1>3. ASSUME NEW c \in wanted PROVE ahead(c) \subseteq wanted \ {c}
  <2>1. ASSUME NEW d \in S, Precedes(Rank(p, d, required), Rank(p, c, required))
        PROVE  d \in wanted \ {c}
    <3> DEFINE a(x) == IF x \in required THEN 0 ELSE 1
    <3>1. /\ Rank(p, d, required) = <<a(d), Tier(p, d), DaysApart(p, d), d>>
          /\ Rank(p, c, required) = <<a(c), Tier(p, c), DaysApart(p, c), c>>
          /\ Tier(p, c) \in Int /\ DaysApart(p, c) \in Int /\ c \in Int
      BY <1>1, RanksAreNumbers
    <3>2. \/ a(d) < a(c)
          \/ a(d) = a(c) /\ (Tier(p, d) < Tier(p, c) \/ (Tier(p, d) = Tier(p, c) /\
               (DaysApart(p, d) < DaysApart(p, c) \/ (DaysApart(p, d) = DaysApart(p, c) /\ d < c))))
      <4> HIDE DEF a
      <4> QED  BY <2>1, <3>1, PrecedesIsLexicographic
    <3>3. a(c) = 0 /\ a(d) \in 0..1  OBVIOUS
    <3>4. a(d) = 0 => d \in required  OBVIOUS
    <3> HIDE DEF a
    <3>5. ASSUME d = c PROVE FALSE
      <4>1. a(d) = 0 /\ a(c) = 0  BY <3>3, <3>5
      <4>2. Tier(p, d) = Tier(p, c) /\ DaysApart(p, d) = DaysApart(p, c)  BY <3>5
      <4> QED  BY <3>1, <3>2, <3>5, <4>1, <4>2
    <3> QED  BY <3>2, <3>3, <3>4, <3>5
  <2> QED  BY <2>1
<1>4. ASSUME NEW c \in wanted PROVE Cardinality(ahead(c)) < MaxCandidates
  <2> HIDE DEF ahead, wanted
  <2>1. /\ IsFiniteSet(wanted \ {c})
        /\ Cardinality(wanted \ {c}) = Cardinality(wanted) - 1
    BY <1>2, FS_RemoveElement
  <2>2. /\ Cardinality(ahead(c)) <= Cardinality(wanted \ {c})
        /\ Cardinality(ahead(c)) \in Nat
    BY <1>3, <2>1, FS_Subset, FS_CardinalityType
  <2>3. Cardinality(wanted) <= MaxCandidates  BY DEF wanted
  <2>4. MaxCandidates \in Nat  BY CandidatesAssumption DEF CandidatesAssumption
  <2> QED  BY <1>2, <2>1, <2>2, <2>3, <2>4
<1>5. ASSUME NEW c \in wanted PROVE c \in GenerateCandidates(p, required, free)
  BY <1>4 DEF GenerateCandidates
<1> QED  BY <1>5

-----------------------------------------------------------------------------
(* The verifier.                                                            *)

\* Nothing out of context passes, nor a match that is not sound.
LEMMA VerifierRefuses ==
  ASSUME NEW p, NEW candidates, NEW taken, NEW q,
         FinalOutcome(p, candidates, taken, q) # "UNRESOLVED"
  PROVE  /\ q.records \subseteq {p} \cup candidates
         /\ FinalOutcome(p, candidates, taken, q) = "RECONCILED" => SoundMatch(q.records)
<1>1. Failures(p, candidates, taken, q) = {}  BY DEF FinalOutcome
<1>2. StructureFailures(p, candidates, q) = {}  BY <1>1 DEF Failures
<1>3. "OUT_OF_CONTEXT_RECORD" \notin StructureFailures(p, candidates, q)
      /\ "INVALID_RELATIONSHIP_SHAPE" \notin StructureFailures(p, candidates, q)
  BY <1>2
<1>4. q.records \subseteq {p} \cup candidates
  BY <1>3 DEF StructureFailures
<1>5. ASSUME q.outcome = "MATCH" PROVE SoundMatch(q.records)
  <2>1. q.records \in Shapes  BY <1>3, <1>5 DEF StructureFailures
  <2>2. MatchFailures(taken, q) = {}  BY <1>1, <1>5 DEF Failures
  <2>3. "HARD_COMPATIBILITY_FAILED" \notin MatchFailures(taken, q)
        /\ "AMOUNT_MISMATCH" \notin MatchFailures(taken, q)
    BY <2>2
  <2>4. AllCompatible(q.records) /\ Balanced(q.records)  BY <2>3 DEF MatchFailures
  <2> QED  BY <2>1, <2>4 DEF SoundMatch
<1>6. FinalOutcome(p, candidates, taken, q) = "RECONCILED" => q.outcome = "MATCH"
  BY <1>1 DEF FinalOutcome, Verdict
<1> QED  BY <1>4, <1>5, <1>6

\* A result by which the rules settle its records.
Settles(s) == s.source = "DETERMINISTIC" /\ s.outcome # "UNRESOLVED"
=============================================================================
