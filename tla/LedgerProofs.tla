----------------------------- MODULE LedgerProofs -----------------------------
(***************************************************************************)
(* Proofs about AllocationLedger.  Numbers of the backend never exceed the *)
(* journal it has seen, and a grant whose declaration has gone out is      *)
(* whole: all of its journal is covered, and no sale takes from it again.  *)
(***************************************************************************)
EXTENDS AllocationLedger, FiniteSetTheorems, WellFoundedInduction, TLAPS

(* The journal, and what the backend accepted of it.                       *)
JournalInv ==
  /\ sales \in Seq(Sale) /\ Len(sales) <= MaxSales
  /\ taken \subseteq DOMAIN sales /\ gapped \subseteq DOMAIN sales

(* Each move of the backend's revision is a grant issued or a stage left.  *)
InStage(S) == {g \in Grants : stage[g] \in S}

BackendInv ==
  /\ issued \in SUBSET Grants /\ stage \in [Grants -> Stage]
  /\ declared \in [Grants -> -1 .. MaxSales] /\ issueRevision \in Nat
  /\ issueRevision <= 1 + Cardinality(issued)
                        + Cardinality(InStage({"revocation_pending", "seal_acknowledged", "released"}))
                        + Cardinality(InStage({"seal_acknowledged", "released"}))
                        + Cardinality(InStage({"released"}))

(* What the till stores, and that no boundary is ahead of the backend.     *)
EvidenceInv ==
  /\ capability \in Revisions /\ stored \in [Grants -> Stored]
  /\ finished \in SUBSET Grants /\ denied = {}
  /\ boundary \in [Grants -> -1 .. MaxSales]
  /\ \A g \in Grants : boundary[g] <= Accepted(g)

(* A declaration that can no longer change.                                *)
Whole(g) ==
  /\ recovery[g] \notin {"none", "intent"}
  /\ Cardinality(Entries(g)) = frozen[g]
  /\ \A i \in Entries(g) : Place(g, i) <= boundary[g]

(* Where the one recovery request can be.                                  *)
Recoverers == [at : {"idle", "sealing", "sealed", "replaying", "uploading", "uploaded",
                     "acknowledging", "acknowledged"},
               grant : Grants, sale : 0 .. MaxSales, todo : SUBSET (1 .. MaxSales)]

RecoveryTypes ==
  /\ recovery \in [Grants -> {"none", "intent", "sealed", "acknowledged", "terminal", "conflict"}]
  /\ frozen \in [Grants -> 0 .. MaxSales]
  /\ recoverer \in Recoverers
  /\ ledgerFaults \in 0 .. MaxFaults

(* Where the request under way stands.                                     *)
RecovererTrue ==
  /\ recoverer.todo \subseteq DOMAIN sales
  /\ recoverer.at \in {"sealing", "sealed"} => recovery[recoverer.grant] = "intent"
  /\ recoverer.at \in {"replaying", "uploading", "uploaded"} =>
       recovery[recoverer.grant] \notin {"none", "intent"}
  /\ recoverer.at \in {"acknowledging", "acknowledged"} => Whole(recoverer.grant)
  /\ recoverer.at = "uploading" => recoverer.sale \in DOMAIN sales
  /\ recoverer.at = "uploaded" => recoverer.sale \in taken \cup gapped

(* What the backend was told, and what it then lets go, is final.          *)
DeclaredTrue ==
  /\ \A g \in Grants : declared[g] # -1 => Whole(g) /\ declared[g] = frozen[g]
  /\ \A g \in Grants : stage[g] \in {"seal_acknowledged", "released"} => Whole(g)

Numbers(f) == DOMAIN f \subseteq Grants /\ \A g \in DOMAIN f : f[g] \in Nat /\ f[g] <= Accepted(g)

AnswerTrue(a) ==
  \/ a.kind = "coverage" /\ Numbers(a.boundaries)
  \/ /\ a.kind = "topup" /\ a.grant \in Grants /\ a.envelope \in Envelope
     /\ a.envelope.sequence <= Accepted(a.grant)
  \/ /\ a.kind = "snapshot" /\ a.revision \in Revisions /\ DOMAIN a.grants \subseteq Grants
     /\ \A g \in DOMAIN a.grants :
          a.grants[g] \in Envelope /\ a.grants[g].sequence <= Accepted(g)
     /\ a.markers \subseteq InStage({"released"})

AnswersTrue == \A a \in answers : AnswerTrue(a)

LedgerInv ==
  /\ JournalInv /\ BackendInv /\ EvidenceInv /\ RecoveryTypes
  /\ RecovererTrue /\ DeclaredTrue /\ AnswersTrue /\ AllowanceHolds

-----------------------------------------------------------------------------
(* Finite sets of numbers.                                                 *)
LEMMA LeastOf ==
  ASSUME NEW S, S \subseteq Nat, S # {}
  PROVE  \E x \in S : \A y \in S : x <= y
<1> DEFINE R == OpToRel(<, Nat)
<1>1. IsWellFoundedOn(R, Nat)
  BY NatLessThanWellFounded
<1>2. \A y, z \in Nat : y < z => <<y, z>> \in R
  BY DEF OpToRel
<1> HIDE DEF R
<1>3. PICK x \in S : \A y \in S : <<y, x>> \notin R
  BY <1>1, WFMin
<1>4. ASSUME NEW y \in S PROVE x <= y
  <2>1. x \in Nat /\ y \in Nat /\ ~(y < x)
    BY <1>2, <1>3
  <2> QED
    BY <2>1
<1> QED
  BY <1>4

LEMMA GreatestOf ==
  ASSUME NEW n \in Nat, NEW S, S \subseteq 1 .. n, S # {}
  PROVE  \E x \in S : \A y \in S : y <= x
<1> DEFINE T == {n - y : y \in S}
<1>1. T \subseteq Nat /\ T # {}
  <2>1. \A y \in S : y \in 1 .. n /\ n - y \in Nat
    OBVIOUS
  <2> QED
    BY <2>1
<1>2. PICK t \in T : \A u \in T : t <= u
  BY <1>1, LeastOf
<1>3. PICK x \in S : t = n - x
  OBVIOUS
<1>4. ASSUME NEW y \in S PROVE y <= x
  <2>1. n - x <= n - y
    BY <1>2, <1>3
  <2> QED
    BY <2>1
<1> QED
  BY <1>4

\* Min of FiniteSetsExt, where there is a number.
LEMMA MinIn ==
  ASSUME NEW S, S \subseteq Nat, S # {}
  PROVE  Min(S) \in S
BY LeastOf DEF Min

-----------------------------------------------------------------------------
(* The journal of a grant.                                                 *)
LEMMA IntervalCount ==
  ASSUME NEW n \in Nat
  PROVE  IsFiniteSet(1 .. n) /\ Cardinality(1 .. n) = n
<1>1. /\ IsFiniteSet(1 .. n)
      /\ Cardinality(1 .. n) = IF 1 > n THEN 0 ELSE n - 1 + 1
  BY FS_Interval
<1> QED
  BY <1>1

LEMMA EntriesCount ==
  ASSUME JournalInv, NEW g
  PROVE  /\ Len(sales) \in Nat /\ DOMAIN sales = 1 .. Len(sales)
         /\ Entries(g) \subseteq 1 .. Len(sales) /\ IsFiniteSet(Entries(g))
         /\ Cardinality(Entries(g)) \in 0 .. MaxSales
         /\ Accepted(g) \in 0 .. MaxSales /\ Accepted(g) <= Cardinality(Entries(g))
<1>1. Len(sales) \in Nat /\ DOMAIN sales = 1 .. Len(sales) /\ Len(sales) <= MaxSales
  BY DEF JournalInv
<1>2. Entries(g) \subseteq 1 .. Len(sales)
  BY <1>1 DEF Entries
<1>3. IsFiniteSet(1 .. Len(sales)) /\ Cardinality(1 .. Len(sales)) = Len(sales)
  BY <1>1, IntervalCount
<1>4. /\ IsFiniteSet(Entries(g)) /\ Cardinality(Entries(g)) \in Nat
      /\ Cardinality(Entries(g)) <= Len(sales)
  BY <1>2, <1>3, FS_Subset, FS_CardinalityType
<1>5. Entries(g) \cap taken \subseteq Entries(g)
  OBVIOUS
<1>6. Accepted(g) \in Nat /\ Accepted(g) <= Cardinality(Entries(g))
  BY <1>4, <1>5, FS_Subset, FS_CardinalityType DEF Accepted
<1> QED
  BY <1>1, <1>2, <1>4, <1>6, LedgerAssumption

(* A journal that covers all it shows is accepted to its end.              *)
LEMMA CoveredToTheEnd ==
  ASSUME JournalInv, NEW g, NEW b \in Int, b <= Accepted(g),
         \A i \in Entries(g) : Place(g, i) <= b
  PROVE  Entries(g) \subseteq taken
<1>1. CASE Entries(g) = {}
  BY <1>1
<1>2. CASE Entries(g) # {}
  <2>1. PICK m \in Entries(g) : \A i \in Entries(g) : i <= m
    BY <1>2, EntriesCount, GreatestOf
  <2>2. {j \in Entries(g) : j <= m} = Entries(g)
    BY <2>1
  <2>3. Place(g, m) = Cardinality(Entries(g))
    BY <2>2 DEF Place
  <2>4. /\ Cardinality(Entries(g)) \in Nat /\ Accepted(g) \in Nat
        /\ Accepted(g) <= Cardinality(Entries(g)) /\ IsFiniteSet(Entries(g))
    BY EntriesCount
  <2>5. Accepted(g) = Cardinality(Entries(g))
    BY <2>1, <2>3, <2>4
  <2>6. Entries(g) \cap taken = Entries(g)
    BY <2>4, <2>5, FS_Subset DEF Accepted
  <2> QED
    BY <2>6
<1> QED
  BY <1>1, <1>2

(* A step at most adds to the journal and to what is accepted.             *)
Grows == taken \subseteq taken' /\ \A g \in Grants : Entries(g) \subseteq Entries(g)'

LEMMA AcceptedGrows ==
  ASSUME JournalInv, JournalInv', Grows, NEW g \in Grants
  PROVE  Accepted(g) <= Accepted(g)'
<1>1. IsFiniteSet(Entries(g)')
  <2>1. Len(sales') \in Nat /\ DOMAIN sales' = 1 .. Len(sales')
    BY DEF JournalInv
  <2>2. Entries(g)' \subseteq 1 .. Len(sales')
    BY <2>1 DEF Entries
  <2> QED
    BY <2>1, <2>2, IntervalCount, FS_Subset
<1>2. Entries(g) \cap taken \subseteq Entries(g)' \cap taken' /\ Entries(g)' \cap taken' \subseteq Entries(g)'
  BY DEF Grows
<1>3. IsFiniteSet(Entries(g)' \cap taken')
  BY <1>1, <1>2, FS_Subset
<1> QED
  BY <1>2, <1>3, FS_Subset DEF Accepted

\* A journal that a step leaves.
LEMMA JournalStands ==
  ASSUME JournalInv, UNCHANGED sales
  PROVE  \A g : Entries(g)' = Entries(g) /\ \A i : Place(g, i)' = Place(g, i)
BY DEF Entries, Place


-----------------------------------------------------------------------------
(* What sales took from a grant.                                           *)

\* The units of a set, unit by unit, are a finite set.
LEMMA UnitsFinite ==
  ASSUME NEW g, NEW S, IsFiniteSet(S)
  PROVE  /\ IsFiniteSet({u \in S \X (1 .. Granted) : u[2] <= sales[u[1]][g]})
         /\ Units(g, S) \in Nat
<1>1. IsFiniteSet(1 .. Granted)
  BY IntervalCount, LedgerAssumption
<1>2. IsFiniteSet(S \X (1 .. Granted))
  BY <1>1, FS_Product
<1>3. {u \in S \X (1 .. Granted) : u[2] <= sales[u[1]][g]} \subseteq S \X (1 .. Granted)
  OBVIOUS
<1>4. IsFiniteSet({u \in S \X (1 .. Granted) : u[2] <= sales[u[1]][g]})
  BY <1>2, <1>3, FS_Subset
<1> QED
  BY <1>4, FS_CardinalityType DEF Units

\* What is covered and what is not add up to the whole journal.
LEMMA UnitsSplit ==
  ASSUME JournalInv, NEW g \in Grants
  PROVE  /\ Units(g, Entries(g)) \in Nat
         /\ SpendableMilli(g) = Granted - Units(g, Entries(g))
<1> DEFINE A == {u \in Covered(g) \X (1 .. Granted) : u[2] <= sales[u[1]][g]}
           B == {u \in (Entries(g) \ Covered(g)) \X (1 .. Granted) : u[2] <= sales[u[1]][g]}
           C == {u \in Entries(g) \X (1 .. Granted) : u[2] <= sales[u[1]][g]}
<1>1. Covered(g) \subseteq Entries(g)
  BY DEF Covered
<1>2. IsFiniteSet(Entries(g)) /\ IsFiniteSet(Covered(g)) /\ IsFiniteSet(Entries(g) \ Covered(g))
  BY <1>1, EntriesCount, FS_Subset
<1>3. IsFiniteSet(A) /\ IsFiniteSet(B)
  BY <1>2, UnitsFinite
<1>4. A \cup B = C /\ A \cap B = {}
  BY <1>1
<1>5. Units(g, Covered(g)) \in Nat /\ Units(g, Entries(g) \ Covered(g)) \in Nat
  BY <1>2, UnitsFinite
<1>6. Units(g, Entries(g)) \in Nat
  BY <1>2, UnitsFinite
<1>7. /\ Units(g, Covered(g)) = Cardinality(A) /\ Units(g, Entries(g)) = Cardinality(C)
      /\ Units(g, Entries(g) \ Covered(g)) = Cardinality(B)
  BY DEF Units
<1> HIDE DEF A, B, C
<1>8. Cardinality(C) = Cardinality(A) + Cardinality(B) - Cardinality({})
  BY <1>3, <1>4, FS_Union
<1>9. Units(g, Entries(g)) = Units(g, Covered(g)) + Units(g, Entries(g) \ Covered(g))
  BY <1>5, <1>7, <1>8, FS_EmptySet
<1> QED
  BY <1>5, <1>6, <1>9, LedgerAssumption DEF SpendableMilli

\* A sale adds what it takes.
LEMMA SaleAdds ==
  ASSUME JournalInv, NEW take \in Sale, sales' = Append(sales, take), NEW g \in Grants
  PROVE  /\ take[g] \in Nat /\ Units(g, Entries(g))' \in Nat
         /\ Units(g, Entries(g))' <= Units(g, Entries(g)) + take[g]
<1> DEFINE n == Len(sales) + 1
           Old == {u \in Entries(g) \X (1 .. Granted) : u[2] <= sales[u[1]][g]}
           New == {n} \X (1 .. take[g])
           All == {u \in Entries(g)' \X (1 .. Granted) : u[2] <= sales'[u[1]][g]}
<1>1. take[g] \in Nat
  BY LedgerAssumption DEF Sale
<1>2. /\ n \in Nat /\ DOMAIN sales = 1 .. Len(sales) /\ DOMAIN sales' = 1 .. n
      /\ sales'[n] = take /\ \A i \in DOMAIN sales : sales'[i] = sales[i]
  BY DEF JournalInv
<1>3. Entries(g)' \subseteq Entries(g) \cup {n}
  BY <1>2 DEF Entries
<1>4. All \subseteq Old \cup New
  <2> SUFFICES ASSUME NEW u \in All PROVE u \in Old \cup New
    OBVIOUS
  <2>1. /\ u \in Entries(g)' \X (1 .. Granted) /\ u[2] <= sales'[u[1]][g]
        /\ u[1] \in Entries(g)' /\ u[2] \in 1 .. Granted
    OBVIOUS
  <2>2. CASE u[1] = n
    <3>1. u[2] \in 1 .. take[g]
      BY <2>1, <2>2, <1>1, <1>2
    <3> QED
      BY <2>1, <2>2, <3>1
  <2>3. CASE u[1] # n
    <3>1. u[1] \in Entries(g)
      BY <2>1, <2>3, <1>3
    <3>2. sales'[u[1]] = sales[u[1]]
      BY <3>1, <1>2 DEF Entries
    <3> QED
      BY <2>1, <3>1, <3>2
  <2> QED
    BY <2>2, <2>3
<1>5. IsFiniteSet(Entries(g))
  BY EntriesCount
<1>6. IsFiniteSet(Old) /\ Cardinality(Old) = Units(g, Entries(g)) /\ Units(g, Entries(g)) \in Nat
  BY <1>5, UnitsFinite DEF Units
<1>7. Units(g, Entries(g))' = Cardinality(All)
  BY DEF Units
<1>8. IsFiniteSet(New) /\ Cardinality(New) = take[g]
  <2>1. IsFiniteSet({n}) /\ Cardinality({n}) = 1
    BY FS_Singleton
  <2>2. IsFiniteSet(1 .. take[g]) /\ Cardinality(1 .. take[g]) = take[g]
    BY <1>1, IntervalCount
  <2>3. IsFiniteSet(New) /\ Cardinality(New) = Cardinality({n}) * Cardinality(1 .. take[g])
    BY <2>1, <2>2, FS_Product
  <2> QED
    BY <2>1, <2>2, <2>3, <1>1
<1> HIDE DEF Old, New, All
<1>9. /\ IsFiniteSet(Old \cup New)
      /\ Cardinality(Old \cup New) = Cardinality(Old) + Cardinality(New) - Cardinality(Old \cap New)
  BY <1>6, <1>8, FS_Union
<1>10. IsFiniteSet(Old \cap New) /\ Cardinality(Old \cap New) \in Nat
  <2>1. Old \cap New \subseteq Old
    OBVIOUS
  <2> QED
    BY <2>1, <1>6, FS_Subset, FS_CardinalityType
<1>11. Cardinality(All) \in Nat /\ Cardinality(All) <= Cardinality(Old \cup New)
  BY <1>4, <1>9, FS_Subset, FS_CardinalityType
<1> QED
  BY <1>1, <1>6, <1>7, <1>8, <1>9, <1>10, <1>11

\* A sale from other grants leaves the journal of this one.
LEMMA SaleElsewhere ==
  ASSUME JournalInv, NEW take \in Sale, sales' = Append(sales, take), NEW g \in Grants, take[g] = 0
  PROVE  Entries(g)' = Entries(g) /\ \A i : Place(g, i)' = Place(g, i)
<1>1. /\ Len(sales) \in Nat /\ DOMAIN sales = 1 .. Len(sales)
      /\ DOMAIN sales' = 1 .. Len(sales) + 1
      /\ sales'[Len(sales) + 1] = take /\ \A i \in DOMAIN sales : sales'[i] = sales[i]
  BY DEF JournalInv
<1>2. Entries(g)' = Entries(g)
  BY <1>1 DEF Entries
<1> QED
  BY <1>2 DEF Place

\* A sale only adds to the journal of a grant.
LEMMA SaleGrows ==
  ASSUME JournalInv, NEW take \in Sale, sales' = Append(sales, take), NEW g \in Grants
  PROVE  Entries(g) \subseteq Entries(g)'
<1>1. /\ Len(sales) \in Nat /\ DOMAIN sales = 1 .. Len(sales)
      /\ DOMAIN sales' = 1 .. Len(sales) + 1 /\ \A i \in DOMAIN sales : sales'[i] = sales[i]
  BY DEF JournalInv
<1> QED
  BY <1>1 DEF Entries


-----------------------------------------------------------------------------
(* What a step that leaves most of the state keeps.                        *)

\* The journal, the backend's part of it and the sums.
LEMMA JournalKept ==
  ASSUME JournalInv, UNCHANGED <<sales, taken, gapped>>
  PROVE  /\ JournalInv' /\ (AllowanceHolds => AllowanceHolds')
         /\ \A g : Entries(g)' = Entries(g) /\ Accepted(g)' = Accepted(g)
         /\ \A g, i : Place(g, i)' = Place(g, i)
<1>1. \A g : Entries(g)' = Entries(g)
  BY DEF Entries
<1>2. \A g, i : Place(g, i)' = Place(g, i)
  BY <1>1 DEF Place
<1>3. \A g : Accepted(g)' = Accepted(g)
  BY <1>1 DEF Accepted
<1>4. AllowanceHolds => AllowanceHolds'
  BY <1>1 DEF AllowanceHolds, Units
<1>5. JournalInv'
  BY DEF JournalInv
<1> QED
  BY <1>1, <1>2, <1>3, <1>4, <1>5

LEMMA BackendKept ==
  ASSUME BackendInv, UNCHANGED <<issued, stage, declared, issueRevision>>
  PROVE  BackendInv' /\ \A S : InStage(S)' = InStage(S)
BY DEF BackendInv, InStage

LEMMA EvidenceKept ==
  ASSUME JournalInv, JournalInv', EvidenceInv, UNCHANGED evidence,
         \A g \in Grants : Accepted(g) <= Accepted(g)'
  PROVE  EvidenceInv'
<1>1. UNCHANGED <<capability, stored, finished, denied, boundary>>
  BY DEF evidence
<1>2. ASSUME NEW g \in Grants PROVE boundary'[g] <= Accepted(g)'
  <2>1. Accepted(g) \in Int /\ boundary[g] \in Int /\ boundary[g] <= Accepted(g)
    BY EntriesCount DEF EvidenceInv
  <2>2. Accepted(g)' \in Int
    <3>1. Len(sales') \in Nat /\ DOMAIN sales' = 1 .. Len(sales')
      BY DEF JournalInv
    <3>2. Entries(g)' \cap taken' \subseteq 1 .. Len(sales')
      BY <3>1 DEF Entries
    <3> QED
      BY <3>1, <3>2, IntervalCount, FS_Subset, FS_CardinalityType DEF Accepted
  <2> QED
    BY <1>1, <2>1, <2>2
<1> QED
  BY <1>1, <1>2 DEF EvidenceInv

\* A whole declaration, as its boundary rises and its recovery goes on.
LEMMA WholeStays ==
  ASSUME NEW g \in Grants, Whole(g), JournalInv, EvidenceInv,
         Entries(g)' = Entries(g), \A i : Place(g, i)' = Place(g, i),
         boundary'[g] \in Int, boundary[g] <= boundary'[g], frozen'[g] = frozen[g],
         recovery'[g] \notin {"none", "intent"}
  PROVE  Whole(g)'
<1>1. Cardinality(Entries(g)') = frozen'[g]
  BY DEF Whole
<1>2. ASSUME NEW i \in Entries(g) PROVE Place(g, i) <= boundary'[g]
  <2>1. {j \in Entries(g) : j <= i} \subseteq Entries(g)
    OBVIOUS
  <2>2. Place(g, i) \in Nat
    BY <2>1, EntriesCount, FS_Subset, FS_CardinalityType DEF Place
  <2>3. boundary[g] \in Int /\ Place(g, i) <= boundary[g]
    BY DEF EvidenceInv, Whole
  <2> QED
    BY <2>2, <2>3
<1> QED
  BY <1>1, <1>2 DEF Whole

\* Every whole declaration stays whole where recovery is left.
LEMMA WholesStay ==
  ASSUME JournalInv, EvidenceInv, UNCHANGED <<sales, taken, gapped, boundary, recoveries>>
  PROVE  \A g \in Grants : Whole(g) => Whole(g)'
<1>1. ASSUME NEW g \in Grants, Whole(g) PROVE Whole(g)'
  <2>1. boundary'[g] \in Int /\ boundary[g] <= boundary'[g]
    BY DEF EvidenceInv
  <2>2. frozen'[g] = frozen[g] /\ recovery'[g] \notin {"none", "intent"}
    BY <1>1 DEF Whole, recoveries
  <2> QED
    BY <1>1, <2>1, <2>2, WholeStays, JournalKept
<1> QED
  BY <1>1

LEMMA DeclaredKept ==
  ASSUME DeclaredTrue, UNCHANGED <<declared, stage>>,
         \A g \in Grants : Whole(g) => Whole(g)' /\ frozen'[g] = frozen[g]
  PROVE  DeclaredTrue'
BY DEF DeclaredTrue

\* An answer stays true while what it tells of only grows.
LEMMA AnswerStaysTrue ==
  ASSUME NEW a, AnswerTrue(a), JournalInv, JournalInv',
         InStage({"released"}) \subseteq InStage({"released"})',
         \A g \in Grants : Accepted(g) <= Accepted(g)'
  PROVE  AnswerTrue(a)'
<1> \A g \in Grants : Accepted(g) \in Nat /\ Accepted(g)' \in Nat
  <2> SUFFICES ASSUME NEW g \in Grants PROVE Accepted(g) \in Nat /\ Accepted(g)' \in Nat
    OBVIOUS
  <2>1. Len(sales') \in Nat /\ DOMAIN sales' = 1 .. Len(sales')
    BY DEF JournalInv
  <2>2. Entries(g)' \cap taken' \subseteq 1 .. Len(sales')
    BY <2>1 DEF Entries
  <2>3. Accepted(g)' \in Nat
    BY <2>1, <2>2, IntervalCount, FS_Subset, FS_CardinalityType DEF Accepted
  <2> QED
    BY <2>3, EntriesCount
<1> \A g \in Grants, n \in Nat : n <= Accepted(g) => n <= Accepted(g)'
  OBVIOUS
<1>1. CASE a.kind = "coverage" /\ Numbers(a.boundaries)
  <2>1. Numbers(a.boundaries)'
    BY <1>1 DEF Numbers
  <2> QED
    BY <1>1, <2>1 DEF AnswerTrue
<1>2. CASE /\ a.kind = "topup" /\ a.grant \in Grants /\ a.envelope \in Envelope
           /\ a.envelope.sequence <= Accepted(a.grant)
  <2>1. a.envelope.sequence \in Nat
    BY <1>2 DEF Envelope
  <2>2. a.envelope.sequence <= Accepted(a.grant)'
    BY <1>2, <2>1
  <2> QED
    BY <1>2, <2>2 DEF AnswerTrue
<1>3. CASE /\ a.kind = "snapshot" /\ a.revision \in Revisions /\ DOMAIN a.grants \subseteq Grants
           /\ \A g \in DOMAIN a.grants :
                a.grants[g] \in Envelope /\ a.grants[g].sequence <= Accepted(g)
           /\ a.markers \subseteq InStage({"released"})
  <2>1. \A g \in DOMAIN a.grants : a.grants[g].sequence \in Nat
    BY <1>3 DEF Envelope
  <2>2. \A g \in DOMAIN a.grants : a.grants[g].sequence <= Accepted(g)'
    BY <1>3, <2>1
  <2> QED
    BY <1>3, <2>2 DEF AnswerTrue
<1> QED
  BY <1>1, <1>2, <1>3 DEF AnswerTrue

\* So do all of them, and those that are new are true.
LEMMA AnswersKept ==
  ASSUME AnswersTrue, JournalInv, JournalInv',
         InStage({"released"}) \subseteq InStage({"released"})',
         \A g \in Grants : Accepted(g) <= Accepted(g)',
         \A a \in answers' : a \in answers \/ AnswerTrue(a)'
  PROVE  AnswersTrue'
<1>1. \A a \in answers : AnswerTrue(a)'
  BY AnswerStaysTrue DEF AnswersTrue
<1> QED
  BY <1>1 DEF AnswersTrue

-----------------------------------------------------------------------------
(* Coverage: true numbers are never held against the till, and move its    *)
(* boundaries only up, and never past what the backend accepted.           *)
LEMMA CoverageRaises ==
  ASSUME JournalInv, EvidenceInv, NEW f, Numbers(f), NEW named, NEW markers, markers = {},
         ApplyCoverage(f, named, markers)
  PROVE  /\ denied' = {} /\ boundary' \in [Grants -> -1 .. MaxSales]
         /\ \A g \in Grants : boundary[g] <= boundary'[g] /\ boundary'[g] <= Accepted(g)
<1> DEFINE says(g) == IF g \in DOMAIN f THEN CoverageVerdict(g, f[g], g \in named) ELSE "ignored"
           raised == {g \in Grants : says(g) = "accepted"}
<1>1. /\ boundary' = [g \in Grants |-> IF g \in raised THEN f[g] ELSE boundary[g]]
      /\ denied' = ((denied \cup {}) \ raised) \cup {g \in Grants : says(g) = "rejected"}
  BY DEF ApplyCoverage
<1>2. ASSUME NEW g \in Grants
      PROVE  /\ says(g) # "rejected"
             /\ says(g) = "accepted" => f[g] \in 0 .. MaxSales /\ f[g] <= Accepted(g) /\ boundary[g] < f[g]
  <2>1. CASE g \in DOMAIN f
    <3>1. f[g] \in Nat /\ f[g] <= Accepted(g)
      BY <2>1 DEF Numbers
    <3>2. /\ Accepted(g) \in 0 .. MaxSales /\ Cardinality(Entries(g)) \in 0 .. MaxSales
          /\ Accepted(g) <= Cardinality(Entries(g))
      BY EntriesCount
    <3>3. boundary[g] \in Int
      BY DEF EvidenceInv
    <3>4. says(g) = CoverageVerdict(g, f[g], g \in named)
      BY <2>1
    <3>5. f[g] \in 0 .. MaxSales /\ ~(f[g] > Cardinality(Entries(g)))
      BY <3>1, <3>2, LedgerAssumption
    <3> HIDE DEF says
    <3>6. says(g) # "rejected"
      BY <3>4, <3>5 DEF CoverageVerdict
    <3>7. says(g) = "accepted" => ~(f[g] <= boundary[g])
      BY <3>4 DEF CoverageVerdict
    <3>8. says(g) = "accepted" => boundary[g] < f[g]
      BY <3>7, <3>3, <3>5
    <3> QED
      BY <3>1, <3>5, <3>6, <3>8
  <2>2. CASE g \notin DOMAIN f
    BY <2>2
  <2> QED
    BY <2>1, <2>2
<1> HIDE DEF says
<1>3. denied' = {}
  BY <1>1, <1>2 DEF EvidenceInv
<1>4. ASSUME NEW g \in Grants
      PROVE  /\ boundary'[g] \in -1 .. MaxSales /\ boundary[g] <= boundary'[g]
             /\ boundary'[g] <= Accepted(g)
  <2>1. boundary[g] \in -1 .. MaxSales /\ boundary[g] <= Accepted(g)
    BY DEF EvidenceInv
  <2>2. CASE g \in raised
    <3>1. boundary'[g] = f[g] /\ says(g) = "accepted"
      BY <1>1, <2>2
    <3>2. f[g] \in 0 .. MaxSales /\ f[g] <= Accepted(g) /\ boundary[g] < f[g]
      BY <3>1, <1>2
    <3> QED
      BY <3>1, <3>2, <2>1
  <2>3. CASE g \notin raised
    <3>1. boundary'[g] = boundary[g]
      BY <1>1, <2>3
    <3> QED
      BY <3>1, <2>1
  <2> QED
    BY <2>2, <2>3
<1>5. boundary' \in [Grants -> -1 .. MaxSales]
  BY <1>1, <1>4
<1> QED
  BY <1>3, <1>4, <1>5

\* The backend has taken a sale: its coverage is what it has accepted.
LEMMA CoverageTrue ==
  ASSUME JournalInv, NEW i \in taken
  PROVE  Numbers(CoverageOf(i))
<1>1. taken \cup {i} = taken
  OBVIOUS
<1>2. \A g \in Grants : Cardinality(Entries(g) \cap (taken \cup {i})) = Accepted(g)
  BY <1>1 DEF Accepted
<1>3. \A g \in Grants : Accepted(g) \in Nat
  BY EntriesCount
<1> QED
  BY <1>2, <1>3 DEF Numbers, CoverageOf


-----------------------------------------------------------------------------
(* Counting the backend's moves.                                           *)
LEMMA StageCount ==
  ASSUME NEW S
  PROVE  /\ InStage(S) \subseteq Grants /\ IsFiniteSet(InStage(S)) /\ Cardinality(InStage(S)) \in Nat
         /\ Cardinality(InStage(S)) <= Cardinality(Grants) /\ Cardinality(Grants) \in Nat
<1>1. InStage(S) \subseteq Grants
  BY DEF InStage
<1> QED
  BY <1>1, FS_Subset, FS_CardinalityType, LedgerAssumption

LEMMA IssuedCount ==
  ASSUME BackendInv
  PROVE  /\ IsFiniteSet(issued) /\ Cardinality(issued) \in Nat
         /\ Cardinality(issued) <= Cardinality(Grants)
BY FS_Subset, FS_CardinalityType, LedgerAssumption DEF BackendInv

LEMMA RevisionBounded ==
  ASSUME BackendInv
  PROVE  issueRevision \in Revisions
<1> DEFINE a == Cardinality(issued)
           b == Cardinality(InStage({"revocation_pending", "seal_acknowledged", "released"}))
           c == Cardinality(InStage({"seal_acknowledged", "released"}))
           d == Cardinality(InStage({"released"}))
           n == Cardinality(Grants)
<1>1. /\ a \in Nat /\ b \in Nat /\ c \in Nat /\ d \in Nat /\ n \in Nat
      /\ a <= n /\ b <= n /\ c <= n /\ d <= n
  BY StageCount, IssuedCount
<1>2. issueRevision \in Nat /\ issueRevision <= 1 + a + b + c + d
  BY DEF BackendInv
<1>3. Revisions = 0 .. 4 * n + 1
  BY DEF Revisions
<1> HIDE DEF a, b, c, d, n
<1> QED
  BY <1>1, <1>2, <1>3

\* A grant that moves on is one more in the set of those that got so far.
LEMMA OneMoreAt ==
  ASSUME NEW g \in Grants, NEW s, NEW S, stage \in [Grants -> Stage],
         stage' = [stage EXCEPT ![g] = s], stage[g] \in S => s \in S
  PROVE  /\ Cardinality(InStage(S)) \in Nat /\ Cardinality(InStage(S)') \in Nat
         /\ Cardinality(InStage(S)) <= Cardinality(InStage(S)')
         /\ stage[g] \notin S /\ s \in S => Cardinality(InStage(S)') = Cardinality(InStage(S)) + 1
<1>1. InStage(S) \subseteq InStage(S)' /\ InStage(S)' \subseteq Grants
  BY DEF InStage
<1>2. /\ IsFiniteSet(InStage(S)) /\ IsFiniteSet(InStage(S)') /\ Cardinality(InStage(S)) \in Nat
      /\ Cardinality(InStage(S)') \in Nat
  BY <1>1, StageCount, FS_Subset, FS_CardinalityType, LedgerAssumption
<1>3. Cardinality(InStage(S)) <= Cardinality(InStage(S)')
  BY <1>1, <1>2, FS_Subset
<1>4. ASSUME stage[g] \notin S, s \in S
      PROVE  Cardinality(InStage(S)') = Cardinality(InStage(S)) + 1
  <2>1. InStage(S)' = InStage(S) \cup {g} /\ g \notin InStage(S)
    BY <1>4 DEF InStage
  <2> QED
    BY <2>1, <1>2, FS_AddElement
<1> QED
  BY <1>2, <1>3, <1>4

LEMMA StageMoves ==
  ASSUME BackendInv, NEW g \in Grants, NEW s \in Stage,
         stage' = [stage EXCEPT ![g] = s], issueRevision' = issueRevision + 1, issued' = issued,
         declared' \in [Grants -> -1 .. MaxSales],
         \/ stage[g] = "active" /\ s = "revocation_pending"
         \/ stage[g] = "revocation_pending" /\ s \in {"seal_acknowledged", "released"}
         \/ stage[g] = "seal_acknowledged" /\ s = "released"
  PROVE  BackendInv' /\ InStage({"released"}) \subseteq InStage({"released"})'
<1> DEFINE B == {"revocation_pending", "seal_acknowledged", "released"}
           C == {"seal_acknowledged", "released"}
           D == {"released"}
<1>1. stage \in [Grants -> Stage] /\ stage' \in [Grants -> Stage]
  BY DEF BackendInv
<1>2. /\ Cardinality(InStage(B)) \in Nat /\ Cardinality(InStage(B)') \in Nat
      /\ Cardinality(InStage(B)) <= Cardinality(InStage(B)')
      /\ stage[g] \notin B /\ s \in B => Cardinality(InStage(B)') = Cardinality(InStage(B)) + 1
  <2>1. stage[g] \in B => s \in B
    OBVIOUS
  <2> HIDE DEF B
  <2> QED
    BY <2>1, <1>1, OneMoreAt
<1>3. /\ Cardinality(InStage(C)) \in Nat /\ Cardinality(InStage(C)') \in Nat
      /\ Cardinality(InStage(C)) <= Cardinality(InStage(C)')
      /\ stage[g] \notin C /\ s \in C => Cardinality(InStage(C)') = Cardinality(InStage(C)) + 1
  <2>1. stage[g] \in C => s \in C
    OBVIOUS
  <2> HIDE DEF C
  <2> QED
    BY <2>1, <1>1, OneMoreAt
<1>4. /\ Cardinality(InStage(D)) \in Nat /\ Cardinality(InStage(D)') \in Nat
      /\ Cardinality(InStage(D)) <= Cardinality(InStage(D)')
      /\ stage[g] \notin D /\ s \in D => Cardinality(InStage(D)') = Cardinality(InStage(D)) + 1
  <2>1. stage[g] \in D => s \in D
    OBVIOUS
  <2> HIDE DEF D
  <2> QED
    BY <2>1, <1>1, OneMoreAt
<1>5. \/ stage[g] \notin B /\ s \in B
      \/ stage[g] \notin C /\ s \in C
      \/ stage[g] \notin D /\ s \in D
  OBVIOUS
<1>6. /\ issueRevision \in Nat /\ Cardinality(issued) \in Nat
      /\ issueRevision <= 1 + Cardinality(issued) + Cardinality(InStage(B)) + Cardinality(InStage(C))
                            + Cardinality(InStage(D))
  BY IssuedCount DEF BackendInv
<1>7. InStage(D) \subseteq InStage(D)'
  BY <1>1 DEF InStage
<1>8. /\ issueRevision' \in Nat
      /\ issueRevision' <= 1 + Cardinality(issued) + Cardinality(InStage(B)') + Cardinality(InStage(C)')
                             + Cardinality(InStage(D)')
  <2> HIDE DEF B, C, D
  <2> QED
    BY <1>2, <1>3, <1>4, <1>5, <1>6
<1>9. issued' \in SUBSET Grants
  BY DEF BackendInv
<1> QED
  BY <1>1, <1>7, <1>8, <1>9 DEF BackendInv

-----------------------------------------------------------------------------
(* Recovery.                                                               *)

\* The request under way stands where the recoveries do not go back.
LEMMA RecovererKept ==
  ASSUME RecovererTrue, RecoveryTypes, recoverer' = recoverer,
         DOMAIN sales \subseteq DOMAIN sales', taken \subseteq taken', gapped \subseteq gapped',
         \A g \in Grants : Whole(g) => Whole(g)',
         \A g \in Grants : /\ recovery[g] = "intent" => recovery'[g] = "intent"
                           /\ recovery[g] \notin {"none", "intent"} => recovery'[g] \notin {"none", "intent"}
  PROVE  RecovererTrue'
<1>1. recoverer.grant \in Grants
  BY DEF RecoveryTypes, Recoverers
<1> QED
  BY <1>1 DEF RecovererTrue

LEMMA RestingTrue ==
  /\ Resting.at = "idle" /\ Resting.todo = {}
  /\ Resting \in Recoverers
BY LedgerAssumption DEF Resting, Recoverers

\* Only the request under way moves, or what is on its way.
LEMMA RecovererMoves ==
  ASSUME LedgerInv, UNCHANGED <<backendVars, sales, evidence, recoveries>>,
         RecovererTrue',
         recoverer' \in Recoverers,
         ledgerFaults' \in 0 .. MaxFaults,
         \A a \in answers' : a \in answers \/ AnswerTrue(a)'
  PROVE  LedgerInv'
<1>1. UNCHANGED <<issued, stage, issueRevision, taken, gapped, declared, sales, boundary, recovery, frozen>>
  BY DEF backendVars, evidence, recoveries
<1>2. /\ JournalInv' /\ AllowanceHolds'
      /\ \A g : Entries(g)' = Entries(g) /\ Accepted(g)' = Accepted(g)
  BY <1>1, JournalKept DEF LedgerInv
<1>3. \A g \in Grants : Accepted(g) <= Accepted(g)'
  <2>1. \A g \in Grants : Accepted(g) \in Int
    BY EntriesCount DEF LedgerInv
  <2> QED
    BY <1>2, <2>1
<1>4. BackendInv' /\ InStage({"released"}) \subseteq InStage({"released"})'
  BY <1>1, BackendKept DEF LedgerInv
<1>5. EvidenceInv'
  BY <1>2, <1>3, EvidenceKept DEF LedgerInv
<1>6. \A g \in Grants : Whole(g) => Whole(g)'
  BY <1>1, WholesStay DEF LedgerInv
<1>7. DeclaredTrue'
  BY <1>1, <1>6, DeclaredKept DEF LedgerInv
<1>8. AnswersTrue'
  BY <1>2, <1>3, <1>4, AnswersKept DEF LedgerInv
<1>9. RecoveryTypes'
  BY <1>1 DEF LedgerInv, RecoveryTypes
<1> QED
  BY <1>2, <1>4, <1>5, <1>7, <1>8, <1>9 DEF LedgerInv


\* Only what the till keeps moves, and no declaration goes back.
LEMMA TillMoves ==
  ASSUME LedgerInv, UNCHANGED <<backendVars, sales>>, EvidenceInv', RecoveryTypes', RecovererTrue',
         \A g \in Grants : Whole(g) => Whole(g)' /\ frozen'[g] = frozen[g],
         answers' \subseteq answers
  PROVE  LedgerInv'
<1>1. UNCHANGED <<issued, stage, issueRevision, taken, gapped, declared, sales>>
  BY DEF backendVars
<1>2. JournalInv' /\ AllowanceHolds' /\ \A g : Accepted(g)' = Accepted(g)
  BY <1>1, JournalKept DEF LedgerInv
<1>3. \A g \in Grants : Accepted(g) <= Accepted(g)'
  <2>1. \A g \in Grants : Accepted(g) \in Int
    BY EntriesCount DEF LedgerInv
  <2> QED
    BY <1>2, <2>1
<1>4. BackendInv' /\ InStage({"released"}) \subseteq InStage({"released"})'
  BY <1>1, BackendKept DEF LedgerInv
<1>5. DeclaredTrue'
  BY <1>1, DeclaredKept DEF LedgerInv
<1>6. AnswersTrue'
  BY <1>2, <1>3, <1>4, AnswersKept DEF LedgerInv
<1> QED
  BY <1>2, <1>4, <1>5, <1>6 DEF LedgerInv

-----------------------------------------------------------------------------
(* A sale.                                                                 *)
LEMMA SellKeeps ==
  ASSUME LedgerInv, Sell
  PROVE  LedgerInv'
<1>1. PICK take \in Sale : Split(take) /\ sales' = Append(sales, take)
  BY DEF Sell
<1>2. /\ Len(sales) < MaxSales
      /\ UNCHANGED <<issued, stage, issueRevision, taken, gapped, declared, capability, stored,
                     boundary, finished, denied, recovery, frozen, recoverer, answers, ledgerFaults>>
  BY DEF Sell, backendVars, evidence, recoveries
<1>3. JournalInv /\ BackendInv /\ EvidenceInv /\ RecoveryTypes /\ RecovererTrue
  BY DEF LedgerInv
<1>4. JournalInv' /\ DOMAIN sales \subseteq DOMAIN sales'
  <2>1. /\ Len(sales) \in Nat /\ sales \in Seq(Sale) /\ DOMAIN sales = 1 .. Len(sales)
        /\ MaxSales \in Nat
    BY <1>3, LedgerAssumption DEF JournalInv
  <2>2. sales' \in Seq(Sale) /\ Len(sales') = Len(sales) + 1 /\ DOMAIN sales' = 1 .. Len(sales) + 1
    BY <2>1, <1>1
  <2>3. Len(sales') <= MaxSales /\ DOMAIN sales \subseteq DOMAIN sales'
    BY <2>1, <2>2, <1>2
  <2> QED
    BY <2>2, <2>3, <1>2, <1>3 DEF JournalInv
<1>5. \A g \in Grants : Entries(g) \subseteq Entries(g)'
  BY <1>1, <1>3, SaleGrows
<1>6. Grows
  BY <1>2, <1>5 DEF Grows
<1>7. \A g \in Grants : Accepted(g) <= Accepted(g)'
  BY <1>3, <1>4, <1>6, AcceptedGrows
<1>8. EvidenceInv'
  BY <1>2, <1>3, <1>4, <1>7, EvidenceKept DEF evidence
<1>9. BackendInv' /\ InStage({"released"}) \subseteq InStage({"released"})'
  BY <1>2, <1>3, BackendKept
<1>10. ASSUME NEW g \in Grants, Whole(g) PROVE Whole(g)'
  <2>1. take[g] = 0
    <3>1. Allowance(g) = 0
      BY <1>10 DEF Whole, Allowance, Usable
    <3>2. take[g] \in Nat /\ take[g] <= Allowance(g)
      BY <1>1, LedgerAssumption DEF Sale, Split
    <3> QED
      BY <3>1, <3>2
  <2>2. Entries(g)' = Entries(g) /\ \A i : Place(g, i)' = Place(g, i)
    BY <2>1, <1>1, <1>3, SaleElsewhere
  <2>3. boundary'[g] \in Int /\ boundary[g] <= boundary'[g]
    BY <1>2, <1>3 DEF EvidenceInv
  <2>4. frozen'[g] = frozen[g] /\ recovery'[g] \notin {"none", "intent"}
    BY <1>10, <1>2 DEF Whole
  <2> QED
    BY <1>10, <1>3, <2>2, <2>3, <2>4, WholeStays
<1>11. DeclaredTrue'
  BY <1>2, <1>10, DeclaredKept DEF LedgerInv
<1>12. RecoveryTypes'
  BY <1>2, <1>3 DEF RecoveryTypes
<1>13. RecovererTrue'
  BY <1>2, <1>3, <1>4, <1>10, RecovererKept
<1>14. AnswersTrue'
  BY <1>2, <1>3, <1>4, <1>7, <1>9, AnswersKept DEF LedgerInv
<1>15. ASSUME NEW g \in Grants PROVE Units(g, Entries(g))' <= Granted
  <2>1. /\ take[g] \in Nat /\ Units(g, Entries(g))' \in Nat
        /\ Units(g, Entries(g))' <= Units(g, Entries(g)) + take[g]
    BY <1>1, <1>3, SaleAdds
  <2>2. Units(g, Entries(g)) \in Nat /\ SpendableMilli(g) = Granted - Units(g, Entries(g))
    BY <1>3, UnitsSplit
  <2>3. Units(g, Entries(g)) <= Granted /\ Granted \in Nat
    BY LedgerAssumption DEF LedgerInv, AllowanceHolds
  <2>4. take[g] <= Allowance(g)
    BY <1>1 DEF Split
  <2>5. Allowance(g) = 0 \/ Allowance(g) = SpendableMilli(g)
    BY DEF Allowance
  <2> QED
    BY <2>1, <2>2, <2>3, <2>4, <2>5
<1>16. AllowanceHolds'
  BY <1>15 DEF AllowanceHolds
<1> QED
  BY <1>4, <1>8, <1>9, <1>11, <1>12, <1>13, <1>14, <1>16 DEF LedgerInv

-----------------------------------------------------------------------------
(* The backend answers.                                                    *)
LEMMA SeenByTrue ==
  ASSUME JournalInv, BackendInv, NEW g \in Grants
  PROVE  SeenBy(g) \in Envelope /\ SeenBy(g).sequence = Accepted(g) /\ Accepted(g) \in Int
BY EntriesCount DEF SeenBy, Envelope, BackendInv

LEMMA TopUpKeeps ==
  ASSUME LedgerInv, NEW g \in Grants, BackendTopsUp(g)
  PROVE  LedgerInv'
<1>1. /\ UNCHANGED <<stage, taken, gapped, declared, sales, capability, stored, boundary, finished,
                     denied, recovery, frozen, recoverer, ledgerFaults>>
      /\ answers' = answers \cup {TopUpAnswer(g)}
      /\ IF g \in issued THEN UNCHANGED <<issued, issueRevision>>
         ELSE issued' = issued \cup {g} /\ issueRevision' = issueRevision + 1
  BY DEF BackendTopsUp, evidence, recoveries
<1>2. JournalInv /\ BackendInv /\ EvidenceInv /\ RecoveryTypes /\ RecovererTrue
  BY DEF LedgerInv
<1>3. /\ JournalInv' /\ AllowanceHolds'
      /\ \A h : Entries(h)' = Entries(h) /\ Accepted(h)' = Accepted(h)
  BY <1>1, <1>2, JournalKept DEF LedgerInv
<1>4. \A h \in Grants : Accepted(h) <= Accepted(h)'
  <2>1. \A h \in Grants : Accepted(h) \in Int
    BY <1>2, EntriesCount
  <2> QED
    BY <1>3, <2>1
<1>5. EvidenceInv'
  BY <1>1, <1>2, <1>3, <1>4, EvidenceKept DEF evidence
<1>6. BackendInv' /\ InStage({"released"}) \subseteq InStage({"released"})'
  <2>1. \A S : InStage(S)' = InStage(S)
    BY <1>1 DEF InStage
  <2>2. CASE g \in issued
    BY <2>1, <2>2, <1>1, <1>2 DEF BackendInv
  <2>3. CASE g \notin issued
    <3>1. issued' = issued \cup {g} /\ issueRevision' = issueRevision + 1
      BY <2>3, <1>1
    <3>2. Cardinality(issued') = Cardinality(issued) + 1 /\ Cardinality(issued) \in Nat
      BY <2>3, <3>1, <1>2, IssuedCount, FS_AddElement
    <3>3. /\ Cardinality(InStage({"revocation_pending", "seal_acknowledged", "released"})) \in Nat
          /\ Cardinality(InStage({"seal_acknowledged", "released"})) \in Nat
          /\ Cardinality(InStage({"released"})) \in Nat
      BY StageCount
    <3>4. /\ issueRevision' \in Nat
          /\ issueRevision' <= 1 + Cardinality(issued')
                                + Cardinality(InStage({"revocation_pending", "seal_acknowledged", "released"}))
                                + Cardinality(InStage({"seal_acknowledged", "released"}))
                                + Cardinality(InStage({"released"}))
      BY <3>1, <3>2, <3>3, <1>2 DEF BackendInv
    <3> QED
      BY <2>1, <3>1, <3>4, <1>1, <1>2 DEF BackendInv
  <2> QED
    BY <2>2, <2>3
<1>7. \A h \in Grants : Whole(h) => Whole(h)'
  BY <1>1, <1>2, WholesStay DEF recoveries
<1>8. DeclaredTrue'
  BY <1>1, <1>7, DeclaredKept DEF LedgerInv
<1>9. RecoveryTypes' /\ RecovererTrue'
  BY <1>1, <1>2, <1>7, RecovererKept DEF RecoveryTypes
<1>10. AnswerTrue(TopUpAnswer(g))'
  <2>1. SeenBy(g) \in Envelope /\ SeenBy(g).sequence = Accepted(g) /\ Accepted(g) \in Int
    BY <1>2, SeenByTrue
  <2>2. TopUpAnswer(g)' = TopUpAnswer(g) /\ Accepted(g)' = Accepted(g)
    BY <1>1, <1>3 DEF TopUpAnswer, SeenBy
  <2>3. TopUpAnswer(g).envelope = SeenBy(g) /\ TopUpAnswer(g).kind = "topup" /\ TopUpAnswer(g).grant = g
    BY DEF TopUpAnswer
  <2>4. TopUpAnswer(g).envelope.sequence <= Accepted(TopUpAnswer(g).grant)'
    BY <2>1, <2>2, <2>3
  <2> QED
    BY <2>1, <2>2, <2>3, <2>4 DEF AnswerTrue
<1>11. \A a \in answers' : a \in answers \/ AnswerTrue(a)'
  <2>1. TopUpAnswer(g)' = TopUpAnswer(g)
    BY <1>1, <1>3 DEF TopUpAnswer, SeenBy
  <2> QED
    BY <1>1, <1>10, <2>1
<1>12. AnswersTrue'
  BY <1>2, <1>3, <1>4, <1>6, <1>11, AnswersKept DEF LedgerInv
<1> QED
  BY <1>3, <1>5, <1>6, <1>8, <1>9, <1>12 DEF LedgerInv

LEMMA SnapshotsKeep ==
  ASSUME LedgerInv, BackendSnapshots
  PROVE  LedgerInv'
<1>1. /\ UNCHANGED <<backendVars, sales, evidence, recoveries, recoverer, ledgerFaults>>
      /\ UNCHANGED <<issued, stage, issueRevision, taken, gapped, declared, boundary, recovery, frozen>>
      /\ answers' = answers \cup {Snapshot}
  BY DEF BackendSnapshots, backendVars, evidence, recoveries
<1>2. JournalInv /\ BackendInv /\ EvidenceInv /\ RecoveryTypes /\ RecovererTrue
  BY DEF LedgerInv
<1>3. \A h : Accepted(h)' = Accepted(h)
  BY <1>1, <1>2, JournalKept
<1>4. \A h \in Grants : Whole(h) => Whole(h)'
  BY <1>1, <1>2, WholesStay
<1>5. RecovererTrue'
  BY <1>1, <1>2, <1>4, RecovererKept
<1>6. AnswerTrue(Snapshot)
  <2> DEFINE D == {h \in issued : stage[h] \notin Terminal}
  <2>1. /\ Snapshot.kind = "snapshot" /\ Snapshot.revision = issueRevision
        /\ Snapshot.grants = [g \in D |-> SeenBy(g)]
        /\ Snapshot.markers = {g \in issued : stage[g] \in Terminal}
    BY DEF Snapshot
  <2>2. D \subseteq Grants /\ issued \subseteq Grants
    BY <1>2 DEF BackendInv
  <2>3. Snapshot.markers \subseteq InStage({"released"})
    BY <2>1, <2>2 DEF InStage, Terminal
  <2>4. DOMAIN Snapshot.grants = D /\ \A g \in D : Snapshot.grants[g] = SeenBy(g)
    BY <2>1
  <2>5. \A g \in D : SeenBy(g) \in Envelope /\ SeenBy(g).sequence <= Accepted(g)
    BY <1>2, <2>2, SeenByTrue
  <2>6. issueRevision \in Revisions
    BY <1>2, RevisionBounded
  <2> HIDE DEF D
  <2> QED
    BY <2>1, <2>2, <2>3, <2>4, <2>5, <2>6 DEF AnswerTrue
<1>7. AnswerTrue(Snapshot)'
  <2>1. JournalInv' /\ InStage({"released"})' = InStage({"released"})
    BY <1>1, <1>2, JournalKept DEF InStage
  <2>2. \A h \in Grants : Accepted(h) <= Accepted(h)'
    <3>1. \A h \in Grants : Accepted(h) \in Int
      BY <1>2, EntriesCount
    <3> QED
      BY <1>3, <3>1
  <2>3. AnswerTrue(Snapshot) => AnswerTrue(Snapshot)'
    <3>1. Snapshot' = Snapshot
      BY <1>1, <1>3 DEF Snapshot, SeenBy
    <3> DEFINE s == Snapshot
    <3>2. \A a : AnswerTrue(a) => AnswerTrue(a)'
      BY <1>2, <2>1, <2>2, AnswerStaysTrue
    <3> QED
      BY <3>1, <3>2
  <2> QED
    BY <1>6, <2>3
<1>8. \A a \in answers' : a \in answers \/ AnswerTrue(a)'
  <2>1. Snapshot' = Snapshot
    BY <1>1, <1>3 DEF Snapshot, SeenBy
  <2> QED
    BY <1>1, <1>7, <2>1
<1>9. RecoveryTypes'
  BY <1>1, <1>2 DEF RecoveryTypes
<1> QED
  BY <1>1, <1>5, <1>8, <1>9, RecovererMoves DEF RecoveryTypes


\* The backend takes a sale, or puts it into quarantine.
LEMMA TakesOrGaps ==
  ASSUME JournalInv, NEW i \in DOMAIN sales, BackendTakes(i), sales' = sales
  PROVE  /\ JournalInv' /\ taken \subseteq taken' /\ gapped \subseteq gapped'
         /\ i \in taken' \cup gapped'
         /\ i \notin gapped /\ InOrder(i) => taken' = taken \cup {i}
BY DEF JournalInv, BackendTakes

\* What the backend accepted grows, and nothing else of the journal moves.
LEMMA TakenGrows ==
  ASSUME LedgerInv, JournalInv', taken \subseteq taken', gapped \subseteq gapped',
         UNCHANGED <<issued, stage, issueRevision, declared, sales, evidence, recoveries, ledgerFaults>>,
         RecovererTrue',
         recoverer' \in Recoverers,
         \A a \in answers' : a \in answers \/ AnswerTrue(a)'
  PROVE  LedgerInv'
<1>1. UNCHANGED <<boundary, recovery, frozen>>
  BY DEF evidence, recoveries
<1>2. JournalInv /\ BackendInv /\ EvidenceInv /\ RecoveryTypes
  BY DEF LedgerInv
<1>3. \A g : Entries(g)' = Entries(g) /\ \A i : Place(g, i)' = Place(g, i)
  BY <1>2, JournalStands
<1>4. \A g \in Grants : Accepted(g) <= Accepted(g)'
  BY <1>2, <1>3, AcceptedGrows DEF Grows
<1>5. AllowanceHolds'
  BY <1>3 DEF LedgerInv, AllowanceHolds, Units
<1>6. EvidenceInv'
  BY <1>2, <1>4, EvidenceKept
<1>7. BackendInv' /\ InStage({"released"}) \subseteq InStage({"released"})'
  BY <1>2, BackendKept
<1>8. ASSUME NEW g \in Grants, Whole(g) PROVE Whole(g)'
  <2>1. boundary'[g] \in Int /\ boundary[g] <= boundary'[g]
    BY <1>1, <1>2 DEF EvidenceInv
  <2>2. frozen'[g] = frozen[g] /\ recovery'[g] \notin {"none", "intent"}
    BY <1>1, <1>8 DEF Whole
  <2> QED
    BY <1>2, <1>3, <1>8, <2>1, <2>2, WholeStays
<1>9. DeclaredTrue'
  BY <1>1, <1>8, DeclaredKept DEF LedgerInv
<1>10. AnswersTrue'
  BY <1>2, <1>4, <1>7, AnswersKept DEF LedgerInv
<1>11. RecoveryTypes'
  BY <1>1, <1>2 DEF RecoveryTypes
<1> QED
  BY <1>5, <1>6, <1>7, <1>9, <1>10, <1>11 DEF LedgerInv

\* Where only the accepted sales grow, the request under way stands.
LEMMA RecovererWaits ==
  ASSUME LedgerInv, taken \subseteq taken', gapped \subseteq gapped', recoverer' = recoverer,
         UNCHANGED <<sales, evidence, recoveries>>
  PROVE  RecovererTrue'
<1>1. UNCHANGED <<boundary, recovery, frozen>>
  BY DEF evidence, recoveries
<1>2. JournalInv /\ EvidenceInv /\ RecoveryTypes /\ RecovererTrue
  BY DEF LedgerInv
<1>3. \A g : Entries(g)' = Entries(g) /\ \A i : Place(g, i)' = Place(g, i)
  BY <1>2, JournalStands
<1>4. ASSUME NEW g \in Grants, Whole(g) PROVE Whole(g)'
  <2>1. boundary'[g] \in Int /\ boundary[g] <= boundary'[g]
    BY <1>1, <1>2 DEF EvidenceInv
  <2>2. frozen'[g] = frozen[g] /\ recovery'[g] \notin {"none", "intent"}
    BY <1>1, <1>4 DEF Whole
  <2> QED
    BY <1>2, <1>3, <1>4, <2>1, <2>2, WholeStays
<1> QED
  BY <1>1, <1>2, <1>4, RecovererKept

LEMMA UploadKeeps ==
  ASSUME LedgerInv, NEW i, WorkerUploads(i)
  PROVE  LedgerInv'
<1>1. /\ i \in DOMAIN sales /\ i \notin gapped /\ InOrder(i) /\ BackendTakes(i)
      /\ answers' = answers \cup {[kind |-> "coverage", boundaries |-> CoverageOf(i)]}
      /\ UNCHANGED <<issued, stage, issueRevision, declared, sales, evidence, recoveries, recoverer, ledgerFaults>>
  BY DEF WorkerUploads
<1>2. JournalInv /\ RecoveryTypes
  BY DEF LedgerInv
<1>3. /\ JournalInv' /\ taken \subseteq taken' /\ gapped \subseteq gapped'
      /\ taken' = taken \cup {i}
  BY <1>1, <1>2, TakesOrGaps
<1>4. RecovererTrue'
  BY <1>1, <1>3, RecovererWaits
<1>5. Numbers(CoverageOf(i))'
  <2>1. \A g : Entries(g)' = Entries(g)
    BY <1>1, <1>2, JournalStands
  <2>2. \A g \in Grants : Cardinality(Entries(g) \cap (taken \cup {i})) = Accepted(g)'
    BY <1>3, <2>1 DEF Accepted
  <2>3. CoverageOf(i)' = CoverageOf(i)
    BY <1>3, <2>1 DEF CoverageOf
  <2>4. ASSUME NEW g \in Grants PROVE Accepted(g)' \in Nat
    <3>1. Len(sales') \in Nat /\ DOMAIN sales' = 1 .. Len(sales')
      BY <1>3 DEF JournalInv
    <3>2. Entries(g)' \cap taken' \subseteq 1 .. Len(sales')
      BY <3>1 DEF Entries
    <3> QED
      BY <3>1, <3>2, IntervalCount, FS_Subset, FS_CardinalityType DEF Accepted
  <2>5. /\ DOMAIN CoverageOf(i) \subseteq Grants
        /\ \A g \in DOMAIN CoverageOf(i) : CoverageOf(i)[g] = Accepted(g)'
    BY <2>2 DEF CoverageOf
  <2> QED
    BY <2>3, <2>4, <2>5 DEF Numbers
<1>6. \A a \in answers' : a \in answers \/ AnswerTrue(a)'
  <2>1. CoverageOf(i)' = CoverageOf(i)
    BY <1>1, <1>2, <1>3, JournalStands DEF CoverageOf
  <2> DEFINE told == [kind |-> "coverage", boundaries |-> CoverageOf(i)]
  <2>2. told.kind = "coverage" /\ Numbers(told.boundaries)'
    BY <1>5, <2>1
  <2>3. AnswerTrue(told)'
    BY <2>1, <2>2 DEF AnswerTrue
  <2>4. told' = told
    BY <2>1
  <2> QED
    BY <1>1, <2>3, <2>4
<1>7. recoverer' \in Recoverers
  BY <1>1, <1>2 DEF RecoveryTypes
<1> QED
  BY <1>1, <1>3, <1>4, <1>6, <1>7, TakenGrows

\* The backend moves a grant on; a grant it lets go was declared whole.
LEMMA StageKeeps ==
  ASSUME LedgerInv, NEW g \in Grants, NEW s \in Stage,
         stage' = [stage EXCEPT ![g] = s], issueRevision' = issueRevision + 1,
         UNCHANGED <<issued, taken, gapped, sales, evidence, recoveries, ledgerFaults, answers>>,
         declared' \in [Grants -> -1 .. MaxSales],
         \/ stage[g] = "active" /\ s = "revocation_pending"
         \/ stage[g] = "revocation_pending" /\ s \in {"seal_acknowledged", "released"}
         \/ stage[g] = "seal_acknowledged" /\ s = "released",
         s \in {"seal_acknowledged", "released"} => Whole(g),
         \A h \in Grants : declared'[h] # -1 => Whole(h) /\ declared'[h] = frozen[h],
         recoverer' \in Recoverers,
         RecovererTrue'
  PROVE  LedgerInv'
<1>1. UNCHANGED <<boundary, recovery, frozen>>
  BY DEF evidence, recoveries
<1>2. JournalInv /\ BackendInv /\ EvidenceInv /\ RecoveryTypes /\ DeclaredTrue
  BY DEF LedgerInv
<1>3. JournalInv' /\ AllowanceHolds' /\ \A h : Accepted(h)' = Accepted(h)
  BY <1>2, JournalKept DEF LedgerInv
<1>4. \A h \in Grants : Accepted(h) <= Accepted(h)'
  <2>1. \A h \in Grants : Accepted(h) \in Int
    BY <1>2, EntriesCount
  <2> QED
    BY <1>3, <2>1
<1>5. BackendInv' /\ InStage({"released"}) \subseteq InStage({"released"})'
  BY <1>2, StageMoves
<1>6. EvidenceInv'
  BY <1>2, <1>3, <1>4, EvidenceKept
<1>7. \A h \in Grants : Whole(h) => Whole(h)'
  BY <1>1, <1>2, WholesStay
<1>8. DeclaredTrue'
  <2>1. \A h \in Grants : stage'[h] \in {"seal_acknowledged", "released"} => Whole(h)
    BY <1>2 DEF DeclaredTrue, BackendInv
  <2> QED
    BY <1>1, <1>7, <2>1 DEF DeclaredTrue
<1>9. AnswersTrue'
  BY <1>2, <1>3, <1>4, <1>5, AnswersKept DEF LedgerInv
<1>10. RecoveryTypes'
  BY <1>1, <1>2 DEF RecoveryTypes
<1> QED
  BY <1>3, <1>5, <1>6, <1>8, <1>9, <1>10 DEF LedgerInv

LEMMA ReleaseKeeps ==
  ASSUME LedgerInv, NEW g \in Grants, BackendReleases(g)
  PROVE  LedgerInv'
<1>1. /\ stage[g] = "seal_acknowledged" /\ stage' = [stage EXCEPT ![g] = "released"]
      /\ issueRevision' = issueRevision + 1
      /\ UNCHANGED <<issued, taken, gapped, declared, sales, evidence, recoveries, recoverer, answers, ledgerFaults>>
  BY DEF BackendReleases
<1>2. BackendInv /\ RecoveryTypes /\ DeclaredTrue
  BY DEF LedgerInv
<1>3. RecovererTrue'
  BY <1>1, RecovererWaits
<1>4. Whole(g)
  BY <1>1, <1>2 DEF DeclaredTrue
<1>5. declared' \in [Grants -> -1 .. MaxSales]
  BY <1>1, <1>2 DEF BackendInv
<1>6. \A h \in Grants : declared'[h] # -1 => Whole(h) /\ declared'[h] = frozen[h]
  BY <1>1, <1>2 DEF DeclaredTrue
<1>7. recoverer' \in Recoverers
  BY <1>1, <1>2 DEF RecoveryTypes
<1>8. "released" \in Stage
  BY DEF Stage
<1> QED
  BY <1>1, <1>3, <1>4, <1>5, <1>6, <1>7, <1>8, StageKeeps

-----------------------------------------------------------------------------
(* Evidence arrives.                                                       *)

\* It raises boundaries, and puts no declaration back.
LEMMA RaisedStay ==
  ASSUME LedgerInv, UNCHANGED <<sales, taken, gapped, frozen>>,
         \A g \in Grants : boundary'[g] \in Int /\ boundary[g] <= boundary'[g],
         \A g \in Grants : recovery[g] \notin {"none", "intent"} => recovery'[g] \notin {"none", "intent"}
  PROVE  \A g \in Grants : Whole(g) => Whole(g)' /\ frozen'[g] = frozen[g]
<1>1. JournalInv /\ EvidenceInv
  BY DEF LedgerInv
<1>2. \A g : Entries(g)' = Entries(g) /\ \A i : Place(g, i)' = Place(g, i)
  BY <1>1, JournalStands
<1>3. ASSUME NEW g \in Grants, Whole(g) PROVE Whole(g)'
  <2>1. recovery'[g] \notin {"none", "intent"}
    BY <1>3 DEF Whole
  <2> QED
    BY <1>1, <1>2, <1>3, <2>1, WholeStays
<1> QED
  BY <1>3

LEMMA CoverageKeeps ==
  ASSUME LedgerInv, NEW a, CoverageArrives(a)
  PROVE  LedgerInv'
<1>1. /\ a \in answers /\ a.kind = "coverage" /\ answers' = answers \ {a}
      /\ ApplyCoverage(a.boundaries, KnownGrants, {})
      /\ UNCHANGED <<backendVars, sales, capability, stored, finished, recoveries, recoverer, ledgerFaults>>
      /\ UNCHANGED <<taken, gapped, recovery, frozen>>
  BY DEF CoverageArrives, backendVars, recoveries
<1>2. JournalInv /\ EvidenceInv /\ RecoveryTypes /\ RecovererTrue
  BY DEF LedgerInv
<1>3. Numbers(a.boundaries)
  BY <1>1 DEF LedgerInv, AnswersTrue, AnswerTrue
<1>4. /\ denied' = {} /\ boundary' \in [Grants -> -1 .. MaxSales]
      /\ \A g \in Grants : boundary[g] <= boundary'[g] /\ boundary'[g] <= Accepted(g)
  BY <1>1, <1>2, <1>3, CoverageRaises
<1>5. \A g \in Grants : boundary'[g] \in Int
  BY <1>4
<1>6. EvidenceInv'
  <2>1. \A g : Accepted(g)' = Accepted(g)
    BY <1>1, <1>2, JournalKept
  <2> QED
    BY <1>1, <1>2, <1>4, <2>1 DEF EvidenceInv
<1>7. \A g \in Grants : Whole(g) => Whole(g)' /\ frozen'[g] = frozen[g]
  BY <1>1, <1>4, <1>5, RaisedStay
<1>8. RecovererTrue'
  BY <1>1, <1>2, <1>7, RecovererKept
<1>9. RecoveryTypes'
  BY <1>1, <1>2 DEF RecoveryTypes
<1> QED
  BY <1>1, <1>6, <1>7, <1>8, <1>9, TillMoves


\* The till's evidence and recoveries move, the rest stands.
LEMMA EvidenceMoves ==
  ASSUME LedgerInv, UNCHANGED <<backendVars, sales, frozen, recoverer, ledgerFaults>>,
         answers' \subseteq answers,
         capability' \in Revisions, stored' \in [Grants -> Stored], finished' \in SUBSET Grants,
         denied' = {}, boundary' \in [Grants -> -1 .. MaxSales],
         \A g \in Grants : boundary[g] <= boundary'[g] /\ boundary'[g] <= Accepted(g),
         recovery' \in [Grants -> {"none", "intent", "sealed", "acknowledged", "terminal", "conflict"}],
         \A g \in Grants : /\ recovery[g] = "intent" => recovery'[g] = "intent"
                           /\ recovery[g] \notin {"none", "intent"} => recovery'[g] \notin {"none", "intent"}
  PROVE  LedgerInv'
<1>1. UNCHANGED <<taken, gapped>>
  BY DEF backendVars
<1>2. JournalInv /\ EvidenceInv /\ RecoveryTypes /\ RecovererTrue
  BY DEF LedgerInv
<1>3. \A g \in Grants : boundary'[g] \in Int
  OBVIOUS
<1>4. EvidenceInv'
  <2>1. \A g : Accepted(g)' = Accepted(g)
    BY <1>1, <1>2, JournalKept
  <2> QED
    BY <2>1 DEF EvidenceInv
<1>5. \A g \in Grants : Whole(g) => Whole(g)' /\ frozen'[g] = frozen[g]
  BY <1>1, <1>3, RaisedStay
<1>6. RecovererTrue'
  BY <1>1, <1>2, <1>5, RecovererKept
<1>7. RecoveryTypes'
  BY <1>2 DEF RecoveryTypes
<1> QED
  BY <1>4, <1>5, <1>6, <1>7, TillMoves

LEMMA IngestKeeps ==
  ASSUME LedgerInv, NEW a, IngestTopUp(a)
  PROVE  LedgerInv'
<1> DEFINE g == a.grant
           e == a.envelope
<1>1. /\ a \in answers /\ a.kind = "topup" /\ answers' = answers \ {a}
      /\ IF capability # 0 /\ (g \in KnownGrants => Consistent(g, e))
           THEN /\ stored' = [stored EXCEPT ![g] =
                     IF g \in KnownGrants THEN [@ EXCEPT !.sequence = e.sequence]
                     ELSE [observed |-> capability, status |-> e.status,
                           sequence |-> e.sequence, source |-> "incremental"]]
                /\ ApplyCoverage([h \in {g} |-> e.sequence], KnownGrants \cup {g}, {})
           ELSE UNCHANGED <<stored, boundary, denied>>
      /\ UNCHANGED <<backendVars, sales, capability, finished, recoveries, recoverer, ledgerFaults>>
      /\ UNCHANGED <<recovery, frozen>>
  BY DEF IngestTopUp, recoveries
<1>2. JournalInv /\ EvidenceInv /\ RecoveryTypes
  BY DEF LedgerInv
<1>3. g \in Grants /\ e \in Envelope /\ e.sequence <= Accepted(g)
  BY <1>1 DEF LedgerInv, AnswersTrue, AnswerTrue
<1>4. /\ stored \in [Grants -> Stored] /\ capability \in Revisions /\ finished \in SUBSET Grants
      /\ denied = {} /\ boundary \in [Grants -> -1 .. MaxSales]
      /\ \A h \in Grants : boundary[h] <= Accepted(h)
  BY <1>2 DEF EvidenceInv
<1>5. e.status \in Stage /\ e.sequence \in 0 .. MaxSales
  BY <1>3 DEF Envelope
<1>6. stored' \in [Grants -> Stored]
  <2>1. stored[g] \in Stored
    BY <1>3, <1>4
  <2>2. [stored[g] EXCEPT !.sequence = e.sequence] \in Stored
    BY <2>1, <1>5 DEF Stored
  <2>3. [observed |-> capability, status |-> e.status,
         sequence |-> e.sequence, source |-> "incremental"] \in Stored
    BY <1>4, <1>5 DEF Stored
  <2>4. CASE UNCHANGED stored
    BY <2>4, <1>4
  <2>5. CASE stored' = [stored EXCEPT ![g] =
                     IF g \in KnownGrants THEN [@ EXCEPT !.sequence = e.sequence]
                     ELSE [observed |-> capability, status |-> e.status,
                           sequence |-> e.sequence, source |-> "incremental"]]
    BY <2>2, <2>3, <2>5, <1>3, <1>4
  <2> QED
    BY <2>4, <2>5, <1>1
<1>7. /\ denied' = {} /\ boundary' \in [Grants -> -1 .. MaxSales]
      /\ \A h \in Grants : boundary[h] <= boundary'[h] /\ boundary'[h] <= Accepted(h)
  <2>1. CASE UNCHANGED <<boundary, denied>>
    <3>1. \A h \in Grants : boundary[h] \in Int
      BY <1>4
    <3> QED
      BY <2>1, <3>1, <1>4
  <2>2. CASE ApplyCoverage([h \in {g} |-> e.sequence], KnownGrants \cup {g}, {})
    <3> DEFINE f == [h \in {g} |-> e.sequence]
    <3>1. Numbers(f)
      BY <1>3, <1>5 DEF Numbers
    <3> HIDE DEF f
    <3>2. ApplyCoverage(f, KnownGrants \cup {g}, {})
      BY <2>2 DEF f
    <3> QED
      BY <3>1, <3>2, <1>2, CoverageRaises
  <2> QED
    BY <2>1, <2>2, <1>1
<1>8. recovery' \in [Grants -> {"none", "intent", "sealed", "acknowledged", "terminal", "conflict"}]
  BY <1>1, <1>2 DEF RecoveryTypes
<1> QED
  BY <1>1, <1>4, <1>6, <1>7, <1>8, EvidenceMoves

\* A grant the backend has let go is whole, so its marker contradicts nothing.
LEMMA MarkersAgree ==
  ASSUME LedgerInv, NEW markers, markers \subseteq InStage({"released"})
  PROVE  Contradicted(markers) = {}
<1> SUFFICES ASSUME NEW g \in markers PROVE Entries(g) \ Covered(g) = {}
  BY DEF Contradicted
<1>1. g \in Grants /\ stage[g] = "released"
  BY DEF InStage
<1>2. Whole(g)
  BY <1>1 DEF LedgerInv, DeclaredTrue
<1> QED
  BY <1>2 DEF Whole, Covered

LEMMA InstallKeeps ==
  ASSUME LedgerInv, NEW a, InstallSnapshot(a)
  PROVE  LedgerInv'
<1> DEFINE D == DOMAIN a.grants
           repeated == [g \in Grants |-> IF g \in D
                          THEN [stored[g] EXCEPT !.source = "bootstrap",
                                                 !.sequence = a.grants[g].sequence]
                          ELSE stored[g]]
           superseded == [g \in Grants |-> IF g \in D
                            THEN [observed |-> a.revision, source |-> "bootstrap",
                                  status |-> a.grants[g].status,
                                  sequence |-> a.grants[g].sequence]
                            ELSE stored[g]]
<1>1. /\ a \in answers /\ a.kind = "snapshot" /\ answers' = answers \ {a}
      /\ \/ stored' = repeated /\ Reconcile(a) /\ UNCHANGED capability
         \/ stored' = superseded /\ Reconcile(a) /\ capability' = a.revision
         \/ UNCHANGED <<evidence, recovery>>
      /\ UNCHANGED <<backendVars, sales, frozen, recoverer, ledgerFaults>>
  BY DEF InstallSnapshot
<1>2. JournalInv /\ EvidenceInv /\ RecoveryTypes
  BY DEF LedgerInv
<1>3. /\ a.revision \in Revisions /\ D \subseteq Grants
      /\ \A g \in D : a.grants[g] \in Envelope /\ a.grants[g].sequence <= Accepted(g)
      /\ a.markers \subseteq InStage({"released"})
  BY <1>1 DEF LedgerInv, AnswersTrue, AnswerTrue
<1>4. \A g \in D : a.grants[g].status \in Stage /\ a.grants[g].sequence \in 0 .. MaxSales
  BY <1>3 DEF Envelope
<1>5. /\ stored \in [Grants -> Stored] /\ capability \in Revisions /\ finished \in SUBSET Grants
      /\ denied = {} /\ boundary \in [Grants -> -1 .. MaxSales]
      /\ \A h \in Grants : boundary[h] <= Accepted(h)
  BY <1>2 DEF EvidenceInv
<1>6. repeated \in [Grants -> Stored]
  <2>1. ASSUME NEW g \in Grants, g \in D
        PROVE  [stored[g] EXCEPT !.source = "bootstrap", !.sequence = a.grants[g].sequence] \in Stored
    <3>1. stored[g] \in Stored
      BY <1>5
    <3> QED
      BY <3>1, <2>1, <1>4 DEF Stored
  <2> QED
    BY <2>1, <1>5
<1>7. superseded \in [Grants -> Stored]
  <2>1. ASSUME NEW g \in Grants, g \in D
        PROVE  [observed |-> a.revision, source |-> "bootstrap", status |-> a.grants[g].status,
                sequence |-> a.grants[g].sequence] \in Stored
    BY <2>1, <1>3, <1>4 DEF Stored
  <2> QED
    BY <2>1, <1>5
<1> HIDE DEF repeated, superseded
<1>8. ASSUME Reconcile(a)
      PROVE  /\ finished' \in SUBSET Grants
             /\ denied' = {} /\ boundary' \in [Grants -> -1 .. MaxSales]
             /\ \A h \in Grants : boundary[h] <= boundary'[h] /\ boundary'[h] <= Accepted(h)
             /\ \/ UNCHANGED recovery
                \/ recovery' = [g \in Grants |->
                     IF g \in a.markers /\ recovery[g] \in {"sealed", "acknowledged"}
                       THEN "terminal" ELSE recovery[g]]
  <2>1. CASE D = {}
    <3>1. UNCHANGED <<boundary, finished, denied, recovery>>
      BY <1>8, <2>1 DEF Reconcile
    <3>2. \A h \in Grants : boundary[h] \in Int
      BY <1>5
    <3> QED
      BY <3>1, <3>2, <1>5
  <2>2. CASE D # {}
    <3> DEFINE f == [g \in D |-> a.grants[g].sequence]
               named == KnownGrants \cup D
               contradicted == Contradicted(a.markers)
    <3>1. /\ finished' = finished \cup a.markers
          /\ recovery' = [g \in Grants |->
               IF g \in a.markers /\ recovery[g] \in {"sealed", "acknowledged"}
                 THEN "terminal" ELSE recovery[g]]
          /\ ApplyCoverage(f, named, contradicted)
      BY <1>8, <2>2 DEF Reconcile
    <3>2. contradicted = {}
      BY <1>3, MarkersAgree
    <3>3. Numbers(f)
      BY <1>3, <1>4 DEF Numbers
    <3>4. finished' \in SUBSET Grants
      BY <3>1, <1>3, <1>5 DEF InStage
    <3> HIDE DEF f, named, contradicted
    <3>5. /\ denied' = {} /\ boundary' \in [Grants -> -1 .. MaxSales]
          /\ \A h \in Grants : boundary[h] <= boundary'[h] /\ boundary'[h] <= Accepted(h)
      BY <3>1, <3>2, <3>3, <1>2, CoverageRaises
    <3> QED
      BY <3>1, <3>4, <3>5
  <2> QED
    BY <2>1, <2>2
<1>9. ASSUME Reconcile(a)
      PROVE  /\ recovery' \in [Grants -> {"none", "intent", "sealed", "acknowledged", "terminal", "conflict"}]
             /\ \A g \in Grants : /\ recovery[g] = "intent" => recovery'[g] = "intent"
                                  /\ recovery[g] \notin {"none", "intent"} => recovery'[g] \notin {"none", "intent"}
  <2>1. recovery \in [Grants -> {"none", "intent", "sealed", "acknowledged", "terminal", "conflict"}]
    BY <1>2 DEF RecoveryTypes
  <2>2. CASE UNCHANGED recovery
    BY <2>1, <2>2
  <2>3. CASE recovery' = [g \in Grants |->
               IF g \in a.markers /\ recovery[g] \in {"sealed", "acknowledged"}
                 THEN "terminal" ELSE recovery[g]]
    BY <2>1, <2>3
  <2> QED
    BY <2>2, <2>3, <1>8, <1>9
<1>10. CASE stored' = repeated /\ Reconcile(a) /\ UNCHANGED capability
  <2>1. stored' \in [Grants -> Stored] /\ capability' \in Revisions
    BY <1>10, <1>5, <1>6
  <2> QED
    BY <2>1, <1>1, <1>8, <1>9, <1>10, EvidenceMoves
<1>11. CASE stored' = superseded /\ Reconcile(a) /\ capability' = a.revision
  <2>1. stored' \in [Grants -> Stored] /\ capability' \in Revisions
    BY <1>11, <1>3, <1>7
  <2> QED
    BY <2>1, <1>1, <1>8, <1>9, <1>11, EvidenceMoves
<1>12. CASE UNCHANGED <<evidence, recovery>>
  <2>1. UNCHANGED <<capability, stored, boundary, finished, denied>>
    BY <1>12 DEF evidence
  <2>2. \A h \in Grants : boundary[h] \in Int
    BY <1>5
  <2>3. \A h \in Grants : boundary[h] <= boundary'[h] /\ boundary'[h] <= Accepted(h)
    BY <2>1, <2>2, <1>5
  <2>4. recovery' \in [Grants -> {"none", "intent", "sealed", "acknowledged", "terminal", "conflict"}]
    BY <1>12, <1>2 DEF RecoveryTypes
  <2> QED
    BY <2>1, <2>3, <2>4, <1>1, <1>5, <1>12, EvidenceMoves
<1> QED
  BY <1>1, <1>10, <1>11, <1>12


-----------------------------------------------------------------------------
(* Recovery goes on.                                                       *)
\* What is left of a journal to send is part of it.
LEMMA JournalIsBounded ==
  ASSUME JournalInv
  PROVE  DOMAIN sales \subseteq 1 .. MaxSales
<1>1. Len(sales) \in Nat /\ Len(sales) <= MaxSales /\ DOMAIN sales = 1 .. Len(sales)
  BY DEF JournalInv
<1> QED
  BY <1>1, LedgerAssumption

\* Everything under way is dropped.
LEMMA RestKeeps ==
  ASSUME LedgerInv, UNCHANGED <<backendVars, sales, evidence, recoveries>>,
         recoverer' = Resting, answers' \subseteq answers, ledgerFaults' \in 0 .. MaxFaults
  PROVE  LedgerInv'
<1>1. RecovererTrue'
  BY RestingTrue DEF RecovererTrue
<1> QED
  BY <1>1, RestingTrue, RecovererMoves

\* The request goes from place to place.
LEMMA StepsOn ==
  ASSUME LedgerInv, UNCHANGED <<backendVars, sales, evidence, recoveries, answers, ledgerFaults>>,
         RecovererTrue', recoverer' \in Recoverers
  PROVE  LedgerInv'
<1>1. ledgerFaults' \in 0 .. MaxFaults
  BY DEF LedgerInv, RecoveryTypes
<1> QED
  BY <1>1, RecovererMoves

LEMMA DropsKeep ==
  ASSUME LedgerInv, AnswerLost \/ RequestFails \/ TillCrashes \/ AdvanceEnds
  PROVE  LedgerInv'
<1>1. ledgerFaults \in 0 .. MaxFaults /\ MaxFaults \in Nat
  BY LedgerAssumption DEF LedgerInv, RecoveryTypes
<1>2. CASE AnswerLost
  <2>1. /\ UNCHANGED <<backendVars, sales, evidence, recoveries, recoverer>>
        /\ UNCHANGED <<taken, gapped>>
        /\ answers' \subseteq answers /\ ledgerFaults' \in 0 .. MaxFaults
    BY <1>1, <1>2 DEF AnswerLost, backendVars
  <2>2. RecovererTrue'
    BY <2>1, RecovererWaits
  <2>3. recoverer' \in Recoverers
    BY <2>1 DEF LedgerInv, RecoveryTypes, Recoverers
  <2> QED
    BY <2>1, <2>2, <2>3, RecovererMoves
<1>3. CASE RequestFails
  <2>1. /\ UNCHANGED <<backendVars, sales, evidence, recoveries, answers>> /\ recoverer' = Resting
        /\ ledgerFaults' \in 0 .. MaxFaults
    BY <1>1, <1>3 DEF RequestFails
  <2> QED
    BY <2>1, RestKeeps
<1>4. CASE TillCrashes
  <2>1. /\ UNCHANGED <<backendVars, sales, evidence, recoveries>> /\ recoverer' = Resting
        /\ answers' = {} /\ ledgerFaults' \in 0 .. MaxFaults
    BY <1>1, <1>4 DEF TillCrashes
  <2> QED
    BY <2>1, RestKeeps
<1>5. CASE AdvanceEnds
  <2>1. /\ UNCHANGED <<backendVars, sales, evidence, recoveries, answers, ledgerFaults>>
        /\ recoverer' = Resting
    BY <1>5 DEF AdvanceEnds
  <2> QED
    BY <2>1, <1>1, RestKeeps
<1> QED
  BY <1>2, <1>3, <1>4, <1>5

LEMMA AdvanceKeeps ==
  ASSUME LedgerInv, NEW g \in Grants, Advance(g)
  PROVE  LedgerInv'
<1>1. /\ recovery[g] \in {"intent", "sealed"}
      /\ recoverer' = [at |-> IF recovery[g] = "intent" THEN "sealing" ELSE "replaying",
                       grant |-> g, sale |-> 0, todo |-> Unresolved(g)]
      /\ UNCHANGED <<backendVars, sales, evidence, recoveries, answers, ledgerFaults>>
  BY DEF Advance
<1>2. JournalInv
  BY DEF LedgerInv
<1>3. Unresolved(g) \subseteq DOMAIN sales
  BY DEF Unresolved, Entries
<1>4. Unresolved(g) \subseteq 1 .. MaxSales
  BY <1>2, <1>3, JournalIsBounded
<1>5. recoverer' \in Recoverers
  BY <1>1, <1>4, LedgerAssumption DEF Recoverers
<1>6. RecovererTrue'
  BY <1>1, <1>3 DEF RecovererTrue, recoveries
<1> QED
  BY <1>1, <1>5, <1>6, StepsOn

LEMMA ReplayKeeps ==
  ASSUME LedgerInv, Replay
  PROVE  LedgerInv'
<1> DEFINE i == Min(recoverer.todo)
<1>1. /\ recoverer.at = "replaying" /\ recoverer.todo # {}
      /\ recoverer' = [recoverer EXCEPT !.at = "uploading", !.sale = i, !.todo = @ \ {i}]
      /\ UNCHANGED <<backendVars, sales, evidence, recoveries, answers, ledgerFaults>>
  BY DEF Replay, At
<1>2. JournalInv /\ RecoveryTypes /\ RecovererTrue
  BY DEF LedgerInv
<1>3. recoverer \in Recoverers
  BY <1>2 DEF RecoveryTypes
<1>4. i \in recoverer.todo
  <2>1. recoverer.todo \subseteq Nat
    BY <1>3 DEF Recoverers
  <2> QED
    BY <1>1, <2>1, MinIn
<1>5. i \in DOMAIN sales /\ i \in 0 .. MaxSales
  BY <1>2, <1>4, JournalIsBounded DEF RecovererTrue
<1> HIDE DEF i
<1>6. /\ recoverer'.at = "uploading" /\ recoverer'.grant = recoverer.grant /\ recoverer'.sale = i
      /\ recoverer'.todo = recoverer.todo \ {i}
  BY <1>1, <1>3 DEF Recoverers
<1>7. recoverer' \in Recoverers
  BY <1>1, <1>3, <1>5 DEF Recoverers
<1>8. RecovererTrue'
  BY <1>1, <1>2, <1>5, <1>6 DEF RecovererTrue, recoveries
<1> QED
  BY <1>1, <1>7, <1>8, StepsOn

\* What is declared complete is whole.
LEMMA CompleteIsWhole ==
  ASSUME JournalInv, EvidenceInv, NEW g \in Grants, DeclarationComplete(g)
  PROVE  Whole(g)
<1>1. recovery[g] = "sealed" /\ Unresolved(g) = {} /\ Cardinality(Entries(g)) = frozen[g]
  BY DEF DeclarationComplete
<1>2. ASSUME NEW i \in Entries(g) PROVE Place(g, i) <= boundary[g]
  <2>1. {j \in Entries(g) : j <= i} \subseteq Entries(g)
    OBVIOUS
  <2>2. Place(g, i) \in Nat /\ Place(g, i) <= frozen[g]
    BY <1>1, <2>1, EntriesCount, FS_Subset, FS_CardinalityType DEF Place
  <2>3. ~(Place(g, i) > boundary[g])
    BY <1>1, <2>2 DEF Unresolved
  <2>4. boundary[g] \in Int
    BY DEF EvidenceInv
  <2> QED
    BY <2>2, <2>3, <2>4
<1> QED
  BY <1>1, <1>2 DEF Whole

LEMMA AcknowledgeKeeps ==
  ASSUME LedgerInv, Acknowledge
  PROVE  LedgerInv'
<1>1. /\ DeclarationComplete(recoverer.grant) /\ recoverer.todo = {}
      /\ recoverer' = [recoverer EXCEPT !.at = "acknowledging"]
      /\ UNCHANGED <<backendVars, sales, evidence, recoveries, answers, ledgerFaults>>
  BY DEF Acknowledge, Goto
<1>2. JournalInv /\ EvidenceInv /\ RecoveryTypes /\ RecovererTrue
  BY DEF LedgerInv
<1>3. recoverer \in Recoverers
  BY <1>2 DEF RecoveryTypes
<1>4. recoverer' \in Recoverers
  BY <1>1, <1>3 DEF Recoverers
<1>5. /\ recoverer'.at = "acknowledging" /\ recoverer'.grant = recoverer.grant
      /\ recoverer'.todo = {}
  BY <1>1, <1>3 DEF Recoverers
<1>6. Whole(recoverer.grant)
  BY <1>1, <1>2, <1>3, CompleteIsWhole DEF Recoverers
<1>7. Whole(recoverer.grant)'
  <2>1. UNCHANGED <<taken, gapped, boundary>>
    BY <1>1 DEF backendVars, evidence
  <2>2. \A g \in Grants : Whole(g) => Whole(g)'
    BY <1>1, <1>2, <2>1, WholesStay
  <2>3. recoverer.grant \in Grants
    BY <1>3 DEF Recoverers
  <2>4. Whole(recoverer'.grant) => Whole(recoverer.grant)'
    BY <1>5, <2>2, <2>3 DEF Whole
  <2> QED
    BY <1>5, <1>6, <2>4
<1>8. RecovererTrue'
  BY <1>5, <1>7 DEF RecovererTrue
<1> QED
  BY <1>1, <1>4, <1>8, StepsOn


LEMMA BeginKeeps ==
  ASSUME LedgerInv, NEW g \in Grants, BeginIntent(g)
  PROVE  LedgerInv'
<1>1. /\ recovery[g] = "none" /\ recovery' = [recovery EXCEPT ![g] = "intent"]
      /\ UNCHANGED <<backendVars, sales, evidence, frozen, recoverer, answers, ledgerFaults>>
      /\ UNCHANGED <<capability, stored, finished, denied, boundary>>
  BY DEF BeginIntent, evidence
<1>2. /\ capability \in Revisions /\ stored \in [Grants -> Stored] /\ finished \in SUBSET Grants
      /\ denied = {} /\ boundary \in [Grants -> -1 .. MaxSales]
      /\ \A h \in Grants : boundary[h] <= Accepted(h)
  BY DEF LedgerInv, EvidenceInv
<1>3. recovery \in [Grants -> {"none", "intent", "sealed", "acknowledged", "terminal", "conflict"}]
  BY DEF LedgerInv, RecoveryTypes
<1>4. /\ recovery' \in [Grants -> {"none", "intent", "sealed", "acknowledged", "terminal", "conflict"}]
      /\ \A h \in Grants : /\ recovery[h] = "intent" => recovery'[h] = "intent"
                           /\ recovery[h] \notin {"none", "intent"} => recovery'[h] \notin {"none", "intent"}
  BY <1>1, <1>3
<1>5. \A h \in Grants : boundary[h] \in Int
  BY <1>2
<1>6. \A h \in Grants : boundary[h] <= boundary'[h] /\ boundary'[h] <= Accepted(h)
  BY <1>1, <1>2, <1>5
<1> QED
  BY <1>1, <1>2, <1>4, <1>6, EvidenceMoves

LEMMA SealKeeps ==
  ASSUME LedgerInv, BackendSeals
  PROVE  LedgerInv'
<1> DEFINE g == recoverer.grant
<1>1. /\ recoverer.at = "sealing"
      /\ IF stage[g] = "active"
           THEN /\ stage' = [stage EXCEPT ![g] = "revocation_pending"]
                /\ issueRevision' = issueRevision + 1
           ELSE UNCHANGED <<stage, issueRevision>>
      /\ recoverer' = [recoverer EXCEPT !.at = "sealed"]
      /\ UNCHANGED <<issued, taken, gapped, declared, sales, evidence, recoveries, answers, ledgerFaults>>
  BY DEF BackendSeals, At, Goto
<1>2. BackendInv /\ RecoveryTypes /\ RecovererTrue /\ DeclaredTrue
  BY DEF LedgerInv
<1>3. recoverer \in Recoverers
  BY <1>2 DEF RecoveryTypes
<1>4. recoverer' \in Recoverers
  BY <1>1, <1>3 DEF Recoverers
<1>5. /\ recoverer'.at = "sealed" /\ recoverer'.grant = g /\ recoverer'.todo = recoverer.todo
      /\ g \in Grants
  BY <1>1, <1>3 DEF Recoverers
<1>6. RecovererTrue'
  BY <1>1, <1>2, <1>5 DEF RecovererTrue, recoveries
<1> HIDE DEF g
<1>7. CASE stage[g] = "active"
  <2>1. "revocation_pending" \in Stage
    BY DEF Stage
  <2>2. declared' \in [Grants -> -1 .. MaxSales]
    BY <1>1, <1>2 DEF BackendInv
  <2>3. \A h \in Grants : declared'[h] # -1 => Whole(h) /\ declared'[h] = frozen[h]
    BY <1>1, <1>2 DEF DeclaredTrue
  <2> QED
    BY <1>1, <1>4, <1>5, <1>6, <1>7, <2>1, <2>2, <2>3, StageKeeps
<1>8. CASE stage[g] # "active"
  <2>1. UNCHANGED <<backendVars, sales, evidence, recoveries, answers, ledgerFaults>>
    BY <1>1, <1>8 DEF backendVars
  <2> QED
    BY <2>1, <1>4, <1>6, StepsOn
<1> QED
  BY <1>7, <1>8

LEMMA FreezeKeeps ==
  ASSUME LedgerInv, FreezeDeclaration
  PROVE  LedgerInv'
<1> DEFINE g == recoverer.grant
<1>1. /\ recoverer.at = "sealed"
      /\ stored' = [stored EXCEPT ![g].status = "revocation_pending"]
      /\ recovery' = [recovery EXCEPT ![g] = "sealed"]
      /\ frozen' = [frozen EXCEPT ![g] = Cardinality(Entries(g))]
      /\ recoverer' = [recoverer EXCEPT !.at = "replaying", !.todo = Entries(g) \ Covered(g)]
      /\ UNCHANGED <<backendVars, sales, capability, boundary, finished, denied, answers, ledgerFaults>>
      /\ UNCHANGED <<taken, gapped>>
  BY DEF FreezeDeclaration, At, backendVars
<1>2. JournalInv /\ EvidenceInv /\ RecoveryTypes /\ RecovererTrue
  BY DEF LedgerInv
<1>3. recoverer \in Recoverers /\ g \in Grants
  BY <1>2 DEF RecoveryTypes, Recoverers
<1>4. recovery[g] = "intent"
  BY <1>1, <1>2 DEF RecovererTrue
<1>5. Entries(g) \subseteq DOMAIN sales /\ Entries(g) \subseteq 1 .. MaxSales
  <2>1. Entries(g) \subseteq DOMAIN sales
    BY DEF Entries
  <2> QED
    BY <2>1, <1>2, JournalIsBounded
<1>6. Cardinality(Entries(g)) \in 0 .. MaxSales
  BY <1>2, EntriesCount
<1>7. recoverer' \in Recoverers
  BY <1>1, <1>3, <1>5 DEF Recoverers
<1>8. /\ recoverer'.at = "replaying" /\ recoverer'.grant = g
      /\ recoverer'.todo = Entries(g) \ Covered(g)
  BY <1>1, <1>3 DEF Recoverers
<1> HIDE DEF g
<1>9. /\ recovery \in [Grants -> {"none", "intent", "sealed", "acknowledged", "terminal", "conflict"}]
      /\ frozen \in [Grants -> 0 .. MaxSales] /\ ledgerFaults \in 0 .. MaxFaults
  BY <1>2 DEF RecoveryTypes
<1>10. RecoveryTypes'
  <2>1. recovery' \in [Grants -> {"none", "intent", "sealed", "acknowledged", "terminal", "conflict"}]
    BY <1>1, <1>9
  <2>2. frozen' \in [Grants -> 0 .. MaxSales]
    BY <1>1, <1>6, <1>9
  <2> QED
    BY <2>1, <2>2, <1>1, <1>7, <1>9 DEF RecoveryTypes
<1>11. recovery'[g] = "sealed"
  BY <1>1, <1>3, <1>9
<1>12. RecovererTrue'
  BY <1>1, <1>5, <1>8, <1>11 DEF RecovererTrue
<1>13. ASSUME NEW h \in Grants, Whole(h) PROVE Whole(h)' /\ frozen'[h] = frozen[h]
  <2>1. h # g
    BY <1>4, <1>13 DEF Whole
  <2>2. frozen'[h] = frozen[h] /\ recovery'[h] = recovery[h]
    BY <2>1, <1>1, <1>9
  <2>3. boundary'[h] \in Int /\ boundary[h] <= boundary'[h]
    BY <1>1, <1>2 DEF EvidenceInv
  <2>4. recovery'[h] \notin {"none", "intent"}
    BY <2>2, <1>13 DEF Whole
  <2>5. Entries(h)' = Entries(h) /\ \A i : Place(h, i)' = Place(h, i)
    BY <1>1, <1>2, JournalStands
  <2> QED
    BY <1>2, <1>13, <2>2, <2>3, <2>4, <2>5, WholeStays
<1>14. EvidenceInv'
  <2>1. \A h : Accepted(h)' = Accepted(h)
    BY <1>1, <1>2, JournalKept
  <2>2. stored' \in [Grants -> Stored]
    <3>1. stored \in [Grants -> Stored] /\ stored[g] \in Stored
      BY <1>2, <1>3 DEF EvidenceInv
    <3>2. [stored[g] EXCEPT !.status = "revocation_pending"] \in Stored
      BY <3>1 DEF Stored, Stage
    <3> QED
      BY <3>1, <3>2, <1>1, <1>3
  <2> QED
    BY <2>1, <2>2, <1>1, <1>2 DEF EvidenceInv
<1> QED
  BY <1>1, <1>10, <1>12, <1>13, <1>14, TillMoves

LEMMA TakesReplayKeeps ==
  ASSUME LedgerInv, BackendTakesReplay
  PROVE  LedgerInv'
<1>1. /\ recoverer.at = "uploading" /\ BackendTakes(recoverer.sale)
      /\ recoverer' = [recoverer EXCEPT !.at = "uploaded"]
      /\ UNCHANGED <<issued, stage, issueRevision, declared, sales, evidence, recoveries, answers, ledgerFaults>>
  BY DEF BackendTakesReplay, At, Goto
<1>2. JournalInv /\ RecoveryTypes /\ RecovererTrue
  BY DEF LedgerInv
<1>3. recoverer \in Recoverers
  BY <1>2 DEF RecoveryTypes
<1>4. /\ recoverer'.at = "uploaded" /\ recoverer'.grant = recoverer.grant
      /\ recoverer'.sale = recoverer.sale /\ recoverer'.todo = recoverer.todo
      /\ recoverer' \in Recoverers
  BY <1>1, <1>3 DEF Recoverers
<1>5. recoverer.sale \in DOMAIN sales
  BY <1>1, <1>2 DEF RecovererTrue
<1>6. /\ JournalInv' /\ taken \subseteq taken' /\ gapped \subseteq gapped'
      /\ recoverer.sale \in taken' \cup gapped'
  BY <1>1, <1>2, <1>5, TakesOrGaps
<1>7. RecovererTrue'
  BY <1>1, <1>2, <1>4, <1>6 DEF RecovererTrue, recoveries
<1> QED
  BY <1>1, <1>4, <1>6, <1>7, TakenGrows

LEMMA ReplayAnswerKeeps ==
  ASSUME LedgerInv, ReplayAnswered
  PROVE  LedgerInv'
<1> DEFINE g == recoverer.grant
           i == recoverer.sale
<1>1. /\ recoverer.at = "uploaded"
      /\ IF i \in gapped
           THEN /\ recovery' = [recovery EXCEPT ![g] = "conflict"]
                /\ recoverer' = Resting /\ UNCHANGED <<boundary, denied>>
           ELSE /\ ApplyCoverage(CoverageOf(i), KnownGrants, {})
                /\ recoverer' = [recoverer EXCEPT !.at = "replaying"] /\ UNCHANGED recovery
      /\ UNCHANGED <<backendVars, sales, capability, stored, finished, frozen, answers, ledgerFaults>>
      /\ UNCHANGED <<taken, gapped>>
  BY DEF ReplayAnswered, At, Goto, backendVars
<1>2. JournalInv /\ EvidenceInv /\ RecoveryTypes /\ RecovererTrue
  BY DEF LedgerInv
<1>3. recoverer \in Recoverers /\ g \in Grants
  BY <1>2 DEF RecoveryTypes, Recoverers
<1>4. /\ recovery \in [Grants -> {"none", "intent", "sealed", "acknowledged", "terminal", "conflict"}]
      /\ frozen \in [Grants -> 0 .. MaxSales] /\ ledgerFaults \in 0 .. MaxFaults
  BY <1>2 DEF RecoveryTypes
<1>5. recovery[g] \notin {"none", "intent"} /\ i \in taken \cup gapped
  BY <1>1, <1>2 DEF RecovererTrue
<1>6. /\ stored \in [Grants -> Stored] /\ capability \in Revisions /\ finished \in SUBSET Grants
      /\ denied = {} /\ boundary \in [Grants -> -1 .. MaxSales]
      /\ \A h \in Grants : boundary[h] <= Accepted(h)
  BY <1>2 DEF EvidenceInv
<1>7. \A h : Accepted(h)' = Accepted(h)
  BY <1>1, <1>2, JournalKept
<1>8. CASE i \in gapped
  <2>1. /\ recovery' = [recovery EXCEPT ![g] = "conflict"]
        /\ recoverer' = Resting /\ UNCHANGED <<boundary, denied>>
    BY <1>1, <1>8
  <2>2. /\ recovery' \in [Grants -> {"none", "intent", "sealed", "acknowledged", "terminal", "conflict"}]
        /\ \A h \in Grants : recovery[h] \notin {"none", "intent"} => recovery'[h] \notin {"none", "intent"}
    BY <2>1, <1>4
  <2>3. \A h \in Grants : boundary'[h] \in Int /\ boundary[h] <= boundary'[h]
    BY <2>1, <1>6
  <2>4. \A h \in Grants : Whole(h) => Whole(h)' /\ frozen'[h] = frozen[h]
    BY <1>1, <2>2, <2>3, RaisedStay
  <2>5. EvidenceInv'
    BY <1>1, <1>6, <1>7, <2>1 DEF EvidenceInv
  <2>6. RecoveryTypes'
    BY <1>1, <1>4, <2>1, <2>2, RestingTrue DEF RecoveryTypes
  <2>7. RecovererTrue'
    BY <2>1, RestingTrue DEF RecovererTrue
  <2> QED
    BY <1>1, <2>4, <2>5, <2>6, <2>7, TillMoves
<1>9. CASE i \notin gapped
  <2>1. /\ ApplyCoverage(CoverageOf(i), KnownGrants, {})
        /\ recoverer' = [recoverer EXCEPT !.at = "replaying"] /\ UNCHANGED recovery
    BY <1>1, <1>9
  <2>2. Numbers(CoverageOf(i))
    BY <1>2, <1>5, <1>9, CoverageTrue
  <2>3. /\ denied' = {} /\ boundary' \in [Grants -> -1 .. MaxSales]
        /\ \A h \in Grants : boundary[h] <= boundary'[h] /\ boundary'[h] <= Accepted(h)
    <3> DEFINE f == CoverageOf(i)
    <3> HIDE DEF f
    <3>1. Numbers(f) /\ ApplyCoverage(f, KnownGrants, {})
      BY <2>1, <2>2 DEF f
    <3> QED
      BY <3>1, <1>2, CoverageRaises
  <2>4. \A h \in Grants : boundary'[h] \in Int
    BY <2>3
  <2>5. \A h \in Grants : Whole(h) => Whole(h)' /\ frozen'[h] = frozen[h]
    BY <1>1, <2>1, <2>3, <2>4, RaisedStay
  <2>6. EvidenceInv'
    BY <1>1, <1>6, <1>7, <2>3 DEF EvidenceInv
  <2>7. /\ recoverer' \in Recoverers /\ recoverer'.at = "replaying" /\ recoverer'.grant = g
        /\ recoverer'.todo = recoverer.todo
    BY <2>1, <1>3 DEF Recoverers
  <2>8. RecoveryTypes'
    BY <1>1, <1>4, <2>1, <2>7 DEF RecoveryTypes
  <2>9. RecovererTrue'
    BY <1>1, <1>2, <1>5, <2>1, <2>7 DEF RecovererTrue
  <2> QED
    BY <1>1, <2>5, <2>6, <2>8, <2>9, TillMoves
<1> QED
  BY <1>8, <1>9


LEMMA AcknowledgesKeep ==
  ASSUME LedgerInv, BackendAcknowledges
  PROVE  LedgerInv'
<1> DEFINE g == recoverer.grant
<1>1. /\ recoverer.at = "acknowledging"
      /\ IF stage[g] = "revocation_pending"
           THEN /\ stage' \in {[stage EXCEPT ![g] = s] : s \in {"seal_acknowledged", "released"}}
                /\ issueRevision' = issueRevision + 1
           ELSE UNCHANGED <<stage, issueRevision>>
      /\ declared' = [declared EXCEPT ![g] = frozen[g]]
      /\ recoverer' = [recoverer EXCEPT !.at = "acknowledged"]
      /\ UNCHANGED <<issued, taken, gapped, sales, evidence, recoveries, answers, ledgerFaults>>
      /\ UNCHANGED <<boundary, recovery, frozen>>
  BY DEF BackendAcknowledges, At, Goto, evidence, recoveries
<1>2. JournalInv /\ BackendInv /\ EvidenceInv /\ RecoveryTypes /\ RecovererTrue /\ DeclaredTrue
  BY DEF LedgerInv
<1>3. recoverer \in Recoverers /\ g \in Grants
  BY <1>2 DEF RecoveryTypes, Recoverers
<1>4. /\ recoverer'.at = "acknowledged" /\ recoverer'.grant = g /\ recoverer'.todo = recoverer.todo
      /\ recoverer' \in Recoverers
  BY <1>1, <1>3 DEF Recoverers
<1>5. Whole(g)
  BY <1>1, <1>2 DEF RecovererTrue
<1>6. \A h \in Grants : Whole(h) => Whole(h)'
  BY <1>1, <1>2, WholesStay
<1>7. RecovererTrue'
  <2>1. Whole(recoverer'.grant) => Whole(recoverer.grant)'
    BY <1>3, <1>4, <1>6 DEF Whole
  <2>2. Whole(recoverer.grant)'
    BY <1>4, <1>5, <2>1
  <2>3. recoverer'.todo \subseteq DOMAIN sales'
    BY <1>1, <1>2, <1>4 DEF RecovererTrue
  <2> QED
    BY <1>4, <2>2, <2>3 DEF RecovererTrue
<1> HIDE DEF g
<1>8. declared' \in [Grants -> -1 .. MaxSales]
  <2>1. declared \in [Grants -> -1 .. MaxSales] /\ frozen[g] \in 0 .. MaxSales
    BY <1>2, <1>3 DEF BackendInv, RecoveryTypes
  <2>2. frozen[g] \in -1 .. MaxSales
    BY <2>1, LedgerAssumption
  <2> QED
    BY <1>1, <2>1, <2>2
<1>9. ASSUME NEW h \in Grants, declared'[h] # -1 PROVE Whole(h) /\ declared'[h] = frozen[h]
  <2>1. declared \in [Grants -> -1 .. MaxSales]
    BY <1>2 DEF BackendInv
  <2>2. CASE h = g
    BY <2>1, <2>2, <1>1, <1>5
  <2>3. CASE h # g
    <3>1. declared'[h] = declared[h]
      BY <2>1, <2>3, <1>1
    <3> QED
      BY <3>1, <1>2, <1>9 DEF DeclaredTrue
  <2> QED
    BY <2>2, <2>3
<1>10. CASE stage[g] = "revocation_pending"
  <2>1. PICK s \in {"seal_acknowledged", "released"} : stage' = [stage EXCEPT ![g] = s]
    BY <1>1, <1>10
  <2>2. s \in Stage
    BY DEF Stage
  <2>3. issueRevision' = issueRevision + 1
    BY <1>1, <1>10
  <2> QED
    BY <1>1, <1>3, <1>4, <1>5, <1>7, <1>8, <1>9, <1>10, <2>1, <2>2, <2>3, StageKeeps
<1>11. CASE stage[g] # "revocation_pending"
  <2>1. UNCHANGED <<stage, issueRevision>>
    BY <1>1, <1>11
  <2>2. JournalInv' /\ AllowanceHolds' /\ \A h : Accepted(h)' = Accepted(h)
    BY <1>1, <1>2, JournalKept DEF LedgerInv
  <2>3. \A h \in Grants : Accepted(h) <= Accepted(h)'
    <3>1. \A h \in Grants : Accepted(h) \in Int
      BY <1>2, EntriesCount
    <3> QED
      BY <2>2, <3>1
  <2>4. BackendInv' /\ InStage({"released"}) \subseteq InStage({"released"})'
    <3>1. \A S : InStage(S)' = InStage(S)
      BY <2>1 DEF InStage
    <3> QED
      BY <3>1, <2>1, <1>1, <1>2, <1>8 DEF BackendInv
  <2>5. EvidenceInv'
    BY <1>1, <1>2, <2>2, <2>3, EvidenceKept
  <2>6. DeclaredTrue'
    BY <1>1, <1>2, <1>6, <1>9, <2>1 DEF DeclaredTrue
  <2>7. AnswersTrue'
    BY <1>1, <1>2, <2>2, <2>3, <2>4, AnswersKept DEF LedgerInv
  <2>8. RecoveryTypes'
    BY <1>1, <1>2, <1>4 DEF RecoveryTypes
  <2> QED
    BY <2>2, <2>4, <2>5, <2>6, <2>7, <2>8, <1>7 DEF LedgerInv
<1> QED
  BY <1>10, <1>11

LEMMA AnsweredKeeps ==
  ASSUME LedgerInv, AcknowledgeAnswered
  PROVE  LedgerInv'
<1> DEFINE g == recoverer.grant
           to == IF stage[g] = "seal_acknowledged" THEN "acknowledged" ELSE "terminal"
<1>1. /\ recoverer.at = "acknowledged"
      /\ stored' = [stored EXCEPT ![g].status = stage[g]]
      /\ recovery' = [recovery EXCEPT ![g] = to]
      /\ recoverer' = Resting
      /\ UNCHANGED <<backendVars, sales, capability, boundary, finished, denied, frozen, answers, ledgerFaults>>
      /\ UNCHANGED <<taken, gapped>>
  BY DEF AcknowledgeAnswered, At, backendVars
<1>2. JournalInv /\ BackendInv /\ EvidenceInv /\ RecoveryTypes /\ RecovererTrue
  BY DEF LedgerInv
<1>3. g \in Grants
  BY <1>2 DEF RecoveryTypes, Recoverers
<1>4. to \in {"acknowledged", "terminal"}
  OBVIOUS
<1> HIDE DEF g, to
<1>5. /\ recovery \in [Grants -> {"none", "intent", "sealed", "acknowledged", "terminal", "conflict"}]
      /\ frozen \in [Grants -> 0 .. MaxSales] /\ ledgerFaults \in 0 .. MaxFaults
  BY <1>2 DEF RecoveryTypes
<1>6. /\ recovery' \in [Grants -> {"none", "intent", "sealed", "acknowledged", "terminal", "conflict"}]
      /\ \A h \in Grants : recovery[h] \notin {"none", "intent"} => recovery'[h] \notin {"none", "intent"}
  BY <1>1, <1>4, <1>5
<1>7. \A h \in Grants : boundary'[h] \in Int /\ boundary[h] <= boundary'[h]
  BY <1>1, <1>2 DEF EvidenceInv
<1>8. \A h \in Grants : Whole(h) => Whole(h)' /\ frozen'[h] = frozen[h]
  BY <1>1, <1>6, <1>7, RaisedStay
<1>9. EvidenceInv'
  <2>1. \A h : Accepted(h)' = Accepted(h)
    BY <1>1, <1>2, JournalKept
  <2>2. stored' \in [Grants -> Stored]
    <3>1. stored \in [Grants -> Stored] /\ stored[g] \in Stored /\ stage[g] \in Stage
      BY <1>2, <1>3 DEF EvidenceInv, BackendInv
    <3>2. [stored[g] EXCEPT !.status = stage[g]] \in Stored
      BY <3>1 DEF Stored
    <3> QED
      BY <3>1, <3>2, <1>1, <1>3
  <2> QED
    BY <2>1, <2>2, <1>1, <1>2 DEF EvidenceInv
<1>10. RecoveryTypes'
  BY <1>1, <1>5, <1>6, RestingTrue DEF RecoveryTypes
<1>11. RecovererTrue'
  BY <1>1, RestingTrue DEF RecovererTrue
<1> QED
  BY <1>1, <1>8, <1>9, <1>10, <1>11, TillMoves

-----------------------------------------------------------------------------
LEMMA LedgerInitHolds ==
  LedgerInit => LedgerInv
<1> SUFFICES ASSUME LedgerInit PROVE LedgerInv
  OBVIOUS
<1>1. /\ issued = {} /\ stage = [g \in Grants |-> "active"] /\ issueRevision = 1
      /\ taken = {} /\ gapped = {} /\ declared = [g \in Grants |-> -1] /\ sales = <<>>
      /\ capability = 0 /\ stored = [g \in Grants |-> Unknown]
      /\ boundary = [g \in Grants |-> -1] /\ finished = {} /\ denied = {}
      /\ recovery = [g \in Grants |-> "none"] /\ frozen = [g \in Grants |-> 0]
      /\ recoverer = Resting /\ answers = {} /\ ledgerFaults = 0
  BY DEF LedgerInit
<1>2. JournalInv
  BY <1>1, LedgerAssumption DEF JournalInv
<1>3. \A g : Entries(g) = {} /\ Accepted(g) = 0
  <2>1. DOMAIN sales = {}
    BY <1>1
  <2> QED
    BY <2>1, FS_EmptySet DEF Entries, Accepted
<1>4. Cardinality(Grants) \in Nat
  BY FS_CardinalityType, LedgerAssumption
<1>5. BackendInv
  <2>1. Cardinality(issued) = 0
    BY <1>1, FS_EmptySet
  <2>2. /\ Cardinality(InStage({"revocation_pending", "seal_acknowledged", "released"})) \in Nat
        /\ Cardinality(InStage({"seal_acknowledged", "released"})) \in Nat
        /\ Cardinality(InStage({"released"})) \in Nat
    BY StageCount
  <2>3. issueRevision <= 1 + Cardinality(issued)
                        + Cardinality(InStage({"revocation_pending", "seal_acknowledged", "released"}))
                        + Cardinality(InStage({"seal_acknowledged", "released"}))
                        + Cardinality(InStage({"released"}))
    BY <1>1, <2>1, <2>2
  <2>4. issued \in SUBSET Grants /\ stage \in [Grants -> Stage]
    BY <1>1 DEF Stage
  <2>5. declared \in [Grants -> -1 .. MaxSales] /\ issueRevision \in Nat
    BY <1>1, LedgerAssumption
  <2> QED
    BY <2>3, <2>4, <2>5 DEF BackendInv
<1>6. EvidenceInv
  <2>1. capability \in Revisions /\ 0 \in Revisions
    BY <1>1, <1>4 DEF Revisions
  <2>2. Unknown \in Stored
    BY <2>1, LedgerAssumption DEF Unknown, Stored, Stage
  <2>3. stored \in [Grants -> Stored]
    BY <1>1, <2>2
  <2>4. boundary \in [Grants -> -1 .. MaxSales]
    BY <1>1, LedgerAssumption
  <2>5. \A g \in Grants : boundary[g] <= Accepted(g)
    BY <1>1, <1>3
  <2> QED
    BY <1>1, <2>1, <2>3, <2>4, <2>5 DEF EvidenceInv
<1>7. RecoveryTypes
  BY <1>1, RestingTrue, LedgerAssumption DEF RecoveryTypes
<1>8. RecovererTrue
  BY <1>1, RestingTrue DEF RecovererTrue
<1>9. DeclaredTrue
  BY <1>1 DEF DeclaredTrue
<1>10. AnswersTrue
  BY <1>1 DEF AnswersTrue
<1>11. AllowanceHolds
  <2>1. ASSUME NEW g \in Grants PROVE Units(g, Entries(g)) <= Granted
    <3>1. {u \in {} \X (1 .. Granted) : u[2] <= sales[u[1]][g]} = {}
      OBVIOUS
    <3>2. Units(g, Entries(g)) = 0
      BY <1>3, <3>1, FS_EmptySet DEF Units
    <3> QED
      BY <3>2, LedgerAssumption
  <2> QED
    BY <2>1 DEF AllowanceHolds
<1> QED
  BY <1>2, <1>5, <1>6, <1>7, <1>8, <1>9, <1>10, <1>11 DEF LedgerInv

LEMMA LedgerStutters ==
  ASSUME LedgerInv, UNCHANGED ledgerVars
  PROVE  LedgerInv'
<1>1. UNCHANGED <<backendVars, sales, evidence, recoveries, recoverer, answers, ledgerFaults>>
  BY DEF ledgerVars
<1>2. UNCHANGED <<taken, gapped>>
  BY <1>1 DEF backendVars
<1>3. RecovererTrue'
  BY <1>1, <1>2, RecovererWaits
<1>4. recoverer' \in Recoverers
  BY <1>1 DEF LedgerInv, RecoveryTypes, Recoverers
<1> QED
  BY <1>1, <1>3, <1>4, StepsOn

LEMMA LedgerStepKeeps ==
  LedgerInv /\ [LedgerNext]_ledgerVars => LedgerInv'
<1> SUFFICES ASSUME LedgerInv, [LedgerNext]_ledgerVars PROVE LedgerInv'
  OBVIOUS
<1>1. CASE Sell
  BY <1>1, SellKeeps
<1>2. CASE BackendSnapshots
  BY <1>2, SnapshotsKeep
<1>3. CASE AnswerLost \/ RequestFails \/ TillCrashes
  BY <1>3, DropsKeep
<1>4. CASE RecoveryStep
  BY <1>4, SealKeeps, FreezeKeeps, ReplayKeeps, TakesReplayKeeps, ReplayAnswerKeeps,
     AcknowledgeKeeps, DropsKeep, AcknowledgesKeep, AnsweredKeeps DEF RecoveryStep
<1>5. ASSUME NEW g \in Grants, BackendTopsUp(g) \/ BackendReleases(g) \/ BeginIntent(g) \/ Advance(g)
      PROVE  LedgerInv'
  BY <1>5, TopUpKeeps, ReleaseKeeps, BeginKeeps, AdvanceKeeps
<1>6. ASSUME NEW i \in 1 .. MaxSales, WorkerUploads(i) PROVE LedgerInv'
  BY <1>6, UploadKeeps
<1>7. ASSUME NEW a \in answers, InstallSnapshot(a) \/ IngestTopUp(a) \/ CoverageArrives(a)
      PROVE  LedgerInv'
  BY <1>7, InstallKeeps, IngestKeeps, CoverageKeeps
<1>8. CASE UNCHANGED ledgerVars
  BY <1>8, LedgerStutters
<1> QED
  BY <1>1, <1>2, <1>3, <1>4, <1>5, <1>6, <1>7, <1>8 DEF LedgerNext

-----------------------------------------------------------------------------
(* The inductive invariant of the ledger: what the till stores of a grant  *)
(* is never ahead of the backend, and a declaration under way is whole.    *)
THEOREM LedgerInvariant == LedgerSpec => []LedgerInv
BY LedgerInitHolds, LedgerStepKeeps, PTL DEF LedgerSpec

\* What the invariant says of the properties.
LEMMA LedgerInvTypes ==
  LedgerInv => LedgerTypeOK
<1> SUFFICES ASSUME LedgerInv PROVE LedgerTypeOK
  OBVIOUS
<1>1. JournalInv /\ BackendInv /\ EvidenceInv /\ RecoveryTypes
  BY DEF LedgerInv
<1>2. taken \in SUBSET (1 .. MaxSales) /\ gapped \in SUBSET (1 .. MaxSales)
  BY <1>1, JournalIsBounded DEF JournalInv
<1>3. issueRevision \in Revisions
  BY <1>1, RevisionBounded
<1> QED
  BY <1>1, <1>2, <1>3 DEF LedgerTypeOK, JournalInv, BackendInv, EvidenceInv, RecoveryTypes, Recoverers

LEMMA LedgerInvDeclared ==
  LedgerInv => DeclaredIsWhole
<1> SUFFICES ASSUME LedgerInv, NEW g \in Grants, declared[g] # -1
             PROVE  Cardinality(Entries(g)) = declared[g] /\ Entries(g) \subseteq taken
  BY DEF DeclaredIsWhole
<1>1. JournalInv /\ EvidenceInv /\ DeclaredTrue
  BY DEF LedgerInv
<1>2. Whole(g) /\ declared[g] = frozen[g]
  BY <1>1 DEF DeclaredTrue
<1>3. boundary[g] \in Int /\ boundary[g] <= Accepted(g)
  BY <1>1 DEF EvidenceInv
<1>4. Entries(g) \subseteq taken
  BY <1>1, <1>2, <1>3, CoveredToTheEnd DEF Whole
<1> QED
  BY <1>2, <1>4 DEF Whole

(* The types of the ledger's state, for any grants and any bounds.         *)
THEOREM LedgerTypes == LedgerSpec => []LedgerTypeOK
BY LedgerInvariant, LedgerInvTypes, PTL

(* Evidence of an honest backend never puts a grant on hold: every number  *)
(* on its way is one the backend had, and a grant it let go is covered.    *)
THEOREM EvidenceNeverHolds == LedgerSpec => []HonestEvidenceNeverHolds
<1>1. LedgerInv => HonestEvidenceNeverHolds
  BY DEF LedgerInv, EvidenceInv, HonestEvidenceNeverHolds
<1> QED
  BY <1>1, LedgerInvariant, PTL

(* The final sequence told to the backend is the whole journal, every      *)
(* entry of it accepted, and it stays the whole journal.                   *)
THEOREM DeclarationIsWhole == LedgerSpec => []DeclaredIsWhole
BY LedgerInvariant, LedgerInvDeclared, PTL

(* No grant is sold beyond its quantity.                                   *)
THEOREM GrantNeverOversold == LedgerSpec => []AllowanceHolds
<1>1. LedgerInv => AllowanceHolds
  BY DEF LedgerInv
<1> QED
  BY <1>1, LedgerInvariant, PTL
===============================================================================
