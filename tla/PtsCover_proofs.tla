--------------------------- MODULE PtsCover_proofs ---------------------------
(***************************************************************************)
(* Lemmas about PtsCover: counting what is covered tells what is missing.  *)
(***************************************************************************)
EXTENDS PtsCover, FiniteSetTheorems, TLAPS

(* Two updates of a tiled log that share a point are one.                  *)
LEMMA PointsDisjoint ==
  ASSUME NEW L, Tiled(L), NEW u \in L, NEW v \in L,
         NEW p, p \in Points(u), p \in Points(v)
  PROVE  u = v
  <1>1. /\ u.pts \in Nat /\ u.count \in Nat
        /\ v.pts \in Nat /\ v.count \in Nat
    BY DEF Tiled
  <1>2. u.count > 0 /\ v.count > 0 /\ p \in Int
    BY <1>1 DEF Points
  <1>3. u.pts = v.pts
    BY <1>1 DEF Points, Tiled, Uncut
  <1> QED
    BY <1>2, <1>3 DEF Tiled

(* The size of an interval that may be empty.                              *)
LEMMA IntervalSize ==
  ASSUME NEW a \in Int, NEW b \in Int, a <= b + 1
  PROVE  /\ IsFiniteSet(a .. b)
         /\ Cardinality(a .. b) \in Nat
         /\ Cardinality(a .. b) = b - a + 1
  <1>1. /\ IsFiniteSet(a .. b)
        /\ Cardinality(a .. b) = IF a > b THEN 0 ELSE b - a + 1
    BY FS_Interval
  <1> QED
    BY <1>1

(* Nothing is covered above a and at most at a.                            *)
LEMMA CoveredNone ==
  ASSUME NEW S, NEW a \in Nat
  PROVE  Cardinality(CoveredBy(S, a, a)) = 0
  <1>1. CoveredBy(S, a, a) = {}
    BY DEF CoveredBy
  <1> QED
    BY <1>1, FS_EmptySet

(* No more is covered than there is, and all of it only if nothing is      *)
(* missing.                                                                *)
LEMMA CoveredBound ==
  ASSUME NEW S, NEW a \in Nat, NEW b \in Nat, a <= b
  PROVE  /\ IsFiniteSet(CoveredBy(S, a, b))
         /\ Cardinality(CoveredBy(S, a, b)) \in Nat
         /\ Cardinality(CoveredBy(S, a, b)) <= b - a
         /\ Cardinality(CoveredBy(S, a, b)) = b - a
              => CoveredBy(S, a, b) = (a + 1) .. b
  <1> DEFINE C == CoveredBy(S, a, b)
  <1>1. C \in SUBSET ((a + 1) .. b)
    BY DEF CoveredBy
  <1>2. /\ IsFiniteSet((a + 1) .. b)
        /\ Cardinality((a + 1) .. b) = b - a
    <2>1. a + 1 \in Int /\ b \in Int /\ a + 1 <= b + 1
      OBVIOUS
    <2>2. b - (a + 1) + 1 = b - a
      OBVIOUS
    <2> QED
      BY <2>1, <2>2, IntervalSize
  <1>3. /\ IsFiniteSet(C)
        /\ Cardinality(C) <= Cardinality((a + 1) .. b)
        /\ Cardinality((a + 1) .. b) = Cardinality(C) => C = (a + 1) .. b
    BY <1>1, <1>2, FS_Subset
  <1> QED
    BY <1>2, <1>3, FS_CardinalityType

(* More updates, up to a larger pts, cover no less.                        *)
LEMMA CoveredMonotone ==
  ASSUME NEW S, NEW T, S \subseteq T,
         NEW a \in Nat, NEW b \in Nat, NEW top \in Nat, a <= b, b <= top
  PROVE  Cardinality(CoveredBy(S, a, b)) <= Cardinality(CoveredBy(T, a, top))
  <1>1. CoveredBy(S, a, b) \in SUBSET CoveredBy(T, a, top)
    BY DEF CoveredBy
  <1>2. IsFiniteSet(CoveredBy(T, a, top))
    BY CoveredBound
  <1> QED
    BY <1>1, <1>2, FS_Subset

(* An update above a that is not in S covers "count" values more.          *)
LEMMA CoveredGrows ==
  ASSUME NEW L, Tiled(L), NEW S, S \subseteq L, NEW u \in L, u \notin S,
         NEW a \in Nat, NEW b \in Nat, NEW top \in Nat,
         a <= b, b <= top, u.pts <= top,
         u.count = 0 \/ a <= u.pts - u.count
  PROVE  Cardinality(CoveredBy(S, a, b)) + u.count
           <= Cardinality(CoveredBy(S \cup {u}, a, top))
  <1> DEFINE B == CoveredBy(S, a, b)
             C == CoveredBy(S \cup {u}, a, top)
  <1>1. u.pts \in Nat /\ u.count \in Nat
    BY DEF Tiled
  <1>2. IsFiniteSet(B) /\ Cardinality(B) \in Nat /\ IsFiniteSet(C)
    BY CoveredBound
  <1>3. IsFiniteSet(Points(u)) /\ Cardinality(Points(u)) = u.count
    <2> DEFINE from == u.pts - u.count + 1
    <2>1. from \in Int /\ u.pts \in Int /\ from <= u.pts + 1
      BY <1>1
    <2>2. u.pts - from + 1 = u.count
      BY <1>1
    <2> HIDE DEF from
    <2>3. /\ IsFiniteSet(from .. u.pts)
          /\ Cardinality(from .. u.pts) = u.pts - from + 1
      BY <2>1, IntervalSize
    <2> QED
      BY <2>2, <2>3 DEF Points, from
  <1>4. B \cap Points(u) = {}
    BY PointsDisjoint DEF CoveredBy
  <1>5. Points(u) \subseteq C
    BY <1>1 DEF Points, CoveredBy
  <1>6. B \subseteq C
    BY DEF CoveredBy
  <1>7. B \cup Points(u) \in SUBSET C
    BY <1>5, <1>6
  <1> HIDE DEF B, C
  <1>8. Cardinality(B \cup Points(u)) = Cardinality(B) + u.count
    <2>1. Cardinality(B \cap Points(u)) = 0
      BY <1>4, FS_EmptySet
    <2>2. Cardinality(B \cup Points(u))
            = Cardinality(B) + Cardinality(Points(u))
                - Cardinality(B \cap Points(u))
      BY <1>2, <1>3, FS_Union
    <2> QED
      BY <1>1, <1>2, <1>3, <2>1, <2>2
  <1>9. Cardinality(B \cup Points(u)) <= Cardinality(C)
    BY <1>2, <1>7, FS_Subset
  <1> QED
    BY <1>8, <1>9 DEF B, C

(* When as much is covered as there is, no update is missing.              *)
LEMMA CoveredAll ==
  ASSUME NEW L, Tiled(L), NEW S, S \subseteq L,
         NEW a \in Nat, NEW b \in Nat, a <= b,
         Cardinality(CoveredBy(S, a, b)) = b - a,
         NEW w \in L, w.count > 0, a < w.pts, w.pts <= b
  PROVE  w \in S
  <1>1. w.pts \in Nat /\ w.count \in Nat
    BY DEF Tiled
  <1>2. CoveredBy(S, a, b) = (a + 1) .. b
    BY CoveredBound
  <1>3. w.pts \in (a + 1) .. b /\ w.pts \in Points(w)
    BY <1>1 DEF Points
  <1>4. PICK v \in S : w.pts \in Points(v)
    BY <1>2, <1>3 DEF CoveredBy
  <1> QED
    BY <1>3, <1>4, PointsDisjoint
=============================================================================
