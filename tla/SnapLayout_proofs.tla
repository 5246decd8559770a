--------------------------- MODULE SnapLayout_proofs ---------------------------
(***************************************************************************)
(* What TLAPS proves of SnapLayout, for every number of cells and every    *)
(* screen: what the loop of targetContentOffset computes, and from it that *)
(* the row comes to rest within its range, on the nearest of all cells,    *)
(* farther throws never on an earlier one, with one cell zoomed.           *)
(***************************************************************************)
EXTENDS SnapLayout, FiniteSetTheorems, TLAPS

(* Natural numbers: the least of a set, and induction on an interval. *)

\* Intervals 1..n are well-founded under inclusion, so the naturals are under <.
LEMMA Least ==
  ASSUME NEW S \in SUBSET Nat, S # {}
  PROVE  \E x \in S : \A y \in S : x <= y
<1> DEFINE Intervals == {1..n : n \in S}
<1>1. Intervals \subseteq FiniteSubsetsOf(Nat)
  <2> SUFFICES ASSUME NEW n \in S PROVE 1..n \in FiniteSubsetsOf(Nat)
    OBVIOUS
  <2> QED  BY FS_Interval DEF FiniteSubsetsOf
<1>2. Intervals # {}
  OBVIOUS
<1>3. PICK t \in Intervals : \A u \in Intervals : <<u, t>> \notin StrictSubsetOrdering(Nat)
  <2> HIDE DEF Intervals
  <2> QED  BY <1>1, <1>2, FS_StrictSubsetOrderingWellFounded, WFMin
<1>4. PICK x \in S : t = 1..x
  OBVIOUS
<1>5. ASSUME NEW y \in S, y < x PROVE FALSE
  <2>1. x \notin 1..y /\ x \in 1..x /\ 1..y \subseteq 1..x
    BY <1>5
  <2>2. <<1..y, 1..x>> \in StrictSubsetOrdering(Nat)
    BY <2>1 DEF StrictSubsetOrdering
  <2> QED  BY <2>2, <1>3, <1>4
<1> QED  BY <1>5

\* A set that holds 0 and with every number the next holds all of 0..m.
LEMMA Induction ==
  ASSUME NEW m \in Nat, NEW S, 0 \in S, \A n \in 0..(m - 1) : n \in S => n + 1 \in S
  PROVE  \A n \in 0..m : n \in S
<1> SUFFICES ASSUME (0..m) \ S # {} PROVE FALSE
  OBVIOUS
<1>1. PICK x \in (0..m) \ S : \A y \in (0..m) \ S : x <= y
  <2>1. (0..m) \ S \in SUBSET Nat
    OBVIOUS
  <2> QED  BY <2>1, Least
<1> QED  BY <1>1, x - 1 \in 0..(m - 1)

-----------------------------------------------------------------------------
(* Geometry *)

Pitch(f) == CellWidth(f) + Spacing

\* Lengths are integers, and halves are exact.
LEMMA Lengths ==
  ASSUME NEW f \in Frames
  PROVE  /\ Cells \in Nat \ {0} /\ Spacing \in Nat \ {0} /\ ItemWidth \in Nat \ {0}
         /\ ActiveDistance \in Nat \ {0} /\ FarAway \in Nat \ {0} /\ Grain \in Nat \ {0}
         /\ f.screen \in Nat /\ f.width \in Nat /\ f.margin \in Nat
         /\ CellWidth(f) \in Nat /\ 2 * (CellWidth(f) \div 2) = CellWidth(f)
         /\ CellWidth(f) \div 2 \in Nat
         /\ 2 * (f.width \div 2) = f.width /\ f.width \div 2 \in Nat
         /\ HorizontalInset(f) \in Int
         /\ 2 * HorizontalInset(f) = f.width - 2 * f.margin - ItemWidth
         /\ Pitch(f) \in Nat \ {0}
<1>1. /\ Cells \in Nat \ {0} /\ Spacing \in Nat \ {0} /\ ItemWidth \in Nat \ {0}
      /\ ActiveDistance \in Nat \ {0} /\ FarAway \in Nat \ {0} /\ Grain \in Nat \ {0}
      /\ f.screen \in Nat /\ f.width \in Nat /\ f.margin \in Nat
      /\ ItemWidth % 2 = 0 /\ f.screen % 4 = 0 /\ f.width % 2 = 0
  BY LayoutAssumption
<1>2. CellWidth(f) \in Nat /\ 2 * (CellWidth(f) \div 2) = CellWidth(f) /\ CellWidth(f) \div 2 \in Nat
  BY <1>1 DEF CellWidth
<1>3. 2 * (f.width \div 2) = f.width /\ f.width \div 2 \in Nat
  BY <1>1
<1>4. HorizontalInset(f) \in Int /\ 2 * HorizontalInset(f) = f.width - 2 * f.margin - ItemWidth
  BY <1>1 DEF HorizontalInset
<1> QED  BY <1>1, <1>2, <1>3, <1>4 DEF Pitch

\* Centres are evenly spaced.
LEMMA Centres ==
  ASSUME NEW f \in Frames, NEW i \in 1..Cells
  PROVE  /\ CellCentre(f, i) \in Int
         /\ CellCentre(f, i) = CellCentre(f, 1) + (i - 1) * Pitch(f)
         /\ CellCentre(f, 1) = HorizontalInset(f) + CellWidth(f) \div 2
<1>1. (i - 1) * Pitch(f) \in Int
  BY Lengths
<1> QED  BY <1>1, Lengths DEF CellCentre, Pitch

\* A later cell is at least a pitch farther, and the next one exactly.
LEMMA Neighbours ==
  ASSUME NEW f \in Frames, NEW i \in 1..Cells, NEW j \in 1..Cells, i < j
  PROVE  /\ CellCentre(f, i) + Pitch(f) <= CellCentre(f, j)
         /\ j = i + 1 => CellCentre(f, j) = CellCentre(f, i) + Pitch(f)
<1> DEFINE q == Pitch(f)
<1>1. q \in Nat \ {0} /\ i \in Int /\ j \in Int
  BY Lengths
<1> HIDE DEF q
<1>2. (j - 1) * q = (i - 1) * q + (j - i) * q
  BY <1>1
<1>3. q <= (j - i) * q /\ (j = i + 1 => (j - i) * q = q)
  BY <1>1
<1>4. (i - 1) * q \in Int /\ (j - i) * q \in Int
  BY <1>1
<1>5. /\ CellCentre(f, i) = CellCentre(f, 1) + (i - 1) * q
      /\ CellCentre(f, j) = CellCentre(f, 1) + (j - 1) * q
      /\ CellCentre(f, 1) \in Int
  BY Centres, Lengths DEF q
<1> QED  BY <1>1, <1>2, <1>3, <1>4, <1>5 DEF q

\* The scroll's range is from centring ItemWidth at one end to centring it at the other.
LEMMA ScrollRange ==
  ASSUME NEW f \in Frames
  PROVE  /\ MinOffset(f) \in Int /\ MaxOffset(f) \in Int
         /\ 2 * (CellCentre(f, 1) - (MinOffset(f) + f.width \div 2)) = CellWidth(f) - ItemWidth
         /\ 2 * ((MaxOffset(f) + f.width \div 2) - CellCentre(f, Cells)) = CellWidth(f) - ItemWidth
<1> DEFINE q == Pitch(f)
<1>1. q \in Nat \ {0} /\ Cells \in Nat \ {0} /\ (Cells - 1) * q \in Int
  BY Lengths
<1>2. Cells * CellWidth(f) + (Cells - 1) * Spacing = CellWidth(f) + (Cells - 1) * q
  BY Lengths DEF q, Pitch
<1>3. Cells * CellWidth(f) \in Int /\ (Cells - 1) * Spacing \in Int
  BY Lengths
<1>4. /\ CellCentre(f, Cells) = CellCentre(f, 1) + (Cells - 1) * q
      /\ CellCentre(f, 1) = HorizontalInset(f) + CellWidth(f) \div 2
  BY <1>1, Centres DEF q
<1> HIDE DEF q
<1>5. ContentWidth(f) = 2 * HorizontalInset(f) + CellWidth(f) + (Cells - 1) * q
  <2> DEFINE a == Cells * CellWidth(f)
             b == (Cells - 1) * Spacing
             c == (Cells - 1) * q
  <2>1. a \in Int /\ b \in Int /\ c \in Int /\ a + b = CellWidth(f) + c
    BY <1>1, <1>2, <1>3
  <2>2. ContentWidth(f) = 2 * HorizontalInset(f) + a + b
    BY DEF ContentWidth
  <2>3. CellWidth(f) \in Nat /\ HorizontalInset(f) \in Int
    BY Lengths
  <2> HIDE DEF a, b, c
  <2>4. ContentWidth(f) = 2 * HorizontalInset(f) + CellWidth(f) + c
    BY <2>1, <2>2, <2>3
  <2> QED  BY <2>4 DEF c
<1>6. /\ HorizontalInset(f) \in Int /\ f.margin \in Nat /\ ItemWidth \in Nat
      /\ 2 * HorizontalInset(f) = f.width - 2 * f.margin - ItemWidth
      /\ f.width \in Nat /\ f.width \div 2 \in Nat /\ 2 * (f.width \div 2) = f.width
      /\ CellWidth(f) \in Nat /\ CellWidth(f) \div 2 \in Nat
      /\ 2 * (CellWidth(f) \div 2) = CellWidth(f)
  BY Lengths
<1>7. MinOffset(f) = -f.margin /\ MaxOffset(f) = ContentWidth(f) + f.margin - f.width
  BY DEF MinOffset, MaxOffset
<1> QED  BY <1>1, <1>4, <1>5, <1>6, <1>7

\* Every cell can be centred.
LEMMA CentresInRange ==
  ASSUME NEW f \in Frames, NEW i \in 1..Cells
  PROVE  CentreOffset(f, i) \in MinOffset(f)..MaxOffset(f)
<1>1. 1 \in 1..Cells /\ Cells \in 1..Cells
  BY Lengths
<1>2. /\ CellCentre(f, 1) <= CellCentre(f, i)
      /\ CellCentre(f, i) <= CellCentre(f, Cells)
      /\ CellCentre(f, 1) \in Int /\ CellCentre(f, i) \in Int /\ CellCentre(f, Cells) \in Int
  <2>1. CellCentre(f, 1) \in Int /\ CellCentre(f, i) \in Int /\ CellCentre(f, Cells) \in Int
    BY <1>1, Centres
  <2>2. CASE i = 1 \/ 1 < i
    <3>1. CellCentre(f, 1) <= CellCentre(f, i)
      BY <1>1, <2>1, <2>2, Neighbours, Lengths
    <3>2. CASE i = Cells
      BY <3>1, <3>2, <2>1
    <3>3. CASE i < Cells
      BY <3>1, <3>3, <2>1, <1>1, Neighbours, Lengths
    <3> QED  BY <3>2, <3>3, Lengths
  <2> QED  BY <2>2, Lengths
<1>3. ItemWidth <= CellWidth(f)
  BY ScreenAssumption
<1>4. /\ f.width \div 2 \in Nat /\ CellWidth(f) \in Nat /\ ItemWidth \in Nat
      /\ MinOffset(f) \in Int /\ MaxOffset(f) \in Int
      /\ 2 * (CellCentre(f, 1) - (MinOffset(f) + f.width \div 2)) = CellWidth(f) - ItemWidth
      /\ 2 * ((MaxOffset(f) + f.width \div 2) - CellCentre(f, Cells)) = CellWidth(f) - ItemWidth
  BY Lengths, ScrollRange
<1>5. CentreOffset(f, i) = CellCentre(f, i) - f.width \div 2
  BY DEF CentreOffset
<1> QED  BY <1>2, <1>3, <1>4, <1>5

-----------------------------------------------------------------------------
(* The loop of targetContentOffset *)

\* The distances compared are integers.
LEMMA Distances ==
  ASSUME NEW f \in Frames, NEW p \in Int, NEW i \in 1..Cells
  PROVE  /\ Distance(f, p, i) \in Int
         /\ Distance(f, p, i) = CentreOffset(f, i) - p
         /\ CentreOffset(f, i) \in Int
         /\ Abs(Distance(f, p, i)) \in Nat
BY Centres, Lengths DEF Distance, VisibleCentre, CentreOffset, Abs

\* offsetAdjustment after n turns, g holding those after fewer.
Turn(f, p, g, n) ==
  IF n = 0 THEN FarAway
  ELSE IF Meets(f, p, n) THEN Closer(g[n - 1], Distance(f, p, n))
  ELSE g[n - 1]

\* There is a function of the turns, so Adjustments is one.
LEMMA LoopEnds ==
  ASSUME NEW f \in Frames, NEW p \in Int
  PROVE  /\ Adjustments(f, p) \in [0..Cells -> Int]
         /\ \A n \in 0..Cells : Adjustments(f, p)[n] = Turn(f, p, Adjustments(f, p), n)
<1> DEFINE IsLoop(g, m) == g = [n \in 0..m |-> Turn(f, p, g, n)]
           Reached == {m \in Nat : \E g \in [0..m -> Int] : IsLoop(g, m)}
<1>0. Cells \in Nat \ {0} /\ FarAway \in Nat \ {0}
  BY LayoutAssumption
<1>1. 0 \in Reached
  <2>1. [n \in 0..0 |-> FarAway] \in [0..0 -> Int]
    BY LayoutAssumption
  <2>2. IsLoop([n \in 0..0 |-> FarAway], 0)
    BY DEF Turn
  <2> QED  BY <2>1, <2>2
<1>2. ASSUME NEW m \in 0..(Cells - 1), m \in Reached PROVE m + 1 \in Reached
  <2>1. PICK g \in [0..m -> Int] : IsLoop(g, m)
    BY <1>2
  <2>2. m + 1 \in 1..Cells /\ m \in Nat
    BY <1>0
  <2> DEFINE h == [n \in 0..(m + 1) |-> IF n = m + 1 THEN Turn(f, p, g, m + 1) ELSE g[n]]
  <2>3. Turn(f, p, g, m + 1) \in Int
    <3>1. g[m] \in Int /\ Distance(f, p, m + 1) \in Int
      BY <2>2, Distances
    <3> QED  BY <2>2, <3>1 DEF Turn, Closer
  <2>4. h \in [0..(m + 1) -> Int]
    BY <2>2, <2>3
  <2>5. ASSUME NEW n \in 0..(m + 1) PROVE h[n] = Turn(f, p, h, n)
    <3>1. n # 0 => h[n - 1] = g[n - 1]
      BY <2>2
    <3>2. h[n] = Turn(f, p, g, n)
      <4>1. CASE n = m + 1
        BY <4>1
      <4>2. CASE n # m + 1
        <5>1. n \in 0..m
          BY <2>2, <4>2
        <5> QED  BY <2>1, <4>2, <5>1
      <4> QED  BY <4>1, <4>2
    <3> QED  BY <3>1, <3>2 DEF Turn
  <2>6. IsLoop(h, m + 1)
    BY <2>5
  <2>7. \E gg \in [0..(m + 1) -> Int] : IsLoop(gg, m + 1)
    <3> HIDE DEF h, IsLoop
    <3> QED  BY <2>4, <2>6
  <2> QED  BY <2>2, <2>7
<1>3. Cells \in Nat
  BY <1>0
<1>4. Cells \in Reached
  <2> HIDE DEF Reached
  <2>1. \A m \in 0..(Cells - 1) : m \in Reached => m + 1 \in Reached
    BY <1>2
  <2>2. \A m \in 0..Cells : m \in Reached
    BY <1>1, <1>3, <2>1, Induction
  <2> QED  BY <1>3, <2>2
<1>5. PICK g \in [0..Cells -> Int] : IsLoop(g, Cells)
  BY <1>4
<1>6. Adjustments(f, p) = [n \in 0..Cells |-> Turn(f, p, Adjustments(f, p), n)]
  BY <1>5 DEF Adjustments, Turn
<1> DEFINE After == Adjustments(f, p)
           Typed == {n \in 0..Cells : After[n] \in Int}
<1>7. \A n \in 0..Cells : After[n] = Turn(f, p, After, n)
  BY <1>6
<1> HIDE DEF After
<1>8. 0 \in Typed
  <2>1. 0 \in 0..Cells /\ After[0] = FarAway
    BY <1>3, <1>7 DEF Turn
  <2> QED  BY <1>0, <2>1
<1>9. ASSUME NEW n \in 0..(Cells - 1), n \in Typed PROVE n + 1 \in Typed
  <2>1. n + 1 \in 1..Cells /\ n + 1 \in 0..Cells
    BY <1>3
  <2>2. After[n] \in Int /\ Distance(f, p, n + 1) \in Int
    BY <1>9, <2>1, Distances
  <2>3. After[n + 1] = Turn(f, p, After, n + 1)
    BY <1>7, <2>1
  <2> QED  BY <2>1, <2>2, <2>3 DEF Turn, Closer
<1>10. \A n \in 0..Cells : n \in Typed
  <2> HIDE DEF Typed
  <2> QED  BY <1>3, <1>8, <1>9, Induction
<1>11. After \in [0..Cells -> Int]
  BY <1>6, <1>10 DEF After
<1> QED  BY <1>7, <1>11 DEF After

\* The first of the cells 1..n that meet the rectangle which is nearest to its middle.
FirstNearest(f, p, n, k) ==
  /\ k \in 1..n
  /\ Meets(f, p, k)
  /\ \A j \in 1..n : Meets(f, p, j) =>
       /\ Abs(Distance(f, p, k)) <= Abs(Distance(f, p, j))
       /\ j < k => Abs(Distance(f, p, k)) < Abs(Distance(f, p, j))

\* A cell that meets the rectangle is nearer than FarAway.
LEMMA MetIsNear ==
  ASSUME NEW f \in Frames, NEW p \in Int, NEW i \in 1..Cells, Meets(f, p, i)
  PROVE  Abs(Distance(f, p, i)) < Abs(FarAway)
<1>1. f.width + CellWidth(f) <= FarAway
  BY ScreenAssumption
<1>2. /\ CellCentre(f, i) - CellWidth(f) \div 2 < p + f.width
      /\ CellCentre(f, i) + CellWidth(f) \div 2 > p
  BY DEF Meets
<1>3. Distance(f, p, i) = CellCentre(f, i) - (p + f.width \div 2)
  BY DEF Distance, VisibleCentre
<1>4. /\ CellCentre(f, i) \in Int /\ FarAway \in Nat \ {0}
      /\ CellWidth(f) \div 2 \in Nat /\ 2 * (CellWidth(f) \div 2) = CellWidth(f)
      /\ f.width \div 2 \in Nat /\ 2 * (f.width \div 2) = f.width
      /\ CellWidth(f) \in Nat /\ f.width \in Nat
  BY Centres, Lengths
<1> QED  BY <1>1, <1>2, <1>3, <1>4 DEF Abs

\* After n turns the loop holds the distance of the first nearest cell, if any meets.
LEMMA LoopFindsNearest ==
  ASSUME NEW f \in Frames, NEW p \in Int
  PROVE  \A n \in 0..Cells :
           \/ /\ Adjustments(f, p)[n] = FarAway
              /\ \A j \in 1..n : ~Meets(f, p, j)
           \/ \E k \in 1..n : /\ FirstNearest(f, p, n, k)
                             /\ Adjustments(f, p)[n] = Distance(f, p, k)
<1> DEFINE After == Adjustments(f, p)
           None(n) == After[n] = FarAway /\ \A j \in 1..n : ~Meets(f, p, j)
           Some(n) == \E k \in 1..n : FirstNearest(f, p, n, k) /\ After[n] = Distance(f, p, k)
           Found == {n \in 0..Cells : None(n) \/ Some(n)}
<1>1. Cells \in Nat
  BY LayoutAssumption
<1>2. \A n \in 0..Cells : After[n] = Turn(f, p, After, n)
  BY LoopEnds
<1> HIDE DEF After
<1>3. 0 \in Found
  BY <1>1, <1>2 DEF Turn
<1>4. ASSUME NEW n \in 0..(Cells - 1), n \in Found PROVE n + 1 \in Found
  <2>1. n + 1 \in 1..Cells /\ n + 1 \in 0..Cells /\ n \in Nat /\ n \in 0..Cells
    BY <1>1
  <2>2. After[n + 1] = IF Meets(f, p, n + 1) THEN Closer(After[n], Distance(f, p, n + 1))
                                             ELSE After[n]
    BY <1>2, <2>1 DEF Turn
  <2>3. \A j \in 1..(n + 1) : j \in 1..n \/ j = n + 1
    BY <2>1
  <2>4. CASE ~Meets(f, p, n + 1)
    <3>1. None(n) => None(n + 1)
      BY <2>2, <2>3, <2>4
    <3>2. ASSUME NEW k \in 1..n, FirstNearest(f, p, n, k) PROVE FirstNearest(f, p, n + 1, k)
      BY <2>1, <2>3, <2>4, <3>2 DEF FirstNearest
    <3>3. Some(n) => Some(n + 1)
      BY <2>1, <2>2, <2>4, <3>2
    <3> QED  BY <1>4, <2>1, <3>1, <3>3
  <2>5. CASE Meets(f, p, n + 1) /\ None(n)
    <3>1. After[n + 1] = Distance(f, p, n + 1)
      BY <2>1, <2>2, <2>5, MetIsNear DEF Closer
    <3>2. FirstNearest(f, p, n + 1, n + 1)
      <4>1. n + 1 \in 1..(n + 1)
        BY <2>1
      <4>2. Abs(Distance(f, p, n + 1)) <= Abs(Distance(f, p, n + 1))
        BY <2>1, Distances
      <4>3. ~(n + 1 < n + 1)
        BY <2>1
      <4> QED  BY <2>3, <2>5, <4>1, <4>2, <4>3 DEF FirstNearest
    <3> QED  BY <2>1, <3>1, <3>2
  <2>6. CASE Meets(f, p, n + 1) /\ Some(n)
    <3>1. PICK k \in 1..n : FirstNearest(f, p, n, k) /\ After[n] = Distance(f, p, k)
      BY <2>6
    <3>2. \A j \in 1..(n + 1) : Abs(Distance(f, p, j)) \in Nat
      <4>1. \A j \in 1..(n + 1) : j \in 1..Cells
        BY <1>1, <2>1
      <4> QED  BY <4>1, Distances
    <3>3. k \in 1..(n + 1) /\ n + 1 \in 1..(n + 1) /\ k < n + 1
      BY <2>1
    <3>4. CASE Abs(Distance(f, p, n + 1)) < Abs(Distance(f, p, k))
      <4>1. After[n + 1] = Distance(f, p, n + 1)
        BY <2>2, <2>6, <3>1, <3>4 DEF Closer
      <4>2. FirstNearest(f, p, n + 1, n + 1)
        <5>1. ASSUME NEW j \in 1..(n + 1), Meets(f, p, j)
              PROVE  /\ Abs(Distance(f, p, n + 1)) <= Abs(Distance(f, p, j))
                     /\ j < n + 1 => Abs(Distance(f, p, n + 1)) < Abs(Distance(f, p, j))
          <6>1. CASE j \in 1..n
            <7>1. Abs(Distance(f, p, k)) <= Abs(Distance(f, p, j))
              BY <3>1, <5>1, <6>1 DEF FirstNearest
            <7> QED  BY <3>2, <3>3, <3>4, <7>1
          <6>2. CASE j = n + 1
            BY <2>1, <3>2, <3>3, <6>2
          <6> QED  BY <2>3, <6>1, <6>2
        <5> QED  BY <2>6, <3>3, <5>1 DEF FirstNearest
      <4> QED  BY <2>1, <3>3, <4>1, <4>2
    <3>5. CASE ~(Abs(Distance(f, p, n + 1)) < Abs(Distance(f, p, k)))
      <4>1. After[n + 1] = Distance(f, p, k)
        BY <2>2, <2>6, <3>1, <3>5 DEF Closer
      <4>2. FirstNearest(f, p, n + 1, k)
        <5>1. ASSUME NEW j \in 1..(n + 1), Meets(f, p, j)
              PROVE  /\ Abs(Distance(f, p, k)) <= Abs(Distance(f, p, j))
                     /\ j < k => Abs(Distance(f, p, k)) < Abs(Distance(f, p, j))
          <6>1. CASE j \in 1..n
            BY <3>1, <5>1, <6>1 DEF FirstNearest
          <6>2. CASE j = n + 1
            BY <2>1, <3>2, <3>3, <3>5, <6>2
          <6> QED  BY <2>3, <6>1, <6>2
        <5> QED  BY <3>1, <3>3, <5>1 DEF FirstNearest
      <4> QED  BY <2>1, <3>3, <4>1, <4>2
    <3> QED  BY <3>4, <3>5
  <2> QED  BY <1>4, <2>4, <2>5, <2>6
<1>5. \A n \in 0..Cells : n \in Found
  <2> HIDE DEF Found
  <2> QED  BY <1>1, <1>3, <1>4, Induction
<1> QED  BY <1>5 DEF After

-----------------------------------------------------------------------------
(* From the cells that meet the rectangle to all cells *)

\* Cell k is as near to the middle of what p shows as any.
Nearest(f, p, k) ==
  /\ k \in 1..Cells
  /\ \A j \in 1..Cells : Abs(Distance(f, p, k)) <= Abs(Distance(f, p, j))

LEMMA NearestExists ==
  ASSUME NEW f \in Frames, NEW p \in Int
  PROVE  \E k \in 1..Cells : Nearest(f, p, k)
<1> DEFINE All == {Abs(Distance(f, p, j)) : j \in 1..Cells}
<1>1. All \in SUBSET Nat /\ All # {}
  BY Distances, LayoutAssumption
<1>2. PICK d \in All : \A e \in All : d <= e
  <2> HIDE DEF All
  <2> QED  BY <1>1, Least
<1> QED  BY <1>2 DEF Nearest

\* Wherever the scroll may run out, the nearest cell meets the rectangle: the middle is
\* at most half a pitch from it, and gaps are narrower than the view.
LEMMA NearestMeets ==
  ASSUME NEW f \in Frames, NEW p \in MinOffset(f)..MaxOffset(f), NEW k, Nearest(f, p, k)
  PROVE  Meets(f, p, k)
<1> DEFINE w == f.width
           h == w \div 2
           c == CellWidth(f)
           g == c \div 2
           x == CellCentre(f, k)
<1>1. /\ k \in 1..Cells /\ p \in Int /\ x \in Int /\ MinOffset(f) <= p /\ p <= MaxOffset(f)
      /\ MinOffset(f) \in Int /\ MaxOffset(f) \in Int
  BY Centres, ScrollRange DEF Nearest
<1>2. /\ w \in Nat /\ h \in Nat /\ c \in Nat /\ g \in Nat /\ 2 * h = w /\ 2 * g = c
      /\ Spacing \in Nat \ {0} /\ ItemWidth \in Nat \ {0} /\ Cells \in Nat \ {0}
      /\ ItemWidth <= c /\ Spacing < w
  BY Lengths, ScreenAssumption
<1>3. Pitch(f) = c + Spacing
  BY DEF Pitch
<1>4. Distance(f, p, k) = x - (p + h)
  BY DEF Distance, VisibleCentre
<1>5. 2 * (x - (p + h)) <= c + Spacing
  <2>1. CASE k = 1
    <3>1. 2 * (x - (MinOffset(f) + h)) = c - ItemWidth
      BY <2>1, ScrollRange
    <3> HIDE DEF w, h, c, g, x
    <3> QED  BY <1>1, <1>2, <3>1
  <2>2. CASE k # 1
    <3>1. k - 1 \in 1..Cells /\ k - 1 < k /\ k = (k - 1) + 1
      BY <1>1, <1>2, <2>2
    <3>2. x = CellCentre(f, k - 1) + (c + Spacing) /\ CellCentre(f, k - 1) \in Int
      BY <1>1, <1>3, <3>1, Neighbours, Centres
    <3>3. Distance(f, p, k - 1) = CellCentre(f, k - 1) - (p + h)
      BY DEF Distance, VisibleCentre
    <3>4. Abs(Distance(f, p, k)) <= Abs(Distance(f, p, k - 1))
      BY <3>1 DEF Nearest
    <3> HIDE DEF w, h, c, g, x
    <3> QED  BY <1>1, <1>2, <1>4, <3>2, <3>3, <3>4 DEF Abs
  <2> QED  BY <2>1, <2>2
<1>6. 2 * ((p + h) - x) <= c + Spacing
  <2>1. CASE k = Cells
    <3>1. 2 * ((MaxOffset(f) + h) - x) = c - ItemWidth
      BY <2>1, ScrollRange
    <3> HIDE DEF w, h, c, g, x
    <3> QED  BY <1>1, <1>2, <3>1
  <2>2. CASE k # Cells
    <3>1. k + 1 \in 1..Cells /\ k < k + 1
      BY <1>1, <1>2, <2>2
    <3>2. CellCentre(f, k + 1) = x + (c + Spacing) /\ CellCentre(f, k + 1) \in Int
      BY <1>1, <1>3, <3>1, Neighbours, Centres
    <3>3. Distance(f, p, k + 1) = CellCentre(f, k + 1) - (p + h)
      BY DEF Distance, VisibleCentre
    <3>4. Abs(Distance(f, p, k)) <= Abs(Distance(f, p, k + 1))
      BY <3>1 DEF Nearest
    <3> HIDE DEF w, h, c, g, x
    <3> QED  BY <1>1, <1>2, <1>4, <3>2, <3>3, <3>4 DEF Abs
  <2> QED  BY <2>1, <2>2
<1>7. x - g < p + w /\ x + g > p
  <2> HIDE DEF w, h, c, g, x
  <2> QED  BY <1>1, <1>2, <1>5, <1>6
<1> QED  BY <1>7 DEF Meets

\* What targetContentOffset computes: the offset that centres the first of the cells that
\* are nearest to where the scroll would have run out, among all the cells.
Target(f, p, k) ==
  /\ k \in 1..Cells
  /\ TargetContentOffset(f, p) = CentreOffset(f, k)
  /\ \A j \in 1..Cells :
       /\ Abs(CentreOffset(f, k) - p) <= Abs(CentreOffset(f, j) - p)
       /\ j < k => Abs(CentreOffset(f, k) - p) < Abs(CentreOffset(f, j) - p)

THEOREM TargetIsFirstNearest ==
  ASSUME NEW f \in Frames, NEW p \in MinOffset(f)..MaxOffset(f)
  PROVE  \E k \in 1..Cells : Target(f, p, k)
<1>1. p \in Int /\ Cells \in Nat \ {0}
  BY ScrollRange, LayoutAssumption
<1>2. PICK n \in 1..Cells : Nearest(f, p, n)
  BY <1>1, NearestExists
<1>3. Meets(f, p, n)
  BY <1>2, NearestMeets
<1>4. PICK k \in 1..Cells : /\ FirstNearest(f, p, Cells, k)
                            /\ Adjustments(f, p)[Cells] = Distance(f, p, k)
  <2>1. Cells \in 0..Cells
    BY <1>1
  <2> QED  BY <1>1, <1>2, <1>3, <2>1, LoopFindsNearest
<1>5. \A j \in 1..Cells : /\ Distance(f, p, j) = CentreOffset(f, j) - p
                          /\ CentreOffset(f, j) \in Int
                          /\ Abs(Distance(f, p, j)) \in Nat
  BY <1>1, Distances
<1>6. TargetContentOffset(f, p) = CentreOffset(f, k)
  BY <1>1, <1>4, <1>5 DEF TargetContentOffset
<1>7. Nearest(f, p, k)
  <2>1. Abs(Distance(f, p, k)) <= Abs(Distance(f, p, n))
    BY <1>3, <1>4 DEF FirstNearest
  <2> QED  BY <1>2, <1>5, <2>1 DEF Nearest
<1>8. ASSUME NEW j \in 1..Cells, j < k
      PROVE  Abs(Distance(f, p, k)) < Abs(Distance(f, p, j))
  <2>1. CASE Meets(f, p, j)
    BY <1>4, <1>8, <2>1 DEF FirstNearest
  <2>2. CASE ~Meets(f, p, j)
    <3>1. ~Nearest(f, p, j)
      BY <2>2, NearestMeets
    <3> QED  BY <1>5, <1>7, <3>1 DEF Nearest
  <2> QED  BY <2>1, <2>2
<1> QED  BY <1>5, <1>6, <1>7, <1>8 DEF Nearest, Target

-----------------------------------------------------------------------------
(* The row *)

LEMMA InitInvariant == Init => IInv
<1> SUFFICES ASSUME Init PROVE IInv
  OBVIOUS
<1>1. frame \in Frames /\ 1 \in 1..Cells
  BY LayoutAssumption DEF Init
<1>2. MinOffset(frame) \in MinOffset(frame)..MaxOffset(frame)
  BY <1>1, CentresInRange, ScrollRange
<1> QED  BY <1>1, <1>2 DEF Init, IInv, TypeOK

\* Letting go centres the first of the nearest cells.
LEMMA ReleaseCentres ==
  ASSUME IInv, Release
  PROVE  \E k \in 1..Cells : Target(frame, offset, k) /\ offset' = CentreOffset(frame, k)
<1>1. frame \in Frames /\ offset \in MinOffset(frame)..MaxOffset(frame)
  BY DEF IInv, TypeOK
<1>2. PICK k \in 1..Cells : Target(frame, offset, k)
  BY <1>1, TargetIsFirstNearest
<1> QED  BY <1>2 DEF Release, Target

LEMMA StepInvariant == IInv /\ [Next]_vars => IInv'
<1> SUFFICES ASSUME IInv, [Next]_vars PROVE IInv'
  OBVIOUS
<1>1. frame \in Frames
  BY DEF IInv, TypeOK
<1>2. ASSUME NEW p \in Positions(frame), Drag(p) PROVE IInv'
  BY <1>1, <1>2 DEF Drag, Positions, IInv, TypeOK
<1>3. ASSUME Release PROVE IInv'
  <2>1. PICK k \in 1..Cells : offset' = CentreOffset(frame, k)
    BY <1>3, ReleaseCentres
  <2>2. offset' \in MinOffset(frame)..MaxOffset(frame)
    BY <1>1, <2>1, CentresInRange
  <2>3. Centred'
    BY <1>3, <2>1 DEF Release, Centred
  <2> QED  BY <1>1, <1>3, <2>2, <2>3 DEF Release, IInv, TypeOK
<1>4. CASE UNCHANGED vars
  BY <1>4 DEF vars, IInv, TypeOK, Centred
<1> QED  BY <1>2, <1>3, <1>4 DEF Next

LEMMA Invariance == Spec => []IInv
BY InitInvariant, StepInvariant, PTL DEF Spec

\* The row lies within the range of its scroll view, also where it has come to rest.
THEOREM TypeCorrect == Spec => []TypeOK
<1>1. IInv => TypeOK
  BY DEF IInv
<1> QED  BY <1>1, Invariance, PTL

\* A snapped row shows one zoomed cell: the one in the middle, whose neighbours are a
\* pitch away and so not within the active distance.
THEOREM OneCellIsZoomed == Spec => []OneCellZoomed
<1>1. IInv => OneCellZoomed
  <2> SUFFICES ASSUME IInv, row = "snapped"
               PROVE  Cardinality({i \in 1..Cells : Zoomed(frame, offset, i)}) = 1
    BY DEF OneCellZoomed
  <2>1. frame \in Frames
    BY DEF IInv, TypeOK
  <2>2. PICK k \in 1..Cells : offset = CentreOffset(frame, k)
    BY DEF IInv, Centred
  <2>3. offset \in Int /\ k \in Nat
    BY <2>1, <2>2, Distances, LayoutAssumption DEF CentreOffset
  <2>4. Zoomed(frame, offset, k)
    <3>1. Distance(frame, offset, k) = 0
      BY <2>1, <2>2, <2>3, Distances
    <3>2. Nearest(frame, offset, k)
      BY <2>1, <2>3, <3>1, Distances DEF Nearest, Abs
    <3>3. Meets(frame, offset, k)
      BY <2>1, <3>2, NearestMeets DEF IInv, TypeOK
    <3> QED  BY <2>1, <3>1, <3>3, Lengths DEF Zoomed, Abs
  <2>5. ASSUME NEW i \in 1..Cells, i # k PROVE ~Zoomed(frame, offset, i)
    <3>1. i < k \/ k < i
      BY <2>5, LayoutAssumption
    <3>2. /\ CellCentre(frame, i) \in Int /\ CellCentre(frame, k) \in Int
          /\ \/ CellCentre(frame, i) + Pitch(frame) <= CellCentre(frame, k)
             \/ CellCentre(frame, k) + Pitch(frame) <= CellCentre(frame, i)
      BY <2>1, <3>1, Centres, Neighbours
    <3>3. Distance(frame, offset, i) = CellCentre(frame, i) - CellCentre(frame, k)
      <4>1. /\ Distance(frame, offset, i) = CentreOffset(frame, i) - offset
            /\ CentreOffset(frame, i) = CellCentre(frame, i) - frame.width \div 2
            /\ CentreOffset(frame, k) = CellCentre(frame, k) - frame.width \div 2
            /\ frame.width \div 2 \in Nat
        BY <2>1, <2>3, Distances, Lengths DEF CentreOffset
      <4> QED  BY <2>2, <2>3, <3>2, <4>1
    <3>4. ActiveDistance <= Pitch(frame) /\ ActiveDistance \in Nat /\ Pitch(frame) \in Nat
      BY <2>1, Lengths, ScreenAssumption DEF Pitch
    <3>5. ActiveDistance <= Abs(Distance(frame, offset, i))
      BY <3>2, <3>3, <3>4 DEF Abs
    <3>6. Abs(Distance(frame, offset, i)) \in Nat
      BY <2>1, <2>3, Distances
    <3> QED  BY <3>4, <3>5, <3>6 DEF Zoomed
  <2>6. {i \in 1..Cells : Zoomed(frame, offset, i)} = {k}
    BY <2>4, <2>5
  <2> QED  BY <2>6, FS_Singleton
<1> QED  BY <1>1, Invariance, PTL

\* Of two places the scroll may run out at, the farther never rests on an earlier cell:
\* the loop's strict comparison breaks every tie the same way.
THEOREM FartherThrowsAreMonotone == Spec => []FartherIsNeverEarlier
<1>1. IInv => FartherIsNeverEarlier
  <2> SUFFICES ASSUME IInv, NEW p \in Positions(frame), offset <= p
               PROVE  TargetContentOffset(frame, offset) <= TargetContentOffset(frame, p)
    BY DEF FartherIsNeverEarlier
  <2>1. /\ frame \in Frames
        /\ offset \in MinOffset(frame)..MaxOffset(frame)
        /\ p \in MinOffset(frame)..MaxOffset(frame)
    BY DEF IInv, TypeOK, Positions
  <2>2. PICK j \in 1..Cells : Target(frame, offset, j)
    BY <2>1, TargetIsFirstNearest
  <2>3. PICK k \in 1..Cells : Target(frame, p, k)
    BY <2>1, TargetIsFirstNearest
  <2> DEFINE a == CentreOffset(frame, j)
             b == CentreOffset(frame, k)
  <2>4. offset \in Int /\ p \in Int /\ a \in Int /\ b \in Int /\ j \in Int /\ k \in Int
    BY <2>1, CentresInRange, ScrollRange
  <2>5. /\ Abs(a - offset) <= Abs(b - offset)
        /\ k < j => Abs(a - offset) < Abs(b - offset)
        /\ Abs(b - p) <= Abs(a - p)
    BY <2>2, <2>3 DEF Target
  <2>6. j <= k => a <= b
    <3>1. CellCentre(frame, j) \in Int /\ CellCentre(frame, k) \in Int /\ Pitch(frame) \in Nat
      BY <2>1, Centres, Lengths
    <3>2. j < k => CellCentre(frame, j) + Pitch(frame) <= CellCentre(frame, k)
      BY <2>1, Neighbours
    <3>3. frame.width \div 2 \in Nat
      BY <2>1, Lengths
    <3> QED  BY <2>4, <3>1, <3>2, <3>3 DEF CentreOffset
  <2>7. a <= b
    <3> HIDE DEF a, b
    <3> QED  BY <2>4, <2>5, <2>6 DEF Abs
  <2> QED  BY <2>2, <2>3, <2>7 DEF Target
<1> QED  BY <1>1, Invariance, PTL

\* Letting go centres the cell nearest to where the scroll would have run out, of all the
\* cells and not only of those the loop has looked at.
THEOREM ReleaseAlwaysCentresNearest == Spec => ReleaseCentresNearest
<1> DEFINE Snaps == /\ Centred'
                    /\ \A i \in 1..Cells :
                         Abs(offset' - offset) <= Abs(CentreOffset(frame, i) - offset)
<1>1. IInv /\ [Next]_vars => [Release => Snaps]_vars
  <2> SUFFICES ASSUME IInv, Release PROVE Snaps
    OBVIOUS
  <2>1. PICK k \in 1..Cells : Target(frame, offset, k) /\ offset' = CentreOffset(frame, k)
    BY ReleaseCentres
  <2>2. frame' = frame
    BY DEF Release
  <2> QED  BY <2>1, <2>2 DEF Target, Centred, CentreOffset
<1> QED  BY <1>1, Invariance, PTL DEF Spec, ReleaseCentresNearest
================================================================================
