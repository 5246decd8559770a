------------------------------ MODULE SnapLayout ------------------------------
(***************************************************************************)
(* The snapping row of parking lots: ZoomAndSnapFlowLayout with the cell   *)
(* size its delegate, GoogleMapController, gives it.  The row is dragged   *)
(* and let go; the layout chooses where the scroll comes to rest and how   *)
(* much each cell is zoomed there.                                         *)
(*                                                                         *)
(* Lengths are integers, in a unit small enough for the halves and         *)
(* quarters the code computes.  A frame is the collection view on a screen *)
(* of a device: the screen's width, the view's, and the safe-area margin   *)
(* on either side of it (adjustedContentInset).                            *)
(***************************************************************************)
EXTENDS Integers, FiniteSets

CONSTANTS
  Cells,            (* the number of parking lots                           *)
  Spacing,          (* minimumLineSpacing                                   *)
  ItemWidth,        (* itemSize.width, of the layout                        *)
  ActiveDistance,   (* activeDistance                                       *)
  FarAway,          (* greatestFiniteMagnitude                              *)
  Frames,           (* the frames a device may have                         *)
  Grain             (* bound: drags and proposals end at multiples of it    *)

ASSUME LayoutAssumption ==
  /\ Cells \in Nat \ {0}
  /\ {Spacing, ItemWidth, ActiveDistance, FarAway, Grain} \subseteq Nat \ {0}
  /\ Frames \subseteq [screen : Nat, width : Nat, margin : Nat]
  /\ ItemWidth % 2 = 0
  /\ \A f \in Frames : f.screen % 4 = 0 /\ f.width % 2 = 0

VARIABLES
  frame,    (* the collection view's frame                                  *)
  offset,   (* contentOffset.x                                              *)
  row       (* "fresh": laid out, never scrolled; "dragged"; "snapped"      *)

vars == <<frame, offset, row>>

-----------------------------------------------------------------------------
(* Geometry *)

Abs(x) == IF x < 0 THEN -x ELSE x

\* sizeForItemAt: half the screen, whatever itemSize says.
CellWidth(f) == f.screen \div 2

\* What is true of every screen from 320 points on (ItemWidth is 150, Spacing 40,
\* ActiveDistance 200): a cell is as wide as itemSize, its neighbours are not within
\* the active distance, the view is wider than the gap between two cells, and
\* greatestFiniteMagnitude is beyond them all.
ASSUME ScreenAssumption ==
  \A f \in Frames : /\ ItemWidth <= CellWidth(f)
                   /\ ActiveDistance <= CellWidth(f) + Spacing
                   /\ Spacing < f.width
                   /\ f.width + CellWidth(f) <= FarAway

\* Mutant: prepare leaves the insets alone.
NoInset(f) == 0

\* prepare: insets that would centre a first cell of itemSize.
HorizontalInset(f) == (f.width - 2 * f.margin - ItemWidth) \div 2

\* The flow layout puts the cells one after another between the insets.
CellCentre(f, i) ==
  HorizontalInset(f) + (i - 1) * (CellWidth(f) + Spacing) + CellWidth(f) \div 2

ContentWidth(f) ==
  2 * HorizontalInset(f) + Cells * CellWidth(f) + (Cells - 1) * Spacing

\* Where a scroll view lets its content rest.
MinOffset(f) == -f.margin
MaxOffset(f) == ContentWidth(f) + f.margin - f.width

\* The offset that centres cell i, and the centre of what is visible at offset p.
CentreOffset(f, i)   == CellCentre(f, i) - f.width \div 2
VisibleCentre(f, p)  == p + f.width \div 2

-----------------------------------------------------------------------------
(* targetContentOffset(forProposedContentOffset:withScrollingVelocity:) *)

\* Mutant: only the cells that lie within the rectangle.
MeetsWhole(f, p, i) ==
  /\ CellCentre(f, i) - CellWidth(f) \div 2 >= p
  /\ CellCentre(f, i) + CellWidth(f) \div 2 <= p + f.width

\* super.layoutAttributesForElements(in:): the cells that meet the target rectangle.
Meets(f, p, i) ==
  /\ CellCentre(f, i) - CellWidth(f) \div 2 < p + f.width
  /\ CellCentre(f, i) + CellWidth(f) \div 2 > p

\* Mutant: the loop compares signed distances.
CloserSigned(adjustment, distance) ==
  IF distance < adjustment THEN distance ELSE adjustment

\* One turn of the loop: the distance of a cell replaces a larger one.
Closer(adjustment, distance) ==
  IF Abs(distance) < Abs(adjustment) THEN distance ELSE adjustment

Distance(f, p, i) == CellCentre(f, i) - VisibleCentre(f, p)

\* offsetAdjustment, before the loop and after the turn of each cell.
Adjustments(f, p) ==
  LET After[n \in 0..Cells] ==
        IF n = 0 THEN FarAway
        ELSE IF Meets(f, p, n) THEN Closer(After[n - 1], Distance(f, p, n))
        ELSE After[n - 1]
  IN  After

TargetContentOffset(f, p) == p + Adjustments(f, p)[Cells]

\* Mutant: a cell just at the active distance is zoomed too.
ZoomedInclusive(f, p, i) ==
  /\ Meets(f, p, i)
  /\ Abs(Distance(f, p, i)) <= ActiveDistance

\* layoutAttributesForElements(in:): a cell is zoomed while its centre is within
\* the active distance of the middle, the more so the nearer it is.
Zoomed(f, p, i) ==
  /\ Meets(f, p, i)
  /\ Abs(Distance(f, p, i)) < ActiveDistance

-----------------------------------------------------------------------------
(* The row *)

\* Where a scroll may run out: anywhere, but for the bound.
Positions(f) ==
  {p \in MinOffset(f)..MaxOffset(f) :
     (p - MinOffset(f)) % Grain = 0 \/ p = MaxOffset(f)}

TypeOK ==
  /\ frame \in Frames
  /\ offset \in MinOffset(frame)..MaxOffset(frame)
  /\ row \in {"fresh", "dragged", "snapped"}

Init ==
  /\ frame \in Frames
  /\ offset = MinOffset(frame)
  /\ row = "fresh"

\* A finger moves the row; left alone, the scroll would run out at p.
Drag(p) ==
  /\ offset' = p
  /\ row' = "dragged"
  /\ UNCHANGED frame

\* The finger lifts, and the layout is asked where to rest instead.
Release ==
  /\ row = "dragged"
  /\ offset' = TargetContentOffset(frame, offset)
  /\ row' = "snapped"
  /\ UNCHANGED frame

Next ==
  \/ \E p \in Positions(frame) : Drag(p)
  \/ Release

Spec == Init /\ [][Next]_vars

-----------------------------------------------------------------------------
(* Properties *)

\* A cell is in the middle.
Centred == \E i \in 1..Cells : offset = CentreOffset(frame, i)

\* Letting go centres the cell that is nearest to where the scroll would have run
\* out, among all the cells and not only those the rectangle met.
ReleaseCentresNearest ==
  [][Release => /\ Centred'
                /\ \A i \in 1..Cells :
                     Abs(offset' - offset) <= Abs(CentreOffset(frame, i) - offset)]_vars

\* A row that has snapped shows one zoomed cell, the one in the middle, on the
\* narrowest screen too, where the next cell is just at the active distance.
OneCellZoomed ==
  row = "snapped" => Cardinality({i \in 1..Cells : Zoomed(frame, offset, i)}) = 1

\* Throwing the row farther never brings it to rest on an earlier cell.
FartherIsNeverEarlier ==
  row = "dragged" =>
    \A p \in Positions(frame) :
      offset <= p => TargetContentOffset(frame, offset) <= TargetContentOffset(frame, p)

-----------------------------------------------------------------------------
(* The inductive invariant: what has snapped is centred, so its middle is a cell's. *)

IInv ==
  /\ TypeOK
  /\ row = "snapped" => Centred

=============================================================================
