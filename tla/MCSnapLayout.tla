----------------------------- MODULE MCSnapLayout -----------------------------
(* Instances of SnapLayout for TLC, in quarters of a point. *)
EXTENDS SnapLayout

\* The storyboard keeps the row 20 points from either side of the screen, which take
\* as much off the safe-area margin that reaches into the row.
Row(screen, width, notch) ==
  [screen |-> 4 * screen, width |-> 4 * (width - 40),
   margin |-> 4 * (IF notch > 20 THEN notch - 20 ELSE 0)]

\* The narrowest phone, one with an odd width, a common one, the common one on its
\* side with its notch, and a third of a tablet's screen.
MCFrames ==
  {Row(320, 320, 0), Row(375, 375, 0), Row(390, 390, 0), Row(844, 844, 47),
   Row(1024, 320, 0)}

=============================================================================
