------------------------------ MODULE MCSideMenu ------------------------------
(* Instances of SideMenu for TLC. *)
EXTENDS SideMenu

\* Slow and fast swipes either way, on both sides of the threshold, and a pan
\* that begins vertically.
MCVelocities == {-600, -550, 0, 100, 551}

\* Drags that stop short of half the menu, at half, past it, and past the edge.
MCTranslations == {-400, -131, -130, 0, 130, 131, 260, 300}

=============================================================================
