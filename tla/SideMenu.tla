------------------------------ MODULE SideMenu ------------------------------
(***************************************************************************)
(* The sliding side menu of MainViewController: the constraint that places *)
(* it, the flag isExpanded that is written only when an animation ends,    *)
(* the shadow behind it, and the gestures, buttons, rotations and menu     *)
(* rows that drive it.  The menu always lies on top of the content         *)
(* (revealSideMenuOnTop is TRUE and never assigned).                       *)
(*                                                                         *)
(* UIKit is the environment.  An animation sets the constraint at once and *)
(* calls its completion when its half second is over, so completions come  *)
(* in the order the animations began; an animation that changes nothing    *)
(* may complete at once.                                                   *)
(***************************************************************************)
EXTENDS Integers, Sequences

CONSTANTS
  RevealWidth,     (* sideMenuRevealWidth                                   *)
  Padding,         (* paddingForRotation                                    *)
  Threshold,       (* velocityThreshold                                     *)
  Velocities,      (* horizontal velocities a pan may begin with            *)
  Translations,    (* horizontal distances a pan may report                 *)
  MaxAnimations,   (* bound: animations running at once                     *)
  MaxRotations,    (* bound: rotations of the device                        *)
  MaxCancels       (* bound: pans that the system cancels                   *)

ASSUME MenuAssumption ==
  /\ RevealWidth \in Nat \ {0}
  /\ Padding \in Nat
  /\ Threshold \in Nat
  /\ Velocities \subseteq Int
  /\ Translations \subseteq Int
  /\ MaxAnimations \in Nat
  /\ MaxRotations \in Nat
  /\ MaxCancels \in Nat

VARIABLES
  isExpanded,         (* what the code believes of the menu                 *)
  constant,           (* sideMenuTrailingConstraint.constant                *)
  shadow,             (* alpha of sideMenuShadowView: 0, 0.6, or a drag's   *)
  draggingIsEnabled,
  panBaseLocation,
  pan,                (* the pan recognizer is tracking a finger, or idle   *)
  animations,         (* running animations, oldest first: expanding or not *)
  collapses,          (* collapses that menu rows left on the main queue    *)
  rotations, cancels, (* used-up bounds                                     *)
  calm                (* history: no pan has begun during an animation or   *)
                      (* met another finger, no drag has been cancelled,    *)
                      (* and no rotation came during either                 *)

vars == <<isExpanded, constant, shadow, draggingIsEnabled, panBaseLocation, pan,
          animations, collapses, rotations, cancels, calm>>

Open      == 0
Collapsed == -RevealWidth - Padding

\* Where a menu in this state lies, and how dark the shadow is then.
Resting(expanded)  == IF expanded THEN Open ELSE Collapsed
Darkness(expanded) == IF expanded THEN "dim" ELSE "clear"

TypeOK ==
  /\ isExpanded \in BOOLEAN
  /\ constant \in Int
  /\ shadow \in {"clear", "dim", "drag"}
  /\ draggingIsEnabled \in BOOLEAN
  /\ panBaseLocation \in {0, RevealWidth}
  /\ pan \in {"idle", "tracking"}
  /\ animations \in Seq(BOOLEAN)
  /\ collapses \in Nat
  /\ rotations \in 0..MaxRotations
  /\ cancels \in 0..MaxCancels
  /\ calm \in BOOLEAN

Init ==
  /\ isExpanded = FALSE
  /\ constant = Collapsed
  /\ shadow = "clear"
  /\ draggingIsEnabled = FALSE
  /\ panBaseLocation = 0
  /\ pan = "idle"
  /\ animations = <<>>
  /\ collapses = 0
  /\ rotations = 0
  /\ cancels = 0
  /\ calm = TRUE

-----------------------------------------------------------------------------
(* Animations *)

\* sideMenuState(expanded:), with animateSideMenu: the constraint and the shadow
\* change now, isExpanded when the animation completes.
SideMenuState(expanded) ==
  /\ Len(animations) < MaxAnimations
  /\ constant' = Resting(expanded)
  /\ shadow' = Darkness(expanded)
  /\ \/ /\ animations' = Append(animations, expanded)
        /\ UNCHANGED isExpanded
     \/ /\ constant = Resting(expanded)
        /\ isExpanded' = expanded
        /\ UNCHANGED animations

\* Mutant: the completion block sets isExpanded to TRUE in both branches.
CompleteAnimationAlwaysExpands ==
  /\ animations # <<>>
  /\ isExpanded' = TRUE
  /\ animations' = Tail(animations)
  /\ UNCHANGED <<constant, shadow, draggingIsEnabled, panBaseLocation, pan,
                 collapses, rotations, cancels, calm>>

\* The completion block of the oldest animation.
CompleteAnimation ==
  /\ animations # <<>>
  /\ isExpanded' = Head(animations)
  /\ animations' = Tail(animations)
  /\ UNCHANGED <<constant, shadow, draggingIsEnabled, panBaseLocation, pan,
                 collapses, rotations, cancels, calm>>

-----------------------------------------------------------------------------
(* Buttons, taps, rows and rotations *)

\* revealSideMenu, from the menu button of the content; a second finger may tap it
\* during a pan.
RevealSideMenu ==
  /\ SideMenuState(~isExpanded)
  /\ calm' = (calm /\ pan = "idle")
  /\ UNCHANGED <<draggingIsEnabled, panBaseLocation, pan, collapses, rotations,
                 cancels>>

\* TapGestureRecognizer, for a tap outside the menu (shouldReceive touch).
TapOutside ==
  /\ pan = "idle"
  /\ isExpanded
  /\ SideMenuState(FALSE)
  /\ UNCHANGED <<draggingIsEnabled, panBaseLocation, pan, collapses, rotations,
                 cancels, calm>>

\* selectedCell, for a tap of any finger: the menu collapses in a later block of
\* the main queue.
SelectRow ==
  /\ constant > -RevealWidth
  /\ calm' = (calm /\ pan = "idle")
  /\ collapses < MaxAnimations
  /\ collapses' = collapses + 1
  /\ UNCHANGED <<isExpanded, constant, shadow, draggingIsEnabled, panBaseLocation,
                 pan, animations, rotations, cancels>>

RunCollapse ==
  /\ collapses > 0
  /\ collapses' = collapses - 1
  /\ SideMenuState(FALSE)
  /\ UNCHANGED <<draggingIsEnabled, panBaseLocation, pan, rotations, cancels, calm>>

\* viewWillTransition places the menu where isExpanded says it is.
Rotate ==
  /\ rotations < MaxRotations
  /\ rotations' = rotations + 1
  /\ calm' = (calm /\ animations = <<>> /\ pan = "idle")
  /\ constant' = Resting(isExpanded)
  /\ UNCHANGED <<isExpanded, shadow, draggingIsEnabled, panBaseLocation, pan,
                 animations, collapses, cancels>>

-----------------------------------------------------------------------------
(* handlePanGesture *)

Abs(v) == IF v < 0 THEN -v ELSE v

\* Swiping right on a closed menu, or left on an open one, enables dragging; an
\* earlier pan may have left it enabled.
DraggingAfterBegan(v) ==
  \/ draggingIsEnabled
  \/ v > 0 /\ ~isExpanded
  \/ v < 0 /\ isExpanded

\* Mutant: the drag is measured from the constraint.
PanBaseIsConstant == constant

\* How much of the menu shows when the pan begins.
PanBase == IF isExpanded THEN RevealWidth ELSE 0

\* .began.  Swiping right on an open menu cancels the recognizer.  A fast swipe
\* toggles the menu and does not drag it.
PanBegan(v) ==
  /\ pan = "idle"
  /\ calm' = (calm /\ animations = <<>> /\ collapses = 0)
  /\ pan' = IF v > 0 /\ isExpanded THEN "idle" ELSE "tracking"
  /\ IF DraggingAfterBegan(v) /\ Abs(v) > Threshold
       THEN /\ SideMenuState(~isExpanded)
            /\ draggingIsEnabled' = FALSE
            /\ UNCHANGED panBaseLocation
       ELSE /\ draggingIsEnabled' = DraggingAfterBegan(v)
            /\ panBaseLocation' = IF ~DraggingAfterBegan(v) THEN panBaseLocation
                                  ELSE PanBase
            /\ UNCHANGED <<isExpanded, constant, shadow, animations>>
  /\ UNCHANGED <<collapses, rotations, cancels>>

\* .changed.  The menu follows the finger up to its full width.
PanChanged(x) ==
  LET xLocation == panBaseLocation + x IN
  /\ pan = "tracking"
  /\ draggingIsEnabled
  /\ shadow' = "drag"
  /\ constant' = IF xLocation <= RevealWidth THEN xLocation - RevealWidth ELSE constant
  /\ UNCHANGED <<isExpanded, draggingIsEnabled, panBaseLocation, pan, animations,
                 collapses, rotations, cancels, calm>>

\* Mutant: .ended settles only the drags that moved more than half.
PanEndedMovedOnly ==
  /\ pan = "tracking"
  /\ pan' = "idle"
  /\ draggingIsEnabled' = FALSE
  /\ IF 2 * constant > -RevealWidth
       THEN SideMenuState(TRUE)
       ELSE UNCHANGED <<isExpanded, constant, shadow, animations>>
  /\ UNCHANGED <<panBaseLocation, collapses, rotations, cancels, calm>>

\* .ended.  The menu snaps to the nearer of its two places.
PanEnded ==
  /\ pan = "tracking"
  /\ pan' = "idle"
  /\ draggingIsEnabled' = FALSE
  /\ SideMenuState(2 * constant > -RevealWidth)
  /\ UNCHANGED <<panBaseLocation, collapses, rotations, cancels, calm>>

\* Mutant: the default case stops dragging and leaves the menu where it is.
PanCancelledStops ==
  /\ pan = "tracking"
  /\ cancels < MaxCancels
  /\ cancels' = cancels + 1
  /\ calm' = (calm /\ ~draggingIsEnabled)
  /\ pan' = "idle"
  /\ draggingIsEnabled' = FALSE
  /\ UNCHANGED <<isExpanded, constant, shadow, panBaseLocation, animations,
                 collapses, rotations>>

\* .cancelled or .failed, from the system: the default case does nothing.
PanCancelled ==
  /\ pan = "tracking"
  /\ cancels < MaxCancels
  /\ cancels' = cancels + 1
  /\ calm' = (calm /\ ~draggingIsEnabled)
  /\ pan' = "idle"
  /\ UNCHANGED <<isExpanded, constant, shadow, draggingIsEnabled, panBaseLocation,
                 animations, collapses, rotations>>

-----------------------------------------------------------------------------
Next ==
  \/ CompleteAnimation
  \/ RevealSideMenu
  \/ TapOutside
  \/ SelectRow
  \/ RunCollapse
  \/ Rotate
  \/ \E v \in Velocities : PanBegan(v)
  \/ \E x \in Translations : PanChanged(x)
  \/ PanEnded
  \/ PanCancelled

Spec == Init /\ [][Next]_vars

-----------------------------------------------------------------------------
(* Properties *)

\* No finger, no animation and no block of the main queue is about to move it.
AtRest == pan = "idle" /\ animations = <<>> /\ collapses = 0

\* A menu at rest lies where isExpanded says, under the shadow that goes with it:
\* however taps, swipes, drags and rows followed one another, the completions that
\* set isExpanded late left it at the last place the constraint was sent to.  It
\* takes a pan or a rotation in the midst of something else, or a cancelled drag, to
\* make the two disagree.
RestingMenuAgrees ==
  calm /\ AtRest => /\ constant = Resting(isExpanded)
                    /\ shadow = Darkness(isExpanded)

\* "If the side menu is half Open/Close, then Expand/Collapse with animation" says
\* the comment in .ended, and sideMenuState knows two places only: no menu at rest
\* lies between them, partly on the screen.
NeverHalfOpen == AtRest => ~(-RevealWidth < constant /\ constant < Open)

\* Much more holds as long as every pan ends: no overlap of taps, swipes, drags,
\* rows, animations and rotations leaves a menu at rest away from its two places,
\* only the system cancelling a pan does.
OnlyCancelsLeaveHalfOpen ==
  AtRest /\ constant \notin {Open, Collapsed} => cancels > 0

\* A menu that lies anywhere else is enabled for dragging, in a pan or left over
\* from a cancelled one: what OnlyCancelsLeaveHalfOpen and SwipesMoveHalfOpen rest on.
HalfOpenStillDrags == constant \notin {Open, Collapsed} => draggingIsEnabled

\* A swipe that finds the menu half open, or still where a cancelled pan left it,
\* takes hold of it or sends it to one of its two places.  The one swipe that does
\* neither is the slow one to the right while isExpanded is TRUE, which .began
\* cancels: then the menu stays where it is.
SwipesMoveHalfOpen ==
  [][\A v \in Velocities :
       PanBegan(v) /\ constant \notin {Open, Collapsed} =>
         \/ pan' = "tracking" /\ draggingIsEnabled'
         \/ constant' \in {Open, Collapsed}
         \/ isExpanded /\ v \in 1..Threshold /\ UNCHANGED constant]_vars

\* "Keep the state of the side menu (expanded or collapse) in rotation": rotating
\* the device sends a menu that no finger holds nowhere else.
RotationKeepsState == [][Rotate /\ pan = "idle" => constant' = constant]_vars

-----------------------------------------------------------------------------
(* The inductive invariant behind RestingMenuAgrees *)

\* The state the menu was last sent to: the one its newest animation will set.
Goal == IF animations = <<>> THEN isExpanded ELSE animations[Len(animations)]

Dragged == pan = "tracking" /\ draggingIsEnabled

\* Only a drag takes the menu away from its goal, and no animation runs then.
MenuInv ==
  /\ TypeOK
  /\ calm =>
       /\ IF Dragged
            THEN animations = <<>> /\ collapses = 0
            ELSE constant = Resting(Goal) /\ shadow = Darkness(Goal)
       /\ pan = "idle" => ~draggingIsEnabled
       /\ pan = "tracking" => collapses = 0

=============================================================================
