--------------------------- MODULE SideMenu_proofs ---------------------------
(***************************************************************************)
(* What TLAPS proves of SideMenu, for every width, threshold, velocity and *)
(* distance: the menu's types, what a swipe does to a half-open menu, and  *)
(* that a resting menu agrees with the flag isExpanded until a pan meets   *)
(* something else.                                                         *)
(***************************************************************************)
EXTENDS SideMenu, TLAPS

\* The two places of the menu are integers.
LEMMA Places == ASSUME NEW e \in BOOLEAN
                PROVE  /\ Resting(e) \in Int
                       /\ Resting(e) \in {Open, Collapsed}
                       /\ Darkness(e) \in {"clear", "dim"}
BY MenuAssumption DEF Resting, Darkness, Open, Collapsed

-----------------------------------------------------------------------------
(* Types *)

\* An animated change keeps the types of the four variables it touches.
LEMMA AnimationTypes ==
  ASSUME TypeOK, NEW e \in BOOLEAN, SideMenuState(e)
  PROVE  /\ isExpanded' \in BOOLEAN
         /\ constant' \in Int
         /\ shadow' \in {"clear", "dim", "drag"}
         /\ animations' \in Seq(BOOLEAN)
<1>1. constant' = Resting(e) /\ shadow' = Darkness(e)
  BY DEF SideMenuState
<1>2. \/ animations' = Append(animations, e) /\ isExpanded' = isExpanded
      \/ animations' = animations /\ isExpanded' = e
  BY DEF SideMenuState
<1>3. isExpanded \in BOOLEAN /\ animations \in Seq(BOOLEAN)
  BY DEF TypeOK
<1>4. constant' \in Int /\ shadow' \in {"clear", "dim", "drag"}
  BY <1>1, Places
<1>5. isExpanded' \in BOOLEAN /\ animations' \in Seq(BOOLEAN)
  BY <1>2, <1>3
<1> QED  BY <1>4, <1>5

\* The initial state and every step of the menu keep its types.
LEMMA TypeInit == Init => TypeOK
<1> SUFFICES ASSUME Init PROVE TypeOK
  OBVIOUS
<1>1. constant \in Int
  BY MenuAssumption DEF Init, Collapsed
<1>2. animations \in Seq(BOOLEAN)
  BY DEF Init
<1>3. rotations \in 0..MaxRotations /\ cancels \in 0..MaxCancels
  BY MenuAssumption DEF Init
<1> QED  BY <1>1, <1>2, <1>3 DEF Init, TypeOK

LEMMA TypeStep == TypeOK /\ [Next]_vars => TypeOK'
<1> SUFFICES ASSUME TypeOK, [Next]_vars PROVE TypeOK'
  OBVIOUS
<1>1. CASE CompleteAnimation
  <2>1. isExpanded' \in BOOLEAN /\ animations' \in Seq(BOOLEAN)
    BY <1>1 DEF CompleteAnimation, TypeOK
  <2> QED  BY <1>1, <2>1 DEF CompleteAnimation, TypeOK
<1>2. CASE RevealSideMenu
  <2>1. SideMenuState(~isExpanded) /\ (~isExpanded) \in BOOLEAN
    BY <1>2 DEF RevealSideMenu, TypeOK
  <2> QED  BY <1>2, <2>1, AnimationTypes DEF RevealSideMenu, TypeOK
<1>3. CASE TapOutside
  BY <1>3, AnimationTypes DEF TapOutside, TypeOK
<1>4. CASE SelectRow
  BY <1>4 DEF SelectRow, TypeOK
<1>5. CASE RunCollapse
  <2>1. collapses' \in Nat
    BY <1>5 DEF RunCollapse, TypeOK
  <2> QED  BY <1>5, <2>1, AnimationTypes DEF RunCollapse, TypeOK
<1>6. CASE Rotate
  <2>1. constant' \in Int /\ rotations' \in 0..MaxRotations
    BY <1>6, Places, MenuAssumption DEF Rotate, TypeOK
  <2> QED  BY <1>6, <2>1 DEF Rotate, TypeOK
<1>7. ASSUME NEW v \in Velocities, PanBegan(v) PROVE TypeOK'
  <2>1. pan' \in {"idle", "tracking"}
    BY <1>7 DEF PanBegan
  <2>2. draggingIsEnabled' \in BOOLEAN
    BY <1>7 DEF PanBegan, DraggingAfterBegan
  <2>3. panBaseLocation' \in {0, RevealWidth}
    BY <1>7 DEF PanBegan, PanBase, TypeOK
  <2>4. /\ isExpanded' \in BOOLEAN
        /\ constant' \in Int
        /\ shadow' \in {"clear", "dim", "drag"}
        /\ animations' \in Seq(BOOLEAN)
    <3>1. CASE SideMenuState(~isExpanded)
      BY <3>1, AnimationTypes, (~isExpanded) \in BOOLEAN
    <3>2. CASE UNCHANGED <<isExpanded, constant, shadow, animations>>
      BY <3>2 DEF TypeOK
    <3> QED  BY <1>7, <3>1, <3>2 DEF PanBegan
  <2>5. UNCHANGED <<collapses, rotations, cancels>> /\ calm' \in BOOLEAN
    BY <1>7 DEF PanBegan, TypeOK
  <2> QED  BY <2>1, <2>2, <2>3, <2>4, <2>5 DEF TypeOK
<1>8. ASSUME NEW x \in Translations, PanChanged(x) PROVE TypeOK'
  <2>1. constant' \in Int
    BY <1>8, MenuAssumption DEF PanChanged, TypeOK
  <2> QED  BY <1>8, <2>1 DEF PanChanged, TypeOK
<1>9. CASE PanEnded
  <2>1. SideMenuState(2 * constant > -RevealWidth)
        /\ (2 * constant > -RevealWidth) \in BOOLEAN
    BY <1>9 DEF PanEnded
  <2> QED  BY <1>9, <2>1, AnimationTypes DEF PanEnded, TypeOK
<1>10. CASE PanCancelled
  BY <1>10, MenuAssumption DEF PanCancelled, TypeOK
<1>11. CASE UNCHANGED vars
  BY <1>11 DEF vars, TypeOK
<1> QED
  BY <1>1, <1>2, <1>3, <1>4, <1>5, <1>6, <1>7, <1>8, <1>9, <1>10, <1>11 DEF Next

\* The side menu's variables keep their types, whatever the constants.
THEOREM TypeCorrect == Spec => []TypeOK
BY TypeInit, TypeStep, PTL DEF Spec

-----------------------------------------------------------------------------
(* A half-open menu *)

\* After an animated change the menu lies at one of its two places.
LEMMA AnimationRests ==
  ASSUME NEW e \in BOOLEAN, SideMenuState(e)
  PROVE  constant' \in {Open, Collapsed}
BY Places DEF SideMenuState

\* Only a drag leaves the two places, and only .ended, which snaps the menu back,
\* and a fast swipe, which animates it, disable dragging.
LEMMA HalfOpenStep == TypeOK /\ HalfOpenStillDrags /\ [Next]_vars => HalfOpenStillDrags'
<1> SUFFICES ASSUME TypeOK, HalfOpenStillDrags, [Next]_vars PROVE HalfOpenStillDrags'
  OBVIOUS
<1> USE DEF HalfOpenStillDrags, Open, Collapsed
<1>1. CASE CompleteAnimation
  BY <1>1 DEF CompleteAnimation
<1>2. CASE RevealSideMenu
  BY <1>2, AnimationRests, (~isExpanded) \in BOOLEAN DEF RevealSideMenu
<1>3. CASE TapOutside
  BY <1>3, AnimationRests DEF TapOutside
<1>4. CASE SelectRow
  BY <1>4 DEF SelectRow
<1>5. CASE RunCollapse
  BY <1>5, AnimationRests DEF RunCollapse
<1>6. CASE Rotate
  BY <1>6, Places DEF Rotate, TypeOK
<1>7. ASSUME NEW v \in Velocities, PanBegan(v) PROVE HalfOpenStillDrags'
  <2>1. CASE SideMenuState(~isExpanded)
    BY <2>1, AnimationRests, (~isExpanded) \in BOOLEAN
  <2>2. CASE UNCHANGED constant /\ draggingIsEnabled' = DraggingAfterBegan(v)
    BY <2>2 DEF DraggingAfterBegan
  <2> QED  BY <1>7, <2>1, <2>2 DEF PanBegan
<1>8. ASSUME NEW x \in Translations, PanChanged(x) PROVE HalfOpenStillDrags'
  BY <1>8 DEF PanChanged
<1>9. CASE PanEnded
  BY <1>9, AnimationRests, (2 * constant > -RevealWidth) \in BOOLEAN DEF PanEnded
<1>10. CASE PanCancelled
  BY <1>10 DEF PanCancelled
<1>11. CASE UNCHANGED vars
  BY <1>11 DEF vars
<1> QED
  BY <1>1, <1>2, <1>3, <1>4, <1>5, <1>6, <1>7, <1>8, <1>9, <1>10, <1>11 DEF Next

\* The invariant that the two theorems below rest on.
LEMMA DraggingStaysEnabled == Spec => []HalfOpenStillDrags
<1>1. Init => HalfOpenStillDrags
  BY DEF Init, HalfOpenStillDrags
<1> QED
  BY <1>1, TypeCorrect, HalfOpenStep, PTL DEF Spec

\* Wherever overlapping gestures, cancelled pans and rotations left the menu, the
\* next swipe takes hold of it or sends it to one of its places; only the slow swipe
\* to the right, which .began cancels while isExpanded is TRUE, leaves it there.
THEOREM SwipesAlwaysMoveHalfOpen == Spec => SwipesMoveHalfOpen
<1>1. ASSUME HalfOpenStillDrags, constant \notin {Open, Collapsed},
             NEW v \in Velocities, PanBegan(v)
      PROVE  \/ pan' = "tracking" /\ draggingIsEnabled'
             \/ constant' \in {Open, Collapsed}
             \/ isExpanded /\ v \in 1..Threshold /\ UNCHANGED constant
  <2>1. DraggingAfterBegan(v)
    BY <1>1 DEF HalfOpenStillDrags, DraggingAfterBegan
  <2>2. CASE Abs(v) > Threshold
    <3>1. SideMenuState(~isExpanded) /\ (~isExpanded) \in BOOLEAN
      BY <1>1, <2>1, <2>2 DEF PanBegan
    <3> QED  BY <3>1, AnimationRests
  <2>3. CASE ~(Abs(v) > Threshold)
    <3>0. draggingIsEnabled' = DraggingAfterBegan(v) /\ UNCHANGED constant
      BY <1>1, <2>3 DEF PanBegan
    <3>1. draggingIsEnabled' /\ UNCHANGED constant
      BY <2>1, <3>0
    <3>2. pan' = "tracking" \/ (v > 0 /\ isExpanded)
      BY <1>1 DEF PanBegan
    <3>3. v > 0 => v \in 1..Threshold
      BY <2>3, MenuAssumption DEF Abs
    <3> QED  BY <3>1, <3>2, <3>3
  <2> QED  BY <2>2, <2>3
<1>2. HalfOpenStillDrags /\ [Next]_vars =>
        [\A v \in Velocities :
           PanBegan(v) /\ constant \notin {Open, Collapsed} =>
             \/ pan' = "tracking" /\ draggingIsEnabled'
             \/ constant' \in {Open, Collapsed}
             \/ isExpanded /\ v \in 1..Threshold /\ UNCHANGED constant]_vars
  BY <1>1
<1> QED
  BY <1>2, DraggingStaysEnabled, PTL DEF Spec, SwipesMoveHalfOpen

-----------------------------------------------------------------------------
(* How a menu gets half open *)

\* Until a pan is cancelled, dragging is enabled only while a finger drags.
NoStrayDrag == cancels = 0 /\ pan = "idle" => ~draggingIsEnabled

LEMMA NoStrayDragStep == TypeOK /\ NoStrayDrag /\ [Next]_vars => NoStrayDrag'
<1> SUFFICES ASSUME TypeOK, NoStrayDrag, [Next]_vars PROVE NoStrayDrag'
  OBVIOUS
<1> USE DEF NoStrayDrag
<1>1. CASE UNCHANGED <<draggingIsEnabled, pan, cancels>>
  BY <1>1
<1>2. ASSUME NEW v \in Velocities, PanBegan(v) PROVE NoStrayDrag'
  <2>1. /\ pan = "idle" /\ cancels' = cancels
        /\ \/ draggingIsEnabled' = FALSE
           \/ draggingIsEnabled' = DraggingAfterBegan(v)
        /\ pan' = "idle" => v > 0 /\ isExpanded
    BY <1>2 DEF PanBegan
  <2>2. cancels' = 0 /\ pan' = "idle" => ~draggingIsEnabled /\ v > 0 /\ isExpanded
    BY <2>1
  <2>3. v \in Int
    BY MenuAssumption
  <2>4. v > 0 /\ isExpanded /\ ~draggingIsEnabled => ~DraggingAfterBegan(v)
    BY <2>3 DEF DraggingAfterBegan
  <2> QED  BY <2>1, <2>2, <2>4
<1>3. CASE PanEnded
  BY <1>3 DEF PanEnded
<1>4. CASE PanCancelled
  <2>1. cancels' = cancels + 1 /\ cancels \in Nat
    BY <1>4, MenuAssumption DEF PanCancelled, TypeOK
  <2> QED  BY <2>1
<1> QED
  BY <1>1, <1>2, <1>3, <1>4 DEF Next, vars, CompleteAnimation, RevealSideMenu,
     TapOutside, SelectRow, RunCollapse, Rotate, PanChanged

\* Only a pan that the system cancelled leaves a menu at rest away from its places.
THEOREM OnlyCancelsEverLeaveHalfOpen == Spec => []OnlyCancelsLeaveHalfOpen
<1>1. Init => NoStrayDrag
  BY DEF Init, NoStrayDrag
<1>2. TypeOK /\ HalfOpenStillDrags /\ NoStrayDrag => OnlyCancelsLeaveHalfOpen
  BY MenuAssumption DEF TypeOK, HalfOpenStillDrags, NoStrayDrag,
     OnlyCancelsLeaveHalfOpen, AtRest
<1> QED
  BY <1>1, <1>2, TypeCorrect, DraggingStaysEnabled, NoStrayDragStep, PTL DEF Spec

-----------------------------------------------------------------------------
(* A resting menu, as long as no pan has met anything else *)

\* An animated change makes its own direction the menu's goal.
LEMMA AnimationGoal ==
  ASSUME TypeOK, NEW e \in BOOLEAN, SideMenuState(e),
         \/ animations = <<>>
         \/ constant = Resting(Goal)
  PROVE  constant' = Resting(Goal') /\ shadow' = Darkness(Goal')
<1>1. constant' = Resting(e) /\ shadow' = Darkness(e)
  BY DEF SideMenuState
<1>2. CASE animations' = Append(animations, e)
  <2>1. Goal' = e
    BY <1>2 DEF Goal, TypeOK
  <2> QED  BY <1>1, <2>1
<1>3. CASE /\ constant = Resting(e)
           /\ isExpanded' = e
           /\ UNCHANGED animations
  <2>1. CASE animations = <<>>
    BY <1>1, <1>3, <2>1 DEF Goal
  <2>2. CASE animations # <<>> /\ constant = Resting(Goal)
    <3>1. Goal \in BOOLEAN
      BY <2>2 DEF Goal, TypeOK
    <3>2. Goal = e
      BY <1>3, <2>2, <3>1, MenuAssumption DEF Resting, Open, Collapsed
    <3>3. Goal' = Goal
      BY <1>3, <2>2 DEF Goal
    <3> QED  BY <1>1, <3>2, <3>3
  <2> QED  BY <2>1, <2>2
<1> QED  BY <1>2, <1>3 DEF SideMenuState

\* A step that leaves isExpanded and the animations alone leaves the goal alone.
LEMMA GoalKept ==
  ASSUME UNCHANGED <<isExpanded, animations>>
  PROVE  Goal' = Goal
BY DEF Goal

\* A menu that has been calm until now stays where its newest animation sent it.
LEMMA MenuStep == MenuInv /\ [Next]_vars => MenuInv'
<1> SUFFICES ASSUME MenuInv, [Next]_vars, calm' PROVE MenuInv'
  BY TypeStep DEF MenuInv
<1>c. calm
  BY DEF Next, vars, CompleteAnimation, RevealSideMenu, TapOutside, SelectRow,
     RunCollapse, Rotate, PanBegan, PanChanged, PanEnded, PanCancelled
<1> USE <1>c DEF MenuInv
<1>0. TypeOK'
  BY TypeStep
<1>1. CASE CompleteAnimation
  <2>1. Goal' = Goal
    <3>1. animations # <<>> /\ animations \in Seq(BOOLEAN)
      BY <1>1 DEF CompleteAnimation, TypeOK
    <3>2. isExpanded' = animations[1] /\ animations' = Tail(animations)
      BY <1>1, <3>1 DEF CompleteAnimation
    <3>3. CASE Len(animations) = 1
      <4>1. Len(animations') = 0
        BY <3>1, <3>2, <3>3
      <4>2. animations' = <<>>
        BY <3>1, <3>2, <4>1
      <4> QED  BY <3>1, <3>2, <3>3, <4>2 DEF Goal
    <3>4. CASE Len(animations) > 1
      <4>1. Len(animations') = Len(animations) - 1
        BY <3>1, <3>2
      <4>2. animations'[Len(animations) - 1] = animations[Len(animations)]
        BY <3>1, <3>2, <3>4
      <4>3. animations' # <<>>
        BY <3>4, <4>1
      <4>4. Goal' = animations'[Len(animations')] /\ Goal = animations[Len(animations)]
        BY <3>1, <4>3 DEF Goal
      <4> QED  BY <4>1, <4>2, <4>4
    <3>5. Len(animations) = 1 \/ Len(animations) > 1
      <4>1. Len(animations) \in Nat /\ Len(animations) # 0
        BY <3>1
      <4>2. \A n \in Nat : n # 0 => n = 1 \/ n > 1
        OBVIOUS
      <4> QED  BY <4>1, <4>2
    <3> QED  BY <3>3, <3>4, <3>5
  <2> QED  BY <1>0, <1>1, <2>1 DEF CompleteAnimation, Dragged
<1>2. CASE RevealSideMenu
  <2>1. SideMenuState(~isExpanded) /\ (~isExpanded) \in BOOLEAN /\ ~Dragged
    BY <1>2 DEF RevealSideMenu, Dragged
  <2>2. constant' = Resting(Goal') /\ shadow' = Darkness(Goal')
    BY <2>1, AnimationGoal
  <2> QED  BY <1>0, <1>2, <2>1, <2>2 DEF RevealSideMenu, Dragged
<1>3. CASE TapOutside
  <2>1. SideMenuState(FALSE) /\ ~Dragged
    BY <1>3 DEF TapOutside, Dragged
  <2>2. constant' = Resting(Goal') /\ shadow' = Darkness(Goal')
    BY <2>1, AnimationGoal
  <2> QED  BY <1>0, <1>3, <2>1, <2>2 DEF TapOutside, Dragged
<1>4. CASE SelectRow
  <2>1. Goal' = Goal
    BY <1>4, GoalKept DEF SelectRow
  <2> QED  BY <1>0, <1>4, <2>1 DEF SelectRow, Dragged
<1>5. CASE RunCollapse
  <2>0. collapses > 0 /\ SideMenuState(FALSE)
    BY <1>5 DEF RunCollapse
  <2>1. pan = "idle" /\ ~Dragged
    BY <2>0 DEF Dragged, TypeOK
  <2>2. constant' = Resting(Goal') /\ shadow' = Darkness(Goal')
    BY <2>0, <2>1, AnimationGoal
  <2> QED  BY <1>0, <1>5, <2>1, <2>2 DEF RunCollapse, Dragged
<1>6. CASE Rotate
  <2>1. /\ pan = "idle" /\ animations = <<>> /\ ~Dragged
        /\ constant' = Resting(isExpanded)
        /\ UNCHANGED <<isExpanded, shadow, draggingIsEnabled, pan, animations>>
    BY <1>6 DEF Rotate, Dragged
  <2>2. Goal' = isExpanded /\ Goal = isExpanded
    BY <2>1 DEF Goal
  <2> QED  BY <1>0, <2>1, <2>2 DEF Dragged
<1>7. ASSUME NEW v \in Velocities, PanBegan(v) PROVE MenuInv'
  <2>1. /\ pan = "idle" /\ ~draggingIsEnabled /\ ~Dragged
        /\ animations = <<>> /\ collapses = 0 /\ collapses' = 0
    BY <1>7 DEF PanBegan, Dragged
  <2>2. CASE SideMenuState(~isExpanded) /\ ~draggingIsEnabled'
    <3>1. constant' = Resting(Goal') /\ shadow' = Darkness(Goal')
      BY <2>1, <2>2, AnimationGoal, (~isExpanded) \in BOOLEAN
    <3> QED  BY <1>0, <2>1, <2>2, <3>1 DEF Dragged
  <2>3. CASE /\ UNCHANGED <<isExpanded, constant, shadow, animations>>
             /\ draggingIsEnabled' = DraggingAfterBegan(v)
    <3>1. Goal' = Goal
      BY <2>3, GoalKept
    <3>2. pan' = "idle" => ~draggingIsEnabled'
      BY <1>7, <2>1, <2>3, MenuAssumption DEF PanBegan, DraggingAfterBegan
    <3> QED  BY <1>0, <2>1, <2>3, <3>1, <3>2 DEF Dragged
  <2> QED  BY <1>7, <2>2, <2>3 DEF PanBegan
<1>8. ASSUME NEW x \in Translations, PanChanged(x) PROVE MenuInv'
  BY <1>0, <1>8 DEF PanChanged, Dragged
<1>9. CASE PanEnded
  <2>1. /\ SideMenuState(2 * constant > -RevealWidth)
        /\ (2 * constant > -RevealWidth) \in BOOLEAN
        /\ pan' = "idle" /\ ~draggingIsEnabled'
    BY <1>9 DEF PanEnded
  <2>2. animations = <<>> \/ constant = Resting(Goal)
    OBVIOUS
  <2>3. constant' = Resting(Goal') /\ shadow' = Darkness(Goal')
    BY <2>1, <2>2, AnimationGoal
  <2> QED  BY <1>0, <2>1, <2>3 DEF Dragged
<1>10. CASE PanCancelled
  <2>1. Goal' = Goal /\ ~draggingIsEnabled
    BY <1>10, GoalKept DEF PanCancelled
  <2> QED  BY <1>0, <1>10, <2>1 DEF PanCancelled, Dragged
<1>11. CASE UNCHANGED vars
  <2>1. Goal' = Goal
    BY <1>11, GoalKept DEF vars
  <2> QED  BY <1>0, <1>11, <2>1 DEF vars, Dragged
<1> QED
  BY <1>1, <1>2, <1>3, <1>4, <1>5, <1>6, <1>7, <1>8, <1>9, <1>10, <1>11 DEF Next

\* A resting menu lies where isExpanded says, however taps, swipes, drags, rows and
\* rotations follow one another, as long as no pan begins in the midst of anything
\* or meets another finger or a rotation, and the system cancels no drag.
THEOREM RestingMenuAlwaysAgrees == Spec => []RestingMenuAgrees
<1>1. Init => MenuInv
  <2>1. ASSUME Init PROVE MenuInv
    BY <2>1, TypeInit DEF Init, MenuInv, Dragged, Goal, Resting, Darkness
  <2> QED  BY <2>1
<1>2. MenuInv /\ [Next]_vars => MenuInv'
  BY MenuStep
<1>3. MenuInv => RestingMenuAgrees
  BY DEF MenuInv, RestingMenuAgrees, AtRest, Dragged, Goal
<1> QED
  BY <1>1, <1>2, <1>3, PTL DEF Spec

=============================================================================
