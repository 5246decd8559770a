------------------------- MODULE UserSession_proofs -------------------------
(***************************************************************************)
(* What TLAPS proves of UserSession, for any calls and any bounds: that    *)
(* only accepted users are ever kept, that the user in memory is the one   *)
(* in the keychain, and that the whole keeps the promise of SessionService.*)
(***************************************************************************)
EXTENDS UserSession, TLAPS

\* Nobody is kept, and nobody is past the code, at first.
LEMMA InitInvariant == Init => IInv
<1> SUFFICES ASSUME Init PROVE IInv
  OBVIOUS
<1> USE SessionAssumption DEF Init
<1>1. TypeOK
  BY DEF TypeOK, Stages
<1>2. AcceptedStand
  BY DEF AcceptedStand, Refreshing
<1>3. NewcomersWait
  BY DEF NewcomersWait
<1>4. KeychainAgrees
  BY DEF KeychainAgrees
<1> QED  BY <1>1, <1>2, <1>3, <1>4 DEF IInv

\* The refresh of a newcomer's token, good or bad, touches nobody who is kept.
LEMMA RefreshTouchesNobody ==
  ASSUME IInv, NEW c \in Calls, TokenRefreshed(c) \/ RefreshFails(c)
  PROVE  UNCHANGED <<current, saved, refusals>>
<1>1. call[c] \in Refreshing
  BY DEF TokenRefreshed, RefreshFails, Advance
<1>2. c # current
  BY <1>1 DEF IInv, NewcomersWait
<1> QED  BY <1>2 DEF TokenRefreshed, RefreshFails, UpdateKeychain, SignOutByForce

\* So the keychain never fails the refresh of a newcomer's token.
LEMMA RefreshIsSaved ==
  ASSUME IInv, NEW c \in Calls, TokenRefreshed(c)
  PROVE  \E stage \in Refreshing : Advance(c, stage, "lookingUp")
<1>1. PICK stage \in Refreshing, ok \in BOOLEAN :
        /\ Advance(c, stage, IF ok THEN "lookingUp" ELSE "bad")
        /\ UpdateKeychain(c, ok) \/ (ok /\ UNCHANGED <<saved, refusals>>)
  BY DEF TokenRefreshed
<1>2. c # current
  BY <1>1 DEF Advance, IInv, NewcomersWait
<1>3. ok
  BY <1>1, <1>2 DEF UpdateKeychain
<1> QED  BY <1>1, <1>3

-----------------------------------------------------------------------------
(* Types *)

\* An advance to a stage that wants no accepted code, or of a call whose code has
\* been accepted, leaves the rest as it was.
LEMMA AdvanceStands ==
  ASSUME IInv, NEW c \in Calls, NEW from \in Stages, NEW to \in Stages,
         Advance(c, from, to), accepted \subseteq accepted', 
         to \in Refreshing \cup {"lookingUp", "good"} => c \in accepted'
  PROVE  call' \in [Calls -> Stages] /\ AcceptedStand'
BY DEF IInv, TypeOK, Advance, AcceptedStand

\* Every step keeps the types, and saves only those whose code was accepted.
LEMMA StepTypes == IInv /\ [Next]_vars => TypeOK' /\ AcceptedStand'
<1> SUFFICES ASSUME IInv, [Next]_vars PROVE TypeOK' /\ AcceptedStand'
  OBVIOUS
<1> USE SessionAssumption
<1>1. ASSUME ReadUser PROVE TypeOK' /\ AcceptedStand'
  BY <1>1 DEF ReadUser, KeychainWorks, KeychainRefuses, IInv, TypeOK, AcceptedStand
<1>2. ASSUME Subscribe PROVE TypeOK' /\ AcceptedStand'
  BY <1>2 DEF Subscribe, user, env, IInv, TypeOK, AcceptedStand
<1>3. ASSUME Unlock PROVE TypeOK' /\ AcceptedStand'
  BY <1>3 DEF Unlock, user, IInv, TypeOK, AcceptedStand
<1>4. ASSUME NEW c \in Calls, SignIn(c) \/ Proceed(c) PROVE TypeOK' /\ AcceptedStand'
  <2>1. ASSUME SignIn(c) PROVE TypeOK' /\ AcceptedStand'
    <3>1. call' \in [Calls -> Stages] /\ AcceptedStand'
      BY <2>1, AdvanceStands DEF SignIn, Stages, Refreshing
    <3> QED  BY <2>1, <3>1 DEF SignIn, user, env, IInv, TypeOK
  <2>2. ASSUME CodeRefused(c) PROVE TypeOK' /\ AcceptedStand'
    <3>1. call' \in [Calls -> Stages] /\ AcceptedStand'
      BY <2>2, AdvanceStands DEF CodeRefused, Stages, Refreshing
    <3> QED  BY <2>2, <3>1 DEF CodeRefused, user, env, IInv, TypeOK
  <2>3. ASSUME CodeAccepted(c) PROVE TypeOK' /\ AcceptedStand'
    <3>1. call' \in [Calls -> Stages] /\ AcceptedStand'
      BY <2>3, AdvanceStands DEF CodeAccepted, Stages, Refreshing
    <3> QED  BY <2>3, <3>1 DEF CodeAccepted, user, env, IInv, TypeOK
  <2>4. ASSUME TokenExpired(c) PROVE TypeOK' /\ AcceptedStand'
    <3>1. c \in accepted
      BY <2>4 DEF TokenExpired, Advance, IInv, AcceptedStand, Refreshing
    <3>2. call' \in [Calls -> Stages] /\ AcceptedStand'
      BY <2>4, <3>1, AdvanceStands DEF TokenExpired, Stages, Refreshing
    <3> QED  BY <2>4, <3>2 DEF TokenExpired, user, env, IInv, TypeOK
  <2>5. ASSUME TokenRefreshed(c) PROVE TypeOK' /\ AcceptedStand'
    <3>1. PICK stage \in Refreshing : Advance(c, stage, "lookingUp")
      BY <2>5, RefreshIsSaved
    <3>2. stage \in Stages /\ c \in accepted /\ accepted' = accepted
      BY <2>5, <3>1 DEF TokenRefreshed, Advance, IInv, AcceptedStand, Refreshing, Stages
    <3>3. call' \in [Calls -> Stages] /\ AcceptedStand'
      BY <3>1, <3>2, AdvanceStands DEF Stages
    <3> QED
      BY <2>5, <3>2, <3>3, RefreshTouchesNobody DEF TokenRefreshed, IInv, TypeOK
  <2>6. ASSUME RefreshFails(c) PROVE TypeOK' /\ AcceptedStand'
    <3>1. PICK stage \in Refreshing : Advance(c, stage, "bad")
      BY <2>6 DEF RefreshFails
    <3>2. call' \in [Calls -> Stages] /\ AcceptedStand'
      BY <2>6, <3>1, AdvanceStands DEF RefreshFails, Refreshing, Stages
    <3> QED  BY <2>6, <3>2, RefreshTouchesNobody DEF RefreshFails, IInv, TypeOK
  <2>7. ASSUME LookUpFails(c) PROVE TypeOK' /\ AcceptedStand'
    <3>1. call' \in [Calls -> Stages] /\ AcceptedStand'
      BY <2>7, AdvanceStands DEF LookUpFails, Stages, Refreshing
    <3> QED  BY <2>7, <3>1 DEF LookUpFails, user, env, IInv, TypeOK
  <2>8. ASSUME UpdateCurrentUser(c) PROVE TypeOK' /\ AcceptedStand'
    <3>1. PICK answer \in {"good", "bad"} : Advance(c, "lookingUp", answer)
      BY <2>8 DEF UpdateCurrentUser
    <3>2. c \in accepted /\ accepted' = accepted
      BY <2>8, <3>1 DEF UpdateCurrentUser, Advance, IInv, AcceptedStand
    <3>3. call' \in [Calls -> Stages] /\ AcceptedStand'
      BY <3>1, <3>2, AdvanceStands DEF Stages
    <3>4. /\ saved' \in accepted \cup {Nil}
          /\ current' \in accepted \cup {Nil}
          /\ refusals' \in 0..MaxRefusals
      BY <2>8, <3>2 DEF UpdateCurrentUser, KeychainWorks, KeychainRefuses, user, IInv, TypeOK
    <3> QED  BY <2>8, <3>2, <3>3, <3>4 DEF UpdateCurrentUser, IInv, TypeOK
  <2>9. ASSUME Deliver(c) PROVE TypeOK' /\ AcceptedStand'
    <3>1. PICK answer \in {"good", "bad"} : Advance(c, answer, "over")
      BY <2>9 DEF Deliver
    <3>2. call' \in [Calls -> Stages] /\ AcceptedStand'
      BY <2>9, <3>1, AdvanceStands DEF Deliver, Refreshing, Stages
    <3> QED  BY <2>9, <3>2 DEF Deliver, user, env, IInv, TypeOK
  <2> QED
    BY <1>4, <2>1, <2>2, <2>3, <2>4, <2>5, <2>6, <2>7, <2>8, <2>9 DEF Proceed
<1>5. ASSUME SignOut PROVE TypeOK' /\ AcceptedStand'
  BY <1>5 DEF SignOut, KeychainWorks, KeychainRefuses, user, IInv, TypeOK, AcceptedStand
<1>6. ASSUME Relaunch PROVE TypeOK' /\ AcceptedStand'
  <2>1. call' \in [Calls -> Stages]
    BY <1>6 DEF Relaunch, Stages
  <2>2. \A c \in Calls : call'[c] \in {"idle", "over"}
    BY <1>6 DEF Relaunch
  <2>3. AcceptedStand'
    BY <2>2 DEF AcceptedStand, Refreshing
  <2>4. restarts' \in 0..MaxRestarts
    BY <1>6 DEF Relaunch, IInv, TypeOK
  <2>5. unlocked' \in BOOLEAN
    BY <1>6, Zenon DEF Relaunch, IInv, TypeOK
  <2> QED  BY <1>6, <2>1, <2>3, <2>4, <2>5 DEF Relaunch, IInv, TypeOK
<1>7. CASE UNCHANGED vars
  BY <1>7 DEF vars, user, env, IInv, TypeOK, AcceptedStand
<1> QED  BY <1>1, <1>2, <1>3, <1>4, <1>5, <1>6, <1>7 DEF Next

-----------------------------------------------------------------------------
(* Memory and keychain *)

\* A step that changes neither, and does not end the launch, lets them agree.
LEMMA NeitherChanged ==
  ASSUME KeychainAgrees, UNCHANGED user, start' = "loaded" => start = "loaded"
  PROVE  KeychainAgrees'
BY DEF KeychainAgrees, user

\* The keychain is written for the current user only, and a user becomes current only
\* once it is written.
LEMMA StepAgrees == IInv /\ [Next]_vars => KeychainAgrees'
<1> SUFFICES ASSUME IInv, [Next]_vars PROVE KeychainAgrees'
  OBVIOUS
<1>a. KeychainAgrees
  BY DEF IInv
<1>1. ASSUME ReadUser PROVE KeychainAgrees'
  BY <1>1, <1>a DEF ReadUser, KeychainAgrees
<1>2. ASSUME Subscribe \/ Unlock PROVE KeychainAgrees'
  BY <1>2, <1>a, NeitherChanged DEF Subscribe, Unlock
<1>3. ASSUME NEW c \in Calls, SignIn(c) \/ Proceed(c) PROVE KeychainAgrees'
  <2>1. ASSUME \/ SignIn(c)
               \/ CodeRefused(c)
               \/ CodeAccepted(c)
               \/ TokenExpired(c)
               \/ LookUpFails(c)
               \/ Deliver(c)
        PROVE  KeychainAgrees'
    <3>1. UNCHANGED <<user, start>>
      BY <2>1 DEF SignIn, CodeRefused, CodeAccepted, TokenExpired, LookUpFails, Deliver
    <3> QED  BY <3>1, <1>a, NeitherChanged
  <2>2. ASSUME TokenRefreshed(c) \/ RefreshFails(c) PROVE KeychainAgrees'
    <3>1. start' = start
      BY <2>2 DEF TokenRefreshed, RefreshFails
    <3> QED  BY <2>2, <3>1, <1>a, NeitherChanged, RefreshTouchesNobody DEF user
  <2>3. ASSUME UpdateCurrentUser(c) PROVE KeychainAgrees'
    BY <2>3, <1>a DEF UpdateCurrentUser, user, KeychainAgrees
  <2> QED  BY <1>3, <2>1, <2>2, <2>3 DEF Proceed
<1>4. ASSUME SignOut PROVE KeychainAgrees'
  BY <1>4, <1>a DEF SignOut, user, KeychainAgrees
<1>5. ASSUME Relaunch PROVE KeychainAgrees'
  BY <1>5 DEF Relaunch, KeychainAgrees
<1>6. CASE UNCHANGED vars
  BY <1>6, <1>a, NeitherChanged DEF vars
<1> QED  BY <1>1, <1>2, <1>3, <1>4, <1>5, <1>6 DEF Next

-----------------------------------------------------------------------------
(* Newcomers *)

\* A step that makes nobody a newcomer, or current or saved, leaves newcomers out.
LEMMA NobodyAdmitted ==
  ASSUME IInv, {current', saved'} \subseteq {current, saved, Nil},
         \A c \in Calls :
           call'[c] \in {"idle", "verifying", "lookingUp"} \cup Refreshing =>
             call[c] \in {"idle", "verifying", "lookingUp"} \cup Refreshing
  PROVE  NewcomersWait'
BY SessionAssumption DEF IInv, NewcomersWait

\* Only whoever has been looked up becomes current or saved.
LEMMA StepNewcomers == IInv /\ [Next]_vars => NewcomersWait'
<1> SUFFICES ASSUME IInv, [Next]_vars PROVE NewcomersWait'
  OBVIOUS
<1> DEFINE New == {"idle", "verifying", "lookingUp"} \cup Refreshing
<1>1. ASSUME ReadUser \/ Subscribe \/ Unlock \/ SignOut PROVE NewcomersWait'
  <2>1. call' = call /\ {current', saved'} \subseteq {current, saved, Nil}
    BY <1>1 DEF ReadUser, Subscribe, Unlock, SignOut, user
  <2> QED  BY <2>1, NobodyAdmitted
<1>2. ASSUME NEW c \in Calls, SignIn(c) \/ Proceed(c) PROVE NewcomersWait'
  <2>1. ASSUME NEW from \in Stages, NEW to \in Stages, Advance(c, from, to),
               UNCHANGED <<current, saved>>, from \in New \/ to \notin New
        PROVE  NewcomersWait'
    <3>1. \A d \in Calls : call'[d] \in New => call[d] \in New
      BY <2>1 DEF Advance, IInv, TypeOK
    <3> QED  BY <2>1, <3>1, NobodyAdmitted
  <2>2. ASSUME SignIn(c) \/ CodeRefused(c) \/ CodeAccepted(c) \/ TokenExpired(c)
                 \/ LookUpFails(c)
        PROVE  NewcomersWait'
    BY <2>1, <2>2 DEF SignIn, CodeRefused, CodeAccepted, TokenExpired, LookUpFails,
                      user, Stages, Refreshing
  <2>3. ASSUME TokenRefreshed(c) \/ RefreshFails(c) PROVE NewcomersWait'
    <3>1. PICK stage \in Refreshing, to \in {"lookingUp", "bad"} : Advance(c, stage, to)
      BY <2>3 DEF TokenRefreshed, RefreshFails
    <3> QED  BY <2>1, <2>3, <3>1, RefreshTouchesNobody DEF Stages, Refreshing
  <2>4. ASSUME UpdateCurrentUser(c) PROVE NewcomersWait'
    <3>1. CASE Advance(c, "lookingUp", "bad") /\ UNCHANGED user
      BY <2>1, <3>1 DEF user, Stages, Refreshing
    <3>2. CASE Advance(c, "lookingUp", "good") /\ saved' = c /\ current' = c
      <4>1. call'[c] = "good" /\ \A d \in Calls : d # c => call'[d] = call[d]
        BY <3>2 DEF Advance, IInv, TypeOK
      <4> QED  BY <3>2, <4>1 DEF NewcomersWait, Refreshing
    <3> QED  BY <2>4, <3>1, <3>2 DEF UpdateCurrentUser
  <2>5. ASSUME Deliver(c) PROVE NewcomersWait'
    BY <2>1, <2>5 DEF Deliver, user, Stages, Refreshing
  <2> QED  BY <1>2, <2>2, <2>3, <2>4, <2>5 DEF Proceed
<1>3. ASSUME Relaunch PROVE NewcomersWait'
  <2>1. \A c \in Calls : call'[c] \in New => call[c] \in New
    BY <1>3 DEF Relaunch, Refreshing
  <2> QED  BY <1>3, <2>1, NobodyAdmitted DEF Relaunch
<1>4. CASE UNCHANGED vars
  BY <1>4, NobodyAdmitted DEF vars, user
<1> QED  BY <1>1, <1>2, <1>3, <1>4 DEF Next

-----------------------------------------------------------------------------
(* The theorems *)

\* The inductive invariant.
THEOREM Invariance == Spec => []IInv
<1>1. IInv /\ [Next]_vars => IInv'
  BY StepTypes, StepNewcomers, StepAgrees DEF IInv
<1> QED  BY <1>1, InitInvariant, PTL DEF Spec

\* Only users whose code the back end accepted are ever kept.
THEOREM TypeCorrect == Spec => []TypeOK
<1>1. IInv => TypeOK
  BY DEF IInv
<1> QED  BY <1>1, Invariance, PTL

\* The user in memory is the one the next launch will find.
THEOREM KeychainAlwaysAgrees == Spec => []KeychainAgrees
<1>1. IInv => KeychainAgrees
  BY DEF IInv
<1> QED  BY <1>1, Invariance, PTL

-----------------------------------------------------------------------------
(* The promise *)

\* The promise starts as the session does.
LEMMA PromiseInit == Init => Session!Init
BY DEF Init, Session!Init, Progress

\* A step of one call that leaves its progress, and the keychain, is a stutter.
LEMMA SameProgress ==
  ASSUME IInv, NEW c \in Calls, NEW from \in Stages, NEW to \in Stages,
         Advance(c, from, to), UNCHANGED saved,
         {from, to} \subseteq {"verifying", "refreshing", "refreshingAgain", "lookingUp"}
  PROVE  UNCHANGED Session!vars
<1>1. \A d \in Calls : call'[d] = IF d = c THEN to ELSE call[d]
  BY DEF Advance, IInv, TypeOK
<1>2. call[c] = from
  BY DEF Advance
<1>3. [d \in Calls |-> Progress(d)]' = [d \in Calls |-> Progress(d)]
  BY <1>1, <1>2 DEF Progress
<1>4. [d \in Calls |-> IF call[d] = "idle" THEN Nil ELSE d]'
        = [d \in Calls |-> IF call[d] = "idle" THEN Nil ELSE d]
  BY <1>1, <1>2
<1> QED  BY <1>3, <1>4 DEF Session!vars

\* A call that comes to its answer, or is over, does so in the promise.
LEMMA NewProgress ==
  ASSUME IInv, NEW c \in Calls, NEW from \in Stages, NEW to \in Stages,
         Advance(c, from, to), from # "idle", to \in {"good", "bad", "over"}
  PROVE  /\ [d \in Calls |-> Progress(d)]'
              = [[d \in Calls |-> Progress(d)] EXCEPT ![c] = to]
         /\ [d \in Calls |-> IF call[d] = "idle" THEN Nil ELSE d]'
              = [d \in Calls |-> IF call[d] = "idle" THEN Nil ELSE d]
BY DEF Advance, Progress, IInv, TypeOK

\* An answer that is bad, or one that is delivered, is so in the promise.
LEMMA PromiseFails ==
  ASSUME IInv, NEW c \in Calls, NEW from \in Stages,
         from \in {"verifying", "refreshing", "refreshingAgain", "lookingUp"},
         Advance(c, from, "bad"), UNCHANGED saved
  PROVE  Session!Fail(c)
<1>1. Progress(c) = "asked"
  BY DEF Advance, Progress
<1> QED  BY <1>1, NewProgress DEF Session!Fail, Stages

\* Every step of the session is one of the promise or none.
LEMMA PromiseStep == IInv /\ [Next]_vars => [Session!Next]_(Session!vars)
<1> SUFFICES ASSUME IInv, [Next]_vars PROVE [Session!Next]_(Session!vars)
  OBVIOUS
<1>a. KeychainAgrees
  BY DEF IInv
<1>b. ASSUME UNCHANGED <<call, saved>> PROVE UNCHANGED Session!vars
  BY <1>b DEF Session!vars, Progress
<1>c. ASSUME UNCHANGED call, saved' = Nil PROVE Session!SignOut
  BY <1>c DEF Session!SignOut, Progress
<1>1. ASSUME ReadUser \/ Subscribe \/ Unlock PROVE UNCHANGED Session!vars
  BY <1>1, <1>b DEF ReadUser, Subscribe, Unlock, user
<1>2. ASSUME NEW c \in Calls, SignIn(c) \/ Proceed(c)
      PROVE  [Session!Next]_(Session!vars)
  <2>1. ASSUME SignIn(c) PROVE Session!Ask(c, c)
    <3>1. Advance(c, "idle", "verifying") /\ saved' = saved
      BY <2>1 DEF SignIn, user
    <3>2. call[c] = "idle" /\ Progress(c) = "idle"
      BY <3>1 DEF Advance, Progress
    <3>3. [d \in Calls |-> Progress(d)]'
            = [[d \in Calls |-> Progress(d)] EXCEPT ![c] = "asked"]
      BY <3>1 DEF Advance, Progress, IInv, TypeOK
    <3>4. [d \in Calls |-> IF call[d] = "idle" THEN Nil ELSE d]'
            = [[d \in Calls |-> IF call[d] = "idle" THEN Nil ELSE d] EXCEPT ![c] = c]
      BY <3>1 DEF Advance, IInv, TypeOK
    <3> QED  BY <3>1, <3>2, <3>3, <3>4 DEF Session!Ask
  <2>2. ASSUME CodeRefused(c) PROVE Session!Fail(c)
    BY <2>2, PromiseFails DEF CodeRefused, user, Stages
  <2>3. ASSUME CodeAccepted(c) \/ TokenExpired(c) PROVE UNCHANGED Session!vars
    BY <2>3, SameProgress DEF CodeAccepted, TokenExpired, user, Stages
  <2>4. ASSUME TokenRefreshed(c) PROVE UNCHANGED Session!vars
    <3>1. PICK stage \in Refreshing : Advance(c, stage, "lookingUp")
      BY <2>4, RefreshIsSaved
    <3>2. saved' = saved
      BY <2>4, RefreshTouchesNobody
    <3> QED  BY <3>1, <3>2, SameProgress DEF Refreshing, Stages
  <2>5. ASSUME RefreshFails(c) PROVE Session!Fail(c)
    <3>1. PICK stage \in Refreshing : Advance(c, stage, "bad")
      BY <2>5 DEF RefreshFails
    <3>2. saved' = saved
      BY <2>5, RefreshTouchesNobody
    <3> QED  BY <3>1, <3>2, PromiseFails DEF Refreshing, Stages
  <2>6. ASSUME LookUpFails(c) PROVE Session!Fail(c)
    BY <2>6, PromiseFails DEF LookUpFails, user, Stages
  <2>7. ASSUME UpdateCurrentUser(c) PROVE Session!Succeed(c) \/ Session!Fail(c)
    <3>1. CASE Advance(c, "lookingUp", "good") /\ saved' = c
      <4>1. Progress(c) = "asked" /\ call[c] # "idle"
        BY <3>1 DEF Advance, Progress
      <4> QED  BY <3>1, <4>1, NewProgress DEF Session!Succeed, Stages
    <3>2. CASE Advance(c, "lookingUp", "bad") /\ saved' = saved
      BY <3>2, PromiseFails DEF Stages
    <3> QED  BY <2>7, <3>1, <3>2 DEF UpdateCurrentUser, user
  <2>8. ASSUME Deliver(c) PROVE Session!Deliver(c)
    <3>1. PICK answer \in {"good", "bad"} : Advance(c, answer, "over")
      BY <2>8 DEF Deliver
    <3>2. Progress(c) = answer /\ saved' = saved
      BY <2>8, <3>1 DEF Advance, Progress, Deliver, user
    <3> QED  BY <3>1, <3>2, NewProgress DEF Session!Deliver, Stages
  <2> QED
    BY <1>2, <2>1, <2>2, <2>3, <2>4, <2>5, <2>6, <2>7, <2>8 DEF Proceed, Session!Next
<1>3. ASSUME SignOut PROVE [Session!Next]_(Session!vars)
  BY <1>3, <1>b, <1>c DEF SignOut, user, Session!Next
<1>4. ASSUME Relaunch PROVE Session!Restart
  <2>1. saved' = saved /\ \A c \in Calls : call'[c] = IF call[c] = "idle" THEN "idle" ELSE "over"
    BY <1>4 DEF Relaunch
  <2>2. [c \in Calls |-> Progress(c)]'
          = [c \in Calls |-> IF [d \in Calls |-> Progress(d)][c] = "idle"
                               THEN "idle" ELSE "over"]
    BY <2>1 DEF Progress
  <2>3. [c \in Calls |-> IF call[c] = "idle" THEN Nil ELSE c]'
          = [c \in Calls |-> IF call[c] = "idle" THEN Nil ELSE c]
    BY <2>1
  <2> QED  BY <2>1, <2>2, <2>3 DEF Session!Restart
<1>5. CASE UNCHANGED vars
  BY <1>5, <1>b DEF vars, user
<1> QED  BY <1>1, <1>2, <1>3, <1>4, <1>5 DEF Next, Session!Next

\* The session keeps the promise made to the app: a good answer signs in, a bad one
\* signs nobody out, only signOut signs out, and a launch forgets nobody.
THEOREM PromiseIsKept == Spec => KeepsItsPromise
<1> QED  BY PromiseInit, PromiseStep, Invariance, PTL DEF Spec, Session!Spec, KeepsItsPromise

=============================================================================
