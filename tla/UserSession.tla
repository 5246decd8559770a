----------------------------- MODULE UserSession -----------------------------
(***************************************************************************)
(* The signed-in user of the Firebase SDK (FIRAuth, FIRUser, FIRSecure-    *)
(* TokenService): how a call of signIn with a phone credential goes from   *)
(* the back end's acceptance of the code, through a refresh of a token     *)
(* that looks expired and the look-up of the account, to the keychain; how *)
(* signOut undoes it; and how a new process finds the user again, on a     *)
(* device that may not have been unlocked since it was started.            *)
(*                                                                         *)
(* Every handler runs on the serial work queue of the SDK, so an action is *)
(* one block of that queue.  A sign-in has one object for its user, and    *)
(* the user is named after that sign-in.  The back end, the device's clock,*)
(* the keychain and the owner of the device are the environment.           *)
(***************************************************************************)
EXTENDS Naturals

CONSTANTS
  Calls,        (* calls of signIn, and the users they sign in              *)
  MaxRefusals,  (* bound: accesses that the unlocked keychain refuses       *)
  MaxRestarts,  (* bound: restarts of the process or the device             *)
  Nil           (* Objective-C's nil                                        *)

ASSUME SessionAssumption ==
  /\ MaxRefusals \in Nat
  /\ MaxRestarts \in Nat
  /\ Nil \notin Calls

VARIABLES
  call,         (* per call: what it waits for                              *)
  accepted,     (* calls whose code the back end has accepted               *)
  current,      (* _currentUser                                             *)
  saved,        (* the user in the keychain                                 *)
  start,        (* how far protectedDataInitialization has come             *)
  unlocked,     (* the device has been unlocked since it was started        *)
  refusals, restarts      (* used-up bounds                                 *)

user == <<current, saved>>
env  == <<unlocked, refusals, restarts>>
vars == <<call, accepted, user, start, env>>

-----------------------------------------------------------------------------
Stages == {"idle", "verifying", "refreshing", "refreshingAgain", "lookingUp",
           "good", "bad", "over"}

\* No user is kept, in memory or in the keychain, whose code was not accepted.
TypeOK ==
  /\ call \in [Calls -> Stages]
  /\ accepted \in SUBSET Calls
  /\ current \in accepted \cup {Nil}
  /\ saved \in accepted \cup {Nil}
  /\ start \in {"launching", "failed", "listening", "queued", "loaded"}
  /\ unlocked \in BOOLEAN
  /\ refusals \in 0..MaxRefusals
  /\ restarts \in 0..MaxRestarts

Init ==
  /\ call = [c \in Calls |-> "idle"]
  /\ accepted = {}
  /\ current = Nil
  /\ saved = Nil
  /\ start = "launching"
  /\ unlocked \in BOOLEAN
  /\ refusals = 0
  /\ restarts = 0

Advance(c, from, to) ==
  /\ call[c] = from
  /\ call' = [call EXCEPT ![c] = to]

\* The work queue is not in the midst of protectedDataInitialization.
QueueFree == start # "failed"

\* The keychain is out of reach until the first unlock, and may refuse later.
KeychainWorks   == unlocked /\ UNCHANGED refusals
KeychainRefuses ==
  \/ ~unlocked /\ UNCHANGED refusals
  \/ refusals < MaxRefusals /\ refusals' = refusals + 1

-----------------------------------------------------------------------------
(* protectedDataInitialization *)

\* getUser: the user is current again, or the read fails.
ReadUser ==
  /\ start \in {"launching", "queued"}
  /\ \/ /\ KeychainWorks
        /\ current' = saved
        /\ start' = "loaded"
     \/ /\ KeychainRefuses
        /\ start' = "failed"
        /\ UNCHANGED current
  /\ UNCHANGED <<call, accepted, saved, unlocked, restarts>>

\* addProtectedDataDidBecomeAvailableObserver, later in the same block: the main
\* thread may have posted the notification in between.
Subscribe ==
  /\ start = "failed"
  /\ start' = "listening"
  /\ UNCHANGED <<call, accepted, user, env>>

\* Mutant: the observer removes itself and nothing more.
UnlockUnheard ==
  /\ unlocked' = TRUE
  /\ UNCHANGED <<call, accepted, user, start, refusals, restarts>>

\* The owner unlocks the device, for the first time or again, and the system posts
\* UIApplicationProtectedDataDidBecomeAvailable; the observer, if it is there by now,
\* starts protectedDataInitialization over.
Unlock ==
  /\ unlocked' = TRUE
  /\ start' = IF start = "listening" THEN "queued" ELSE start
  /\ UNCHANGED <<call, accepted, user, refusals, restarts>>

-----------------------------------------------------------------------------
(* signIn *)

\* signInWithCredential, from a screen that has asked for currentUser before, and
\* so has waited for the launch; then the request with the code.
SignIn(c) ==
  /\ unlocked
  /\ start # "launching"
  /\ Advance(c, "idle", "verifying")
  /\ UNCHANGED <<accepted, user, start, env>>

\* Mutant: the callback of the request does not look at its error.
CodeRefusedUnseen(c) ==
  /\ QueueFree
  /\ Advance(c, "verifying", "lookingUp")
  /\ UNCHANGED <<accepted, user, start, env>>

CodeRefused(c) ==
  /\ QueueFree
  /\ Advance(c, "verifying", "bad")
  /\ UNCHANGED <<accepted, user, start, env>>

\* The tokens of the new user, whose access token has five minutes to go or not
\* (hasValidAccessToken): the expiration date is the moment it came in plus the
\* answer's expiresIn, which may be short or missing.
CodeAccepted(c) ==
  /\ QueueFree
  /\ \E next \in {"lookingUp", "refreshing"} : Advance(c, "verifying", next)
  /\ accepted' = accepted \cup {c}
  /\ UNCHANGED <<user, start, env>>

\* Mutant: the retry may be retried.
TokenExpiredRetriesAgain(c) ==
  /\ QueueFree
  /\ \/ Advance(c, "refreshing", "refreshingAgain")
     \/ Advance(c, "refreshingAgain", "refreshing")
  /\ UNCHANGED <<accepted, user, start, env>>

\* requestAccessToken: a token that is new, but expired by its own date and the
\* device's clock, is asked for once more.
TokenExpired(c) ==
  /\ QueueFree
  /\ Advance(c, "refreshing", "refreshingAgain")
  /\ UNCHANGED <<accepted, user, start, env>>

\* Mutant: updateKeychainWithUser without its test for the current user.
UpdateKeychainOfAnyUser(c, ok) ==
  \/ ok /\ KeychainWorks /\ saved' = c
  \/ ~ok /\ KeychainRefuses /\ UNCHANGED saved

\* updateKeychainWithUser and what it returns: YES, and nothing saved, for a user who
\* is not the current one.
UpdateKeychain(c, ok) ==
  IF c # current
    THEN ok /\ UNCHANGED <<saved, refusals>>
    ELSE \/ ok /\ KeychainWorks /\ saved' = c
         \/ ~ok /\ KeychainRefuses /\ UNCHANGED saved

Refreshing == {"refreshing", "refreshingAgain"}

\* The token is there; updateKeychain if it is a new one, whose failure is the call's.
TokenRefreshed(c) ==
  /\ QueueFree
  /\ \E stage \in Refreshing, ok \in BOOLEAN :
       /\ Advance(c, stage, IF ok THEN "lookingUp" ELSE "bad")
       /\ \/ UpdateKeychain(c, ok)
          \/ ok /\ UNCHANGED <<saved, refusals>>
  /\ UNCHANGED <<accepted, current, start, unlocked, restarts>>

\* Mutant: signOutByForceWithUserID without its comparison of the users.
SignOutByForceAnyUser(c) ==
  /\ current' = Nil
  /\ \/ KeychainWorks /\ saved' = Nil
     \/ KeychainRefuses /\ UNCHANGED saved

\* signOutByForceWithUserID: only the current user is signed out, keychain or not.
SignOutByForce(c) ==
  IF c # current
    THEN UNCHANGED <<current, saved, refusals>>
    ELSE /\ current' = Nil
         /\ \/ KeychainWorks /\ saved' = Nil
            \/ KeychainRefuses /\ UNCHANGED saved

\* The refresh fails; an error that says the token is invalid signs its user out.
RefreshFails(c) ==
  /\ QueueFree
  /\ \E stage \in Refreshing : Advance(c, stage, "bad")
  /\ \/ SignOutByForce(c)
     \/ UNCHANGED <<current, saved, refusals>>
  /\ UNCHANGED <<accepted, start, unlocked, restarts>>

\* getAccountInfo fails.
LookUpFails(c) ==
  /\ QueueFree
  /\ Advance(c, "lookingUp", "bad")
  /\ UNCHANGED <<accepted, user, start, env>>

\* Mutant: updateCurrentUser by force.
UpdateCurrentUserByForce(c) ==
  /\ QueueFree
  /\ current' = c
  /\ \/ KeychainWorks   /\ saved' = c      /\ Advance(c, "lookingUp", "good")
     \/ KeychainRefuses /\ UNCHANGED saved /\ Advance(c, "lookingUp", "bad")
  /\ UNCHANGED <<accepted, start, unlocked, restarts>>

\* The account is known: updateCurrentUser saves the user, and only if that succeeds
\* makes it the current one.
UpdateCurrentUser(c) ==
  /\ QueueFree
  /\ \/ /\ KeychainWorks
        /\ Advance(c, "lookingUp", "good")
        /\ saved' = c
        /\ current' = c
     \/ /\ KeychainRefuses
        /\ Advance(c, "lookingUp", "bad")
        /\ UNCHANGED user
  /\ UNCHANGED <<accepted, start, unlocked, restarts>>

\* The main thread runs the app's completion block.
Deliver(c) ==
  /\ \E answer \in {"good", "bad"} : Advance(c, answer, "over")
  /\ UNCHANGED <<accepted, user, start, env>>

-----------------------------------------------------------------------------
(* signOut and restarts *)

\* signOut waits for the work queue, and has nothing to do for nobody.
SignOut ==
  /\ QueueFree
  /\ current # Nil
  /\ \/ KeychainWorks /\ saved' = Nil /\ current' = Nil
     \/ KeychainRefuses /\ UNCHANGED user
  /\ UNCHANGED <<call, accepted, start, unlocked, restarts>>

\* The process dies, or the device is started again, and the app is launched: by its
\* owner, or by the system on a device that is still locked.
Relaunch ==
  /\ restarts < MaxRestarts
  /\ restarts' = restarts + 1
  /\ call' = [c \in Calls |-> IF call[c] = "idle" THEN "idle" ELSE "over"]
  /\ current' = Nil
  /\ start' = "launching"
  /\ unlocked' \in {unlocked, FALSE}
  /\ UNCHANGED <<accepted, saved, refusals>>

\* What the SDK and the back end do for a call by themselves.
Proceed(c) ==
  \/ CodeRefused(c)
  \/ CodeAccepted(c)
  \/ TokenExpired(c)
  \/ TokenRefreshed(c)
  \/ RefreshFails(c)
  \/ LookUpFails(c)
  \/ UpdateCurrentUser(c)
  \/ Deliver(c)

Next ==
  \/ ReadUser
  \/ Subscribe
  \/ Unlock
  \/ \E c \in Calls : SignIn(c) \/ Proceed(c)
  \/ SignOut
  \/ Relaunch

Spec == Init /\ [][Next]_vars

(***************************************************************************)
(* The queues run their blocks, requests to the back end succeed or fail,  *)
(* and the owner goes on unlocking the device.                             *)
(***************************************************************************)
Fairness ==
  /\ WF_vars(ReadUser)
  /\ WF_vars(Subscribe)
  /\ WF_vars(Unlock)
  /\ \A c \in Calls : WF_vars(Proceed(c))

FairSpec == Spec /\ Fairness

-----------------------------------------------------------------------------
(* Safety *)

\* The user in memory is the one in the keychain: no failed write, no refresh of a
\* token that is not yet, or no longer, the current user's, and no sign-in before a
\* late read makes the next launch find somebody else.
KeychainAgrees ==
  /\ start = "loaded" => current = saved
  /\ current # Nil => current = saved

(* Liveness *)

\* However early the app was launched, and although the unlocking may fall between
\* the failed read and the observer for it, the saved user comes back in the end.
SavedUserComesBack == []<>(start = "loaded")

\* Every signIn is answered, and the answer delivered, also when every token looks
\* expired by the device's clock.
EverySignInEnds == \A c \in Calls : []<>(call[c] \in {"idle", "over"})

(* The promise made to the app *)

\* A call as SessionService sees it.
Progress(c) ==
  IF call[c] \in {"idle", "good", "bad", "over"} THEN call[c] ELSE "asked"

Session == INSTANCE SessionService WITH
  Users <- Calls,
  call  <- [c \in Calls |-> Progress(c)],
  of    <- [c \in Calls |-> IF call[c] = "idle" THEN Nil ELSE c],
  user  <- saved

\* A good answer signs in, a bad one signs nobody out, and a launch forgets nobody.
KeepsItsPromise == Session!Spec

-----------------------------------------------------------------------------
(* The inductive invariant behind the safety properties *)

\* Whoever is past the code has had it accepted.
AcceptedStand ==
  \A c \in Calls :
    call[c] \in Refreshing \cup {"lookingUp", "good"} => c \in accepted

\* Whoever has not been looked up is neither current nor saved.
NewcomersWait ==
  \A c \in Calls :
    call[c] \in {"idle", "verifying", "lookingUp"} \cup Refreshing => c \notin {current, saved}

IInv ==
  /\ TypeOK
  /\ AcceptedStand
  /\ NewcomersWait
  /\ KeychainAgrees

=============================================================================
