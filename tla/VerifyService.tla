---------------------------- MODULE VerifyService ----------------------------
(***************************************************************************)
(* What the app is promised by verifyPhoneNumber of the Firebase SDK, and  *)
(* relies on (AnswerSms of PhoneSignIn): a call made is answered at        *)
(* most once, with a verification ID or with an error; the answer reaches  *)
(* the app's completion block at most once, on the main thread; and what a *)
(* process had not delivered when it died is never delivered.              *)
(*                                                                         *)
(* PhoneVerification implements this promise.                              *)
(***************************************************************************)

CONSTANT Calls        (* calls of verifyPhoneNumber                          *)

VARIABLES
  call,               (* per call: how far it is                             *)
  granted             (* calls answered with a verification ID               *)

vars == <<call, granted>>

TypeOK ==
  /\ call \in [Calls -> {"idle", "asked", "answered", "over"}]
  /\ granted \in SUBSET Calls

Init ==
  /\ call = [c \in Calls |-> "idle"]
  /\ granted = {}

Ask(c) ==
  /\ call[c] = "idle"
  /\ call' = [call EXCEPT ![c] = "asked"]
  /\ UNCHANGED granted

\* One event may answer several calls: those with a verification ID are Good.
Answer(Answered, Good) ==
  /\ \A c \in Answered : call[c] = "asked"
  /\ call' = [c \in Calls |-> IF c \in Answered THEN "answered" ELSE call[c]]
  /\ granted' = granted \cup Good

Deliver(c) ==
  /\ call[c] = "answered"
  /\ call' = [call EXCEPT ![c] = "over"]
  /\ UNCHANGED granted

\* The process dies: what it had not delivered is over.
Restart ==
  /\ call' = [c \in Calls |-> IF call[c] = "idle" THEN "idle" ELSE "over"]
  /\ UNCHANGED granted

Next ==
  \/ \E c \in Calls : Ask(c) \/ Deliver(c)
  \/ \E Answered \in SUBSET Calls : \E Good \in SUBSET Answered :
        Answer(Answered, Good)
  \/ Restart

Spec == Init /\ [][Next]_vars

=============================================================================
