--------------------------- MODULE SessionService ---------------------------
(***************************************************************************)
(* What the app is promised by signIn, signOut and currentUser of the      *)
(* Firebase SDK: a call of signIn is answered at most once, and the answer *)
(* is delivered at most once; a good answer signs in the user the call was *)
(* made for, a bad one leaves whoever was signed in; nothing else but      *)
(* signOut changes the user, and a new process finds the user of the old.  *)
(*                                                                         *)
(* UserSession implements this promise and PhoneSignIn keeps to it.        *)
(***************************************************************************)

CONSTANTS
  Calls,        (* calls of signIn                                          *)
  Users,        (* those who can be signed in                               *)
  Nil           (* nobody                                                   *)

VARIABLES
  call,         (* per call: how far it is                                  *)
  of,           (* per call: the user it signs in, Nil before it is made    *)
  user          (* who is signed in, or Nil                                 *)

vars == <<call, of, user>>

TypeOK ==
  /\ call \in [Calls -> {"idle", "asked", "good", "bad", "over"}]
  /\ of \in [Calls -> Users \cup {Nil}]
  /\ user \in Users \cup {Nil}

Init ==
  /\ call = [c \in Calls |-> "idle"]
  /\ of = [c \in Calls |-> Nil]
  /\ user = Nil

Ask(c, u) ==
  /\ call[c] = "idle"
  /\ call' = [call EXCEPT ![c] = "asked"]
  /\ of' = [of EXCEPT ![c] = u]
  /\ UNCHANGED user

Succeed(c) ==
  /\ call[c] = "asked"
  /\ call' = [call EXCEPT ![c] = "good"]
  /\ user' = of[c]
  /\ UNCHANGED of

Fail(c) ==
  /\ call[c] = "asked"
  /\ call' = [call EXCEPT ![c] = "bad"]
  /\ UNCHANGED <<of, user>>

Deliver(c) ==
  /\ call[c] \in {"good", "bad"}
  /\ call' = [call EXCEPT ![c] = "over"]
  /\ UNCHANGED <<of, user>>

\* A refused sign-out changes nothing.
SignOut ==
  /\ user' = Nil
  /\ UNCHANGED <<call, of>>

\* The process dies: what it had not delivered is over.
Restart ==
  /\ call' = [c \in Calls |-> IF call[c] = "idle" THEN "idle" ELSE "over"]
  /\ UNCHANGED <<of, user>>

Next ==
  \/ \E c \in Calls, u \in Users : Ask(c, u)
  \/ \E c \in Calls : Succeed(c) \/ Fail(c) \/ Deliver(c)
  \/ SignOut
  \/ Restart

Spec == Init /\ [][Next]_vars

=============================================================================
