------------------------------ MODULE SignInFlow ------------------------------
(***************************************************************************)
(* What the user is promised of signing in with a phone number: somebody   *)
(* is signed in only by the code of an SMS to that number, a number is     *)
(* registered only after some code was accepted, and only signing out ends *)
(* either.  Screens, answers, queues and restarts of the app do not occur: *)
(* whatever they do, they change none of this.                             *)
(*                                                                         *)
(* PhoneSignIn implements it.                                              *)
(***************************************************************************)

CONSTANTS
  Sessions,     (* texted codes                                             *)
  Numbers,      (* phone numbers                                            *)
  Nil           (* no number                                                *)

VARIABLES
  texted,       (* per session: the number its code was sent to, or Nil     *)
  accepted,     (* sessions whose code was accepted                         *)
  user,         (* the number signed in, or Nil                             *)
  registered    (* the number of the sign-up form, or Nil                   *)

vars == <<texted, accepted, user, registered>>

TypeOK ==
  /\ texted \in [Sessions -> Numbers \cup {Nil}]
  /\ accepted \in SUBSET Sessions
  /\ user \in Numbers \cup {Nil}
  /\ registered \in Numbers \cup {Nil}

Init ==
  /\ texted = [s \in Sessions |-> Nil]
  /\ accepted = {}
  /\ user = Nil
  /\ registered = Nil

SendCode(s, n) ==
  /\ texted[s] = Nil
  /\ texted' = [texted EXCEPT ![s] = n]
  /\ UNCHANGED <<accepted, user, registered>>

\* The keychain may refuse the new user.
AcceptCode(s) ==
  /\ texted[s] # Nil
  /\ accepted' = accepted \cup {s}
  /\ user' \in {user, texted[s]}
  /\ UNCHANGED <<texted, registered>>

Register(n) ==
  /\ accepted # {}
  /\ registered' = n
  /\ UNCHANGED <<texted, accepted, user>>

\* The keychain may refuse to forget the user.
SignOut ==
  /\ registered' = Nil
  /\ user' \in {user, Nil}
  /\ UNCHANGED <<texted, accepted>>

Next ==
  \/ \E s \in Sessions, n \in Numbers : SendCode(s, n)
  \/ \E s \in Sessions : AcceptCode(s)
  \/ \E n \in Numbers : Register(n)
  \/ SignOut

Spec == Init /\ [][Next]_vars

=============================================================================
