----------------------------- MODULE Registration -----------------------------
(***************************************************************************)
(* What the sign-up form promises of the registered number, between the    *)
(* screens that present the form and the store it writes: the number on    *)
(* the form is registered when the form is completed and not a step        *)
(* before, a refused or abandoned form registers nobody, a form without a  *)
(* number leaves the one there is, and nobody signs out behind a form.     *)
(*                                                                         *)
(* PhoneSignIn implements it with the one successful outcome of the form   *)
(* it has, UserDetails with every outcome and every key of the store.      *)
(***************************************************************************)

CONSTANTS
  Numbers,      (* phone numbers                                            *)
  Empty,        (* a form without a number                                  *)
  Nil           (* no form; no number                                       *)

VARIABLES
  form,         (* the number on the form, Empty, or Nil without a form     *)
  registered    (* the stored number, or Nil                                *)

vars == <<form, registered>>

TypeOK ==
  /\ form \in Numbers \cup {Empty, Nil}
  /\ registered \in Numbers \cup {Nil}

Init ==
  /\ form = Nil
  /\ registered = Nil

Present(n) ==
  /\ form = Nil
  /\ form' = n
  /\ UNCHANGED registered

Complete ==
  /\ form # Nil
  /\ registered' = IF form = Empty THEN registered ELSE form
  /\ form' = Nil

SignOut ==
  /\ form = Nil
  /\ registered' = Nil
  /\ UNCHANGED form

\* The form is lost with its process, what is stored is not.
Restart ==
  /\ form' = Nil
  /\ UNCHANGED registered

Next ==
  \/ \E n \in Numbers \cup {Empty} : Present(n)
  \/ Complete
  \/ SignOut
  \/ Restart

Spec == Init /\ [][Next]_vars

=============================================================================
