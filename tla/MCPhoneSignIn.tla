---------------------------- MODULE MCPhoneSignIn ----------------------------
(* Instances of PhoneSignIn for TLC. *)
EXTENDS PhoneSignIn, TLC

\* Numbers, sessions, sign-in calls and controllers are interchangeable.
Symmetry == Permutations(Numbers) \cup Permutations(Requests)
       \cup Permutations(Attempts) \cup Permutations(Controllers)

=============================================================================
