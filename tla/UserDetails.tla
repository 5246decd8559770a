----------------------------- MODULE UserDetails -----------------------------
(***************************************************************************)
(* The details of the user: the sign-up form that collects them, the keys  *)
(* of UserDefaults they are stored under, and the labels of the profile    *)
(* that shows them.  The form writes the keys one at a time as its fields  *)
(* pass, the number last, signing out removes them one at a time, and the  *)
(* process may die between two; UserSignIn takes a stored number to mean   *)
(* that somebody is registered.  PhoneSignIn has the form's number and its one  *)
(* successful outcome; this module has every outcome of the form's button. *)
(***************************************************************************)


CONSTANTS
  Names,         (* first and last names a user may type                    *)
  Emails,        (* what a user may type as an email                        *)
  ValidEmails,   (* those that isValidEmail accepts                         *)
  Numbers,       (* the numbers a form may be presented with                *)
  Empty,         (* the empty string                                        *)
  Nil            (* Swift's nil: a key that is not stored, a label without text *)

VARIABLES
  user,       (* Auth.auth().currentUser is set                             *)
  form,       (* the SignUpViewController on screen, or Nil                 *)
  errors,     (* the form's error labels that are visible                   *)
  defaults,   (* UserDefaults.standard                                      *)
  profile,    (* labels of the controller that presents the form            *)
  interrupted (* history: a sign-out died between the email and the number  *)

vars == <<user, form, errors, defaults, profile, interrupted>>

Stored(S) == S \cup {Nil}
Field(S)  == S \cup {Empty}

Details == [firstName : Stored(Names), lastName : Stored(Names),
            emmailId : Stored(Emails), mobileNumber : Stored(Numbers)]

Form == [firstName : Field(Names), lastName : Field(Names),
         emmailId : Field(Emails), mobileNumber : Field(Numbers)]

ASSUME DetailsAssumption ==
  /\ ValidEmails \subseteq Emails
  /\ Empty \notin Names \cup Emails \cup Numbers
  /\ Nil \notin Names \cup Emails \cup Numbers \cup {Empty} \cup Form

Labels == {"firstName", "lastName", "emmailId"}

TypeOK ==
  /\ user \in BOOLEAN
  /\ form \in Form \cup {Nil}
  /\ errors \in SUBSET Labels
  /\ defaults \in Details
  /\ profile \in Details
  /\ interrupted \in BOOLEAN

NoDetails == [firstName |-> Nil, lastName |-> Nil, emmailId |-> Nil,
              mobileNumber |-> Nil]

Init ==
  /\ user = FALSE
  /\ form = Nil
  /\ errors = {}
  /\ defaults = NoDetails
  /\ profile = NoDetails
  /\ interrupted = FALSE

-----------------------------------------------------------------------------
(* The form *)

\* presentSignupVC, after a code was accepted.  A late form is presented for a user
\* who was signed in before, and may have signed out since.
PresentSignUp(number, late) ==
  /\ form = Nil
  /\ form' = [firstName |-> Empty, lastName |-> Empty, emmailId |-> Empty,
              mobileNumber |-> number]
  /\ errors' = {}
  /\ user' = (user \/ ~late)
  /\ UNCHANGED <<defaults, profile, interrupted>>

\* shouldChangeCharactersIn for a name: updateUIElements hides both name errors.
EditName(field, name) ==
  /\ form # Nil
  /\ form[field] # name
  /\ form' = [form EXCEPT ![field] = name]
  /\ errors' = errors \ {"firstName", "lastName"}
  /\ UNCHANGED <<user, defaults, profile, interrupted>>

\* shouldChangeCharactersIn for the email judges the text that is being replaced.
EditEmail(email) ==
  /\ form # Nil
  /\ form.emmailId # email
  /\ form' = [form EXCEPT !.emmailId = email]
  /\ errors' = IF form.emmailId \in ValidEmails THEN {}
               ELSE (errors \cup {"emmailId"}) \ {"firstName", "lastName"}
  /\ UNCHANGED <<user, defaults, profile, interrupted>>

\* The button's test of the email: isValidEmail is compared with nil but not
\* called, so any text passes.
EmailPasses(email) == email # Empty

\* signUpBtnAction with a field that does not pass: what was checked before it
\* stays stored, its own error is shown, the form stays.
RefuseFirstName ==
  /\ form # Nil
  /\ form.firstName = Empty
  /\ errors' = errors \cup {"firstName"}
  /\ UNCHANGED <<user, form, defaults, profile, interrupted>>

RefuseLastName ==
  /\ form # Nil
  /\ form.firstName # Empty
  /\ form.lastName = Empty
  /\ defaults' = [defaults EXCEPT !.firstName = form.firstName]
  /\ errors' = errors \cup {"lastName"}
  /\ UNCHANGED <<user, form, profile, interrupted>>

\* Mutant: the number is stored even when the form shows none.
StoredByUnchecked(f) == f

\* What the form stores when every field passes; a form without a number keeps
\* the number that was stored.
StoredBy(f) ==
  [f EXCEPT !.mobileNumber = IF f.mobileNumber = Empty THEN defaults.mobileNumber
                                                       ELSE f.mobileNumber]

\* Mutant: the number is not the last key written but the first.
RefuseEmailNumberStored ==
  /\ form # Nil
  /\ form.firstName # Empty
  /\ form.lastName # Empty
  /\ ~EmailPasses(form.emmailId)
  /\ defaults' = [StoredBy(form) EXCEPT !.emmailId = defaults.emmailId]
  /\ errors' = errors \cup {"emmailId"}
  /\ UNCHANGED <<user, form, profile, interrupted>>

RefuseEmail ==
  /\ form # Nil
  /\ form.firstName # Empty
  /\ form.lastName # Empty
  /\ ~EmailPasses(form.emmailId)
  /\ defaults' = [defaults EXCEPT !.firstName = form.firstName,
                                  !.lastName = form.lastName]
  /\ errors' = errors \cup {"emmailId"}
  /\ UNCHANGED <<user, form, profile, interrupted>>

\* Mutant: updateDetails before the keys are written.
SignUpShownEarly ==
  /\ form # Nil
  /\ form.firstName # Empty
  /\ form.lastName # Empty
  /\ EmailPasses(form.emmailId)
  /\ profile' = defaults
  /\ defaults' = StoredBy(form)
  /\ form' = Nil
  /\ errors' = {}
  /\ interrupted' = FALSE
  /\ UNCHANGED user

\* signUpBtnAction with fields that all pass: updateDetails shows what is stored,
\* and the form is dismissed.
SignUp ==
  /\ form # Nil
  /\ form.firstName # Empty
  /\ form.lastName # Empty
  /\ EmailPasses(form.emmailId)
  /\ defaults' = StoredBy(form)
  /\ profile' = defaults'
  /\ form' = Nil
  /\ errors' = {}
  /\ interrupted' = FALSE
  /\ UNCHANGED user

-----------------------------------------------------------------------------
(* The profile and the process *)

\* signOutBtnAction removes the email and the number, not the names; Firebase may
\* refuse; viewWillAppear shows what is left.
SignOut(ok) ==
  /\ form = Nil
  /\ user
  /\ defaults' = [defaults EXCEPT !.emmailId = Nil, !.mobileNumber = Nil]
  /\ profile' = defaults'
  /\ user' = ~ok
  /\ interrupted' = FALSE
  /\ UNCHANGED <<form, errors>>

\* The process dies, whatever the form holds, and the next profile appears.
Relaunch ==
  /\ form' = Nil
  /\ errors' = {}
  /\ profile' = defaults
  /\ UNCHANGED <<user, defaults, interrupted>>

\* It dies in signUpBtnAction, with some of the keys before the number written.
DieSigningUp ==
  /\ form # Nil
  /\ form.firstName # Empty
  /\ form.lastName # Empty
  /\ EmailPasses(form.emmailId)
  /\ \E written \in {{"firstName"}, {"firstName", "lastName"}, Labels} :
       defaults' = [key \in DOMAIN defaults |->
                      IF key \in written THEN form[key] ELSE defaults[key]]
  /\ form' = Nil
  /\ errors' = {}
  /\ profile' = defaults'
  /\ UNCHANGED <<user, interrupted>>

\* It dies in signOutBtnAction: the email has been removed, the number has not.
DieSigningOut ==
  /\ form = Nil
  /\ user
  /\ defaults' = [defaults EXCEPT !.emmailId = Nil]
  /\ errors' = {}
  /\ profile' = defaults'
  /\ interrupted' = TRUE
  /\ UNCHANGED <<user, form>>

Next ==
  \/ \E number \in Field(Numbers), late \in BOOLEAN : PresentSignUp(number, late)
  \/ \E field \in {"firstName", "lastName"}, name \in Field(Names) : EditName(field, name)
  \/ \E email \in Field(Emails) : EditEmail(email)
  \/ RefuseFirstName
  \/ RefuseLastName
  \/ RefuseEmail
  \/ SignUp
  \/ \E ok \in BOOLEAN : SignOut(ok)
  \/ Relaunch
  \/ DieSigningUp
  \/ DieSigningOut

Spec == Init /\ [][Next]_vars

-----------------------------------------------------------------------------
(* Properties *)

\* isUserSignedIn tests the number alone: a phone with a stored number has all the
\* other details too, however many forms were refused, abandoned in a crash before
\* or in the midst of storing them, filled in by somebody else or left by signing out
\* on the way.  Only dying between the two keys that a sign-out removes leaves a
\* number without its email, until the next sign-up or sign-out.
RegisteredHasDetails ==
  defaults.mobileNumber # Nil =>
    /\ defaults.firstName # Nil
    /\ defaults.lastName # Nil
    /\ defaults.emmailId # Nil \/ interrupted

\* Once the form has gone, the profile that presented it shows what is stored: what
\* the button wrote while refusing fields, or lost in a crash, is on its labels.
ProfileShowsStored == form = Nil => profile = defaults

Registry == INSTANCE Registration WITH
  form       <- IF form = Nil THEN Nil ELSE form.mobileNumber,
  registered <- defaults.mobileNumber

\* Of all the form's outcomes only the successful one registers, and registers what the
\* form was presented with: keys left by refused and abandoned forms add up to nothing.
RegistersByForm == Registry!Spec

\* "Email is not valid": the form stores no email that isValidEmail refuses.
StoredEmailIsValid == defaults.emmailId \in ValidEmails \cup {Nil}

=============================================================================
