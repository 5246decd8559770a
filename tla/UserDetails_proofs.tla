-------------------------- MODULE UserDetails_proofs --------------------------
(***************************************************************************)
(* What TLAPS proves of UserDetails, for every set of names, emails and    *)
(* numbers.                                                                *)
(***************************************************************************)
EXTENDS UserDetails, TLAPS

IInv == TypeOK /\ RegisteredHasDetails /\ ProfileShowsStored

\* What is stored when every field passes is a full set of details.
LEMMA StoredIsFull ==
  ASSUME TypeOK, RegisteredHasDetails, form # Nil,
         form.firstName # Empty, form.lastName # Empty, EmailPasses(form.emmailId)
  PROVE  /\ StoredBy(form) \in Details
         /\ StoredBy(form).firstName # Nil
         /\ StoredBy(form).lastName # Nil
         /\ StoredBy(form).emmailId # Nil
<1>1. form \in Form /\ defaults \in Details
  BY DEF TypeOK
<1>2. /\ form.firstName \in Names /\ form.lastName \in Names
      /\ form.emmailId \in Emails /\ form.mobileNumber \in Field(Numbers)
  BY <1>1 DEF Form, Field, EmailPasses
<1>3. StoredBy(form) = [firstName |-> form.firstName, lastName |-> form.lastName,
                        emmailId |-> form.emmailId,
                        mobileNumber |-> IF form.mobileNumber = Empty
                                           THEN defaults.mobileNumber
                                           ELSE form.mobileNumber]
  BY <1>1 DEF StoredBy, Form
<1>4. defaults.mobileNumber \in Stored(Numbers)
  BY <1>1 DEF Details
<1> QED
  BY <1>2, <1>3, <1>4, DetailsAssumption DEF Details, Stored, Field

\* The initial state, before anything is stored, satisfies the invariant.
LEMMA InvInit == Init => IInv
<1> SUFFICES ASSUME Init PROVE IInv
  OBVIOUS
<1>1. NoDetails \in Details /\ NoDetails.mobileNumber = Nil
  BY DEF NoDetails, Details, Stored
<1>2. form \in Form \cup {Nil} /\ errors \in SUBSET Labels /\ user \in BOOLEAN
  BY DEF Init
<1> QED
  BY <1>1, <1>2 DEF Init, IInv, TypeOK, RegisteredHasDetails, ProfileShowsStored

\* Every outcome of every step keeps the invariant.
LEMMA InvStep == IInv /\ [Next]_vars => IInv'
<1> SUFFICES ASSUME IInv, [Next]_vars PROVE IInv'
  OBVIOUS
<1> USE DEF IInv, RegisteredHasDetails, ProfileShowsStored
<1>1. ASSUME NEW number \in Field(Numbers), NEW late \in BOOLEAN,
             PresentSignUp(number, late)
      PROVE  IInv'
  <2>1. form' \in Form /\ form' # Nil
    BY <1>1, DetailsAssumption DEF PresentSignUp, Form, Field
  <2>2. user' \in BOOLEAN
    BY <1>1 DEF PresentSignUp
  <2> QED  BY <1>1, <2>1, <2>2 DEF PresentSignUp, TypeOK
<1>2. ASSUME NEW field \in {"firstName", "lastName"}, NEW name \in Field(Names),
             EditName(field, name)
      PROVE  IInv'
  <2>1. form' \in Form /\ form' # Nil
    BY <1>2, DetailsAssumption DEF EditName, TypeOK, Form, Field
  <2> QED  BY <1>2, <2>1 DEF EditName, TypeOK
<1>3. ASSUME NEW email \in Field(Emails), EditEmail(email) PROVE IInv'
  <2>1. form' \in Form /\ form' # Nil
    BY <1>3, DetailsAssumption DEF EditEmail, TypeOK, Form, Field
  <2>2. errors' \in SUBSET Labels
    BY <1>3 DEF EditEmail, TypeOK, Labels
  <2> QED  BY <1>3, <2>1, <2>2 DEF EditEmail, TypeOK
<1>4. CASE RefuseFirstName
  BY <1>4 DEF RefuseFirstName, TypeOK, Labels
<1>5. CASE RefuseLastName
  <2>1. /\ defaults' \in Details
        /\ defaults'.mobileNumber = defaults.mobileNumber
        /\ defaults'.firstName # Nil
        /\ defaults'.lastName = defaults.lastName
        /\ defaults'.emmailId = defaults.emmailId
    BY <1>5, DetailsAssumption DEF RefuseLastName, TypeOK, Details, Form, Field, Stored
  <2> QED  BY <1>5, <2>1 DEF RefuseLastName, TypeOK, Labels
<1>6. CASE RefuseEmail
  <2>1. /\ defaults' \in Details
        /\ defaults'.mobileNumber = defaults.mobileNumber
        /\ defaults'.firstName # Nil
        /\ defaults'.lastName # Nil
        /\ defaults'.emmailId = defaults.emmailId
    BY <1>6, DetailsAssumption DEF RefuseEmail, TypeOK, Details, Form, Field, Stored
  <2> QED  BY <1>6, <2>1 DEF RefuseEmail, TypeOK, Labels
<1>7. CASE SignUp
  BY <1>7, StoredIsFull DEF SignUp, TypeOK
<1>8. ASSUME NEW ok \in BOOLEAN, SignOut(ok) PROVE IInv'
  <2>1. defaults' \in Details /\ defaults'.mobileNumber = Nil
    BY <1>8 DEF SignOut, TypeOK, Details, Stored
  <2> QED  BY <1>8, <2>1 DEF SignOut, TypeOK
<1>9. CASE Relaunch
  BY <1>9 DEF Relaunch, TypeOK
<1>10. CASE DieSigningUp
  <2>1. PICK written \in {{"firstName"}, {"firstName", "lastName"}, Labels} :
          defaults' = [key \in DOMAIN defaults |->
                         IF key \in written THEN form[key] ELSE defaults[key]]
    BY <1>10 DEF DieSigningUp
  <2>2. DOMAIN defaults = {"firstName", "lastName", "emmailId", "mobileNumber"}
    BY DEF TypeOK, Details
  <2>3. written \subseteq Labels
    BY DEF Labels
  <2>4. \A key \in DOMAIN defaults :
          defaults'[key] = IF key \in written THEN form[key] ELSE defaults[key]
    BY <2>1
  <2>5. \A key \in Labels : form[key] # Nil
    BY <1>10, DetailsAssumption DEF DieSigningUp, TypeOK, Form, Field, Labels, EmailPasses
  <2>6. defaults' \in Details
    <3>1. defaults' = [firstName |-> defaults'.firstName, lastName |-> defaults'.lastName,
                       emmailId |-> defaults'.emmailId,
                       mobileNumber |-> defaults'.mobileNumber]
      BY <2>1, <2>2
    <3>2. /\ form.firstName \in Names /\ form.lastName \in Names /\ form.emmailId \in Emails
      BY <1>10 DEF DieSigningUp, TypeOK, Form, Field, EmailPasses
    <3>3. /\ defaults.firstName \in Stored(Names) /\ defaults.lastName \in Stored(Names)
          /\ defaults.emmailId \in Stored(Emails)
          /\ defaults.mobileNumber \in Stored(Numbers)
      BY DEF TypeOK, Details
    <3>4. /\ defaults'.firstName \in Stored(Names) /\ defaults'.lastName \in Stored(Names)
          /\ defaults'.emmailId \in Stored(Emails)
      BY <2>2, <2>4, <3>2, <3>3 DEF Stored
    <3>5. defaults'.mobileNumber \in Stored(Numbers)
      BY <2>2, <2>3, <2>4, <3>3 DEF Labels
    <3> QED  BY <3>1, <3>4, <3>5 DEF Details
  <2>7. defaults'.mobileNumber = defaults.mobileNumber
    BY <2>2, <2>3, <2>4 DEF Labels
  <2>8. /\ defaults.firstName # Nil => defaults'.firstName # Nil
        /\ defaults.lastName # Nil => defaults'.lastName # Nil
        /\ defaults.emmailId # Nil => defaults'.emmailId # Nil
    BY <2>2, <2>4, <2>5 DEF Labels
  <2> QED  BY <1>10, <2>6, <2>7, <2>8 DEF DieSigningUp, TypeOK
<1>11. CASE DieSigningOut
  <2>1. /\ defaults' \in Details
        /\ defaults'.mobileNumber = defaults.mobileNumber
        /\ defaults'.firstName = defaults.firstName
        /\ defaults'.lastName = defaults.lastName
    BY <1>11 DEF DieSigningOut, TypeOK, Details, Stored
  <2> QED  BY <1>11, <2>1 DEF DieSigningOut, TypeOK
<1>12. CASE UNCHANGED vars
  BY <1>12 DEF vars, TypeOK
<1> QED
  BY <1>1, <1>2, <1>3, <1>4, <1>5, <1>6, <1>7, <1>8, <1>9, <1>10, <1>11, <1>12 DEF Next

\* The details' store, form and labels keep their types.
THEOREM TypeCorrect == Spec => []TypeOK
<1>1. IInv => TypeOK
  BY DEF IInv
<1> QED  BY <1>1, InvInit, InvStep, PTL DEF Spec

\* A stored number always stands for a full set of details, but for the email that a
\* sign-out had removed when the process died.
THEOREM RegisteredAlwaysHasDetails == Spec => []RegisteredHasDetails
<1>1. IInv => RegisteredHasDetails
  BY DEF IInv
<1> QED  BY <1>1, InvInit, InvStep, PTL DEF Spec

\* Without a form over it, a profile always shows what is stored.
THEOREM ProfileAlwaysShowsStored == Spec => []ProfileShowsStored
<1>1. IInv => ProfileShowsStored
  BY DEF IInv
<1> QED  BY <1>1, InvInit, InvStep, PTL DEF Spec

-----------------------------------------------------------------------------
(* The promise of the form *)

\* Before any form, nothing is registered.
LEMMA RegistryInit == Init => Registry!Init
BY DEF Init, NoDetails, Registry!Init

\* A step that changes neither the form's number nor the stored one is none to the
\* promise: editing, refusing and storing the other keys.
LEMMA RegistryStutters ==
  ASSUME (form = Nil) <=> (form' = Nil),
         form # Nil => form'.mobileNumber = form.mobileNumber,
         defaults'.mobileNumber = defaults.mobileNumber
  PROVE  UNCHANGED Registry!vars
BY DEF Registry!vars

LEMMA RegistryStep == IInv /\ [Next]_vars => [Registry!Next]_(Registry!vars)
<1> SUFFICES ASSUME IInv, [Next]_vars
             PROVE  Registry!Next \/ UNCHANGED Registry!vars
  OBVIOUS
<1> DEFINE Goal == Registry!Next \/ UNCHANGED Registry!vars
<1>t. /\ form \in Form \cup {Nil} /\ defaults \in Details
      /\ Nil \notin Form
  BY DetailsAssumption DEF IInv, TypeOK
<1>1. ASSUME NEW number \in Field(Numbers), NEW late \in BOOLEAN,
             PresentSignUp(number, late)
      PROVE  Goal
  <2>1. form = Nil /\ form' \in Form /\ form'.mobileNumber = number /\ UNCHANGED defaults
    BY <1>1 DEF PresentSignUp, Form, Field
  <2>2. Registry!Present(number)
    BY <1>t, <2>1 DEF Registry!Present
  <2> QED  BY <2>2 DEF Registry!Next, Field
<1>2. ASSUME NEW field \in {"firstName", "lastName"}, NEW name \in Field(Names),
             EditName(field, name)
      PROVE  Goal
  <2>1. /\ form # Nil /\ form' \in Form /\ form'.mobileNumber = form.mobileNumber
        /\ UNCHANGED defaults
    BY <1>2, <1>t DEF EditName, Form, Field
  <2> QED  BY <1>t, <2>1, RegistryStutters
<1>3. ASSUME NEW email \in Field(Emails), EditEmail(email) PROVE Goal
  <2>1. /\ form # Nil /\ form' \in Form /\ form'.mobileNumber = form.mobileNumber
        /\ UNCHANGED defaults
    BY <1>3, <1>t DEF EditEmail, Form, Field
  <2> QED  BY <1>t, <2>1, RegistryStutters
<1>4. CASE RefuseFirstName \/ RefuseLastName \/ RefuseEmail
  <2>1. UNCHANGED form /\ defaults'.mobileNumber = defaults.mobileNumber
    BY <1>4, <1>t DEF RefuseFirstName, RefuseLastName, RefuseEmail, Details
  <2> QED  BY <2>1, RegistryStutters
<1>5. CASE SignUp
  <2>1. form \in Form /\ form # Nil /\ form' = Nil
    BY <1>5, <1>t DEF SignUp
  <2>2. defaults'.mobileNumber
          = IF form.mobileNumber = Empty THEN defaults.mobileNumber ELSE form.mobileNumber
    BY <1>5, <2>1 DEF SignUp, StoredBy, Form
  <2>3. form.mobileNumber # Nil
    BY <2>1, DetailsAssumption DEF Form, Field
  <2>4. Registry!Complete
    BY <2>1, <2>2, <2>3 DEF Registry!Complete
  <2> QED  BY <2>4 DEF Registry!Next
<1>6. ASSUME NEW ok \in BOOLEAN, SignOut(ok) PROVE Goal
  <2>1. form = Nil /\ UNCHANGED form /\ defaults'.mobileNumber = Nil
    BY <1>6, <1>t DEF SignOut, Details
  <2>2. Registry!SignOut
    BY <2>1 DEF Registry!SignOut
  <2> QED  BY <2>2 DEF Registry!Next
<1>7. CASE Relaunch
  <2>1. Registry!Restart
    BY <1>7 DEF Relaunch, Registry!Restart
  <2> QED  BY <2>1 DEF Registry!Next
<1>8. CASE DieSigningUp \/ DieSigningOut
  <2>1. form' = Nil /\ defaults'.mobileNumber = defaults.mobileNumber
    BY <1>8, <1>t DEF DieSigningUp, DieSigningOut, Details, Labels
  <2>2. Registry!Restart
    BY <2>1 DEF Registry!Restart
  <2> QED  BY <2>2 DEF Registry!Next
<1>9. CASE UNCHANGED vars
  BY <1>9 DEF vars, Registry!vars
<1> QED
  BY <1>1, <1>2, <1>3, <1>4, <1>5, <1>6, <1>7, <1>8, <1>9 DEF Next

\* Refused, abandoned, late and completed, the form registers only what it was presented
\* with, and only when it is completed.
THEOREM FormRegisters == Spec => RegistersByForm
<1> QED  BY InvInit, InvStep, RegistryInit, RegistryStep, PTL
         DEF Spec, Registry!Spec, RegistersByForm

=============================================================================
