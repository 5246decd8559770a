------------------------- MODULE PhoneSignIn_promises -------------------------
(* What PhoneSignIn takes from signIn and signOut of the SDK, proved to be no more
   than SessionService has them do. *)
EXTENDS PhoneSignIn_proofs

-----------------------------------------------------------------------------
(* The main queue *)

\* Of an answer that is due, no block waits yet.
LEMMA FlyingIsUnanswered ==
  ASSUME IInv, NEW a \in Attempts, attempt[a].state = "flying", NEW ok
  PROVE  ~ SignInAnswerWaits(a, ok)
  BY DEF IInv, QueueStands, BlockStands, SignInAnswerWaits, Async

-----------------------------------------------------------------------------
(* signIn *)

\* No call of signIn has both a good and a bad answer waiting.
AnswersAgree ==
  \A a \in Attempts : ~ (SignInAnswerWaits(a, TRUE) /\ SignInAnswerWaits(a, FALSE))

\* Sign-in answers waiting after a step waited before.
NoNewAnswer ==
  \A a \in Attempts, ok \in BOOLEAN : SignInAnswerWaits(a, ok)' => SignInAnswerWaits(a, ok)

\* The number of a call that has begun is settled.
NumbersStay ==
  \A a \in Attempts :
    /\ attempt'[a].session = attempt[a].session
    /\ attempt[a].session # Nil =>
         sms'[attempt[a].session].number = sms[attempt[a].session].number

\* Nothing has happened to any call of signIn.
SameAttempts ==
  /\ \A a \in Attempts : attempt'[a].state = attempt[a].state
  /\ \A a \in Attempts, ok \in BOOLEAN : SignInAnswerWaits(a, ok)' <=> SignInAnswerWaits(a, ok)

\* Then nothing has happened to it for SessionService.
LEMMA NumbersMap ==
  NumbersStay => [a \in Attempts |-> AttemptNumber(a)]' = [a \in Attempts |-> AttemptNumber(a)]
  BY DEF NumbersStay, AttemptNumber

LEMMA SessionStutters ==
  SameAttempts /\ NumbersStay =>
    UNCHANGED <<[a \in Attempts |-> AttemptProgress(a)], [a \in Attempts |-> AttemptNumber(a)]>>
  <1> SUFFICES ASSUME SameAttempts, NumbersStay
               PROVE  [a \in Attempts |-> AttemptProgress(a)]'
                         = [a \in Attempts |-> AttemptProgress(a)]
    BY NumbersMap
  <1>1. \A a \in Attempts : /\ attempt'[a].state = attempt[a].state
                            /\ SignInAnswerWaits(a, TRUE)' <=> SignInAnswerWaits(a, TRUE)
                            /\ SignInAnswerWaits(a, FALSE)' <=> SignInAnswerWaits(a, FALSE)
    BY DEF SameAttempts
  <1> QED
    BY <1>1 DEF AttemptProgress

\* A session that is open keeps its number.
LEMMA OpenNumbersStay ==
  ASSUME IInv, UNCHANGED attempt,
         \A r \in Requests : sms[r].state = "sent" => sms'[r].number = sms[r].number
  PROVE  NumbersStay
  BY DEF NumbersStay, IInv, CallsStand, TypeOK, SignInCall

\* Blocks of another kind are none of its business either.
LEMMA OtherKinds ==
  ASSUME NEW V, NEW b, b.kind # "signInAnswer"
  PROVE  \A a \in Attempts, ok \in BOOLEAN :
           Async("signInAnswer", a, ok) \in V \cup {b} => Async("signInAnswer", a, ok) \in V
  BY DEF Async

\* A waiting answer is the one of its call.
LEMMA AnswerBlock ==
  ASSUME NEW b \in Block, b.kind = "signInAnswer"
  PROVE  b = Async("signInAnswer", b.of, b.ok) /\ b.of \in Attempts /\ b.ok \in BOOLEAN
  BY DEF Block, Async

\* What a step that runs a block, other than an answer of signIn, leaves waiting.
LEMMA OtherBlockLeaves ==
  ASSUME IInv, RunSmsAnswer \/ RunShowOtp \/ RunPresentSignUp
  PROVE  SameAttempts
  <1>1. /\ mainQueue \in Seq(Block) /\ mainQueue # <<>>
        /\ Head(mainQueue).kind # "signInAnswer"
        /\ UNCHANGED attempt
    BY DEF RunSmsAnswer, RunShowOtp, RunPresentSignUp, NextBlock, IInv, TypeOK, backend
  <1>2. Waiting(mainQueue) = Waiting(Tail(mainQueue)) \cup {Head(mainQueue)}
    BY <1>1, TailWaits
  <1> DEFINE Kept == \A a \in Attempts, ok \in BOOLEAN :
                       Async("signInAnswer", a, ok) \in Waiting(mainQueue') <=>
                         Async("signInAnswer", a, ok) \in Waiting(Tail(mainQueue))
  <1>3. Kept
    <2> DEFINE d == Async("showOtp", sms[NextBlockOf].ctrl, TRUE)
    <2>1. CASE RunSmsAnswer /\ NextBlockOk
      <3>1. NextBlockOf \in Requests /\ sms[NextBlockOf].state # "idle"
        BY <1>1, <2>1, HeadWaiting, HeadBlock, BlockSubjects
        DEF RunSmsAnswer, NextBlock, NextBlockOf, IInv, QueueStands, BlockStands
      <3>2. d \in Block /\ d.kind # "signInAnswer"
        BY <3>1, BlockTypes DEF Async, IInv, CallsStand
      <3>3. Tail(mainQueue) \in Seq(Block) /\ mainQueue' = Append(Tail(mainQueue), d)
        BY <1>1, <2>1, HeadBlock DEF RunSmsAnswer
      <3>4. Waiting(mainQueue') = Waiting(Tail(mainQueue)) \cup {d}
        BY <3>2, <3>3, AppendWaits
      <3> QED
        BY <3>2, <3>4, OtherKinds
    <2>2. CASE mainQueue' = Tail(mainQueue)
      BY <2>2
    <2> QED
      BY <2>1, <2>2 DEF RunSmsAnswer, RunShowOtp, RunPresentSignUp
  <1>4. \A a \in Attempts, ok \in BOOLEAN :
          SignInAnswerWaits(a, ok) <=> Async("signInAnswer", a, ok) \in Waiting(Tail(mainQueue))
    BY <1>1, <1>2, OtherKinds DEF SignInAnswerWaits
  <1> QED
    BY <1>1, <1>3, <1>4 DEF SameAttempts, SignInAnswerWaits

\* What running an answer of signIn leaves waiting: every other, and perhaps itself.
LEMMA AnswerLeaves ==
  ASSUME IInv, RunSignInAnswer
  PROVE  \E a \in Attempts, ok \in BOOLEAN :
           /\ SignInAnswerWaits(a, ok)
           /\ attempt[a].state = "answered"
           /\ \A e \in Attempts, x \in BOOLEAN :
                <<e, x>> # <<a, ok>> => (SignInAnswerWaits(e, x)' <=> SignInAnswerWaits(e, x))
  <1> DEFINE b == Head(mainQueue)
  <1>1. mainQueue \in Seq(Block) /\ mainQueue # <<>> /\ b.kind = "signInAnswer"
    BY DEF RunSignInAnswer, NextBlock, IInv, TypeOK
  <1>2. b \in Block /\ Tail(mainQueue) \in Seq(Block) /\ b \in Waiting(mainQueue)
    BY <1>1, HeadBlock, HeadWaiting
  <1>3. PICK a \in Attempts, ok \in BOOLEAN : b = Async("signInAnswer", a, ok)
    BY <1>1, <1>2, AnswerBlock
  <1>4. a = b.of /\ a = NextBlockOf /\ attempt[a].state = "answered"
    BY <1>1, <1>2, <1>3 DEF Async, NextBlockOf, IInv, QueueStands, BlockStands
  <1>5. Waiting(mainQueue) = Waiting(Tail(mainQueue)) \cup {b}
    BY <1>1, TailWaits
  <1>6. \A e \in Attempts, x \in BOOLEAN :
          Async("signInAnswer", e, x) \in Waiting(mainQueue') <=>
            Async("signInAnswer", e, x) \in Waiting(Tail(mainQueue))
    <2> DEFINE d == Async("presentSignUp", attempt[NextBlockOf].ctrl, TRUE)
    <2>1. CASE NextBlockOk
      <3>1. d \in Block /\ d.kind # "signInAnswer"
        BY <1>4, BlockTypes DEF Async, IInv, CallsStand
      <3>2. mainQueue' = Append(Tail(mainQueue), d)
        BY <2>1 DEF RunSignInAnswer
      <3>3. Waiting(mainQueue') = Waiting(Tail(mainQueue)) \cup {d}
        BY <1>2, <3>1, <3>2, AppendWaits
      <3> QED
        BY <3>1, <3>3, OtherKinds
    <2>2. CASE ~NextBlockOk
      BY <2>2 DEF RunSignInAnswer
    <2> QED
      BY <2>1, <2>2
  <1>7. \A e \in Attempts, x \in BOOLEAN :
          <<e, x>> # <<a, ok>> => Async("signInAnswer", e, x) # b
    BY <1>3 DEF Async
  <1>8. SignInAnswerWaits(a, ok)
    BY <1>2, <1>3 DEF SignInAnswerWaits
  <1>9. \A e \in Attempts, x \in BOOLEAN :
          <<e, x>> # <<a, ok>> => (SignInAnswerWaits(e, x)' <=> SignInAnswerWaits(e, x))
    BY <1>5, <1>6, <1>7 DEF SignInAnswerWaits
  <1> QED
    BY <1>4, <1>8, <1>9

\* What an answer of the back end makes wait: itself.
LEMMA AnswerJoins ==
  ASSUME IInv, NEW a \in Attempts, NEW accepted \in BOOLEAN, NEW saved \in BOOLEAN,
         AnswerSignIn(a, accepted, saved)
  PROVE  \A e \in Attempts, x \in BOOLEAN :
           SignInAnswerWaits(e, x)' <=> SignInAnswerWaits(e, x) \/ <<e, x>> = <<a, saved>>
  <1> DEFINE b == Async("signInAnswer", a, saved)
  <1>1. mainQueue \in Seq(Block) /\ b \in Block /\ mainQueue' = Append(mainQueue, b)
    BY BlockTypes DEF AnswerSignIn, IInv, TypeOK
  <1>2. Waiting(mainQueue') = Waiting(mainQueue) \cup {b}
    BY <1>1, AppendWaits
  <1>3. \A e \in Attempts, x \in BOOLEAN :
          Async("signInAnswer", e, x) = b <=> <<e, x>> = <<a, saved>>
    BY DEF Async
  <1> QED
    BY <1>2, <1>3 DEF SignInAnswerWaits

\* Queueing the answer to verifyPhoneNumber adds none of signIn.
LEMMA SmsAnswerJoins ==
  ASSUME IInv, NEW r \in Requests, NEW ok \in BOOLEAN, AnswerSms(r, ok)
  PROVE  SameAttempts
  <1> DEFINE b == Async("smsAnswer", r, ok)
  <1>1. mainQueue \in Seq(Block) /\ b \in Block /\ b.kind # "signInAnswer"
    BY BlockTypes DEF Async, IInv, TypeOK
  <1>2. Waiting(mainQueue') = Waiting(mainQueue) \cup {b}
    BY <1>1, AppendWaits DEF AnswerSms
  <1> QED
    BY <1>1, <1>2, OtherKinds DEF AnswerSms, SameAttempts, SignInAnswerWaits

\* A new process owes no answer.
LEMMA RelaunchOwesNothing ==
  ASSUME Relaunch, NEW a \in Attempts, NEW ok
  PROVE  ~ SignInAnswerWaits(a, ok)'
  BY DEF Relaunch, SignInAnswerWaits, Waiting

\* A call that begins is for the number its session was opened for.
LEMMA AttemptBegins ==
  ASSUME IInv, NEW c \in Controllers, NEW a \in Attempts, VerifyOtp(c, a)
  PROVE  \E n \in Numbers : Session!Ask(a, n)
  <1>1. /\ verificationId \in Requests \ {Nil}
        /\ attempt[a].state = "idle"
        /\ attempt'[a].state = "flying" /\ attempt'[a].session = verificationId
        /\ \A e \in Attempts : e # a => attempt'[e] = attempt[e]
        /\ UNCHANGED <<sms, mainQueue, currentUser>>
    BY SortsAssumption DEF VerifyOtp, IInv, TypeOK, device
  <1>2. PICK n \in Numbers : n = sms[verificationId].number
    BY <1>1 DEF IInv, SessionsStand, CallsStand, TypeOK, SmsCall, Texts
  <1>3. \A e \in Attempts, x \in BOOLEAN : SignInAnswerWaits(e, x)' <=> SignInAnswerWaits(e, x)
    BY <1>1 DEF SignInAnswerWaits
  <1>4. [e \in Attempts |-> AttemptProgress(e)]'
          = [[e \in Attempts |-> AttemptProgress(e)] EXCEPT ![a] = "asked"]
    BY <1>1, <1>3 DEF AttemptProgress
  <1>5. [e \in Attempts |-> AttemptNumber(e)]'
          = [[e \in Attempts |-> AttemptNumber(e)] EXCEPT ![a] = n]
    BY <1>1, <1>2 DEF AttemptNumber
  <1>6. Session!Ask(a, n)
    BY <1>1, <1>4, <1>5 DEF Session!Ask, AttemptProgress
  <1> QED
    BY <1>6

\* An answer of the back end signs in the number of its call, or nobody.
LEMMA AttemptAnswered ==
  ASSUME IInv, NEW a \in Attempts, NEW accepted \in BOOLEAN, NEW saved \in BOOLEAN,
         AnswerSignIn(a, accepted, saved)
  PROVE  Session!Succeed(a) \/ Session!Fail(a)
  <1>1. /\ attempt[a].state = "flying"
        /\ attempt' = [attempt EXCEPT ![a].state = "answered"]
        /\ UNCHANGED sms
    BY DEF AnswerSignIn
  <1>2. /\ attempt'[a].state = "answered"
        /\ \A e \in Attempts : e # a => attempt'[e] = attempt[e]
        /\ \A e \in Attempts : attempt'[e].session = attempt[e].session
    BY <1>1 DEF IInv, TypeOK, SignInCall
  <1>3. NumbersStay
    BY <1>1, <1>2 DEF NumbersStay
  <1>4. \A x \in BOOLEAN : SignInAnswerWaits(a, x)' <=> x = saved
    BY <1>1, AnswerJoins, FlyingIsUnanswered
  <1>5. \A e \in Attempts, x \in BOOLEAN :
          e # a => (SignInAnswerWaits(e, x)' <=> SignInAnswerWaits(e, x))
    BY AnswerJoins
  <1>6. AttemptProgress(a) = "asked"
    BY <1>1 DEF AttemptProgress
  <1>7. [e \in Attempts |-> AttemptProgress(e)]'
          = [[e \in Attempts |-> AttemptProgress(e)]
               EXCEPT ![a] = IF saved THEN "good" ELSE "bad"]
    BY <1>2, <1>4, <1>5 DEF AttemptProgress
  <1>8. CASE saved
    <2>1. accepted /\ currentUser' = sms[attempt[a].session].number
                   /\ attempt[a].code = attempt[a].session
      BY <1>8 DEF AnswerSignIn
    <2>2. attempt[a].session # Nil
      BY <2>1, SortsAssumption DEF IInv, TypeOK, SignInCall, Texts
    <2>3. currentUser' = AttemptNumber(a)
      BY <2>1, <2>2 DEF AttemptNumber
    <2> QED
      BY <1>3, <1>6, <1>7, <1>8, <2>3, NumbersMap DEF Session!Succeed
  <1>9. CASE ~saved
    BY <1>3, <1>6, <1>7, <1>9, NumbersMap DEF Session!Fail, AnswerSignIn
  <1> QED
    BY <1>8, <1>9

\* A callback that runs delivers one answer.
LEMMA AttemptDelivered ==
  ASSUME IInv, AnswersAgree, RunSignInAnswer
  PROVE  Session!Next \/ UNCHANGED Session!vars
  <1>1. PICK a \in Attempts, ok \in BOOLEAN :
          /\ SignInAnswerWaits(a, ok)
          /\ attempt[a].state = "answered"
          /\ \A e \in Attempts, x \in BOOLEAN :
               <<e, x>> # <<a, ok>> => (SignInAnswerWaits(e, x)' <=> SignInAnswerWaits(e, x))
    BY AnswerLeaves
  <1>2. UNCHANGED <<sms, attempt, currentUser>>
    BY DEF RunSignInAnswer, backend, device
  <1>3. NumbersStay
    BY <1>2 DEF NumbersStay
  <1>4. CASE SignInAnswerWaits(a, ok)'
    <2>1. SameAttempts
      BY <1>1, <1>2, <1>4 DEF SameAttempts
    <2> QED
      BY <1>2, <1>3, <2>1, SessionStutters DEF Session!vars
  <1>5. CASE ~ SignInAnswerWaits(a, ok)'
    <2>1. \A x \in BOOLEAN : ~ SignInAnswerWaits(a, x)'
      BY <1>1, <1>5 DEF AnswersAgree
    <2>2. [e \in Attempts |-> AttemptProgress(e)]'
            = [[e \in Attempts |-> AttemptProgress(e)] EXCEPT ![a] = "over"]
      BY <1>1, <1>2, <2>1 DEF AttemptProgress
    <2>3. AttemptProgress(a) \in {"good", "bad"}
      BY <1>1 DEF AttemptProgress
    <2>4. Session!Deliver(a)
      BY <1>2, <1>3, <2>2, <2>3, NumbersMap DEF Session!Deliver
    <2> QED
      BY <2>4 DEF Session!Next
  <1> QED
    BY <1>4, <1>5

\* What the process forgets, the promise forgets.
LEMMA AttemptsForgotten ==
  ASSUME IInv, Relaunch
  PROVE  Session!Restart
  <1>1. /\ UNCHANGED currentUser
        /\ \A a \in Attempts :
             /\ attempt'[a].session = attempt[a].session
             /\ attempt'[a].state
                  = IF attempt[a].state = "idle" THEN "idle" ELSE "lost"
        /\ \A r \in Requests : sms'[r].number = sms[r].number
    BY DEF Relaunch, IInv, TypeOK, SmsCall, SignInCall, device
  <1>2. NumbersStay
    BY <1>1 DEF NumbersStay, IInv, TypeOK, SignInCall
  <1>3. [a \in Attempts |-> AttemptProgress(a)]'
          = [a \in Attempts |-> IF [e \in Attempts |-> AttemptProgress(e)][a] = "idle"
                                 THEN "idle" ELSE "over"]
    BY <1>1, RelaunchOwesNothing DEF AttemptProgress
  <1> QED
    BY <1>1, <1>2, <1>3, NumbersMap DEF Session!Restart

\* No step asks more of signIn than it promises.
LEMMA SessionStep ==
  IInv /\ AnswersAgree /\ [Next]_vars => [Session!Next]_(Session!vars)
  <1> SUFFICES ASSUME IInv, AnswersAgree, [Next]_vars
               PROVE  Session!Next \/ UNCHANGED Session!vars
    OBVIOUS
  <1> DEFINE Goal == Session!Next \/ UNCHANGED Session!vars
  <1>0. CASE UNCHANGED <<sms, attempt, mainQueue, currentUser>>
    <2>1. SameAttempts /\ NumbersStay
      BY <1>0 DEF SameAttempts, NumbersStay, SignInAnswerWaits
    <2> QED
      BY <1>0, <2>1, SessionStutters DEF Session!vars
  <1>1. ASSUME NEW c \in Controllers, NEW r \in Requests, GetOtp(c, r) \/ ResendOtp(c, r)
        PROVE  Goal
    <2>1. UNCHANGED <<attempt, mainQueue, currentUser>>
      BY <1>1 DEF GetOtp, ResendOtp, device
    <2>2. sms[r].state = "idle" /\ \A q \in Requests : q # r => sms'[q] = sms[q]
      BY <1>1 DEF GetOtp, ResendOtp, StartAuth, IInv, TypeOK
    <2>3. NumbersStay
      BY <2>1, <2>2, OpenNumbersStay
    <2>4. SameAttempts
      BY <2>1 DEF SameAttempts, SignInAnswerWaits
    <2> QED
      BY <2>1, <2>3, <2>4, SessionStutters DEF Session!vars
  <1>2. ASSUME NEW c \in Controllers, NEW a \in Attempts, VerifyOtp(c, a) PROVE Goal
    BY <1>2, AttemptBegins DEF Session!Next
  <1>3. ASSUME NEW c \in Controllers, NEW ok \in BOOLEAN, SignOut(c, ok) PROVE Goal
    <2>1. UNCHANGED <<sms, attempt, mainQueue>>
      BY <1>3 DEF SignOut, backend
    <2>2. CASE ok
      <3>1. SameAttempts /\ NumbersStay
        BY <2>1 DEF SameAttempts, NumbersStay, SignInAnswerWaits
      <3>2. Session!SignOut
        BY <1>3, <2>2, <3>1, SessionStutters DEF SignOut, Session!SignOut
      <3> QED
        BY <3>2 DEF Session!Next
    <2>3. CASE ~ok
      BY <1>0, <1>3, <2>1, <2>3 DEF SignOut
    <2> QED
      BY <2>2, <2>3
  <1>4. ASSUME NEW r \in Requests, NEW ok \in BOOLEAN, AnswerSms(r, ok) PROVE Goal
    <2>1. UNCHANGED <<attempt, currentUser>>
      BY <1>4 DEF AnswerSms, device
    <2>2. \A q \in Requests : sms'[q].number = sms[q].number
      BY <1>4 DEF AnswerSms, IInv, TypeOK, SmsCall
    <2>3. NumbersStay
      BY <2>1, <2>2, OpenNumbersStay
    <2> QED
      BY <1>4, <2>1, <2>3, SmsAnswerJoins, SessionStutters DEF Session!vars
  <1>5. ASSUME NEW a \in Attempts, NEW accepted \in BOOLEAN, NEW saved \in BOOLEAN,
               AnswerSignIn(a, accepted, saved)
        PROVE  Goal
    BY <1>5, AttemptAnswered DEF Session!Next
  <1>6. CASE RunBlock
    <2>1. CASE RunSmsAnswer \/ RunShowOtp \/ RunPresentSignUp
      <3>1. UNCHANGED <<sms, attempt, currentUser>>
        BY <2>1 DEF RunSmsAnswer, RunShowOtp, RunPresentSignUp, backend, device
      <3>2. NumbersStay
        BY <3>1 DEF NumbersStay
      <3> QED
        BY <2>1, <3>1, <3>2, OtherBlockLeaves, SessionStutters DEF Session!vars
    <2> QED
      BY <1>6, <2>1, AttemptDelivered DEF RunBlock
  <1>7. CASE Relaunch
    BY <1>7, AttemptsForgotten DEF Session!Next
  <1>8. CASE UserStep
    <2>1. ASSUME NEW c \in Controllers, NEW t,
                 EditText(c, t) \/ EndEditing(c) \/ OpenProfile(c)
          PROVE  Goal
      BY <1>0, <2>1 DEF EditText, EndEditing, OpenProfile, backend, device
    <2>2. CASE SignUp \/ OpenHome
      BY <1>0, <2>2 DEF SignUp, OpenHome, backend, device
    <2> QED
      BY <1>1, <1>2, <1>3, <1>8, <2>1, <2>2 DEF UserStep
  <1>9. CASE UNCHANGED vars
    BY <1>0, <1>9 DEF vars, backend, device
  <1> QED
    BY <1>4, <1>5, <1>6, <1>7, <1>8, <1>9 DEF Next, BackendStep

\* An answer is queued for a call that waits for it, and for which none waits.
LEMMA AnswersAgreeStep == IInv /\ AnswersAgree /\ [Next]_vars => AnswersAgree'
  <1> SUFFICES ASSUME IInv, AnswersAgree, [Next]_vars PROVE AnswersAgree'
    OBVIOUS
  <1>1. CASE NoNewAnswer
    BY <1>1 DEF NoNewAnswer, AnswersAgree
  <1>2. CASE UNCHANGED mainQueue
    BY <1>2 DEF AnswersAgree, SignInAnswerWaits
  <1>3. ASSUME NEW r \in Requests, NEW ok \in BOOLEAN, AnswerSms(r, ok) PROVE NoNewAnswer
    BY <1>3, SmsAnswerJoins DEF SameAttempts, NoNewAnswer
  <1>4. ASSUME NEW a \in Attempts, NEW accepted \in BOOLEAN, NEW saved \in BOOLEAN,
               AnswerSignIn(a, accepted, saved)
        PROVE  AnswersAgree'
    <2>1. attempt[a].state = "flying"
      BY <1>4 DEF AnswerSignIn
    <2>2. \A x \in BOOLEAN : SignInAnswerWaits(a, x)' <=> x = saved
      BY <1>4, <2>1, AnswerJoins, FlyingIsUnanswered
    <2>3. \A e \in Attempts, x \in BOOLEAN :
            e # a => (SignInAnswerWaits(e, x)' <=> SignInAnswerWaits(e, x))
      BY <1>4, AnswerJoins
    <2> QED
      BY <2>2, <2>3 DEF AnswersAgree
  <1>5. CASE RunBlock
    <2>1. CASE RunSmsAnswer \/ RunShowOtp \/ RunPresentSignUp
      BY <1>1, <2>1, OtherBlockLeaves DEF SameAttempts, NoNewAnswer
    <2>2. CASE RunSignInAnswer
      BY <1>1, <2>2, AnswerLeaves DEF NoNewAnswer
    <2> QED
      BY <1>5, <2>1, <2>2 DEF RunBlock
  <1>6. CASE Relaunch
    BY <1>6, RelaunchOwesNothing DEF AnswersAgree
  <1>7. CASE UserStep
    BY <1>2, <1>7 DEF UserStep, EditText, EndEditing, GetOtp, ResendOtp, VerifyOtp,
       SignOut, OpenProfile, SignUp, OpenHome
  <1>8. CASE UNCHANGED vars
    BY <1>2, <1>8 DEF vars
  <1> QED
    BY <1>1, <1>3, <1>4, <1>5, <1>6, <1>7, <1>8 DEF Next, BackendStep

\* The app's calls of signIn and signOut are those that SessionService promises to:
\* a good answer signs in the number its session was opened for, a bad or a lost one
\* signs nobody in or out, and a new process finds the user of the old.
THEOREM SessionIsKept == Spec => KeepsToTheSession
  <1>1. Init => Session!Init
    <2> SUFFICES ASSUME Init PROVE Session!Init
      OBVIOUS
    <2>1. \A a \in Attempts : AttemptProgress(a) = "idle" /\ AttemptNumber(a) = Nil
      BY DEF Init, AttemptProgress, AttemptNumber, NoSignIn
    <2> QED
      BY <2>1 DEF Session!Init, Init
  <1>2. Init => AnswersAgree
    BY DEF Init, AnswersAgree, SignInAnswerWaits, Waiting
  <1> QED
    BY <1>1, <1>2, SessionStep, AnswersAgreeStep, Invariance, PTL
    DEF Spec, Session!Spec, KeepsToTheSession

=============================================================================
