-------------------------- MODULE PhoneSignIn_proofs --------------------------
(* Theorems about PhoneSignIn, for every set of numbers, requests, sign-in
   calls and controllers. *)
EXTENDS PhoneSignIn, TLAPS

-----------------------------------------------------------------------------
(* The main queue *)

\* Queueing a block that is well formed leaves the main queue well formed.
LEMMA AppendBlock ==
  ASSUME NEW q \in Seq(Block), NEW b \in Block
  PROVE  Append(q, b) \in Seq(Block)
  OBVIOUS

\* The oldest block of a queue that is not empty is well formed, and so is the
\* queue that remains.
LEMMA HeadBlock ==
  ASSUME NEW q \in Seq(Block), q # <<>>
  PROVE  Head(q) \in Block /\ Tail(q) \in Seq(Block)
  OBVIOUS

\* The blocks the app and the SDK queue are well formed.
LEMMA BlockTypes ==
  /\ \A r \in Requests, ok \in BOOLEAN : Async("smsAnswer", r, ok) \in Block
  /\ \A c \in Controllers : Async("showOtp", c, TRUE) \in Block
  /\ \A a \in Attempts, ok \in BOOLEAN : Async("signInAnswer", a, ok) \in Block
  /\ \A c \in Controllers : Async("presentSignUp", c, TRUE) \in Block
  BY DEF Block, Async

\* What a block works on, by its kind.
LEMMA BlockSubjects ==
  ASSUME NEW b \in Block
  PROVE  /\ b.ok \in BOOLEAN
         /\ b.kind = "smsAnswer" => b.of \in Requests
         /\ b.kind = "showOtp" => b.of \in Controllers
         /\ b.kind = "signInAnswer" => b.of \in Attempts
         /\ b.kind = "presentSignUp" => b.of \in Controllers
  BY DEF Block

\* The oldest block waits.
LEMMA HeadWaiting ==
  ASSUME NEW q \in Seq(Block), q # <<>>
  PROVE  Head(q) \in Waiting(q)
  BY DEF Waiting

\* Running a block leaves only blocks that waited.
LEMMA TailWaiting ==
  ASSUME NEW q \in Seq(Block), q # <<>>
  PROVE  Waiting(Tail(q)) \subseteq Waiting(q)
  BY DEF Waiting

\* Queueing a block makes that block wait, and no other.
LEMMA AppendWaiting ==
  ASSUME NEW q \in Seq(Block), NEW b \in Block
  PROVE  Waiting(Append(q, b)) \subseteq Waiting(q) \cup {b}
  BY DEF Waiting

\* Queueing a block makes that block wait beside the others.
LEMMA AppendWaits ==
  ASSUME NEW q \in Seq(Block), NEW b \in Block
  PROVE  Waiting(Append(q, b)) = Waiting(q) \cup {b}
  <1>1. \A i \in 1..Len(q) : i \in 1..Len(Append(q, b)) /\ Append(q, b)[i] = q[i]
    OBVIOUS
  <1>2. /\ Len(q) + 1 \in 1..Len(Append(q, b))
        /\ Append(q, b)[Len(q) + 1] = b
    OBVIOUS
  <1>3. Waiting(q) \cup {b} \subseteq Waiting(Append(q, b))
    BY <1>1, <1>2 DEF Waiting
  <1> QED
    BY <1>3, AppendWaiting

\* Running a block leaves every other one.
LEMMA TailWaits ==
  ASSUME NEW q \in Seq(Block), q # <<>>
  PROVE  Waiting(q) = Waiting(Tail(q)) \cup {Head(q)}
  <1>1. \A i \in 1..Len(q) : i = 1 \/ (i - 1 \in 1..Len(Tail(q)) /\ Tail(q)[i - 1] = q[i])
    OBVIOUS
  <1>2. Waiting(q) \subseteq Waiting(Tail(q)) \cup {Head(q)}
    <2> SUFFICES ASSUME NEW i \in 1..Len(q)
                 PROVE  q[i] \in Waiting(Tail(q)) \cup {Head(q)}
      BY DEF Waiting
    <2>1. CASE i = 1
      BY <2>1
    <2>2. CASE i # 1
      BY <1>1, <2>2 DEF Waiting
    <2> QED
      BY <2>1, <2>2
  <1> QED
    BY <1>2, TailWaiting, HeadWaiting

\* Blocks that wait are well formed.
LEMMA WaitingBlocks ==
  ASSUME NEW q \in Seq(Block), NEW b \in Waiting(q)
  PROVE  b \in Block
  BY DEF Waiting

-----------------------------------------------------------------------------
(* Type correctness *)

\* The first screen of the app is one of the controllers, or the map.
LEMMA FirstScreenTypes ==
  ASSUME NEW number, NEW user, NEW s \in FirstScreens(number, user)
  PROVE  /\ s.created \in SUBSET Controllers
         /\ s.visible \in s.created \cup {Home}
         /\ s.loginShown \in [Controllers -> BOOLEAN]
  <1>1. CASE number # Nil
    <2>1. s = [visible |-> Home, created |-> {}, loginShown |-> Fresh(TRUE)]
      BY <1>1 DEF FirstScreens
    <2>2. Fresh(TRUE) \in [Controllers -> BOOLEAN]
      BY DEF Fresh
    <2> QED
      BY <2>1, <2>2
  <1>2. CASE number = Nil
    <2>1. PICK c \in Controllers :
            s = [visible |-> c, created |-> {c},
                 loginShown |-> [Fresh(TRUE) EXCEPT ![c] = CheckUserSignIn(user)]]
      BY <1>2 DEF FirstScreens
    <2>2. CheckUserSignIn(user) \in BOOLEAN
      BY DEF CheckUserSignIn
    <2>3. [Fresh(TRUE) EXCEPT ![c] = CheckUserSignIn(user)] \in [Controllers -> BOOLEAN]
      <3>1. Fresh(TRUE) \in [Controllers -> BOOLEAN]
        BY DEF Fresh
      <3> QED
        BY <2>2, <3>1
    <2> QED
      BY <2>1, <2>3
  <1> QED
    BY <1>1, <1>2

\* The field that UpdateMobileNumbString copies is a text.
LEMMA CopyTypes ==
  ASSUME TypeOK, NEW c \in Controllers
  PROVE  UpdateMobileNumbString(c) \in Texts
  BY DEF TypeOK, UpdateMobileNumbString

\* A fresh app has no text, no request and an empty queue.
LEMMA InitTypes == Init => TypeOK
  <1> SUFFICES ASSUME Init PROVE TypeOK
    OBVIOUS
  <1>1. PICK s \in FirstScreens(Nil, Nil) :
          visible = s.visible /\ created = s.created /\ loginShown = s.loginShown
    BY DEF Init
  <1>2. /\ created \in SUBSET Controllers
        /\ visible \in created \cup {Home}
        /\ loginShown \in [Controllers -> BOOLEAN]
    BY <1>1, FirstScreenTypes
  <1>3. sms \in [Requests -> SmsCall] /\ attempt \in [Attempts -> SignInCall]
    BY DEF Init, NoSms, NoSignIn, SmsCall, SignInCall, Texts
  <1>4. mainQueue \in Seq(Block)
    BY DEF Init
  <1> QED
    BY <1>2, <1>3, <1>4 DEF Init, TypeOK, Fresh, Texts

\* What the user does on the login and profile boxes keeps every type.
LEMMA BoxStepTypes ==
  ASSUME TypeOK, NEW c \in Controllers,
         \/ \E t \in Offered(c) : EditText(c, t)
         \/ EndEditing(c)
         \/ \E r \in Requests : GetOtp(c, r) \/ ResendOtp(c, r)
         \/ \E a \in Attempts : VerifyOtp(c, a)
         \/ \E ok \in BOOLEAN : SignOut(c, ok)
         \/ OpenProfile(c)
  PROVE  TypeOK'
  <1>1. ASSUME NEW t \in Offered(c), EditText(c, t) PROVE TypeOK'
    <2>1. t \in Texts
      BY DEF Offered, Texts
    <2> QED
      BY <1>1, <2>1, CopyTypes DEF TypeOK, EditText, backend, device
  <1>2. CASE EndEditing(c)
    BY <1>2, CopyTypes DEF TypeOK, EndEditing, backend, device
  <1>3. ASSUME NEW r \in Requests, GetOtp(c, r) PROVE TypeOK'
    <2>1. sms' \in [Requests -> SmsCall]
      BY <1>3 DEF TypeOK, GetOtp, StartAuth, SmsCall
    <2> QED
      BY <1>3, <2>1 DEF TypeOK, GetOtp, device
  <1>4. ASSUME NEW r \in Requests, ResendOtp(c, r) PROVE TypeOK'
    <2>1. sms' \in [Requests -> SmsCall]
      BY <1>4 DEF TypeOK, ResendOtp, StartAuth, SmsCall
    <2> QED
      BY <1>4, <2>1 DEF TypeOK, ResendOtp, screens, device
  <1>5. ASSUME NEW a \in Attempts, VerifyOtp(c, a) PROVE TypeOK'
    <2>1. attempt' \in [Attempts -> SignInCall]
      BY <1>5 DEF TypeOK, VerifyOtp, SignInCall
    <2> QED
      BY <1>5, <2>1 DEF TypeOK, VerifyOtp, screens, device
  <1>6. ASSUME NEW ok \in BOOLEAN, SignOut(c, ok) PROVE TypeOK'
    BY <1>6 DEF TypeOK, SignOut, CheckUserSignIn, backend
  <1>7. CASE OpenProfile(c)
    <2>1. mobileNumberStr' \in [Controllers -> Texts]
      BY <1>7, CopyTypes DEF TypeOK, OpenProfile, EndEditingOnLeave
    <2> QED
      BY <1>7, <2>1 DEF TypeOK, OpenProfile, CheckUserSignIn, backend, device
  <1> QED
    BY <1>1, <1>2, <1>3, <1>4, <1>5, <1>6, <1>7

\* Firebase's answers keep every type.
LEMMA BackendStepTypes ==
  ASSUME TypeOK, BackendStep
  PROVE  TypeOK'
  <1>1. ASSUME NEW r \in Requests, NEW ok \in BOOLEAN, AnswerSms(r, ok)
        PROVE  TypeOK'
    <2>1. sms' \in [Requests -> SmsCall]
      <3>1. \A st \in {"sent", "refused"} : [sms[r] EXCEPT !.state = st] \in SmsCall
        BY DEF TypeOK, SmsCall
      <3> QED
        BY <1>1, <3>1 DEF TypeOK, AnswerSms
    <2>2. mainQueue' \in Seq(Block)
      BY <1>1, AppendBlock, BlockTypes DEF TypeOK, AnswerSms
    <2> QED
      BY <1>1, <2>1, <2>2 DEF TypeOK, AnswerSms, screens, device
  <1>2. ASSUME NEW a \in Attempts, NEW accepted \in BOOLEAN, NEW saved \in BOOLEAN,
               AnswerSignIn(a, accepted, saved)
        PROVE  TypeOK'
    <2>1. attempt' \in [Attempts -> SignInCall]
      BY <1>2 DEF TypeOK, AnswerSignIn, SignInCall
    <2>2. mainQueue' \in Seq(Block)
      BY <1>2, AppendBlock, BlockTypes DEF TypeOK, AnswerSignIn
    <2>3. accepted => attempt[a].session \in Requests
      BY <1>2, SortsAssumption DEF TypeOK, AnswerSignIn, SignInCall, Texts
    <2>4. currentUser' \in Texts \cup {Nil} /\ redeemed' \in SUBSET Requests
      BY <1>2, <2>3 DEF TypeOK, AnswerSignIn, SmsCall
    <2> QED
      BY <1>2, <2>1, <2>2, <2>4 DEF TypeOK, AnswerSignIn, screens
  <1> QED
    BY <1>1, <1>2 DEF BackendStep

\* A block that the main queue runs keeps every type: the call it answers has a
\* caller for the block it queues.
LEMMA RunBlockTypes ==
  ASSUME TypeOK, QueueStands, CallsStand, RunBlock
  PROVE  TypeOK'
  <1>1. /\ mainQueue # <<>>
        /\ mainQueue \in Seq(Block)
        /\ Head(mainQueue) \in Block
        /\ Tail(mainQueue) \in Seq(Block)
        /\ BlockStands(Head(mainQueue))
    <2>1. mainQueue # <<>> /\ mainQueue \in Seq(Block)
      BY DEF TypeOK, RunBlock, RunSmsAnswer, RunShowOtp, RunSignInAnswer,
         RunPresentSignUp, NextBlock
    <2> QED
      BY <2>1, HeadBlock, HeadWaiting DEF QueueStands
  <1>2. CASE RunSmsAnswer
    <2> DEFINE r == NextBlockOf
               c == sms[r].ctrl
    <2>1. r \in Requests /\ NextBlockOk \in BOOLEAN
      BY <1>1, <1>2, BlockSubjects DEF RunSmsAnswer, NextBlock, NextBlockOf, NextBlockOk
    <2>2. c \in Controllers
      BY <1>1, <1>2, <2>1 DEF RunSmsAnswer, NextBlock, NextBlockOf, BlockStands, CallsStand
    <2>3. Append(Tail(mainQueue), Async("showOtp", c, TRUE)) \in Seq(Block)
      BY <1>1, <2>2, AppendBlock, BlockTypes
    <2> HIDE DEF c, r
    <2>4. /\ mainQueue' \in Seq(Block)
          /\ verificationId' \in Requests \cup {Nil}
          /\ spinning' \in [Controllers -> BOOLEAN]
      BY <1>1, <1>2, <2>1, <2>2, <2>3 DEF TypeOK, RunSmsAnswer, r, c
    <2> QED
      BY <1>2, <2>4 DEF TypeOK, RunSmsAnswer, backend, device
  <1>3. CASE RunShowOtp
    <2> DEFINE c == NextBlockOf
    <2>1. c \in Controllers
      BY <1>1, <1>3, BlockSubjects DEF RunShowOtp, NextBlock, NextBlockOf
    <2> QED
      BY <1>1, <1>3, <2>1 DEF TypeOK, RunShowOtp, Texts, backend, device
  <1>4. CASE RunSignInAnswer
    <2> DEFINE a == NextBlockOf
               c == attempt[a].ctrl
    <2>1. a \in Attempts
      BY <1>1, <1>4, BlockSubjects DEF RunSignInAnswer, NextBlock, NextBlockOf
    <2>2. c \in Controllers
      BY <1>1, <1>4, <2>1 DEF RunSignInAnswer, NextBlock, NextBlockOf, BlockStands, CallsStand
    <2>3. Append(Tail(mainQueue), Async("presentSignUp", c, TRUE)) \in Seq(Block)
      BY <1>1, <2>2, AppendBlock, BlockTypes
    <2> QED
      BY <1>1, <1>4, <2>3 DEF TypeOK, RunSignInAnswer, screens, backend, device
  <1>5. CASE RunPresentSignUp
    <2> DEFINE c == NextBlockOf
    <2>1. c \in Controllers
      BY <1>1, <1>5, BlockSubjects DEF RunPresentSignUp, NextBlock, NextBlockOf
    <2>2. modal' \in SignUpForm \cup {Nil}
      BY <1>5, <2>1 DEF TypeOK, RunPresentSignUp, SignUpForm
    <2> QED
      BY <1>1, <1>5, <2>1, <2>2 DEF TypeOK, RunPresentSignUp, backend, device
  <1> QED
    BY <1>2, <1>3, <1>4, <1>5 DEF RunBlock

\* The form, the side menu and a new process keep every type.
LEMMA OtherStepTypes ==
  ASSUME TypeOK, SignUp \/ OpenHome \/ Relaunch
  PROVE  TypeOK'
  <1>1. CASE SignUp
    BY <1>1 DEF TypeOK, SignUp, SignUpForm, CheckUserSignIn, backend
  <1>2. CASE OpenHome
    <2>1. mobileNumberStr' \in [Controllers -> Texts]
      BY <1>2, CopyTypes DEF TypeOK, OpenHome, EndEditingOnLeave
    <2> QED
      BY <1>2, <2>1 DEF TypeOK, OpenHome, backend, device
  <1>3. CASE Relaunch
    <2>1. PICK s \in FirstScreens(storedNumber, currentUser) :
            visible' = s.visible /\ created' = s.created /\ loginShown' = s.loginShown
      BY <1>3 DEF Relaunch
    <2>2. /\ created' \in SUBSET Controllers
          /\ visible' \in created' \cup {Home}
          /\ loginShown' \in [Controllers -> BOOLEAN]
      BY <2>1, FirstScreenTypes
    <2>3. sms' \in [Requests -> SmsCall]
      <3>1. \A r \in Requests : [sms[r] EXCEPT !.state = "lost"] \in SmsCall
        BY DEF TypeOK, SmsCall
      <3> QED
        BY <1>3, <3>1 DEF TypeOK, Relaunch
    <2>4. attempt' \in [Attempts -> SignInCall]
      <3>1. \A a \in Attempts : [attempt[a] EXCEPT !.state = "lost"] \in SignInCall
        BY DEF TypeOK, SignInCall
      <3> QED
        BY <1>3, <3>1 DEF TypeOK, Relaunch
    <2>5. mainQueue' \in Seq(Block)
      BY <1>3 DEF Relaunch
    <2> QED
      BY <1>3, <2>2, <2>3, <2>4, <2>5 DEF TypeOK, Relaunch, Fresh, Texts, device
  <1> QED
    BY <1>1, <1>2, <1>3

\* The type invariant needs to know who made the call that a waiting block
\* answers: IInv, and not TypeOK alone, carries it from step to step.
LEMMA NextTypes ==
  ASSUME TypeOK, QueueStands, CallsStand, Next
  PROVE  TypeOK'
  <1>1. CASE UserStep
    BY <1>1, BoxStepTypes, OtherStepTypes DEF UserStep
  <1>2. CASE BackendStep
    BY <1>2, BackendStepTypes
  <1>3. CASE RunBlock
    BY <1>3, RunBlockTypes
  <1>4. CASE Relaunch
    BY <1>4, OtherStepTypes
  <1> QED
    BY <1>1, <1>2, <1>3, <1>4 DEF Next

-----------------------------------------------------------------------------
(* What a step may do to the calls and the sessions *)

\* A call that was answered is never changed again, but for a new process.
LEMMA AnswersAreFinal ==
  ASSUME TypeOK, Next
  PROVE  /\ \A r \in Requests : sms[r].state = "sent" => sms'[r] = sms[r]
         /\ \A r \in Requests : sms[r].state # "idle" =>
              /\ sms'[r].state # "idle"
              /\ sms'[r].ctrl = sms[r].ctrl
              /\ sms'[r].number = sms[r].number
              /\ sms'[r].resend = sms[r].resend
         /\ ~Relaunch => \A a \in Attempts :
              attempt[a].state = "answered" => attempt'[a] = attempt[a]
         /\ redeemed \subseteq redeemed'
  <1>1. CASE UserStep
    BY <1>1 DEF TypeOK, UserStep, EditText, EndEditing, GetOtp, ResendOtp, VerifyOtp,
       StartAuth, SignOut, OpenProfile, SignUp, OpenHome, backend, SmsCall, SignInCall
  <1>2. CASE BackendStep
    <2>1. ASSUME NEW r \in Requests, NEW ok \in BOOLEAN, AnswerSms(r, ok)
          PROVE  /\ UNCHANGED <<attempt, redeemed>>
                 /\ sms[r].state = "flying"
                 /\ \A q \in Requests : q # r => sms'[q] = sms[q]
                 /\ sms'[r].state # "idle"
                 /\ sms'[r].ctrl = sms[r].ctrl
                 /\ sms'[r].number = sms[r].number
                 /\ sms'[r].resend = sms[r].resend
      BY <2>1 DEF TypeOK, AnswerSms, SmsCall
    <2>2. ASSUME NEW a \in Attempts, NEW accepted \in BOOLEAN, NEW saved \in BOOLEAN,
                 AnswerSignIn(a, accepted, saved)
          PROVE  /\ UNCHANGED sms
                 /\ redeemed \subseteq redeemed'
                 /\ attempt[a].state = "flying"
                 /\ \A d \in Attempts : d # a => attempt'[d] = attempt[d]
      BY <2>2 DEF TypeOK, AnswerSignIn
    <2> QED
      BY <1>2, <2>1, <2>2 DEF BackendStep
  <1>3. CASE RunBlock
    BY <1>3 DEF TypeOK, RunBlock, RunSmsAnswer, RunShowOtp, RunSignInAnswer,
       RunPresentSignUp, backend
  <1>4. CASE Relaunch
    BY <1>4 DEF TypeOK, Relaunch, SmsCall, SignInCall
  <1> QED
    BY <1>1, <1>2, <1>3, <1>4 DEF Next

\* The verification ID is nil after a launch, and otherwise changes only to the
\* session that a successful answer at the head of the queue names.
LEMMA VerificationIdSteps ==
  ASSUME Next
  PROVE  \/ verificationId' = verificationId
         \/ RunSmsAnswer /\ NextBlockOk /\ verificationId' = NextBlockOf
         \/ Relaunch /\ verificationId' = Nil
  BY DEF Next, UserStep, EditText, EndEditing, GetOtp, ResendOtp, VerifyOtp, SignOut,
     OpenProfile, SignUp, OpenHome, BackendStep, AnswerSms, AnswerSignIn, RunBlock,
     RunSmsAnswer, RunShowOtp, RunSignInAnswer, RunPresentSignUp, Relaunch

\* The sessions redeemed change only by the session of a sign-in call, and that
\* is a real session because it equals the code that was typed.
LEMMA RedeemedSteps ==
  ASSUME TypeOK, Next
  PROVE  \/ redeemed' = redeemed
         \/ \E a \in Attempts : /\ attempt[a].session \in Requests
                                /\ redeemed' = redeemed \cup {attempt[a].session}
  <1>1. CASE BackendStep
    <2>1. CASE \E r \in Requests, ok \in BOOLEAN : AnswerSms(r, ok)
      BY <2>1 DEF AnswerSms
    <2>2. ASSUME NEW a \in Attempts, NEW accepted \in BOOLEAN, NEW saved \in BOOLEAN,
                 AnswerSignIn(a, accepted, saved)
          PROVE  \/ redeemed' = redeemed
                 \/ /\ attempt[a].session \in Requests
                    /\ redeemed' = redeemed \cup {attempt[a].session}
      BY <2>2, SortsAssumption DEF TypeOK, AnswerSignIn, SignInCall, Texts
    <2> QED
      BY <1>1, <2>1, <2>2 DEF BackendStep
  <1>2. CASE ~BackendStep
    BY <1>2 DEF Next, UserStep, EditText, EndEditing, GetOtp, ResendOtp, VerifyOtp,
       SignOut, OpenProfile, SignUp, OpenHome, RunBlock, RunSmsAnswer, RunShowOtp,
       RunSignInAnswer, RunPresentSignUp, Relaunch, backend
  <1> QED
    BY <1>1, <1>2

\* What stands at the head of the queue when it runs.
LEMMA HeadStands ==
  ASSUME TypeOK, QueueStands, mainQueue # <<>>
  PROVE  Head(mainQueue) \in Block /\ BlockStands(Head(mainQueue))
  BY HeadBlock, HeadWaiting DEF TypeOK, QueueStands

\* The number of a controller that asks for a code is frozen, and such a
\* controller goes on asking until the process dies.
LEMMA OtpModeFreezesNumber ==
  ASSUME TypeOK, Next, ~Relaunch, NEW c \in Controllers, otpMode[c]
  PROVE  otpMode'[c] /\ mobileNumberStr'[c] = mobileNumberStr[c]
  <1>1. CASE UserStep
    BY <1>1 DEF TypeOK, UserStep, EditText, EndEditing, GetOtp, ResendOtp, VerifyOtp,
       SignOut, OpenProfile, SignUp, OpenHome, EndEditingOnLeave,
       UpdateMobileNumbString, screens
  <1>2. CASE BackendStep
    BY <1>2 DEF BackendStep, AnswerSms, AnswerSignIn, screens
  <1>3. CASE RunBlock
    BY <1>3 DEF TypeOK, RunBlock, RunSmsAnswer, RunShowOtp, RunSignInAnswer,
       RunPresentSignUp, screens
  <1> QED
    BY <1>1, <1>2, <1>3 DEF Next

-----------------------------------------------------------------------------
(* The conjuncts of the inductive invariant, one step *)

\* The verification ID and the redeemed sessions are sessions that were opened.
LEMMA SessionsStep ==
  ASSUME IInv, TypeOK', Next
  PROVE  SessionsStand'
  <1>1. verificationId' # Nil => sms'[verificationId'].state = "sent"
    <2>1. CASE verificationId' = verificationId
      BY <2>1, AnswersAreFinal DEF IInv, TypeOK, SessionsStand
    <2>2. CASE RunSmsAnswer /\ NextBlockOk /\ verificationId' = NextBlockOf
      <3>1. /\ NextBlockOf \in Requests
            /\ sms[NextBlockOf].state = "sent"
        BY <2>2, HeadStands, BlockSubjects DEF IInv, RunSmsAnswer, NextBlock, NextBlockOf,
           NextBlockOk, BlockStands
      <3> QED
        BY <2>2, <3>1, AnswersAreFinal DEF IInv
    <2> QED
      BY <2>1, <2>2, VerificationIdSteps
  <1>2. \A s \in redeemed' : sms'[s].state = "sent"
    <2>1. \A s \in redeemed' : sms[s].state = "sent"
      <3>1. CASE redeemed' = redeemed
        BY <3>1 DEF IInv, SessionsStand
      <3>2. ASSUME NEW a \in Attempts, attempt[a].session \in Requests,
                   redeemed' = redeemed \cup {attempt[a].session}
            PROVE  \A s \in redeemed' : sms[s].state = "sent"
        BY <3>2, SortsAssumption DEF IInv, SessionsStand, CallsStand
      <3>3. \/ redeemed' = redeemed
            \/ \E a \in Attempts : /\ attempt[a].session \in Requests
                                   /\ redeemed' = redeemed \cup {attempt[a].session}
        BY RedeemedSteps DEF IInv
      <3> QED
        BY <3>1, <3>2, <3>3
    <2> QED
      BY <2>1, AnswersAreFinal DEF IInv, TypeOK
  <1> QED
    BY <1>1, <1>2 DEF SessionsStand

\* A controller that asks for a code still has a session.
LEMMA OtpModeStep ==
  ASSUME IInv, TypeOK', Next
  PROVE  OtpModeHasSession'
  <1> SUFFICES ASSUME NEW c \in Controllers, otpMode'[c]
               PROVE  verificationId' # Nil
    BY DEF OtpModeHasSession
  <1>1. ~Relaunch
    BY DEF Relaunch, Fresh
  <1>2. verificationId # Nil
    <2>1. CASE RunShowOtp
      BY <2>1, HeadStands DEF IInv, RunShowOtp, NextBlock, BlockStands
    <2>2. CASE ~RunShowOtp
      <3>1. otpMode[c]
        BY <1>1, <2>2 DEF Next, UserStep, EditText, EndEditing, GetOtp, ResendOtp,
           VerifyOtp, SignOut, OpenProfile, SignUp, OpenHome, BackendStep, AnswerSms,
           AnswerSignIn, RunBlock, RunSmsAnswer, RunSignInAnswer, RunPresentSignUp,
           screens
      <3> QED
        BY <3>1 DEF IInv, OtpModeHasSession
    <2> QED
      BY <2>1, <2>2
  <1>3. CASE RunSmsAnswer /\ NextBlockOk /\ verificationId' = NextBlockOf
    <2>1. NextBlockOf \in Requests
      BY <1>3, HeadStands, BlockSubjects DEF IInv, RunSmsAnswer, NextBlock, NextBlockOf
    <2> QED
      BY <1>3, <2>1, SortsAssumption
  <1> QED
    BY <1>1, <1>2, <1>3, VerificationIdSteps

\* The fields of every controller still agree with its mode.
LEMMA FieldsStep ==
  ASSUME IInv, TypeOK', Next
  PROVE  FieldsStand'
  <1> USE DEF IInv, FieldsStand, UpdateMobileNumbString
  <1>1. CASE UserStep
    <2>1. ASSUME NEW c \in Controllers, NEW t \in Offered(c), EditText(c, t)
          PROVE  FieldsStand'
      BY <2>1, SortsAssumption DEF TypeOK, EditText, Offered
    <2>2. ASSUME NEW c \in Controllers, EndEditing(c) PROVE FieldsStand'
      BY <2>2 DEF TypeOK, EndEditing
    <2>3. CASE OpenHome \/ \E c \in Controllers : OpenProfile(c)
      BY <2>3 DEF TypeOK, OpenProfile, OpenHome, EndEditingOnLeave
    <2> QED
      BY <1>1, <2>1, <2>2, <2>3 DEF UserStep, GetOtp, ResendOtp, VerifyOtp, SignOut,
         SignUp, screens
  <1>2. CASE BackendStep
    BY <1>2 DEF BackendStep, AnswerSms, AnswerSignIn, screens
  <1>3. CASE RunShowOtp
    BY <1>3, SortsAssumption DEF TypeOK, RunShowOtp
  <1>4. CASE RunSmsAnswer \/ RunSignInAnswer \/ RunPresentSignUp
    BY <1>4 DEF RunSmsAnswer, RunSignInAnswer, RunPresentSignUp, screens
  <1>5. CASE Relaunch
    BY <1>5, SortsAssumption DEF Relaunch, Fresh
  <1> QED
    BY <1>1, <1>2, <1>3, <1>4, <1>5 DEF Next, RunBlock

\* The profile on screen still belongs to a user: only the controller on screen
\* can sign out, and it looks again at once.
LEMMA ProfileStep ==
  ASSUME IInv, TypeOK', Next
  PROVE  ProfileOnScreenHasUser'
  <1> USE DEF IInv, ProfileOnScreenHasUser
  <1>1. CASE UserStep
    <2>1. ASSUME NEW c \in Controllers, NEW ok \in BOOLEAN, SignOut(c, ok)
          PROVE  ProfileOnScreenHasUser'
      BY <2>1 DEF TypeOK, SignOut, ProfileBox, CheckUserSignIn
    <2>2. ASSUME NEW c \in Controllers, OpenProfile(c) PROVE ProfileOnScreenHasUser'
      BY <2>2 DEF TypeOK, OpenProfile, CheckUserSignIn, device
    <2>3. CASE SignUp
      <3>1. \A c \in Controllers :
              loginShown'[c] = loginShown[c] \/ loginShown'[c] = CheckUserSignIn(currentUser)
        BY <2>3 DEF TypeOK, SignUp
      <3> QED
        BY <2>3, <3>1 DEF TypeOK, SignUp, CheckUserSignIn
    <2>4. CASE OpenHome
      BY <2>4 DEF OpenHome
    <2>5. CASE \E c \in Controllers :
                 \/ \E t \in Offered(c) : EditText(c, t)
                 \/ EndEditing(c)
                 \/ \E r \in Requests : GetOtp(c, r) \/ ResendOtp(c, r)
                 \/ \E a \in Attempts : VerifyOtp(c, a)
      BY <2>5 DEF EditText, EndEditing, GetOtp, ResendOtp, VerifyOtp, screens, device
    <2> QED
      BY <1>1, <2>1, <2>2, <2>3, <2>4, <2>5 DEF UserStep
  <1>2. CASE BackendStep
    <2>1. CASE \E r \in Requests, ok \in BOOLEAN : AnswerSms(r, ok)
      BY <2>1 DEF AnswerSms, screens, device
    <2>2. ASSUME NEW a \in Attempts, NEW accepted \in BOOLEAN, NEW saved \in BOOLEAN,
                 AnswerSignIn(a, accepted, saved)
          PROVE  ProfileOnScreenHasUser'
      <3>1. saved => sms[attempt[a].session].number \in Texts
        BY <2>2, SortsAssumption DEF TypeOK, AnswerSignIn, SignInCall, SmsCall, Texts
      <3> QED
        BY <2>2, <3>1, SortsAssumption DEF AnswerSignIn, Texts, screens
    <2> QED
      BY <1>2, <2>1, <2>2 DEF BackendStep
  <1>3. CASE RunBlock
    BY <1>3 DEF RunBlock, RunSmsAnswer, RunShowOtp, RunSignInAnswer, RunPresentSignUp,
       screens, device
  <1>4. CASE Relaunch
    <2>1. PICK s \in FirstScreens(storedNumber, currentUser) :
            visible' = s.visible /\ loginShown' = s.loginShown /\ UNCHANGED device
      BY <1>4 DEF Relaunch
    <2>2. s.visible # Home /\ ~s.loginShown[s.visible] => currentUser # Nil
      <3>1. CASE storedNumber # Nil
        BY <3>1 DEF FirstScreens
      <3>2. CASE storedNumber = Nil
        <4>1. PICK c \in Controllers :
                s = [visible |-> c, created |-> {c},
                     loginShown |-> [Fresh(TRUE) EXCEPT ![c] = CheckUserSignIn(currentUser)]]
          BY <3>2 DEF FirstScreens
        <4> QED
          BY <4>1 DEF Fresh, CheckUserSignIn
      <3> QED
        BY <3>1, <3>2
    <2> QED
      BY <2>1, <2>2 DEF device
  <1> QED
    BY <1>1, <1>2, <1>3, <1>4 DEF Next

\* The Firebase user is still a number whose code was accepted.
LEMMA UserStands ==
  ASSUME IInv, TypeOK', Next
  PROVE  UserHoldsAcceptedNumber'
  <1> USE DEF IInv, UserHoldsAcceptedNumber
  <1>1. ASSUME UNCHANGED currentUser \/ currentUser' = Nil
        PROVE  UserHoldsAcceptedNumber'
    <2> SUFFICES ASSUME currentUser' # Nil
                 PROVE  \E s \in redeemed' : /\ sms'[s].state = "sent"
                                             /\ sms'[s].number = currentUser'
                                             /\ currentUser' \in Numbers
      OBVIOUS
    <2>1. PICK s \in redeemed : /\ sms[s].state = "sent"
                               /\ sms[s].number = currentUser
                               /\ currentUser \in Numbers
      BY <1>1
    <2> QED
      BY <1>1, <2>1, AnswersAreFinal DEF TypeOK
  <1>2. ASSUME NEW a \in Attempts, NEW accepted \in BOOLEAN, AnswerSignIn(a, accepted, TRUE)
        PROVE  UserHoldsAcceptedNumber'
    <2>1. attempt[a].session \in Requests
      BY <1>2, SortsAssumption DEF TypeOK, AnswerSignIn, SignInCall, Texts
    <2>2. /\ sms[attempt[a].session].state = "sent"
          /\ sms[attempt[a].session].number \in Numbers
      BY <2>1, SortsAssumption DEF TypeOK, CallsStand, SmsCall, Texts
    <2> QED
      BY <1>2, <2>1, <2>2 DEF AnswerSignIn
  <1> QED
    BY <1>1, <1>2 DEF Next, UserStep, EditText, EndEditing, GetOtp, ResendOtp, VerifyOtp,
       SignOut, OpenProfile, SignUp, OpenHome, BackendStep, AnswerSms, AnswerSignIn,
       RunBlock, RunSmsAnswer, RunShowOtp, RunSignInAnswer, RunPresentSignUp, Relaunch,
       device

\* A controller that had an accepted code still has it, until the process dies.
LEMMA AcceptedCodeStays ==
  ASSUME IInv, Next, ~Relaunch, NEW c \in Controllers, HasAcceptedCode(c)
  PROVE  HasAcceptedCode(c)'
  BY AnswersAreFinal DEF IInv, HasAcceptedCode

\* The sign-up form still belongs to a controller with an accepted code.
LEMMA SignUpFormStep ==
  ASSUME IInv, TypeOK', Next
  PROVE  SignUpFollowsAcceptedCode'
  <1> USE DEF IInv, SignUpFollowsAcceptedCode
  <1>0. CASE modal' = Nil
    BY <1>0
  <1>1. CASE modal' = modal /\ ~Relaunch
    BY <1>1, AcceptedCodeStays DEF TypeOK, SignUpForm, HasAcceptedCode
  <1>2. CASE RunPresentSignUp /\ modal' # modal
    <2>1. /\ NextBlockOf \in Controllers
          /\ HasAcceptedCode(NextBlockOf)
          /\ modal'.ctrl = NextBlockOf
      BY <1>2, HeadStands, BlockSubjects DEF RunPresentSignUp, NextBlock, NextBlockOf,
         BlockStands
    <2> QED
      BY <1>2, <2>1 DEF RunPresentSignUp, HasAcceptedCode, backend
  <1> QED
    BY <1>0, <1>1, <1>2 DEF Next, UserStep, EditText, EndEditing, GetOtp, ResendOtp, VerifyOtp,
       SignOut, OpenProfile, SignUp, OpenHome, BackendStep, AnswerSms, AnswerSignIn,
       RunBlock, RunSmsAnswer, RunShowOtp, RunSignInAnswer, RunPresentSignUp, Relaunch,
       screens

\* A controller with an accepted code still asks for one: its number is frozen.
LEMMA AcceptedCodeAsks ==
  ASSUME CallsStand, NEW c \in Controllers, HasAcceptedCode(c)
  PROVE  otpMode[c]
  BY DEF CallsStand, HasAcceptedCode

\* The form still shows the number its controller's label names.
LEMMA FormLabelStep ==
  ASSUME IInv, Next, FieldsStand', CallsStand', SignUpFollowsAcceptedCode', TypeOK'
  PROVE  FormShowsLabel'
  <1> SUFFICES ASSUME modal' # Nil
               PROVE  modal'.number = sentToLabel'[modal'.ctrl]
    BY DEF FormShowsLabel
  <1> DEFINE c == modal'.ctrl
  <1>1. c \in Controllers
    BY DEF TypeOK, SignUpForm
  <1>2. otpMode'[c] /\ sentToLabel'[c] = mobileNumberStr'[c]
    BY <1>1 DEF SignUpFollowsAcceptedCode, HasAcceptedCode, CallsStand, FieldsStand
  <1>3. CASE modal' = modal /\ ~Relaunch
    <2>1. otpMode[c] /\ modal.number = mobileNumberStr[c]
      BY <1>1, <1>3, AcceptedCodeAsks DEF IInv, SignUpFollowsAcceptedCode, FormShowsLabel,
         FieldsStand
    <2>2. mobileNumberStr'[c] = mobileNumberStr[c]
      BY <1>1, <1>3, <2>1, OtpModeFreezesNumber DEF IInv
    <2> QED
      BY <1>2, <1>3, <2>1, <2>2
  <1>4. CASE RunPresentSignUp /\ modal' # modal
    <2>1. modal' = [ctrl |-> NextBlockOf, number |-> mobileNumberStr[NextBlockOf]]
      BY <1>4 DEF RunPresentSignUp
    <2>2. modal'.number = mobileNumberStr'[c]
      BY <1>4, <2>1 DEF RunPresentSignUp
    <2> QED
      BY <1>2, <2>2
  <1> QED
    BY <1>3, <1>4 DEF Next, UserStep, EditText, EndEditing, GetOtp, ResendOtp, VerifyOtp,
       SignOut, OpenProfile, SignUp, OpenHome, BackendStep, AnswerSms, AnswerSignIn,
       RunBlock, RunSmsAnswer, RunShowOtp, RunSignInAnswer, RunPresentSignUp, Relaunch,
       screens

\* A resend that stands goes on standing until the process dies.
LEMMA ResendStays ==
  ASSUME IInv, Next, ~Relaunch, NEW r \in Requests, sms[r].state # "idle",
         ResendStands(r)
  PROVE  ResendStands(r)'
  <1>1. sms[r].ctrl \in Controllers
    BY DEF IInv, CallsStand
  <1> QED
    BY <1>1, AnswersAreFinal, OtpModeFreezesNumber DEF IInv, ResendStands

\* Every call still has its caller and its number.
LEMMA CallsStep ==
  ASSUME IInv, TypeOK', Next
  PROVE  CallsStand'
  <1> DEFINE SmsStands(r) == /\ sms'[r].state # "idle" => sms'[r].ctrl \in Controllers
                             /\ sms'[r].number \notin Requests
                             /\ sms'[r].state = "sent" => sms'[r].number # Empty
  <1>1. ASSUME NEW r \in Requests PROVE SmsStands(r)
    <2>1. CASE UNCHANGED sms
      BY <2>1 DEF IInv, CallsStand
    <2>2. ASSUME NEW c \in Controllers, NEW q \in Requests, GetOtp(c, q)
          PROVE  SmsStands(r)
      BY <2>2 DEF IInv, TypeOK, CallsStand, FieldsStand, GetOtp, StartAuth
    <2>3. ASSUME NEW c \in Controllers, NEW q \in Requests, ResendOtp(c, q)
          PROVE  SmsStands(r)
      BY <2>3 DEF IInv, TypeOK, CallsStand, FieldsStand, ResendOtp, StartAuth
    <2>4. ASSUME NEW q \in Requests, NEW ok \in BOOLEAN, AnswerSms(q, ok)
          PROVE  SmsStands(r)
      BY <2>4 DEF IInv, TypeOK, CallsStand, AnswerSms, SmsCall
    <2>5. CASE Relaunch
      <3>1. /\ sms'[r].state # "idle" => sms[r].state # "idle"
            /\ sms'[r].state = "sent" => sms[r].state = "sent"
            /\ sms'[r].ctrl = sms[r].ctrl
            /\ sms'[r].number = sms[r].number
        BY <2>5 DEF IInv, TypeOK, Relaunch, SmsCall
      <3> QED
        BY <3>1 DEF IInv, CallsStand
    <2> QED
      BY <2>1, <2>2, <2>3, <2>4, <2>5 DEF Next, UserStep, EditText, EndEditing, VerifyOtp,
         SignOut, OpenProfile, SignUp, OpenHome, BackendStep, AnswerSignIn, RunBlock,
         RunSmsAnswer, RunShowOtp, RunSignInAnswer, RunPresentSignUp, backend
  <1>2. ASSUME NEW r \in Requests, sms'[r].state = "flying" \/ verificationId' = r
        PROVE  ResendStands(r)'
    <2>1. ~Relaunch
      <3>1. ASSUME Relaunch PROVE sms'[r].state # "flying" /\ verificationId' = Nil
        <4>1. /\ sms' = [q \in Requests |->
                           IF sms[q].state = "flying"
                             THEN [sms[q] EXCEPT !.state = "lost"] ELSE sms[q]]
              /\ verificationId' = Nil
          BY <3>1 DEF Relaunch
        <4> QED
          BY <4>1 DEF IInv, TypeOK, SmsCall
      <3> QED
        BY <1>2, <3>1, SortsAssumption
    <2>2. CASE sms[r].state = "flying" \/ verificationId = r
      <3>1. sms[r].state # "idle"
        BY <2>2, SortsAssumption DEF IInv, SessionsStand
      <3> QED
        BY <2>1, <2>2, <3>1, ResendStays DEF IInv, CallsStand
    <2>3. CASE verificationId' = r /\ verificationId # r
      <3>1. RunSmsAnswer /\ r = NextBlockOf
        BY <2>1, <2>3, VerificationIdSteps
      <3>2. ResendStands(r) /\ sms[r].state # "idle"
        BY <3>1, HeadStands DEF IInv, RunSmsAnswer, NextBlock, NextBlockOf, BlockStands
      <3> QED
        BY <2>1, <3>2, ResendStays
    <2>4. CASE sms'[r].state = "flying" /\ sms[r].state # "flying"
      <3>1. ASSUME NEW c \in Controllers, NEW q \in Requests, GetOtp(c, q)
            PROVE  ResendStands(r)'
        BY <2>4, <3>1 DEF IInv, TypeOK, GetOtp, StartAuth, ResendStands
      <3>2. ASSUME NEW c \in Controllers, NEW q \in Requests, ResendOtp(c, q)
            PROVE  ResendStands(r)'
        BY <2>4, <3>2 DEF IInv, TypeOK, ResendOtp, StartAuth, ResendStands, screens
      <3> QED
        BY <2>1, <2>4, <3>1, <3>2 DEF IInv, TypeOK, Next, UserStep, EditText, EndEditing,
           VerifyOtp, SignOut, OpenProfile, SignUp, OpenHome, BackendStep, AnswerSms,
           AnswerSignIn, RunBlock, RunSmsAnswer, RunShowOtp, RunSignInAnswer,
           RunPresentSignUp, backend, SmsCall
    <2> QED
      BY <1>2, <2>2, <2>3, <2>4
  <1> DEFINE AttemptStands(a) ==
               /\ attempt'[a].state # "idle" => attempt'[a].ctrl \in Controllers
               /\ attempt'[a].session # Nil => sms[attempt'[a].session].state = "sent"
  <1>3. ASSUME NEW a \in Attempts PROVE AttemptStands(a)
    <2>1. CASE UNCHANGED attempt
      BY <2>1 DEF IInv, CallsStand
    <2>2. ASSUME NEW c \in Controllers, NEW d \in Attempts, VerifyOtp(c, d)
          PROVE  AttemptStands(a)
      BY <2>2 DEF IInv, TypeOK, CallsStand, SessionsStand, VerifyOtp
    <2>3. ASSUME NEW d \in Attempts, NEW accepted \in BOOLEAN, NEW saved \in BOOLEAN,
                 AnswerSignIn(d, accepted, saved)
          PROVE  AttemptStands(a)
      BY <2>3 DEF IInv, TypeOK, CallsStand, AnswerSignIn, SignInCall
    <2>4. CASE Relaunch
      <3>1. /\ attempt'[a].state # "idle" => attempt[a].state # "idle"
            /\ attempt'[a].ctrl = attempt[a].ctrl
            /\ attempt'[a].session = attempt[a].session
        BY <2>4 DEF IInv, TypeOK, Relaunch, SignInCall
      <3> QED
        BY <3>1 DEF IInv, CallsStand
    <2> QED
      BY <2>1, <2>2, <2>3, <2>4 DEF Next, UserStep, EditText, EndEditing, GetOtp, ResendOtp,
         SignOut, OpenProfile, SignUp, OpenHome, BackendStep, AnswerSms, RunBlock,
         RunSmsAnswer, RunShowOtp, RunSignInAnswer, RunPresentSignUp, backend
  <1>4. ASSUME NEW a \in Attempts, attempt'[a].session # Nil
        PROVE  sms'[attempt'[a].session].state = "sent"
    <2>1. attempt'[a].session \in Requests
      BY <1>4 DEF TypeOK, SignInCall
    <2> QED
      BY <1>3, <1>4, <2>1, AnswersAreFinal DEF IInv
  <1>5. ASSUME NEW a \in Attempts, attempt'[a].state \in {"flying", "answered"}
        PROVE  otpMode'[attempt'[a].ctrl]
    <2>1. ~Relaunch
      <3> SUFFICES ASSUME Relaunch PROVE attempt'[a].state \notin {"flying", "answered"}
        BY <1>5
      <3> QED
        BY DEF IInv, TypeOK, Relaunch, SignInCall
    <2>2. ASSUME NEW c \in Controllers, VerifyOtp(c, a)
          PROVE  otpMode'[attempt'[a].ctrl]
      BY <2>2 DEF IInv, TypeOK, VerifyOtp, screens
    <2>3. CASE \A c \in Controllers : ~VerifyOtp(c, a)
      <3> DEFINE Kept == /\ attempt[a].state \in {"flying", "answered"}
                         /\ attempt'[a].ctrl = attempt[a].ctrl
      <3>a. ASSUME NEW c \in Controllers, NEW d \in Attempts, VerifyOtp(c, d) PROVE Kept
        BY <1>5, <2>3, <3>a DEF IInv, TypeOK, VerifyOtp
      <3>b. ASSUME NEW d \in Attempts, NEW accepted \in BOOLEAN, NEW saved \in BOOLEAN,
                   AnswerSignIn(d, accepted, saved)
            PROVE  Kept
        BY <1>5, <3>b DEF IInv, TypeOK, AnswerSignIn, SignInCall
      <3>c. ASSUME UNCHANGED attempt PROVE Kept
        BY <1>5, <3>c
      <3>1. Kept
        BY <2>1, <3>a, <3>b, <3>c DEF Next, UserStep, EditText, EndEditing, GetOtp,
           ResendOtp, SignOut, OpenProfile, SignUp, OpenHome, BackendStep, AnswerSms,
           RunBlock, RunSmsAnswer, RunShowOtp, RunSignInAnswer, RunPresentSignUp, backend
      <3>2. attempt[a].ctrl \in Controllers /\ otpMode[attempt[a].ctrl]
        BY <3>1 DEF IInv, CallsStand
      <3> QED
        BY <2>1, <3>1, <3>2, OtpModeFreezesNumber DEF IInv
    <2> QED
      BY <2>2, <2>3
  <1> QED
    BY <1>1, <1>2, <1>3, <1>4, <1>5 DEF CallsStand

\* A block that goes on waiting may still rely on what it relied on.
LEMMA BlockStays ==
  ASSUME IInv, Next, ~Relaunch, NEW b \in Block, BlockStands(b)
  PROVE  BlockStands(b)'
  <1>1. CASE b.kind = "smsAnswer"
    BY <1>1, BlockSubjects, AnswersAreFinal, ResendStays DEF IInv, BlockStands
  <1>2. CASE b.kind = "showOtp"
    <2>1. verificationId' = verificationId \/ (RunSmsAnswer /\ verificationId' = NextBlockOf)
      BY VerificationIdSteps
    <2>2. RunSmsAnswer => NextBlockOf # Nil
      BY HeadStands, BlockSubjects, SortsAssumption DEF IInv, RunSmsAnswer, NextBlock,
         NextBlockOf
    <2> QED
      BY <1>2, <2>1, <2>2 DEF BlockStands
  <1>3. CASE b.kind = "signInAnswer"
    BY <1>3, BlockSubjects, AnswersAreFinal DEF IInv, BlockStands
  <1>4. CASE b.kind = "presentSignUp"
    BY <1>4, BlockSubjects, AcceptedCodeStays DEF BlockStands
  <1> QED
    BY <1>1, <1>2, <1>3, <1>4 DEF Block

\* Every waiting block may still rely on what it relies on.
LEMMA QueueStep ==
  ASSUME IInv, TypeOK', Next
  PROVE  QueueStands'
  <1> SUFFICES ASSUME NEW b \in Waiting(mainQueue') PROVE BlockStands(b)'
    BY DEF QueueStands, Waiting
  <1>1. ~Relaunch
    <2>1. Waiting(<<>>) = {}
      BY DEF Waiting
    <2> QED
      BY <2>1 DEF Relaunch
  <1>2. b \in Block
    BY WaitingBlocks DEF TypeOK
  <1>3. CASE b \in Waiting(mainQueue)
    BY <1>1, <1>2, <1>3, BlockStays DEF IInv, QueueStands
  <1>4. CASE b \notin Waiting(mainQueue)
    <2>1. ASSUME NEW r \in Requests, NEW ok \in BOOLEAN, AnswerSms(r, ok)
          PROVE  BlockStands(b)'
      <3>1. b = Async("smsAnswer", r, ok)
        BY <1>4, <2>1, AppendWaiting, BlockTypes DEF IInv, TypeOK, AnswerSms
      <3>2. /\ sms'[r].state # "idle"
            /\ ok => sms'[r].state = "sent"
        BY <2>1 DEF IInv, TypeOK, AnswerSms
      <3>3. ResendStands(r)'
        BY <1>1, <2>1, ResendStays DEF IInv, CallsStand, AnswerSms
      <3> QED
        BY <3>1, <3>2, <3>3 DEF BlockStands, Async
    <2>2. ASSUME NEW a \in Attempts, NEW accepted \in BOOLEAN, NEW saved \in BOOLEAN,
                 AnswerSignIn(a, accepted, saved)
          PROVE  BlockStands(b)'
      <3>1. b = Async("signInAnswer", a, saved)
        BY <1>4, <2>2, AppendWaiting, BlockTypes DEF IInv, TypeOK, AnswerSignIn
      <3>2. /\ attempt'[a].state = "answered"
            /\ saved => attempt'[a].session \in redeemed'
        BY <2>2 DEF IInv, TypeOK, AnswerSignIn
      <3> QED
        BY <3>1, <3>2 DEF BlockStands, Async
    <2>3. CASE RunSmsAnswer
      <3>1. /\ NextBlockOf \in Requests
            /\ sms[NextBlockOf].ctrl \in Controllers
            /\ mainQueue # <<>>
            /\ mainQueue \in Seq(Block)
            /\ Tail(mainQueue) \in Seq(Block)
        BY <2>3, HeadStands, HeadBlock, BlockSubjects DEF IInv, TypeOK, RunSmsAnswer,
           NextBlock, NextBlockOf, BlockStands, CallsStand
      <3>2. NextBlockOk /\ b = Async("showOtp", sms[NextBlockOf].ctrl, TRUE)
        <4>1. Waiting(Tail(mainQueue)) \subseteq Waiting(mainQueue)
          BY <3>1, TailWaiting
        <4>2. Async("showOtp", sms[NextBlockOf].ctrl, TRUE) \in Block
          BY <3>1, BlockTypes
        <4>3. Waiting(Append(Tail(mainQueue), Async("showOtp", sms[NextBlockOf].ctrl, TRUE)))
                \subseteq Waiting(Tail(mainQueue)) \cup {Async("showOtp", sms[NextBlockOf].ctrl, TRUE)}
          BY <3>1, <4>2, AppendWaiting
        <4> QED
          BY <1>4, <2>3, <4>1, <4>3 DEF RunSmsAnswer
      <3>3. verificationId' # Nil
        BY <2>3, <3>1, <3>2, SortsAssumption DEF RunSmsAnswer
      <3> QED
        BY <3>2, <3>3 DEF BlockStands, Async
    <2>4. CASE RunSignInAnswer
      <3>1. /\ NextBlockOf \in Attempts
            /\ attempt[NextBlockOf].ctrl \in Controllers
            /\ attempt[NextBlockOf].state = "answered"
            /\ NextBlockOk => attempt[NextBlockOf].session \in redeemed
            /\ mainQueue # <<>>
            /\ mainQueue \in Seq(Block)
            /\ Tail(mainQueue) \in Seq(Block)
        BY <2>4, HeadStands, HeadBlock, BlockSubjects DEF IInv, TypeOK, RunSignInAnswer,
           NextBlock, NextBlockOf, NextBlockOk, BlockStands, CallsStand
      <3>2. NextBlockOk /\ b = Async("presentSignUp", attempt[NextBlockOf].ctrl, TRUE)
        <4>1. Waiting(Tail(mainQueue)) \subseteq Waiting(mainQueue)
          BY <3>1, TailWaiting
        <4>2. Async("presentSignUp", attempt[NextBlockOf].ctrl, TRUE) \in Block
          BY <3>1, BlockTypes
        <4>3. Waiting(Append(Tail(mainQueue), Async("presentSignUp", attempt[NextBlockOf].ctrl, TRUE)))
                \subseteq Waiting(Tail(mainQueue)) \cup {Async("presentSignUp", attempt[NextBlockOf].ctrl, TRUE)}
          BY <3>1, <4>2, AppendWaiting
        <4> QED
          BY <1>4, <2>4, <4>1, <4>3 DEF RunSignInAnswer
      <3>3. HasAcceptedCode(attempt[NextBlockOf].ctrl)
        BY <3>1, <3>2 DEF HasAcceptedCode
      <3>4. BlockStands(b)
        BY <3>2, <3>3 DEF BlockStands, Async
      <3> QED
        BY <1>1, <1>2, <3>4, BlockStays
    <2>5. CASE RunShowOtp \/ RunPresentSignUp
      BY <1>4, <2>5, TailWaiting DEF IInv, TypeOK, RunShowOtp, RunPresentSignUp, NextBlock
    <2> QED
      BY <1>1, <1>4, <2>1, <2>2, <2>3, <2>4, <2>5 DEF Next, UserStep, EditText, EndEditing,
         GetOtp, ResendOtp, VerifyOtp, SignOut, OpenProfile, SignUp, OpenHome,
         BackendStep, RunBlock
  <1> QED
    BY <1>3, <1>4

\* Whoever turns the spinner still waits for an answer, or for a block that stops it.
LEMMA SpinnerStep ==
  ASSUME IInv, Next, TypeOK'
  PROVE  EverySpinnerIsOwed'
  <1> SUFFICES ASSUME NEW c \in Controllers, spinning'[c]
               PROVE  (Unanswered(c) \/ \E b \in Waiting(mainQueue) : StopsSpinner(b, c))'
    BY DEF EverySpinnerIsOwed
  <1> DEFINE Owed == Unanswered(c) \/ \E b \in Waiting(mainQueue) : StopsSpinner(b, c)
  <1>0. spinning[c] => Owed
    BY DEF IInv, EverySpinnerIsOwed
  <1>1. ~Relaunch
    BY DEF Relaunch, Fresh
  <1>2. ASSUME NEW b \in Waiting(mainQueue), b \in Waiting(mainQueue'), StopsSpinner(b, c)
        PROVE  StopsSpinner(b, c)'
    <2>1. b \in Block /\ BlockStands(b)
      BY WaitingBlocks DEF IInv, TypeOK, QueueStands
    <2> QED
      BY <1>2, <2>1, BlockSubjects, AnswersAreFinal DEF IInv, StopsSpinner, BlockStands
  <1>3. ASSUME NEW r \in Requests, sms[r].state = "flying", sms'[r].state = "flying",
               sms[r].ctrl = c, ~sms[r].resend
        PROVE  Unanswered(c)'
    BY <1>3, AnswersAreFinal DEF IInv, Unanswered
  <1>4. ASSUME UNCHANGED <<sms, mainQueue, spinning>> PROVE Owed'
    BY <1>0, <1>4 DEF Unanswered, StopsSpinner
  <1>5. ASSUME NEW d \in Controllers, NEW r \in Requests,
               GetOtp(d, r) \/ ResendOtp(d, r)
        PROVE  Owed'
    <2>1. CASE GetOtp(d, r) /\ d = c
      <3>1. sms'[r] = [state |-> "flying", ctrl |-> c, number |-> text[c], resend |-> FALSE]
        BY <2>1 DEF GetOtp, StartAuth, IInv, TypeOK
      <3> QED
        BY <3>1 DEF Unanswered
    <2>2. CASE ~(GetOtp(d, r) /\ d = c)
      <3>1. spinning[c] /\ mainQueue' = mainQueue
        BY <1>5, <2>2 DEF GetOtp, ResendOtp, screens, IInv, TypeOK
      <3>2. \A q \in Requests : sms[q].state = "flying" => sms'[q].state = "flying"
        BY <1>5 DEF GetOtp, ResendOtp, StartAuth, IInv, TypeOK
      <3> QED
        BY <1>0, <1>2, <1>3, <3>1, <3>2 DEF Unanswered
    <2> QED
      BY <2>1, <2>2
  <1>6. ASSUME NEW r \in Requests, NEW ok \in BOOLEAN, AnswerSms(r, ok) PROVE Owed'
    <2> DEFINE b == Async("smsAnswer", r, ok)
    <2>1. Waiting(mainQueue') = Waiting(mainQueue) \cup {b}
      BY <1>6, BlockTypes, AppendWaits DEF AnswerSms, IInv, TypeOK
    <2>2. spinning[c]
      BY <1>6 DEF AnswerSms, screens
    <2>3. \A q \in Requests : q # r => sms'[q] = sms[q]
      BY <1>6 DEF AnswerSms, IInv, TypeOK
    <2>4. CASE sms[r].ctrl = c /\ ~sms[r].resend
      <3>1. sms'[r].ctrl = c /\ ~sms'[r].resend
        BY <1>6, <2>4, AnswersAreFinal DEF IInv, AnswerSms
      <3>2. StopsSpinner(b, c)'
        BY <3>1 DEF StopsSpinner, Async
      <3> QED
        BY <2>1, <3>2
    <2>5. CASE ~(sms[r].ctrl = c /\ ~sms[r].resend)
      BY <1>0, <1>2, <1>3, <2>1, <2>2, <2>3, <2>5 DEF Unanswered
    <2> QED
      BY <2>4, <2>5
  <1>7. ASSUME NEW a \in Attempts, NEW accepted \in BOOLEAN, NEW saved \in BOOLEAN,
               AnswerSignIn(a, accepted, saved)
        PROVE  Owed'
    <2>1. Waiting(mainQueue) \subseteq Waiting(mainQueue')
      BY <1>7, BlockTypes, AppendWaits DEF AnswerSignIn, IInv, TypeOK
    <2>2. spinning[c] /\ UNCHANGED sms
      BY <1>7 DEF AnswerSignIn, screens
    <2> QED
      BY <1>0, <1>2, <1>3, <2>1, <2>2 DEF Unanswered
  <1>8. CASE RunBlock
    <2> DEFINE h == Head(mainQueue)
    <2>1. mainQueue # <<>> /\ mainQueue \in Seq(Block)
      BY <1>8 DEF IInv, TypeOK, RunBlock, RunSmsAnswer, RunShowOtp, RunSignInAnswer,
         RunPresentSignUp, NextBlock
    <2>2. Waiting(mainQueue) = Waiting(Tail(mainQueue)) \cup {h}
      BY <2>1, TailWaits
    <2>3. h \in Block /\ BlockStands(h) /\ Tail(mainQueue) \in Seq(Block)
      BY <2>1, HeadStands, HeadBlock DEF IInv
    <2>4. UNCHANGED sms
      BY <1>8 DEF RunBlock, RunSmsAnswer, RunShowOtp, RunSignInAnswer, RunPresentSignUp,
         backend
    <2>5. spinning[c]
      BY <1>8, <2>3 DEF IInv, TypeOK, RunBlock, RunSmsAnswer, RunShowOtp, RunSignInAnswer,
         RunPresentSignUp, screens
    <2>6. Waiting(Tail(mainQueue)) \subseteq Waiting(mainQueue')
      <3>1. CASE mainQueue' = Tail(mainQueue)
        BY <3>1
      <3>2. CASE RunSmsAnswer /\ NextBlockOk
        <4>1. sms[NextBlockOf].ctrl \in Controllers
          BY <2>3, <3>2, BlockSubjects DEF RunSmsAnswer, NextBlock, NextBlockOf,
             BlockStands, IInv, CallsStand
        <4> QED
          BY <2>3, <3>2, <4>1, BlockTypes, AppendWaits DEF RunSmsAnswer
      <3>3. CASE RunSignInAnswer /\ NextBlockOk
        <4>1. attempt[NextBlockOf].ctrl \in Controllers
          BY <2>3, <3>3, BlockSubjects DEF RunSignInAnswer, NextBlock, NextBlockOf,
             BlockStands, IInv, CallsStand
        <4> QED
          BY <2>3, <3>3, <4>1, BlockTypes, AppendWaits DEF RunSignInAnswer
      <3> QED
        BY <1>8, <3>1, <3>2, <3>3 DEF RunBlock, RunSmsAnswer, RunShowOtp, RunSignInAnswer,
           RunPresentSignUp
    <2>7. CASE ~StopsSpinner(h, c)
      BY <1>0, <1>2, <1>3, <2>2, <2>4, <2>5, <2>6, <2>7 DEF Unanswered
    <2>8. CASE StopsSpinner(h, c) /\ h.kind = "smsAnswer"
      <3>1. RunSmsAnswer /\ NextBlockOf = h.of /\ NextBlockOk = h.ok
        BY <1>8, <2>8 DEF RunBlock, RunSmsAnswer, RunShowOtp, RunSignInAnswer,
           RunPresentSignUp, NextBlock, NextBlockOf, NextBlockOk
      <3>2. sms[h.of].ctrl = c
        BY <2>8 DEF StopsSpinner
      <3>3. h.ok
        BY <2>3, <2>8, <3>1, <3>2, BlockSubjects
        DEF StopsSpinner, RunSmsAnswer, IInv, TypeOK
      <3>4. mainQueue' = Append(Tail(mainQueue), Async("showOtp", c, TRUE))
        BY <3>1, <3>2, <3>3 DEF RunSmsAnswer
      <3>5. Async("showOtp", c, TRUE) \in Waiting(mainQueue')
        BY <2>3, <3>4, BlockTypes, AppendWaits
      <3>6. StopsSpinner(Async("showOtp", c, TRUE), c)'
        BY DEF StopsSpinner, Async
      <3> QED
        BY <3>5, <3>6
    <2>9. CASE StopsSpinner(h, c) /\ h.kind = "showOtp"
      <3>1. RunShowOtp /\ NextBlockOf = c
        BY <1>8, <2>9 DEF RunBlock, RunSmsAnswer, RunShowOtp, RunSignInAnswer,
           RunPresentSignUp, NextBlock, NextBlockOf, StopsSpinner
      <3> QED
        BY <3>1 DEF RunShowOtp, IInv, TypeOK
    <2> QED
      BY <2>7, <2>8, <2>9 DEF StopsSpinner
  <1> QED
    BY <1>1, <1>4, <1>5, <1>6, <1>7, <1>8 DEF Next, UserStep, EditText, EndEditing, VerifyOtp,
       SignOut, OpenProfile, SignUp, OpenHome, BackendStep, screens, backend

-----------------------------------------------------------------------------
(* The theorems *)

\* The app starts in the invariant.
LEMMA InitInvariant == Init => IInv
  <1> SUFFICES ASSUME Init PROVE IInv
    OBVIOUS
  <1>1. QueueStands
    BY DEF Init, QueueStands, Waiting
  <1>2. CallsStand
    BY SortsAssumption DEF Init, CallsStand, NoSms, NoSignIn, ResendStands
  <1>3. FieldsStand /\ SessionsStand /\ OtpModeHasSession
    BY SortsAssumption DEF Init, FieldsStand, SessionsStand, OtpModeHasSession, Fresh
  <1>4. /\ UserHoldsAcceptedNumber
        /\ SignUpFollowsAcceptedCode
        /\ FormShowsLabel
        /\ EverySpinnerIsOwed
    BY DEF Init, UserHoldsAcceptedNumber, SignUpFollowsAcceptedCode, FormShowsLabel,
       EverySpinnerIsOwed, Fresh
  <1>5. ProfileOnScreenHasUser
    <2>1. PICK c \in Controllers :
            /\ visible = c
            /\ loginShown = [Fresh(TRUE) EXCEPT ![c] = CheckUserSignIn(Nil)]
      <3>1. PICK s \in FirstScreens(Nil, Nil) :
              visible = s.visible /\ loginShown = s.loginShown
        BY DEF Init
      <3>2. PICK c \in Controllers :
              s = [visible |-> c, created |-> {c},
                   loginShown |-> [Fresh(TRUE) EXCEPT ![c] = CheckUserSignIn(Nil)]]
        BY DEF FirstScreens
      <3> QED
        BY <3>1, <3>2
    <2> QED
      BY <2>1 DEF ProfileOnScreenHasUser, Fresh, CheckUserSignIn
  <1> QED
    BY <1>1, <1>2, <1>3, <1>4, <1>5, InitTypes DEF IInv

\* Every step, and every stutter, keeps the invariant.
LEMMA StepInvariant == IInv /\ [Next]_vars => IInv'
  <1>1. ASSUME IInv, Next PROVE IInv'
    <2>1. TypeOK'
      BY <1>1, NextTypes DEF IInv
    <2> QED
      BY <1>1, <2>1, QueueStep, CallsStep, FieldsStep, SessionsStep, OtpModeStep,
         UserStands, ProfileStep, SignUpFormStep, FormLabelStep, SpinnerStep DEF IInv
  <1>2. ASSUME IInv, UNCHANGED vars PROVE IInv'
    BY <1>2 DEF vars, screens, device, backend, IInv, TypeOK, QueueStands, Waiting,
       BlockStands, HasAcceptedCode, ResendStands, CallsStand, FieldsStand,
       SessionsStand, OtpModeHasSession, UserHoldsAcceptedNumber,
       ProfileOnScreenHasUser, SignUpFollowsAcceptedCode, FormShowsLabel,
       EverySpinnerIsOwed, Unanswered, StopsSpinner
  <1> QED
    BY <1>1, <1>2

\* The invariant always holds.
THEOREM Invariance == Spec => []IInv
  BY InitInvariant, StepInvariant, PTL DEF Spec

\* Every variable always has its type: in particular a text field's number never
\* reaches Firebase as anything but a text, and a controller on screen exists.
THEOREM TypeCorrect == Spec => []TypeOK
  <1>1. IInv => TypeOK
    BY DEF IInv
  <1> QED
    BY <1>1, Invariance, PTL

\* verifyCode never lacks a verification ID when a controller asks for a code.
THEOREM OtpModeAlwaysHasSession == Spec => []OtpModeHasSession
  <1>1. IInv => OtpModeHasSession
    BY DEF IInv
  <1> QED
    BY <1>1, Invariance, PTL

\* Whoever is signed in typed the code that was sent to that number.
THEOREM UserAlwaysHoldsAcceptedNumber == Spec => []UserHoldsAcceptedNumber
  <1>1. IInv => UserHoldsAcceptedNumber
    BY DEF IInv
  <1> QED
    BY <1>1, Invariance, PTL

\* After a resend the label names the phone the code went to.
THEOREM ResendAlwaysGoesToLabel == Spec => []ResendGoesToLabel
  <1>1. IInv => ResendGoesToLabel
    <2> SUFFICES ASSUME IInv, verificationId # Nil, sms[verificationId].resend
                 PROVE  sentToLabel[sms[verificationId].ctrl] = sms[verificationId].number
      BY DEF ResendGoesToLabel
    <2>1. verificationId \in Requests
      BY DEF IInv, TypeOK
    <2>2. sms[verificationId].ctrl \in Controllers /\ ResendStands(verificationId)
      BY <2>1 DEF IInv, SessionsStand, CallsStand
    <2> QED
      BY <2>2 DEF IInv, FieldsStand, ResendStands
  <1> QED
    BY <1>1, Invariance, PTL

\* A profile on screen always belongs to a signed-in user.
THEOREM ProfileOnScreenAlwaysHasUser == Spec => []ProfileOnScreenHasUser
  <1>1. IInv => ProfileOnScreenHasUser
    BY DEF IInv
  <1> QED
    BY <1>1, Invariance, PTL

\* A sign-up form is only ever open for a controller whose code was accepted.
THEOREM SignUpAlwaysFollowsAcceptedCode == Spec => []SignUpFollowsAcceptedCode
  <1>1. IInv => SignUpFollowsAcceptedCode
    BY DEF IInv
  <1> QED
    BY <1>1, Invariance, PTL

\* The number a form is about to register is the one its screen named as the phone the
\* code went to: once a screen has asked for a code, its number cannot change any more.
THEOREM FormAlwaysShowsLabel == Spec => []FormShowsLabel
  <1>1. IInv => FormShowsLabel
    BY DEF IInv
  <1> QED
    BY <1>1, Invariance, PTL

\* A turning spinner always has somebody who owes it an end: the SDK, or a block of the
\* main queue.
THEOREM EverySpinnerIsAlwaysOwed == Spec => []EverySpinnerIsOwed
  <1>1. IInv => EverySpinnerIsOwed
    BY DEF IInv
  <1> QED
    BY <1>1, Invariance, PTL

-----------------------------------------------------------------------------
(* The flow of signing in *)

\* The form shows a number, or nothing; never a code.
LEMMA FormShowsNoCode ==
  ASSUME IInv, modal # Nil
  PROVE  modal.number \notin Requests
  <1>1. modal.ctrl \in Controllers /\ HasAcceptedCode(modal.ctrl)
    BY DEF IInv, TypeOK, SignUpForm, SignUpFollowsAcceptedCode
  <1>2. otpMode[modal.ctrl]
    BY <1>1, AcceptedCodeAsks DEF IInv
  <1> QED
    BY <1>1, <1>2 DEF IInv, FormShowsLabel, FieldsStand

\* Calls that are made, fail or are lost text nobody.
LEMMA NobodyTexted ==
  ASSUME UNCHANGED device, redeemed' = redeemed,
         \A r \in Requests : /\ sms'[r].state = "sent" <=> sms[r].state = "sent"
                             /\ sms[r].state = "sent" => sms'[r] = sms[r]
  PROVE  UNCHANGED Flow!vars
  <1>1. \A r \in Requests :
          (IF sms'[r].state = "sent" THEN sms'[r].number ELSE Nil)
             = (IF sms[r].state = "sent" THEN sms[r].number ELSE Nil)
    OBVIOUS
  <1> QED
    BY <1>1 DEF Flow!vars, device

LEMMA FlowInit == Init => Flow!Init
  BY DEF Init, Flow!Init, NoSms

LEMMA FlowStep ==
  IInv /\ [Next]_vars => [Flow!Next]_(Flow!vars)
  <1> SUFFICES ASSUME IInv, [Next]_vars
               PROVE  Flow!Next \/ UNCHANGED Flow!vars
    OBVIOUS
  <1> DEFINE Goal == Flow!Next \/ UNCHANGED Flow!vars
  <1>0. CASE UNCHANGED <<backend, device>>
    BY <1>0 DEF Flow!vars, backend, device
  <1>1. ASSUME NEW c \in Controllers, NEW r \in Requests, NEW number, NEW resend,
               StartAuth(c, r, number, resend), UNCHANGED <<redeemed, device>>
        PROVE  Goal
    <2>1. \A q \in Requests : /\ sms'[q].state = "sent" <=> sms[q].state = "sent"
                              /\ sms[q].state = "sent" => sms'[q] = sms[q]
      BY <1>1 DEF StartAuth, IInv, TypeOK
    <2> QED
      BY <1>1, <2>1, NobodyTexted
  <1>2. ASSUME NEW c \in Controllers, NEW a \in Attempts, VerifyOtp(c, a) PROVE Goal
    BY <1>2, NobodyTexted DEF VerifyOtp
  <1>3. ASSUME NEW c \in Controllers, NEW ok \in BOOLEAN, SignOut(c, ok) PROVE Goal
    <2>1. /\ storedNumber' = Nil
          /\ currentUser' \in {currentUser, Nil}
          /\ UNCHANGED <<sms, redeemed>>
      BY <1>3 DEF SignOut, backend
    <2>2. Flow!SignOut
      BY <2>1 DEF Flow!SignOut
    <2> QED
      BY <2>2 DEF Flow!Next
  <1>4. CASE SignUp
    <2>1. modal # Nil /\ UNCHANGED <<sms, redeemed, currentUser>>
      BY <1>4 DEF SignUp, backend
    <2>2. CASE modal.number = Empty
      BY <1>4, <2>1, <2>2 DEF SignUp, Flow!vars
    <2>3. CASE modal.number # Empty
      <3>1. modal.number \in Numbers
        BY <2>1, <2>3, FormShowsNoCode DEF IInv, TypeOK, SignUpForm, Texts
      <3>2. redeemed # {}
        BY <2>1 DEF IInv, SignUpFollowsAcceptedCode, HasAcceptedCode
      <3>3. storedNumber' = modal.number
        BY <1>4, <2>3 DEF SignUp
      <3>4. Flow!Register(modal.number)
        BY <2>1, <3>2, <3>3 DEF Flow!Register
      <3> QED
        BY <3>1, <3>4 DEF Flow!Next
    <2> QED
      BY <2>2, <2>3
  <1>5. ASSUME NEW r \in Requests, NEW ok \in BOOLEAN, AnswerSms(r, ok) PROVE Goal
    <2>1. /\ sms[r].state = "flying"
          /\ sms' = [sms EXCEPT ![r].state = IF ok THEN "sent" ELSE "refused"]
          /\ UNCHANGED <<redeemed, device>>
      BY <1>5 DEF AnswerSms
    <2>2. sms \in [Requests -> SmsCall]
      BY DEF IInv, TypeOK
    <2>3. CASE ok
      <3>1. sms[r].number \in Numbers
        BY <1>5, <2>2, <2>3 DEF AnswerSms, IInv, CallsStand, SmsCall, Texts
      <3>n. PICK n \in Numbers : n = sms[r].number
        BY <3>1
      <3>2. \A q \in Requests :
              (IF sms'[q].state = "sent" THEN sms'[q].number ELSE Nil)
                 = IF q = r THEN n
                   ELSE IF sms[q].state = "sent" THEN sms[q].number ELSE Nil
        BY <2>1, <2>2, <2>3, <3>n DEF SmsCall
      <3>3. Flow!SendCode(r, n)
        BY <2>1, <3>2 DEF Flow!SendCode, device
      <3> QED
        BY <3>3 DEF Flow!Next
    <2>4. CASE ~ok
      <3>1. \A q \in Requests : /\ sms'[q].state = "sent" <=> sms[q].state = "sent"
                                /\ sms[q].state = "sent" => sms'[q] = sms[q]
        BY <2>1, <2>2, <2>4 DEF SmsCall
      <3> QED
        BY <2>1, <3>1, NobodyTexted
    <2> QED
      BY <2>3, <2>4
  <1>6. ASSUME NEW a \in Attempts, NEW accepted \in BOOLEAN, NEW saved \in BOOLEAN,
               AnswerSignIn(a, accepted, saved)
        PROVE  Goal
    <2>1. CASE ~accepted
      BY <1>6, <2>1, NobodyTexted DEF AnswerSignIn, device
    <2>2. CASE accepted
      <3>1. /\ attempt[a].code = attempt[a].session
            /\ redeemed' = redeemed \cup {attempt[a].session}
            /\ currentUser' \in {currentUser, sms[attempt[a].session].number}
            /\ UNCHANGED <<sms, storedNumber>>
        BY <1>6, <2>2 DEF AnswerSignIn
      <3>2. attempt[a].session \in Requests /\ attempt[a].session # Nil
        BY <3>1, SortsAssumption DEF IInv, TypeOK, SignInCall, Texts
      <3>3. /\ sms[attempt[a].session].state = "sent"
            /\ sms[attempt[a].session].number # Nil
        BY <3>2, SortsAssumption DEF IInv, CallsStand, TypeOK, SmsCall, Texts
      <3>4. Flow!AcceptCode(attempt[a].session)
        BY <3>1, <3>2, <3>3 DEF Flow!AcceptCode
      <3> QED
        BY <3>2, <3>4 DEF Flow!Next
    <2> QED
      BY <2>1, <2>2
  <1>7. CASE Relaunch
    <2>1. \A q \in Requests : /\ sms'[q].state = "sent" <=> sms[q].state = "sent"
                              /\ sms[q].state = "sent" => sms'[q] = sms[q]
      BY <1>7 DEF Relaunch, IInv, TypeOK, SmsCall
    <2> QED
      BY <1>7, <2>1, NobodyTexted DEF Relaunch
  <1>8. CASE UserStep
    <2>1. ASSUME NEW c \in Controllers, NEW r \in Requests, GetOtp(c, r) PROVE Goal
      BY <1>1, <2>1 DEF GetOtp
    <2>2. ASSUME NEW c \in Controllers, NEW r \in Requests, ResendOtp(c, r) PROVE Goal
      BY <1>1, <2>2 DEF ResendOtp
    <2>3. ASSUME NEW c \in Controllers, NEW t, EditText(c, t) PROVE Goal
      BY <1>0, <2>3 DEF EditText
    <2>4. ASSUME NEW c \in Controllers, EndEditing(c) \/ OpenProfile(c) PROVE Goal
      BY <1>0, <2>4 DEF EndEditing, OpenProfile
    <2>5. CASE OpenHome
      BY <1>0, <2>5 DEF OpenHome
    <2> QED
      BY <1>2, <1>3, <1>4, <1>8, <2>1, <2>2, <2>3, <2>4, <2>5 DEF UserStep
  <1>9. CASE RunBlock
    BY <1>0, <1>9 DEF RunBlock, RunSmsAnswer, RunShowOtp, RunSignInAnswer,
       RunPresentSignUp
  <1>10. CASE UNCHANGED vars
    BY <1>0, <1>10 DEF vars
  <1> QED
    BY <1>5, <1>6, <1>7, <1>8, <1>9, <1>10 DEF Next, BackendStep

\* Whatever crosses, is left behind, is tapped twice or dies, the user and the
\* registered number change only as SignInFlow has them change.
THEOREM FlowIsFollowed == Spec => FollowsTheFlow
  BY FlowInit, FlowStep, Invariance, PTL DEF Spec, Flow!Spec, FollowsTheFlow

-----------------------------------------------------------------------------
(* The promise of the form *)

\* The app starts without a form and without a number.
LEMMA RegistryInit == Init => Registry!Init
  BY DEF Init, Registry!Init

\* Every step is one of the form's promise, or none to it.
LEMMA RegistryStep == IInv /\ [Next]_vars => [Registry!Next]_(Registry!vars)
  <1> SUFFICES ASSUME IInv, [Next]_vars
               PROVE  Registry!Next \/ UNCHANGED Registry!vars
    OBVIOUS
  <1> DEFINE Goal == Registry!Next \/ UNCHANGED Registry!vars
  <1>1. ASSUME UNCHANGED <<modal, storedNumber>> PROVE Goal
    BY <1>1 DEF Registry!vars
  <1>2. CASE RunPresentSignUp /\ modal' # modal
    <2>1. NextBlockOf \in Controllers
      BY <1>2, HeadStands, BlockSubjects DEF IInv, RunPresentSignUp, NextBlock, NextBlockOf
    <2>2. PICK n \in Numbers \cup {Empty} : n = mobileNumberStr[NextBlockOf]
      BY <2>1 DEF IInv, TypeOK, Texts, FieldsStand
    <2>3. /\ modal = Nil
          /\ modal' = [ctrl |-> NextBlockOf, number |-> n]
          /\ UNCHANGED storedNumber
      BY <1>2, <2>2 DEF RunPresentSignUp, device
    <2>4. modal' # Nil
      BY <1>2, <2>3
    <2>5. Registry!Present(n)
      BY <2>3, <2>4 DEF Registry!Present
    <2> QED
      BY <2>5 DEF Registry!Next
  <1>3. CASE SignUp
    <2>1. modal # Nil /\ modal.number \in Texts
      BY <1>3 DEF SignUp, IInv, TypeOK, SignUpForm
    <2>2. modal.number # Nil
      BY <2>1, SortsAssumption DEF Texts
    <2>3. Registry!Complete
      BY <1>3, <2>1, <2>2 DEF SignUp, Registry!Complete
    <2> QED
      BY <2>3 DEF Registry!Next
  <1>4. ASSUME NEW c \in Controllers, NEW ok \in BOOLEAN, SignOut(c, ok) PROVE Goal
    <2>1. Registry!SignOut
      BY <1>4 DEF SignOut, ProfileBox, Registry!SignOut
    <2> QED
      BY <2>1 DEF Registry!Next
  <1>5. CASE Relaunch
    <2>1. Registry!Restart
      BY <1>5 DEF Relaunch, device, Registry!Restart
    <2> QED
      BY <2>1 DEF Registry!Next
  <1>6. CASE UserStep
    <2>1. ASSUME NEW c \in Controllers,
                 \/ \E t \in Offered(c) : EditText(c, t)
                 \/ EndEditing(c)
                 \/ \E r \in Requests : GetOtp(c, r) \/ ResendOtp(c, r)
                 \/ \E a \in Attempts : VerifyOtp(c, a)
                 \/ OpenProfile(c)
          PROVE  Goal
      BY <1>1, <2>1 DEF EditText, EndEditing, GetOtp, ResendOtp, VerifyOtp, OpenProfile,
         screens, device
    <2>2. CASE OpenHome
      BY <1>1, <2>2 DEF OpenHome, device
    <2> QED
      BY <1>3, <1>4, <1>6, <2>1, <2>2 DEF UserStep
  <1>7. CASE BackendStep
    BY <1>1, <1>7 DEF BackendStep, AnswerSms, AnswerSignIn, screens, device
  <1>8. CASE RunBlock
    BY <1>1, <1>2, <1>8 DEF RunBlock, RunSmsAnswer, RunShowOtp, RunSignInAnswer,
       RunPresentSignUp, screens, device
  <1>9. CASE UNCHANGED vars
    BY <1>1, <1>9 DEF vars, screens, device
  <1> QED
    BY <1>5, <1>6, <1>7, <1>8, <1>9 DEF Next

\* However late and over whichever screen a form is presented, it registers the number it
\* shows, once.
THEOREM FormRegisters == Spec => RegistersByForm
  BY RegistryInit, RegistryStep, Invariance, PTL DEF Spec, Registry!Spec, RegistersByForm

=============================================================================
