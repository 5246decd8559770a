----------------------------- MODULE PhoneSignIn -----------------------------
(***************************************************************************)
(* Phone-number sign-in of the Spark app: AuthManager (the singleton that  *)
(* remembers the Firebase verification ID), every ProfileViewController    *)
(* the side menu has created so far, the sign-up form they present, the    *)
(* main dispatch queue their callbacks run on, and what survives a restart *)
(* of the app (the Firebase user in the keychain, UserDefaults).           *)
(*                                                                         *)
(* Firebase's back end is the environment: it answers each request in any  *)
(* order, with success or failure.  A request that is answered with a      *)
(* success opens the verification session named by that request, so a      *)
(* verification ID is a member of Requests, and so is the code that the    *)
(* SMS of that session carries.                                            *)
(***************************************************************************)
EXTENDS Naturals, Sequences

CONSTANTS
  Numbers,      (* phone numbers a user may type                            *)
  Requests,     (* calls of verifyPhoneNumber, the sessions and their codes *)
  Attempts,     (* calls of Auth.signIn(with:)                              *)
  Controllers,  (* instances of ProfileViewController                       *)
  Home,         (* the map screen: no ProfileViewController is on screen    *)
  Empty,        (* the empty string of a text field                         *)
  Nil           (* Swift's nil                                              *)

ASSUME SortsAssumption ==
  /\ Nil \notin Numbers \cup Requests \cup Controllers \cup {Empty}
  /\ Empty \notin Numbers \cup Requests
  /\ Home \notin Controllers
  /\ Numbers \cap Requests = {}

VARIABLES
  verificationId,   (* AuthManager.shared.verificationId                    *)
  text,             (* per controller: mobileNumberTxt.text                 *)
  mobileNumberStr,  (* per controller: mobileNumberStr                      *)
  otpMode,          (* per controller: placeholder and button ask for a code*)
  sentToLabel,      (* per controller: the number in "Enter OTP sent to"    *)
  spinning,         (* per controller: activityView is animating            *)
  loginShown,       (* per controller: loginSignupBgView is visible         *)
  created,          (* controllers instantiated since the app was launched  *)
  visible,          (* the controller on screen, or Home                    *)
  modal,            (* the SignUpViewController presented over the screen   *)
  mainQueue,        (* blocks waiting on DispatchQueue.main, FIFO           *)
  sms,              (* per request: its state, sender and recipient         *)
  attempt,          (* per sign-in call: its state and credential           *)
  redeemed,         (* sessions whose code the back end has accepted        *)
  currentUser,      (* number of Auth.auth().currentUser, kept by keychain  *)
  storedNumber      (* UserDefaults "mobileNumber"                          *)

screens == <<text, mobileNumberStr, otpMode, sentToLabel, spinning, loginShown,
             created, visible, modal>>
device  == <<currentUser, storedNumber>>
backend == <<sms, attempt, redeemed>>
vars    == <<verificationId, screens, mainQueue, backend, device>>

-----------------------------------------------------------------------------
(* Values *)

Texts == Numbers \cup Requests \cup {Empty}

SmsCall == [state  : {"idle", "flying", "sent", "refused", "lost"},
            ctrl   : Controllers \cup {Nil},
            number : Texts,
            resend : BOOLEAN]

SignInCall == [state   : {"idle", "flying", "answered", "lost"},
               ctrl    : Controllers \cup {Nil},
               session : Requests \cup {Nil},
               code    : Texts]

SignUpForm == [ctrl : Controllers, number : Texts]

Block == [kind : {"smsAnswer"},     of : Requests,    ok : BOOLEAN]
    \cup [kind : {"showOtp"},       of : Controllers, ok : {TRUE}]
    \cup [kind : {"signInAnswer"},  of : Attempts,    ok : BOOLEAN]
    \cup [kind : {"presentSignUp"}, of : Controllers, ok : {TRUE}]

NoSms    == [state |-> "idle", ctrl |-> Nil, number |-> Empty, resend |-> FALSE]
NoSignIn == [state |-> "idle", ctrl |-> Nil, session |-> Nil, code |-> Empty]

TypeOK ==
  /\ verificationId \in Requests \cup {Nil}
  /\ text \in [Controllers -> Texts]
  /\ mobileNumberStr \in [Controllers -> Texts]
  /\ otpMode \in [Controllers -> BOOLEAN]
  /\ sentToLabel \in [Controllers -> Texts \cup {Nil}]
  /\ spinning \in [Controllers -> BOOLEAN]
  /\ loginShown \in [Controllers -> BOOLEAN]
  /\ created \in SUBSET Controllers
  /\ visible \in created \cup {Home}
  /\ modal \in SignUpForm \cup {Nil}
  /\ mainQueue \in Seq(Block)
  /\ sms \in [Requests -> SmsCall]
  /\ attempt \in [Attempts -> SignInCall]
  /\ redeemed \in SUBSET Requests
  /\ currentUser \in Texts \cup {Nil}
  /\ storedNumber \in Texts \cup {Nil}

(* Helpers *)

\* DispatchQueue.main.async: the block joins the end of the main queue.
Async(kind, of, ok) == [kind |-> kind, of |-> of, ok |-> ok]

\* The main queue runs its oldest block.
NextBlock(kind) == mainQueue # <<>> /\ Head(mainQueue).kind = kind
NextBlockOf == Head(mainQueue).of
NextBlockOk == Head(mainQueue).ok

\* Nothing covers the login box of controller c.
LoginBox(c)   == visible = c /\ modal = Nil /\ loginShown[c]
ProfileBox(c) == visible = c /\ modal = Nil /\ ~loginShown[c]

\* checkUserSignIn: the login box is shown when Firebase has no user.
CheckUserSignIn(user) == user = Nil

\* Mutant: updateMobileNumbString without its test of the button's title.
AlwaysUpdateMobileNumbString(c) == text[c]

\* updateMobileNumbString: copies the field until the button says "Verify OTP".
UpdateMobileNumbString(c) ==
  IF otpMode[c] THEN mobileNumberStr[c] ELSE text[c]

\* A field of every controller, as a new ProfileViewController has it.
Fresh(value) == [c \in Controllers |-> value]

\* MainViewController.viewDidLoad: Home for a registered phone, otherwise Profile.
FirstScreens(number, user) ==
  IF number # Nil
    THEN {[visible |-> Home, created |-> {}, loginShown |-> Fresh(TRUE)]}
    ELSE {[visible |-> c, created |-> {c},
           loginShown |-> [Fresh(TRUE) EXCEPT ![c] = CheckUserSignIn(user)]] :
             c \in Controllers}

Init ==
  /\ currentUser = Nil
  /\ storedNumber = Nil
  /\ sms = [r \in Requests |-> NoSms]
  /\ attempt = [a \in Attempts |-> NoSignIn]
  /\ redeemed = {}
  /\ verificationId = Nil
  /\ text = Fresh(Empty)
  /\ mobileNumberStr = Fresh(Empty)
  /\ otpMode = Fresh(FALSE)
  /\ sentToLabel = Fresh(Nil)
  /\ spinning = Fresh(FALSE)
  /\ modal = Nil
  /\ mainQueue = <<>>
  /\ \E screen \in FirstScreens(Nil, Nil) :
       /\ visible = screen.visible
       /\ created = screen.created
       /\ loginShown = screen.loginShown

-----------------------------------------------------------------------------
(* The user, on the login box of the controller on screen *)

\* shouldChangeCharactersIn runs before the edit it announces is applied.
EditText(c, t) ==
  /\ LoginBox(c)
  /\ t # text[c]
  /\ mobileNumberStr' = [mobileNumberStr EXCEPT ![c] = UpdateMobileNumbString(c)]
  /\ text' = [text EXCEPT ![c] = t]
  /\ UNCHANGED <<verificationId, otpMode, sentToLabel, spinning, loginShown,
                 created, visible, modal, mainQueue, backend, device>>

\* The keyboard's Done button: textFieldDidEndEditing.
EndEditing(c) ==
  /\ LoginBox(c)
  /\ mobileNumberStr' = [mobileNumberStr EXCEPT ![c] = UpdateMobileNumbString(c)]
  /\ UNCHANGED <<verificationId, text, otpMode, sentToLabel, spinning, loginShown,
                 created, visible, modal, mainQueue, backend, device>>

\* A call of AuthManager.startAuth, made by controller c.
StartAuth(c, r, number, resend) ==
  /\ sms[r].state = "idle"
  /\ sms' = [sms EXCEPT ![r] = [state |-> "flying", ctrl |-> c,
                                number |-> number, resend |-> resend]]

\* submitBtnAction as "Get OTP": sendSMSCode sends what the field holds now.
GetOtp(c, r) ==
  /\ LoginBox(c)
  /\ ~otpMode[c]
  /\ text[c] # Empty
  /\ spinning' = [spinning EXCEPT ![c] = TRUE]
  /\ StartAuth(c, r, text[c], FALSE)
  /\ UNCHANGED <<verificationId, text, mobileNumberStr, otpMode, sentToLabel,
                 loginShown, created, visible, modal, mainQueue, attempt,
                 redeemed, device>>

\* resendOtpBtnAction sends to mobileNumberStr, and starts no spinner.
ResendOtp(c, r) ==
  /\ LoginBox(c)
  /\ otpMode[c]
  /\ StartAuth(c, r, mobileNumberStr[c], TRUE)
  /\ UNCHANGED <<verificationId, screens, mainQueue, attempt, redeemed, device>>

\* submitBtnAction as "Verify OTP": the credential is made from the verification
\* ID of this moment.  Without one verifyCode fails at once, with a toast only.
VerifyOtp(c, a) ==
  /\ LoginBox(c)
  /\ otpMode[c]
  /\ text[c] # Empty
  /\ verificationId # Nil
  /\ attempt[a].state = "idle"
  /\ attempt' = [attempt EXCEPT ![a] = [state |-> "flying", ctrl |-> c,
                                        session |-> verificationId,
                                        code |-> text[c]]]
  /\ UNCHANGED <<verificationId, screens, mainQueue, sms, redeemed, device>>

-----------------------------------------------------------------------------
(* Firebase: answers, in any order, each a block on the main queue *)

\* The SDK's answer, at any time or never: an error, or, unless the number is empty,
\* a verification ID.
AnswerSms(r, ok) ==
  /\ sms[r].state = "flying"
  /\ ok => sms[r].number # Empty
  /\ sms' = [sms EXCEPT ![r].state = IF ok THEN "sent" ELSE "refused"]
  /\ mainQueue' = Append(mainQueue, Async("smsAnswer", r, ok))
  /\ UNCHANGED <<verificationId, screens, attempt, redeemed, device>>

\* Mutant: the user is made current although the keychain refused.
AnswerSignInByForce(a, accepted, saved) ==
  /\ attempt[a].state = "flying"
  /\ saved => accepted
  /\ accepted => attempt[a].code = attempt[a].session
  /\ attempt' = [attempt EXCEPT ![a].state = "answered"]
  /\ redeemed' = IF accepted THEN redeemed \cup {attempt[a].session} ELSE redeemed
  /\ currentUser' = IF accepted THEN sms[attempt[a].session].number ELSE currentUser
  /\ mainQueue' = Append(mainQueue, Async("signInAnswer", a, saved))
  /\ UNCHANGED <<verificationId, screens, sms, storedNumber>>

\* The user is saved to the keychain before the callback is queued; when the
\* save fails the call fails although the back end accepted the code.
AnswerSignIn(a, accepted, saved) ==
  /\ attempt[a].state = "flying"
  /\ saved => accepted
  /\ accepted => attempt[a].code = attempt[a].session
  /\ attempt' = [attempt EXCEPT ![a].state = "answered"]
  /\ redeemed' = IF accepted THEN redeemed \cup {attempt[a].session} ELSE redeemed
  /\ currentUser' = IF saved THEN sms[attempt[a].session].number ELSE currentUser
  /\ mainQueue' = Append(mainQueue, Async("signInAnswer", a, saved))
  /\ UNCHANGED <<verificationId, screens, sms, storedNumber>>

-----------------------------------------------------------------------------
(* The main queue *)

\* Mutant: the callback forgets to keep the verification ID.
RunSmsAnswerNotKept ==
  LET r == NextBlockOf
      c == sms[r].ctrl IN
  /\ NextBlock("smsAnswer")
  /\ mainQueue' = IF NextBlockOk
                    THEN Append(Tail(mainQueue), Async("showOtp", c, TRUE))
                    ELSE Tail(mainQueue)
  /\ spinning' = IF NextBlockOk \/ sms[r].resend THEN spinning
                  ELSE [spinning EXCEPT ![c] = FALSE]
  /\ UNCHANGED <<verificationId, text, mobileNumberStr, otpMode, sentToLabel,
                 loginShown, created, visible, modal, backend, device>>

\* startAuth's callback, then the completion of sendSMSCode or resendOtpBtnAction.
RunSmsAnswer ==
  LET r == NextBlockOf
      c == sms[r].ctrl IN
  /\ NextBlock("smsAnswer")
  /\ IF NextBlockOk
       THEN /\ verificationId' = r
            /\ mainQueue' = Append(Tail(mainQueue), Async("showOtp", c, TRUE))
            /\ UNCHANGED spinning
       ELSE /\ mainQueue' = Tail(mainQueue)
            /\ spinning' = IF sms[r].resend THEN spinning
                           ELSE [spinning EXCEPT ![c] = FALSE]
            /\ UNCHANGED verificationId
  /\ UNCHANGED <<text, mobileNumberStr, otpMode, sentToLabel, loginShown, created,
                 visible, modal, backend, device>>

\* Mutant: clearTextAndUpdateUIToOTP without hideActivityIndicator.
RunShowOtpStillSpinning ==
  LET c == NextBlockOf IN
  /\ NextBlock("showOtp")
  /\ mainQueue' = Tail(mainQueue)
  /\ text' = [text EXCEPT ![c] = Empty]
  /\ otpMode' = [otpMode EXCEPT ![c] = TRUE]
  /\ sentToLabel' = [sentToLabel EXCEPT ![c] = mobileNumberStr[c]]
  /\ UNCHANGED <<verificationId, mobileNumberStr, spinning, loginShown, created,
                 visible, modal, backend, device>>

\* clearTextAndUpdateUIToOTP.
RunShowOtp ==
  LET c == NextBlockOf IN
  /\ NextBlock("showOtp")
  /\ mainQueue' = Tail(mainQueue)
  /\ spinning' = [spinning EXCEPT ![c] = FALSE]
  /\ text' = [text EXCEPT ![c] = Empty]
  /\ otpMode' = [otpMode EXCEPT ![c] = TRUE]
  /\ sentToLabel' = [sentToLabel EXCEPT ![c] = mobileNumberStr[c]]
  /\ UNCHANGED <<verificationId, mobileNumberStr, loginShown, created, visible,
                 modal, backend, device>>

\* Mutant: the completion of submitBtnAction without its guard on success.
RunSignInAnswerUnguarded ==
  LET c == attempt[NextBlockOf].ctrl IN
  /\ NextBlock("signInAnswer")
  /\ mainQueue' = Append(Tail(mainQueue), Async("presentSignUp", c, TRUE))
  /\ UNCHANGED <<verificationId, screens, backend, device>>

\* verifyCode's callback and the completion of submitBtnAction.
RunSignInAnswer ==
  LET c == attempt[NextBlockOf].ctrl IN
  /\ NextBlock("signInAnswer")
  /\ mainQueue' = IF NextBlockOk
                    THEN Append(Tail(mainQueue), Async("presentSignUp", c, TRUE))
                    ELSE Tail(mainQueue)
  /\ UNCHANGED <<verificationId, screens, backend, device>>

\* presentSignupVC.  UIKit presents one controller at a time, and may refuse a
\* controller whose view has left the window.
RunPresentSignUp ==
  LET c == NextBlockOf IN
  /\ NextBlock("presentSignUp")
  /\ mainQueue' = Tail(mainQueue)
  /\ \/ /\ modal = Nil
        /\ modal' = [ctrl |-> c, number |-> mobileNumberStr[c]]
     \/ /\ modal # Nil \/ visible # c
        /\ UNCHANGED modal
  /\ UNCHANGED <<verificationId, text, mobileNumberStr, otpMode, sentToLabel,
                 spinning, loginShown, created, visible, backend, device>>

-----------------------------------------------------------------------------
(* The sign-up form, sign-out, the side menu and the process *)

\* Mutant: signUpBtnAction without its test for an empty number.
SignUpStoresEmpty ==
  /\ modal # Nil
  /\ storedNumber' = modal.number
  /\ loginShown' = [loginShown EXCEPT ![modal.ctrl] = CheckUserSignIn(currentUser)]
  /\ modal' = Nil
  /\ UNCHANGED <<verificationId, text, mobileNumberStr, otpMode, sentToLabel,
                 spinning, created, visible, mainQueue, backend, currentUser>>

\* signUpBtnAction, when every field passes: the number is stored unless the form
\* shows none, the delegate refreshes its boxes, the form is dismissed.
SignUp ==
  /\ modal # Nil
  /\ storedNumber' = IF modal.number = Empty THEN storedNumber ELSE modal.number
  /\ loginShown' = [loginShown EXCEPT ![modal.ctrl] = CheckUserSignIn(currentUser)]
  /\ modal' = Nil
  /\ UNCHANGED <<verificationId, text, mobileNumberStr, otpMode, sentToLabel,
                 spinning, created, visible, mainQueue, backend, currentUser>>

\* Mutant: signOutBtnAction without its call of viewWillAppear.
SignOutNoRefresh(c, ok) ==
  /\ ProfileBox(c)
  /\ storedNumber' = Nil
  /\ currentUser' = IF ok THEN Nil ELSE currentUser
  /\ UNCHANGED <<verificationId, screens, mainQueue, backend>>

\* signOutBtnAction: the stored number goes first; the Firebase user stays when
\* the keychain refuses; viewWillAppear then picks the box to show.
SignOut(c, ok) ==
  /\ ProfileBox(c)
  /\ storedNumber' = Nil
  /\ currentUser' = IF ok THEN Nil ELSE currentUser
  /\ loginShown' = [loginShown EXCEPT ![c] = CheckUserSignIn(currentUser')]
  /\ UNCHANGED <<verificationId, text, mobileNumberStr, otpMode, sentToLabel,
                 spinning, created, visible, modal, mainQueue, backend>>

\* Leaving a screen ends the editing of its field.
EndEditingOnLeave ==
  mobileNumberStr' = [c \in Controllers |->
                        IF c = visible /\ loginShown[c]
                          THEN UpdateMobileNumbString(c) ELSE mobileNumberStr[c]]

\* Mutant: showViewController without addChild.
OpenProfileNotAdded(c) ==
  /\ modal = Nil
  /\ c \notin created
  /\ visible' = c
  /\ loginShown' = [loginShown EXCEPT ![c] = CheckUserSignIn(currentUser)]
  /\ EndEditingOnLeave
  /\ UNCHANGED <<verificationId, text, otpMode, sentToLabel, spinning, created,
                 modal, mainQueue, backend, device>>

\* selectedCell 1: a new ProfileViewController.  The old one leaves the screen
\* but stays a child of MainViewController, and so stays alive.
OpenProfile(c) ==
  /\ modal = Nil
  /\ c \notin created
  /\ created' = created \cup {c}
  /\ visible' = c
  /\ loginShown' = [loginShown EXCEPT ![c] = CheckUserSignIn(currentUser)]
  /\ EndEditingOnLeave
  /\ UNCHANGED <<verificationId, text, otpMode, sentToLabel, spinning, modal,
                 mainQueue, backend, device>>

\* selectedCell 0, and 2 to 4: any screen that is not a ProfileViewController.
OpenHome ==
  /\ modal = Nil
  /\ visible # Home
  /\ visible' = Home
  /\ EndEditingOnLeave
  /\ UNCHANGED <<verificationId, text, otpMode, sentToLabel, spinning, loginShown,
                 created, modal, mainQueue, backend, device>>

\* The process dies and is launched again: calls in flight are never answered, and
\* none of its sign-in calls is one of the new process.
Relaunch ==
  /\ UNCHANGED <<redeemed, device>>
  /\ verificationId' = Nil
  /\ text' = Fresh(Empty)
  /\ mobileNumberStr' = Fresh(Empty)
  /\ otpMode' = Fresh(FALSE)
  /\ sentToLabel' = Fresh(Nil)
  /\ spinning' = Fresh(FALSE)
  /\ modal' = Nil
  /\ mainQueue' = <<>>
  /\ \E screen \in FirstScreens(storedNumber, currentUser) :
       /\ visible' = screen.visible
       /\ created' = screen.created
       /\ loginShown' = screen.loginShown
  /\ sms' = [r \in Requests |->
               IF sms[r].state = "flying" THEN [sms[r] EXCEPT !.state = "lost"]
                                          ELSE sms[r]]
  /\ attempt' = [a \in Attempts |->
               IF attempt[a].state = "idle" THEN attempt[a]
                                            ELSE [attempt[a] EXCEPT !.state = "lost"]]

-----------------------------------------------------------------------------
(* The numeric field accepts any digits; a phone number typed as a code is one
   more wrong code, so each mode offers the texts that can make a difference. *)
Offered(c) == {Empty} \cup IF otpMode[c] THEN Requests ELSE Numbers

UserStep ==
  \/ \E c \in Controllers :
       \/ \E t \in Offered(c) : EditText(c, t)
       \/ EndEditing(c)
       \/ \E r \in Requests : GetOtp(c, r) \/ ResendOtp(c, r)
       \/ \E a \in Attempts : VerifyOtp(c, a)
       \/ \E ok \in BOOLEAN : SignOut(c, ok)
       \/ OpenProfile(c)
  \/ SignUp
  \/ OpenHome

BackendStep ==
  \/ \E r \in Requests, ok \in BOOLEAN : AnswerSms(r, ok)
  \/ \E a \in Attempts, accepted, saved \in BOOLEAN : AnswerSignIn(a, accepted, saved)

RunBlock == RunSmsAnswer \/ RunShowOtp \/ RunSignInAnswer \/ RunPresentSignUp

Next == UserStep \/ BackendStep \/ RunBlock \/ Relaunch

Spec == Init /\ [][Next]_vars

(***************************************************************************)
(* The main run loop drains its queue.  Nothing is assumed of the user, nor *)
(* of the SDK, which leaves a call unanswered as long as its page is open  *)
(* (PhoneVerification: NeverAtWorkForEver).                                *)
(***************************************************************************)
Fairness == WF_vars(RunBlock)

FairSpec == Spec /\ Fairness

-----------------------------------------------------------------------------
(* Safety *)

\* Controller c has, in this process, submitted a code that the back end accepted.
HasAcceptedCode(c) ==
  \E a \in Attempts : /\ attempt[a].state = "answered"
                      /\ attempt[a].ctrl = c
                      /\ attempt[a].session \in redeemed

\* A controller that asks for a code has a session to check it against: the
\* guard at the head of verifyCode never fails for a user of the app, although
\* the session is stored by one block and the screen switched by a later one.
OtpModeHasSession == \A c \in Controllers : otpMode[c] => verificationId # Nil

\* The Firebase user is a phone number that was sent a code, and that code was
\* accepted: never the text of another field, never a session that failed.
UserHoldsAcceptedNumber ==
  currentUser # Nil =>
    \E s \in redeemed : /\ sms[s].state = "sent"
                        /\ sms[s].number = currentUser
                        /\ currentUser \in Numbers

\* While the code of a resent SMS is the one that counts, "Enter OTP sent to"
\* names the phone it went to, whatever was typed or which screen was opened.
ResendGoesToLabel ==
  verificationId # Nil /\ sms[verificationId].resend =>
    sentToLabel[sms[verificationId].ctrl] = sms[verificationId].number

\* A profile is on screen only while Firebase has a user.
ProfileOnScreenHasUser ==
  visible # Home /\ ~loginShown[visible] => currentUser # Nil

\* A sign-up form is open only for a controller that submitted an accepted code.
SignUpFollowsAcceptedCode ==
  modal # Nil => HasAcceptedCode(modal.ctrl)

\* The form offers to register the number the screen said the code was sent to,
\* whatever was typed, resent, answered or opened since.
FormShowsLabel ==
  modal # Nil => modal.number = sentToLabel[modal.ctrl]

(* The spinner *)

\* Controller c waits for an answer to "Get OTP".
Unanswered(c) ==
  \E r \in Requests : sms[r].state = "flying" /\ sms[r].ctrl = c /\ ~sms[r].resend

Waiting(queue) == {queue[i] : i \in 1..Len(queue)}

\* Block b stops the spinner of controller c, or queues the block that does.
StopsSpinner(b, c) ==
  \/ b.kind = "smsAnswer" /\ sms[b.of].ctrl = c /\ (b.ok \/ ~sms[b.of].resend)
  \/ b.kind = "showOtp" /\ b.of = c

\* A spinner turns only while its call is unanswered or a waiting block is going to
\* stop it: no order of answers to two calls of one screen drops the last such block.
EverySpinnerIsOwed ==
  \A c \in Controllers :
    spinning[c] => Unanswered(c) \/ \E b \in Waiting(mainQueue) : StopsSpinner(b, c)

\* The spinner of "Get OTP" turns for ever only behind a call that is never answered:
\* an answer, good or bad, stops it, wherever the user has gone meanwhile.
SpinnerStops == \A c \in Controllers : []<>(~spinning[c] \/ Unanswered(c))

(* What the parts promise one another *)

SignInAnswerWaits(a, ok) == Async("signInAnswer", a, ok) \in Waiting(mainQueue)

\* How far a call of signIn is, as SessionService sees it.
AttemptProgress(a) ==
  CASE attempt[a].state = "idle"   -> "idle"
    [] attempt[a].state = "flying" -> "asked"
    [] OTHER -> IF SignInAnswerWaits(a, TRUE) THEN "good"
                ELSE IF SignInAnswerWaits(a, FALSE) THEN "bad" ELSE "over"

AttemptNumber(a) ==
  IF attempt[a].session = Nil THEN Nil ELSE sms[attempt[a].session].number

Session == INSTANCE SessionService WITH
  Calls <- Attempts,
  Users <- Numbers,
  call  <- [a \in Attempts |-> AttemptProgress(a)],
  of    <- [a \in Attempts |-> AttemptNumber(a)],
  user  <- currentUser

\* The app takes from signIn, signOut and currentUser what UserSession gives: a user
\* only with a good answer, whose number is the one the session was opened for, none
\* lost but by signing out, and no answer of an earlier process.
KeepsToTheSession == Session!Spec

Flow == INSTANCE SignInFlow WITH
  Sessions   <- Requests,
  texted     <- [r \in Requests |-> IF sms[r].state = "sent" THEN sms[r].number ELSE Nil],
  accepted   <- redeemed,
  user       <- currentUser,
  registered <- storedNumber

\* Through crossing answers, screens left behind, double taps and restarts, the user
\* and the registered number change only as SignInFlow has them change.
FollowsTheFlow == Flow!Spec

Registry == INSTANCE Registration WITH
  form       <- IF modal = Nil THEN Nil ELSE modal.number,
  registered <- storedNumber

\* Whoever presents it, however late, a form registers the number it was presented
\* with, once; the form's other outcomes are UserDetails'.
RegistersByForm == Registry!Spec

(* What the app's own words claim *)

\* "Enter OTP sent to ..." names the phone that the current code was sent to.
LabelNamesRecipient ==
  \A c \in Controllers :
    otpMode[c] /\ sms[verificationId].ctrl = c =>
      sentToLabel[c] = sms[verificationId].number

\* "Signed out successfully" is shown when nobody is signed in any more.
SignOutSignsOut ==
  [][\A c \in Controllers, ok \in BOOLEAN : SignOut(c, ok) => currentUser' = Nil]_vars

-----------------------------------------------------------------------------
(* The inductive invariant behind the safety properties *)

\* A resend asks for the number that its controller, which asks for a code and
\* so no longer changes it, goes on showing.
ResendStands(r) ==
  sms[r].resend => /\ otpMode[sms[r].ctrl]
                   /\ sms[r].number = mobileNumberStr[sms[r].ctrl]

\* What each waiting block may rely on when it runs.
BlockStands(b) ==
  /\ b.kind = "smsAnswer" =>
       /\ sms[b.of].state # "idle"
       /\ b.ok => sms[b.of].state = "sent"
       /\ ResendStands(b.of)
  /\ b.kind = "showOtp" => verificationId # Nil
  /\ b.kind = "signInAnswer" =>
       /\ attempt[b.of].state = "answered"
       /\ b.ok => attempt[b.of].session \in redeemed
  /\ b.kind = "presentSignUp" => HasAcceptedCode(b.of)

QueueStands == \A b \in Waiting(mainQueue) : BlockStands(b)

\* Every call has a caller, and goes to a number that is not a code; a screen that
\* has submitted a code goes on asking for one, so its number is frozen.
CallsStand ==
  /\ \A r \in Requests :
       /\ sms[r].state # "idle" => sms[r].ctrl \in Controllers
       /\ sms[r].number \notin Requests
       /\ sms[r].state = "sent" => sms[r].number # Empty
       /\ sms[r].state = "flying" \/ verificationId = r => ResendStands(r)
  /\ \A a \in Attempts :
       /\ attempt[a].state # "idle" => attempt[a].ctrl \in Controllers
       /\ attempt[a].session # Nil => sms[attempt[a].session].state = "sent"
       /\ attempt[a].state \in {"flying", "answered"} => otpMode[attempt[a].ctrl]

\* The fields of each controller agree with its mode.
FieldsStand ==
  \A c \in Controllers :
    /\ mobileNumberStr[c] \notin Requests
    /\ ~otpMode[c] => text[c] \notin Requests
    /\ otpMode[c] => sentToLabel[c] = mobileNumberStr[c]

\* The sessions the app and Firebase know have been opened.
SessionsStand ==
  /\ verificationId # Nil => sms[verificationId].state = "sent"
  /\ \A s \in redeemed : sms[s].state = "sent"

IInv ==
  /\ TypeOK
  /\ QueueStands
  /\ CallsStand
  /\ FieldsStand
  /\ SessionsStand
  /\ OtpModeHasSession
  /\ UserHoldsAcceptedNumber
  /\ ProfileOnScreenHasUser
  /\ SignUpFollowsAcceptedCode
  /\ FormShowsLabel
  /\ EverySpinnerIsOwed

=============================================================================
