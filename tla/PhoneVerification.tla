-------------------------- MODULE PhoneVerification --------------------------
(***************************************************************************)
(* verifyPhoneNumber of the Firebase SDK: how a call proves that it comes  *)
(* from this app before the back end sends the SMS.  A call first learns   *)
(* whether the app forwards remote notifications (FIRAuthNotification-     *)
(* Manager); without a credential in hand it asks for an APNs token        *)
(* (FIRAuthAPNSTokenManager) and has the back end push a secret to it      *)
(* (FIRAuthAppCredentialManager); when that fails it shows the user a      *)
(* reCAPTCHA page (FIRAuthURLPresenter).  FIRPhoneAuthProvider strings     *)
(* these waits together and tries once more when the back end rejects the  *)
(* credential.                                                             *)
(*                                                                         *)
(* Every handler runs on the serial work queue of the SDK, so an action is *)
(* one block of that queue.  The callbacks waiting for one event run in    *)
(* one block and all take the same way, so one action moves all of them.   *)
(* The back end, APNs, the keychain, UIKit and the user are the            *)
(* environment.                                                            *)
(***************************************************************************)
EXTENDS Integers, FiniteSetsExt

CONSTANTS
  Calls,        (* calls of verifyPhoneNumber                               *)
  MaxPending,   (* kMaximumNumberOfPendingReceipts                          *)
  MaxReceipts,  (* bound: receipts the back end hands out                   *)
  MaxLostSaves, (* bound: saves that the keychain refuses                   *)
  Nil           (* Objective-C's nil                                        *)

Answers    == {"token", "error", "neither"}
PageStates == {"opening", "open", "refused"} \cup Answers
Pages      == [call : Calls, at : PageStates]

ASSUME VerificationAssumption ==
  /\ MaxPending \in Nat \ {0}
  /\ MaxReceipts \in Nat
  /\ MaxLostSaves \in Nat
  /\ Nil \notin Nat
  /\ Nil \notin Pages

VARIABLES
  stage,        (* per call: what it waits for                              *)
  retry,        (* per call: retryOnInvalidAppCredential                    *)
  receipt,      (* per call: receipt it has a callback for in _callbacksBy- *)
                (* Receipt, or Nil                                          *)
  proof,        (* per call: credential in its request, Nil for a reCAPTCHA *)
  rejected,     (* per call: the credential whose rejection made it retry   *)
  granted,      (* calls answered with a verification ID                    *)
  forwarding,   (* what the notification manager found out so far           *)
  prober,       (* the prober's block waits on the main queue               *)
  token,        (* an APNs token is known                                   *)
  asked,        (* the app has registered for remote notifications          *)
  waiting,      (* the token manager has _pendingCallbacks                  *)
  batch,        (* how many lists of _pendingCallbacks there have been      *)
  timers,       (* lists whose timeout has not fired yet                    *)
  credential,   (* _credential, named by its receipt, or Nil                *)
  pending,      (* _pendingReceipts                                         *)
  saved,        (* the keychain's copy of credential and pending            *)
  lostSaves,    (* used-up bound                                            *)
  issued,       (* how many receipts the back end has issued                *)
  spurned,      (* history: credentials whose rejection made any call retry *)
  page          (* the page being presented, or Nil: not _isPresenting      *)

answers == <<retry, receipt, proof, rejected, granted>>
probe   == <<forwarding, prober>>
apns    == <<token, asked, waiting, batch, timers>>
secrets == <<credential, pending, saved, lostSaves, issued, spurned>>
vars    == <<stage, answers, probe, apns, secrets, page>>

-----------------------------------------------------------------------------
(* Values.  Receipts are numbered in the order in which they are handed out,
   which is also the order of the array _pendingReceipts. *)

Stages == {"idle", "queued", "probing", "awaitingToken", "verifyingClient",
           "awaitingPush", "fetchingDomain", "browsing", "sending", "answered",
           "over", "dropped"}

Receipts == 1..issued
Optional(S) == S \cup {Nil}
Keychain == [credential : Optional(Receipts), pending : SUBSET Receipts]

TypeOK ==
  /\ stage \in [Calls -> Stages]
  /\ retry \in [Calls -> BOOLEAN]
  /\ receipt \in [Calls -> Optional(Receipts)]
  /\ proof \in [Calls -> Optional(Receipts)]
  /\ rejected \in [Calls -> Optional(Receipts)]
  /\ granted \in SUBSET Calls
  /\ forwarding \in {"unchecked", "checking", "yes", "no"}
  /\ prober \in BOOLEAN
  /\ token \in BOOLEAN
  /\ asked \in BOOLEAN
  /\ waiting \in BOOLEAN
  /\ batch \in Nat
  /\ timers \in SUBSET (1..batch)
  /\ lostSaves \in 0..MaxLostSaves
  /\ issued \in 0..MaxReceipts
  /\ credential \in Optional(Receipts)
  /\ spurned \in SUBSET Receipts
  /\ pending \in SUBSET Receipts
  /\ Cardinality(pending) <= MaxPending
  /\ saved \in Keychain
  /\ Cardinality(saved.pending) <= MaxPending
  /\ page \in Pages \cup {Nil}

Init ==
  /\ stage = [c \in Calls |-> "idle"]
  /\ retry = [c \in Calls |-> TRUE]
  /\ receipt = [c \in Calls |-> Nil]
  /\ proof = [c \in Calls |-> Nil]
  /\ rejected = [c \in Calls |-> Nil]
  /\ granted = {}
  /\ forwarding = "unchecked"
  /\ prober = FALSE
  /\ token = FALSE
  /\ asked = FALSE
  /\ waiting = FALSE
  /\ batch = 0
  /\ timers = {}
  /\ credential = Nil
  /\ spurned = {}
  /\ pending = {}
  /\ saved = [credential |-> Nil, pending |-> {}]
  /\ lostSaves = 0
  /\ issued = 0
  /\ page = Nil

At(s) == {c \in Calls : stage[c] = s}

\* The calls in S go on to stage s.
Move(S, s) == stage' = [c \in Calls |-> IF c \in S THEN s ELSE stage[c]]

-----------------------------------------------------------------------------
(* FIRPhoneAuthProvider: the start of a call *)

\* verifyPhoneNumber: the rest runs on the work queue.
VerifyPhoneNumber(c) ==
  /\ stage[c] = "idle"
  /\ Move({c}, "queued")
  /\ UNCHANGED <<answers, probe, apns, secrets, page>>

\* getTokenWithCallback for a call without a token: the first one registers the
\* app and starts a timer, the others join it.
GetToken ==
  IF waiting
    THEN UNCHANGED apns
    ELSE /\ waiting' = TRUE
         /\ asked' = TRUE
         /\ batch' = batch + 1
         /\ timers' = timers \cup {batch + 1}
         /\ UNCHANGED token

\* verifyClientWithUIDelegate for the calls in S, with the credential in hand.
VerifyClient(S, inHand) ==
  /\ proof' = [c \in Calls |-> IF c \in S THEN inHand ELSE proof[c]]
  /\ IF inHand # Nil
       THEN Move(S, "sending") /\ UNCHANGED apns
       ELSE IF token THEN Move(S, "verifyingClient") /\ UNCHANGED apns
                     ELSE Move(S, "awaitingToken") /\ GetToken

\* Mutant: the work queue runs the app's completion block itself.
MissingPhoneNumberOffMain(c) ==
  /\ stage[c] = "queued"
  /\ Move({c}, "over")
  /\ UNCHANGED <<answers, probe, apns, secrets, page>>

\* internalVerifyPhoneNumber of an empty number: an error at once.
MissingPhoneNumber(c) ==
  /\ stage[c] = "queued"
  /\ Move({c}, "answered")
  /\ UNCHANGED <<answers, probe, apns, secrets, page>>

\* checkNotificationForwarding: the first call sends a prober through the app's
\* delegate, the calls made meanwhile wait for its verdict.
Probe(c) ==
  /\ stage[c] = "queued"
  /\ forwarding \in {"unchecked", "checking"}
  /\ Move({c}, "probing")
  /\ forwarding' = "checking"
  /\ prober' = (prober \/ forwarding = "unchecked")
  /\ UNCHANGED <<answers, apns, secrets, page>>

\* The verdict of an earlier check.
FollowVerdict(c) ==
  /\ stage[c] = "queued"
  /\ \/ /\ forwarding = "yes"
        /\ VerifyClient({c}, credential)
     \/ /\ forwarding = "no"
        /\ Move({c}, "answered")
        /\ UNCHANGED <<proof, apns>>
  /\ UNCHANGED <<retry, receipt, rejected, granted, probe, secrets, page>>

-----------------------------------------------------------------------------
(* FIRAuthNotificationManager *)

\* The main thread hands the prober to the app's delegate, which forwards it
\* (the Firebase proxy of the delegate is on): canHandleNotification.
RunProber ==
  /\ prober
  /\ prober' = FALSE
  /\ IF forwarding = "checking"
       THEN /\ forwarding' = "yes"
            /\ VerifyClient(At("probing"), credential)
       ELSE UNCHANGED <<forwarding, stage, proof, apns>>
  /\ UNCHANGED <<retry, receipt, rejected, granted, secrets, page>>

\* kProbingTimeout is over and the prober has not come back.
ProbeTimeout ==
  /\ forwarding = "checking"
  /\ forwarding' = "no"
  /\ Move(At("probing"), "answered")
  /\ UNCHANGED <<answers, prober, apns, secrets, page>>

-----------------------------------------------------------------------------
(* FIRAuthAPNSTokenManager *)

\* Mutant: setToken keeps the token and forgets who waits for it.
ReceiveTokenSilently ==
  /\ asked
  /\ token' = TRUE
  /\ waiting' = FALSE
  /\ UNCHANGED <<stage, asked, batch, timers, answers, probe, secrets, page>>

\* didRegisterForRemoteNotifications, at any time after the registration, and
\* any number of times: setToken.
ReceiveToken ==
  /\ asked
  /\ token' = TRUE
  /\ waiting' = FALSE
  /\ Move(At("awaitingToken"), "verifyingClient")
  /\ UNCHANGED <<asked, batch, timers, answers, probe, secrets, page>>

\* callBackWithToken:nil, for a failed registration or a timeout.
GiveUpToken ==
  /\ waiting' = FALSE
  /\ Move(At("awaitingToken"), "fetchingDomain")

\* didFailToRegisterForRemoteNotifications: cancelWithError.
RegistrationFails ==
  /\ asked
  /\ waiting
  /\ GiveUpToken
  /\ UNCHANGED <<token, asked, batch, timers, answers, probe, secrets, page>>

\* Mutant: the timeout without its comparison of the two lists.
TokenTimeoutOfAnyList(n) ==
  /\ n \in timers
  /\ timers' = timers \ {n}
  /\ IF waiting THEN GiveUpToken ELSE UNCHANGED <<waiting, stage>>
  /\ UNCHANGED <<token, asked, batch, answers, probe, secrets, page>>

\* The timeout of list n of callbacks: it cancels only the list it was set for.
TokenTimeout(n) ==
  /\ n \in timers
  /\ timers' = timers \ {n}
  /\ IF waiting /\ n = batch THEN GiveUpToken ELSE UNCHANGED <<waiting, stage>>
  /\ UNCHANGED <<token, asked, batch, answers, probe, secrets, page>>

-----------------------------------------------------------------------------
(* FIRAuthAppCredentialManager, and the back end's verifyClient *)

\* saveData ignores the errors of the keychain.
SaveData(inHand, receipts) ==
  \/ /\ saved' = [credential |-> inHand, pending |-> receipts]
     /\ UNCHANGED lostSaves
  \/ /\ lostSaves < MaxLostSaves
     /\ lostSaves' = lostSaves + 1
     /\ UNCHANGED saved

\* Mutant: the oldest receipt goes when there are more than the limit.
DiscardOldestLate(receipts) ==
  IF Cardinality(receipts) > MaxPending THEN receipts \ {Min(receipts)} ELSE receipts

\* Mutant: the newest receipt goes.
DiscardNewest(receipts) ==
  IF Cardinality(receipts) >= MaxPending THEN receipts \ {Max(receipts)} ELSE receipts

\* The oldest receipt goes when there is no room for another.
DiscardOldest(receipts) ==
  IF Cardinality(receipts) >= MaxPending THEN receipts \ {Min(receipts)} ELSE receipts

\* The back end has issued a receipt: didStartVerificationWithReceipt.  Each is
\* assumed to be a new one: removeObject finds nothing, no callback is overwritten.
DidStartVerification(c) ==
  /\ stage[c] = "verifyingClient"
  /\ issued < MaxReceipts
  /\ Move({c}, "awaitingPush")
  /\ issued' = issued + 1
  /\ receipt' = [receipt EXCEPT ![c] = issued']
  /\ pending' = DiscardOldest(pending) \cup {issued'}
  /\ SaveData(credential, pending')
  /\ UNCHANGED <<retry, proof, rejected, granted, probe, apns, credential, spurned,
                 page>>

\* verifyClient failed: an error of the token goes on to the reCAPTCHA page, any
\* other error ends the call.
VerifyClientFails(c) ==
  /\ stage[c] = "verifyingClient"
  /\ \E next \in {"fetchingDomain", "answered"} : Move({c}, next)
  /\ UNCHANGED <<answers, probe, apns, secrets, page>>

\* The call whose callback is kept for receipt r.
CallbackOf(r) == {c \in Calls : receipt[c] = r}

\* callBackWithReceipt for the calls in S: each once, with the credential in hand,
\* or with none, which sends it to the reCAPTCHA page.
CallBack(S, inHand) ==
  /\ Move(S, IF inHand # Nil THEN "sending" ELSE "fetchingDomain")
  /\ proof' = [c \in Calls |-> IF c \in S THEN inHand ELSE proof[c]]
  /\ receipt' = [c \in Calls |-> IF c \in S THEN Nil ELSE receipt[c]]

\* A push with receipt r and its secret: canFinishVerification.  It may come late,
\* after a restart, or never; one whose receipt is not pending (too early, twice,
\* discarded) is not handled and changes nothing.  The back end is assumed to send no
\* receipt without its secret, for which canHandleNotification has no effective test.
ReceivePush(r) ==
  /\ r \in pending
  /\ pending' = pending \ {r}
  /\ credential' = r
  /\ SaveData(r, pending')
  /\ CallBack(CallbackOf(r), r)
  /\ UNCHANGED <<retry, rejected, granted, probe, apns, issued, spurned, page>>

\* Mutant: the timeout calls back only for a receipt that is still pending.
PushTimeoutIfPending(c) ==
  /\ receipt[c] \in pending
  /\ CallBack({c}, credential)
  /\ UNCHANGED <<retry, rejected, granted, probe, apns, secrets, page>>

\* The suggested timeout is over, and the callback is still in the map.  Another
\* push may have brought a credential meanwhile.  The receipt stays pending.
PushTimeout(c) ==
  /\ receipt[c] # Nil
  /\ CallBack({c}, credential)
  /\ UNCHANGED <<retry, rejected, granted, probe, apns, secrets, page>>

-----------------------------------------------------------------------------
(* FIRAuthURLPresenter: one page at a time *)

\* fetchAuthDomain or the search for a supported domain fails.
NoAuthDomain(c) ==
  /\ stage[c] = "fetchingDomain"
  /\ Move({c}, "answered")
  /\ UNCHANGED <<answers, probe, apns, secrets, page>>

\* Mutant: presentURL without its test of _isPresenting.
PresentURLOverOther(c) ==
  /\ stage[c] = "fetchingDomain"
  /\ Move({c}, "browsing")
  /\ page' = [call |-> c, at |-> "opening"]
  /\ UNCHANGED <<answers, probe, apns, secrets>>

\* presentURL: an error while another page is presented.
PresentURL(c) ==
  /\ stage[c] = "fetchingDomain"
  /\ IF page # Nil
       THEN Move({c}, "answered") /\ UNCHANGED page
       ELSE Move({c}, "browsing") /\ page' = [call |-> c, at |-> "opening"]
  /\ UNCHANGED <<answers, probe, apns, secrets>>

\* The main thread presents the Safari controller, with no completion block:
\* UIKit may refuse (another controller is coming or going on top) unnoticed.
ShowPage ==
  /\ page # Nil
  /\ page.at = "opening"
  /\ page' \in {[page EXCEPT !.at = "open"], [page EXCEPT !.at = "refused"]}
  /\ UNCHANGED <<stage, answers, probe, apns, secrets>>

\* The user taps Done: finishPresentation with an error, at once.
UserClosesPage ==
  /\ page # Nil
  /\ page.at = "open"
  /\ Move({page.call}, "answered")
  /\ page' = Nil
  /\ UNCHANGED <<answers, probe, apns, secrets>>

\* The page opens the callback URL of this call, with a reCAPTCHA token, with a
\* firebaseError, or with neither: canHandleURL has the page dismissed first.
CallbackURL(answer) ==
  /\ page # Nil
  /\ page.at = "open"
  /\ page' = [page EXCEPT !.at = answer]
  /\ UNCHANGED <<stage, answers, probe, apns, secrets>>

\* The page is gone, finishBlock.  Without a token and without an error no
\* request is made and nobody is called back.
PageDismissed ==
  /\ page # Nil
  /\ page.at \in Answers
  /\ page' = Nil
  /\ Move({page.call}, CASE page.at = "token"   -> "sending"
                         [] page.at = "error"   -> "answered"
                         [] page.at = "neither" -> "dropped")
  /\ UNCHANGED <<answers, probe, apns, secrets>>

-----------------------------------------------------------------------------
(* FIRPhoneAuthProvider: the answer of sendVerificationCode *)

\* The SMS is on its way, or the call failed; a credential rejected a second time
\* is one more error.
SendAnswered(c, ok) ==
  /\ stage[c] = "sending"
  /\ Move({c}, "answered")
  /\ granted' = IF ok THEN granted \cup {c} ELSE granted
  /\ proof' = [proof EXCEPT ![c] = Nil]
  /\ UNCHANGED <<retry, receipt, rejected, probe, apns, secrets, page>>

\* Mutant: the retry without clearCredential.
CredentialRejectedNotCleared(c) ==
  /\ stage[c] = "sending"
  /\ retry[c]
  /\ retry' = [retry EXCEPT ![c] = FALSE]
  /\ rejected' = [rejected EXCEPT ![c] = proof[c]]
  /\ spurned' = spurned \cup ({proof[c]} \ {Nil})
  /\ VerifyClient({c}, credential)
  /\ UNCHANGED <<receipt, granted, probe, credential, pending, saved, lostSaves,
                 issued, page>>

\* Mutant: the retry leaves retryOnInvalidAppCredential as it was.
CredentialRejectedRetriesAgain(c) ==
  /\ stage[c] = "sending"
  /\ retry[c]
  /\ rejected' = [rejected EXCEPT ![c] = proof[c]]
  /\ spurned' = spurned \cup ({proof[c]} \ {Nil})
  /\ credential' = Nil
  /\ SaveData(Nil, pending)
  /\ VerifyClient({c}, Nil)
  /\ UNCHANGED <<retry, receipt, granted, probe, pending, issued, page>>

\* Mutant: clearCredential without saveData.
CredentialRejectedNotSaved(c) ==
  /\ stage[c] = "sending"
  /\ retry[c]
  /\ retry' = [retry EXCEPT ![c] = FALSE]
  /\ rejected' = [rejected EXCEPT ![c] = proof[c]]
  /\ spurned' = spurned \cup ({proof[c]} \ {Nil})
  /\ credential' = Nil
  /\ VerifyClient({c}, Nil)
  /\ UNCHANGED <<receipt, granted, probe, pending, saved, lostSaves, issued, page>>

\* InvalidAppCredential, the first time: clearCredential, whichever credential is
\* in hand by now, and verify the client again.
CredentialRejected(c) ==
  /\ stage[c] = "sending"
  /\ retry[c]
  /\ retry' = [retry EXCEPT ![c] = FALSE]
  /\ rejected' = [rejected EXCEPT ![c] = proof[c]]
  /\ spurned' = spurned \cup ({proof[c]} \ {Nil})
  /\ credential' = Nil
  /\ SaveData(Nil, pending)
  /\ VerifyClient({c}, Nil)
  /\ UNCHANGED <<receipt, granted, probe, pending, issued, page>>

\* callBackOnMainThread: the main thread runs the app's completion block.
Deliver(c) ==
  /\ stage[c] = "answered"
  /\ Move({c}, "over")
  /\ UNCHANGED <<answers, probe, apns, secrets, page>>

-----------------------------------------------------------------------------
(* The process *)

\* The app dies and is launched again: initWithKeychain reads what was saved last,
\* or, of a keychain that is locked or refuses, nothing.  Pushes still on their way
\* find their receipts pending if they were read.
Relaunch ==
  /\ stage' = [c \in Calls |-> IF stage[c] = "idle" THEN "idle" ELSE "over"]
  /\ retry' = [c \in Calls |-> TRUE]
  /\ receipt' = [c \in Calls |-> Nil]
  /\ proof' = [c \in Calls |-> Nil]
  /\ rejected' = [c \in Calls |-> Nil]
  /\ forwarding' = "unchecked"
  /\ prober' = FALSE
  /\ token' = FALSE
  /\ asked' = FALSE
  /\ waiting' = FALSE
  /\ batch' = 0
  /\ timers' = {}
  /\ \/ credential' = saved.credential /\ pending' = saved.pending
     \/ credential' = Nil /\ pending' = {}
  /\ page' = Nil
  /\ UNCHANGED <<granted, saved, lostSaves, issued, spurned>>

\* What the SDK's queues, the back end and the SDK's timers do for one call.
Advance(c) ==
  \/ MissingPhoneNumber(c)
  \/ Probe(c)
  \/ FollowVerdict(c)
  \/ DidStartVerification(c)
  \/ VerifyClientFails(c)
  \/ PushTimeout(c)
  \/ NoAuthDomain(c)
  \/ PresentURL(c)
  \/ \E ok \in BOOLEAN : SendAnswered(c, ok)
  \/ CredentialRejected(c)
  \/ Deliver(c)

Next ==
  \/ \E c \in Calls : VerifyPhoneNumber(c) \/ Advance(c)
  \/ RunProber
  \/ ProbeTimeout
  \/ ReceiveToken
  \/ RegistrationFails
  \/ \E n \in timers : TokenTimeout(n)
  \/ \E r \in pending : ReceivePush(r)
  \/ ShowPage
  \/ UserClosesPage
  \/ \E answer \in Answers : CallbackURL(answer)
  \/ PageDismissed
  \/ Relaunch

Spec == Init /\ [][Next]_vars

(***************************************************************************)
(* The work queue and the main queue run their blocks, timers fire, and a  *)
(* request to the back end succeeds or fails.  Nothing is assumed of the   *)
(* user, who may leave a page open, of APNs, or of the pushes.             *)
(***************************************************************************)
Fairness ==
  /\ \A c \in Calls : WF_vars(Advance(c))
  /\ WF_vars(RunProber)
  /\ WF_vars(ProbeTimeout)
  /\ WF_vars(\E n \in timers : TokenTimeout(n))
  /\ WF_vars(ShowPage \/ PageDismissed)

FairSpec == Spec /\ Fairness

-----------------------------------------------------------------------------
(* Safety *)

\* The page on screen belongs to the one call that waits for it: no second call
\* takes the place of the first in the presenter, and no call waits for a page that
\* has gone, although the page is dismissed long before the call goes on.
OnePageOneCall ==
  \A c \in Calls : stage[c] = "browsing" <=> page # Nil /\ page.call = c

\* Whoever waits is in a list that something will still empty: the check of the
\* notifications is running, or the timer of the current list of the token manager.
WaitersAreServed ==
  /\ At("probing") # {} => forwarding = "checking"
  /\ At("awaitingToken") # {} => waiting /\ batch \in timers

\* The push a call waits for will be accepted, unless so many receipts were handed
\* out since that its own had to go: neither pushes for other calls, nor timeouts,
\* retries or pushes left over from before a restart take it away.
AwaitedReceiptIsPending ==
  \A c \in Calls :
    receipt[c] # Nil /\ issued < receipt[c] + MaxPending => receipt[c] \in pending

\* A credential that made a call retry never comes back in that process: no late
\* or repeated push, timeout or other call hands it out again, and the retry of
\* the call sends something else.
RejectedStaysOut ==
  \A c \in Calls :
    rejected[c] # Nil => /\ credential # rejected[c]
                         /\ proof[c] # rejected[c]

\* As long as the keychain takes every save, that holds across restarts: no launch,
\* whether it can read the keychain or not, and no push that comes after it put a
\* credential back in hand that ever made a call retry.
OnlyLostSavesBringBack == lostSaves = 0 => credential \notin spurned

\* A timer left over from an earlier wait for a token cuts no later wait short.
StaleTimerEndsNoWait ==
  [][\A n \in timers \ timers' :
       batch' = batch /\ n # batch => UNCHANGED stage]_vars

\* An upper bound on the steps a call still has before it: each stage comes after the
\* ones of more steps, and a retry goes back by six at most, once.
StepsOf == [idle |-> 10, queued |-> 9, probing |-> 8, awaitingToken |-> 7,
            verifyingClient |-> 6, awaitingPush |-> 5, fetchingDomain |-> 4,
            browsing |-> 3, sending |-> 2, answered |-> 1, dropped |-> 1, over |-> 0]

StepsLeft(c) == StepsOf[stage[c]] + IF retry[c] /\ stage[c] # "over" THEN 6 ELSE 0

\* Every step that moves a call, also as one of many that wait for the same event,
\* brings it nearer its end: timeouts, late pushes, pages, rejections and restarts
\* can send it in no circle.
CallsRunDown ==
  [][\A c \in Calls : stage'[c] # stage[c] => StepsLeft(c)' < StepsLeft(c)]_vars

(* Liveness *)

\* The call waits for something that the SDK, or the system, will do by itself.
AtWork(c) ==
  \/ stage[c] \in {"queued", "probing", "awaitingToken", "verifyingClient",
                   "awaitingPush", "fetchingDomain", "sending", "answered"}
  \/ stage[c] = "browsing" /\ page.at \notin {"open", "refused"}

\* No call is at work for ever: it is answered and its answer delivered, or it waits
\* for the user at an open page.  The code's own exceptions are a page that UIKit
\* refused to show, and a callback URL that says nothing.
NeverAtWorkForEver == \A c \in Calls : []<>~AtWork(c)

(* The promise made to the app *)

\* A call as VerifyService sees it.
Progress(c) ==
  IF stage[c] \in {"idle", "answered", "over"} THEN stage[c] ELSE "asked"

Service == INSTANCE VerifyService WITH call <- [c \in Calls |-> Progress(c)]

\* Two timeouts, a push, a page and a retry may all end a call; the app is answered
\* once, delivered once, and not at all after a restart.
KeepsItsPromise == Service!Spec

-----------------------------------------------------------------------------
(* The inductive invariants behind the safety properties *)

\* A credential that is, was or may be in use is pending no more, so that no push
\* can bring it again, and one that was rejected is no longer in hand.
SecretsStand ==
  /\ credential \notin pending
  /\ saved.credential \notin saved.pending
  /\ \A c \in Calls :
       /\ proof[c] \notin pending
       /\ rejected[c] \notin pending
       /\ rejected[c] # Nil => retry[c] = FALSE

\* As long as no save is lost, a credential that was rejected is in neither copy of
\* what the credential manager keeps, so that no later launch can read it.
KeychainStands ==
  lostSaves = 0 =>
    \A r \in spurned : /\ credential # r /\ r \notin pending
                       /\ saved.credential # r /\ r \notin saved.pending

\* The callbacks in the map are those of the calls that wait for a push.
ReceiptsStand ==
  \A c \in Calls : stage[c] = "awaitingPush" <=> receipt[c] # Nil

\* The current list of _pendingCallbacks has its timer, empty or not.
TimersStand == waiting => batch \in timers

IInv ==
  /\ TypeOK
  /\ OnePageOneCall
  /\ TimersStand
  /\ WaitersAreServed
  /\ AwaitedReceiptIsPending
  /\ SecretsStand
  /\ ReceiptsStand
  /\ RejectedStaysOut
  /\ KeychainStands

=============================================================================
