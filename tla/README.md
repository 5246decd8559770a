# Spark: a verification companion

Spark is an iPhone app (Swift, UIKit) that finds parking lots: a map with pins, a list of
lots, a profile, and sign-in by phone number through Firebase. This directory holds TLA+
modules of its logic, the TLC configurations that check them on small instances, and proofs
that TLAPS checks for every value of the constants. Paths below are relative to
`src/Spark/Spark/`.

## 1. The system

### 1.1 Components

| Component | Files | State it keeps | Operations |
|---|---|---|---|
| Phone sign-in | `AuthManager.swift`, `Controllers/Profile Screens/ProfileViewController.swift` | the verification ID of the singleton; per screen: the one text field, the number copied from it, whether the box asks for a number or a code, label, spinner, which box is visible | Get OTP, Verify OTP, Resend OTP, Sign out, edits, the callbacks of Firebase |
| Sign-up form | `Controllers/Profile Screens/SignUpViewController.swift` | four fields, three error labels | edits, Sign up |
| Stored details | `UserDefaults`, `SharedInstance/UserSignnedIn.swift` | `firstName`, `lastName`, `emmailId`, `mobileNumber`, `profileImage` | written by the form, removed by sign-out, read by the profile, the menu and the launch |
| Side menu container | `Controllers/MainController/MainViewController.swift` | place of the menu, `isExpanded`, shadow, drag state, the child controllers | menu button, tap, pan, rotation, row, launch |
| Side menu list | `SideMenu/` | fixed rows, two labels | row tapped |
| Map and parking list | `Controllers/GoogleMapController.swift`, `Cells/` | pins, fixed sample data | tap on the map, scroll |
| Snapping layout | `ZoomAndSnapFlowLayout.swift  .swift` | none | where a scroll comes to rest, zoom of a cell |
| Lifecycle | `AppDelegate.swift`, `SceneDelegate.swift` | a lazy Core Data container, never written to | save on entering the background |
| Validations | `Validations/`, `Extentions/Extentions.swift` | none | phone (no caller), email |
| Firebase Authentication | `../Pods/FirebaseAuth` | the current user (keychain); whether notifications are forwarded; the APNs token and who waits for it; the app credential, the pending receipts (keychain) and their callbacks; the reCAPTCHA page being presented | `verifyPhoneNumber` and everything it waits for, `signIn`, `signOut`, `currentUser` |
| Other pods | `../Pods` | – | third-party code, left aside |

Dead code: `LoginViewController` (storyboard scene that nothing opens),
`ProfileViewController` lines 1-349 (commented out), `closeOtpScreen` (connected to no
control), `getTotalDistance`, `Validations.isValidPhone`, `UserDefaults.clear`.

### 1.2 How they interact

* The menu's rows call `selectedCell` of the container, which puts a *new* controller on
  screen. The old view is removed, but the old controller stays a child, so it stays alive
  and its callbacks still run.
* A profile screen calls the singleton `AuthManager`, which calls Firebase. Firebase answers
  later, in any order, with a block on the main dispatch queue; the screen's own completion
  then queues *another* block that changes the screen or presents the form. Between the two
  anything may happen.
* Behind `verifyPhoneNumber` the SDK proves to its back end that the call comes from this app
  before an SMS is sent: `FIRPhoneAuthProvider` asks `FIRAuthNotificationManager` whether the
  app forwards notifications, `FIRAuthAPNSTokenManager` for a token, the back end for a push,
  `FIRAuthAppCredentialManager` for the secret in that push, and, when that fails,
  `FIRAuthURLPresenter` for a reCAPTCHA page. All of them keep lists of callbacks on one
  serial work queue; the answer goes to the app on the main queue.
* Behind `signIn` the SDK exchanges the code for tokens, perhaps refreshes them, looks the
  account up, and saves the user to the keychain before making it the current one. At a launch
  it reads the user back, at once or, on a device that is still locked, when the device is
  unlocked.
* The form writes `UserDefaults` and calls back the screen that presented it
  (`updateDetails`).
* There are two notions of "signed in": `Auth.auth().currentUser` decides which box of the
  profile is shown, the stored `mobileNumber` decides whether a launch opens the map or the
  profile. They are written by different code at different times.

### 1.3 What is hard

Concurrency: several requests in flight, one remembered session; two-hop callbacks on a FIFO
queue; screens that were left and go on receiving answers. Staleness: a number copied one
edit early; an `isExpanded` written when an animation ends. Timeouts: the probe, the token and the
push each have one, which races the answer it guards against. Failure: the keychain may refuse
to save or delete the user, or the app credential, and cannot be read before the first unlock;
pushes are lost, late or repeated; the process may die between the accepted code and the form;
a form may be refused half-way after it stored half of its fields; the system may cancel a pan.
`PROJECT.json` lists each hazard with its line and the properties aimed at it.

### 1.4 What makes each component correct

* Sign-in: a screen that asks for a code has a session to check it against; whoever is
  signed in typed a code that was sent to that number; a resend goes to the number on the
  label; a profile is shown only with a user; a form only after an accepted code, and with
  the number that code was sent to; the spinner stops, and one that spins is owed an answer;
  a sign-out signs out.
* Phone verification: a call is answered at most once and delivered at most once; nobody
  waits in a list that is never emptied; the push a call waits for is accepted; a rejected
  credential does not come back; two calls never share the page; no timer of an earlier wait
  ends a later one; a call only runs down, so no retry is endless.
* Sessions: the user in memory is the one in the keychain; the saved user comes back, however
  early the app is launched; every `signIn` ends; a good answer signs its user in, a bad one
  nobody, and only `signOut` signs out.
* Details: a stored number implies the other details; the profile shows what is stored; no
  invalid email is stored; only a completed form registers a user.
* Side menu: at rest it is where `isExpanded` says, with the matching shadow; it does not
  stay half open; a rotation does not move it.
* Snapping layout: the row comes to rest on the nearest of all cells, within the range of the
  scroll; throwing it farther never brings it to an earlier cell; one cell is zoomed.

## 2. The modules

### 2.1 `PhoneSignIn` – sign-in, navigation to and from it, restarts

State. `verificationId` is the singleton's field. `text`, `mobileNumberStr`, `otpMode`
(placeholder and button title, which are always set together), `sentToLabel`, `spinning` and
`loginShown` are fields of every `ProfileViewController` (`Controllers`), `created` says
which exist, `visible` which one is on screen (`Home` for every other screen), `modal` is the
sign-up form over it. `mainQueue` is `DispatchQueue.main`. `sms`, `attempt` and `redeemed`
are the calls made to Firebase and what its back end knows. `currentUser` and `storedNumber`
survive a restart.

A verification ID is named after the request that opened it, and so is the code that its SMS
carries: a code is right exactly when it is the name of its session. A phone number, a code
and the empty string are all that is distinguished of a text.

| Action | Code |
|---|---|
| `EditText`, `EndEditing` | `shouldChangeCharactersIn`, `textFieldDidEndEditing`, `updateMobileNumbString` |
| `GetOtp`, `ResendOtp`, `VerifyOtp` | `submitBtnAction` in its two modes with `sendSMSCode`, `resendOtpBtnAction`, `startAuth`, `verifyCode` |
| `AnswerSms`, `AnswerSignIn` | the SDK's callbacks, queued on the main queue; the second saves the user to the keychain first (`FIRAuth.m` 1988-2053) and reports an error if that fails |
| `RunSmsAnswer` | the closure of `startAuth`: keeps the verification ID and runs the completion, which queues `showOtp` or stops the spinner |
| `RunShowOtp` | `clearTextAndUpdateUIToOTP` |
| `RunSignInAnswer`, `RunPresentSignUp` | the completion of `verifyCode`, then `presentSignupVC` |
| `SignUp` | the successful outcome of `signUpBtnAction` with `updateDetails` |
| `SignOut` | `signOutBtnAction` with its call of `viewWillAppear` |
| `OpenProfile`, `OpenHome` | `selectedCell`, `showViewController` |
| `Relaunch` | death of the process at any moment, then `viewDidLoad` of the container and the SDK's reload of the user |

`KeepsToTheSession`, `FollowsTheFlow` and `RegistersByForm` tie this module to the others: see
2.3 to 2.5. `Relaunch` marks every sign-in call of the dead process
as lost, so that `HasAcceptedCode` speaks of the running process alone. `EverySpinnerIsOwed` is
the safety half of `SpinnerStops`: it names who stops a spinner, and liveness adds only that
the queue drains.

A click that the code answers with a toast or a red border only (an empty number or code, a
`verifyCode` without a session) changes nothing the model keeps and is no action. A
presentation on a screen that has left the window may or may not be refused by UIKit; both
are allowed.

### 2.2 `PhoneVerification` and `VerifyService` – the SDK behind *Get OTP*

`VerifyService` is the promise made to the app: a call that was made is answered at most once,
the answer is delivered at most once, on the main queue, and what a process had not delivered
when it died is never delivered. It has no queue, no timeout and no page.

`PhoneVerification` is the code that keeps it (paths in this section are relative to
`../Pods/FirebaseAuth/FirebaseAuth/Sources/`). Every handler runs on the SDK's serial work
queue, so an action is one block of that queue, with everything it calls. `stage` says what
each call waits for; the managers' fields are the other variables.

| State | Code |
|---|---|
| `retry` | `retryOnInvalidAppCredential`, an argument |
| `forwarding`, `prober` | `_hasCheckedNotificationForwarding`, `_isNotificationBeingForwarded`, `_pendingCallbacks` of `FIRAuthNotificationManager`, and its block on the main queue |
| `token`, `asked`, `waiting`, `batch`, `timers` | `_token`, `_pendingCallbacks` of `FIRAuthAPNSTokenManager`; which array of callbacks is the current one; the `dispatch_after` blocks still to come |
| `credential`, `pending`, `receipt`, `saved` | `_credential`, `_pendingReceipts`, `_callbacksByReceipt` of `FIRAuthAppCredentialManager`, and the keychain's copy |
| `page` | `_isPresenting` and the completion of `FIRAuthURLPresenter`, from the block that presents to the block that runs after the dismissal |
| `proof`, `rejected`, `spurned` | the credential in a call's request, the one whose rejection made it retry, and (history) all of those |

| Action | Code |
|---|---|
| `VerifyPhoneNumber`, `MissingPhoneNumber`, `Probe`, `FollowVerdict` | `verifyPhoneNumber`, `internalVerifyPhoneNumber`, `checkNotificationForwardingWithCallback` |
| `RunProber`, `ProbeTimeout` | the prober's way through the app's delegate to `canHandleNotification`, and the one-second timer; whichever comes first empties the list |
| `ReceiveToken`, `RegistrationFails`, `TokenTimeout` | `setToken`, `cancelWithError`, the timer of `getTokenWithCallback` |
| `DidStartVerification`, `VerifyClientFails` | the back end's answer to `verifyClient` |
| `ReceivePush`, `PushTimeout` | `canFinishVerificationWithReceipt`, the timer; both end in `callBackWithReceipt` |
| `NoAuthDomain`, `PresentURL`, `ShowPage`, `UserClosesPage`, `CallbackURL`, `PageDismissed` | `fetchAuthDomain`, `presentURL` and its main-queue block, Done, `canHandleURL`, `finishBlock` |
| `SendAnswered`, `CredentialRejected`, `Deliver` | the answer of `sendVerificationCode`, `clearCredential` with the one retry, `callBackOnMainThread` |
| `Relaunch` | `initWithKeychain` after the process died at any moment |

The callbacks that wait for one event run in one block and all take the same way, so one
action moves all the calls in the list. Receipts are numbered in the order they are handed
out, so the array `_pendingReceipts`, which is in that order, is a set whose oldest member is
its minimum. A push names its receipt; one that comes when its receipt is not pending is
refused and changes nothing, so lost, repeated and late pushes are all covered by
`ReceivePush` being possible, but never certain, while the receipt is pending.

The environment: the back end (success or failure of each request), APNs, the keychain (it
may refuse a write, and `saveData` ignores that), UIKit (it may refuse to present the page)
and the user. The app's delegate forwards notifications, as the proxy of the SDK makes it do.

`PhoneVerification` implements `VerifyService` (`KeepsItsPromise`, checked and proved). In
`PhoneSignIn` the SDK is the action `AnswerSms`: it may answer any call in flight, well or badly,
in any order and at any time, or never, and a restart drops what was not delivered. That this
allows whatever a keeper of `VerifyService` may do is an argument about two short definitions,
not a theorem: `PhoneSignIn` does not contain the SDK, so nothing about its queue and its stub
would show it.

What a launch reads of the credential and the receipts may be nothing, when the keychain is locked
or refuses (`initWithKeychain` goes on with what it could read). `spurned` is a history variable:
every credential whose rejection made a call retry, in whichever process. Two things are assumed of
the back end: a receipt it hands out is a new one (otherwise `removeObject` and an overwritten
callback would come into play), and a push with a receipt has a secret (see section 7).

### 2.3 `UserSession` and `SessionService` – the SDK behind *Verify OTP*, sign-out and launch

`SessionService` is the promise made to the app: a call of `signIn` is answered at most once,
the answer is delivered at most once; a good answer makes the user it was asked for the
signed-in one, a bad answer leaves whoever was; nothing but `signOut` signs out, and a new
process finds the user of the old.

`UserSession` is the code that keeps it (paths relative to
`../Pods/FirebaseAuth/FirebaseAuth/Sources/`). `call` says what each call of `signIn` waits
for, `accepted` which codes the back end has accepted, `current` is `_currentUser`, `saved` the
user in the keychain, `start` how far `protectedDataInitialization` has come and `unlocked`
whether the device has been unlocked since it was started: until then its keychain, whose items
are `AfterFirstUnlock`, cannot be read. A sign-in makes one user object, so a user is named
after its call, and comparing users is comparing objects, as the code does.

| Action | Code |
|---|---|
| `ReadUser`, `Subscribe` | the two halves of `protectedDataInitialization`: the read, and after a failed one the observer. The main thread may announce the unlock in between |
| `Unlock` | the owner unlocks the device; the observer, if it is there, starts the initialisation over |
| `SignIn`, `CodeRefused`, `CodeAccepted` | `signInWithCredential`, `signInWithPhoneCredential` and its callback |
| `TokenExpired`, `TokenRefreshed`, `RefreshFails` | `fetchAccessToken`, `requestAccessToken` with its one retry, `internalGetTokenForcingRefresh` with `updateKeychain` or `signOutIfTokenIsInvalid` |
| `LookUpFails`, `UpdateCurrentUser` | the callback of `getAccountInfo`, then `updateCurrentUser` and `saveUser` |
| `Deliver` | the app's completion on the main queue |
| `SignOut` | `signOut`; `signInFlow…` and `signOut` share `updateCurrentUser` |
| `Relaunch` | the process dies or the device restarts; the system may launch the app again while the device is locked |

While a block of the work queue is between its read and its observer no other block runs
(`QueueFree`). The token of a new user is refreshed when its answer had no `expiresIn` or one of
less than five minutes (the expiration date is the device's own time plus `expiresIn`, so a wrong
clock does not matter here); the model leaves open whether that is so. The one retry of the
refresh does compare the device's clock with the date inside the token. `SignOutByForce` changes
nothing in any reachable state: it compares the current user's uid with that of a user who has
none yet. `UpdateKeychain` likewise writes nothing, and so never fails the call: the refreshed
token belongs to a user who is not the current one (`RefreshIsSaved` in the proofs). That both
tests are needed is what the mutants without them show.

`PhoneSignIn` takes from this only what `SessionService` gives (`KeepsToTheSession`, checked
and proved): its `AnswerSignIn` is the promise's `Succeed` or `Fail`, the block that waits on
the main queue is the answer, running it delivers it. There the keychain is readable at every
launch; a launch on a locked device is `UserSession`'s alone.

### 2.4 `SignInFlow` – what signing in promises the user

Somebody is signed in only by the code of an SMS to that number; a number is registered only
after some code was accepted; only signing out ends either; a text that is not a number is
never signed in or registered. There are no screens, answers, queues or restarts in it.
`PhoneSignIn` implements it (`FollowsTheFlow`): the session's number, the redeemed sessions,
the Firebase user and the stored number are its state, and every other variable may do as it
likes. A rerun of a code, a form submitted twice and a launch that finds a user without a
number are all among its steps or stutter.

### 2.5 `UserDetails` – the form, every outcome of its button, and the store

`PhoneSignIn` knows one number and one outcome of the form; this module has the rest. `form`
and `errors` are the controller, `defaults` the keys of `UserDefaults`, `profile` the labels
of the screen that presented the form. `RefuseFirstName`, `RefuseLastName`, `RefuseEmail` and
`SignUp` are the returns of `signUpBtnAction` in order; each stores what the code had stored
by then. `EditName` and `EditEmail` are `shouldChangeCharactersIn`, which judges the email
before the edit and hides both name errors. `SignOut` removes the email and then the number in
one step; `DieSigningOut` is the process dying between the two, `DieSigningUp` dying after some
of the keys before the number are written, `Relaunch` dying at any other moment. `interrupted` is
a history variable: such a sign-out came after the last sign-up or complete sign-out.
`PresentSignUp` with `late` is the second form of
a double "Verify OTP", presented after the user may have signed out.

`Registration` is what the two modules with a form promise of the stored number: a form is
presented with a number, and completing it, nothing else, registers that number; a form without
one leaves the number there is; signing out, which no form covers, forgets it. `UserDetails`
implements it with every outcome of the button, `PhoneSignIn` with everything that may present
a form (`RegistersByForm`, checked and proved in both), so that the one outcome `PhoneSignIn`
has stands for all.

### 2.6 `SideMenu` – the sliding menu

`constant` is the trailing constraint, `animations` the completions still to come, oldest
first (all animations last half a second), `collapses` the blocks that rows have queued.
`SideMenuState` is `sideMenuState` with `animateSideMenu`: the constraint and the shadow
change at once, `isExpanded` at completion; an animation with nothing to animate may complete
at once. `PanBegan`, `PanChanged`, `PanEnded`, `PanCancelled` are the cases of
`handlePanGesture`, `Rotate` is `viewWillTransition`, `TapOutside` the tap recogniser,
`RevealSideMenu` the menu button, `SelectRow` and `RunCollapse` a row and its queued block.
The shadow's alpha during a drag is one value, `"drag"`.

`calm` is a history variable: it turns `FALSE` for good when a pan begins while something is
still moving, when another finger taps the menu button or a row during a pan, when a rotation
comes during either, or when the system cancels a drag. `RestingMenuAgrees` is claimed while it
holds, and is false without it. `MaxRotations` and `MaxCancels` bound rotations and cancelled
pans, `MaxAnimations` the animations and queued collapses.

### 2.7 `SnapLayout` – where the row of parking lots comes to rest

`Drag` moves the row to any place the scroll may run out at, `Release` asks
`TargetContentOffset`, the loop of `targetContentOffset(forProposedContentOffset:…)` as a
recursive function, `Adjustments`: `offsetAdjustment` after the turn of each cell, where a cell
outside the target rectangle leaves it alone. `Zoomed` is the zoom of
`layoutAttributesForElements(in:)`. The cells are as wide as the delegate,
`GoogleMapController`, makes them (half the screen), the insets are those `prepare` computes
from `itemSize`, which is 150. Where the flow layout puts cells between insets and the range
a scroll view lets its content rest in are UIKit's and are modelled as such. What is assumed
of lengths is named: `LayoutAssumption` (the halves and quarters the code computes are whole in
the unit of the model) and `ScreenAssumption`, which the code's own numbers (`itemSize` 150,
spacing 40, `activeDistance` 200) satisfy on every screen from 320 points on: a cell is as wide
as `itemSize`, its neighbours are not within the active distance, the view is wider than a gap.

### 2.8 MC modules

`MCPhoneSignIn` declares the symmetry of the model values (numbers, requests, attempts and
controllers are interchangeable; the runs with symmetry check safety only). `MCSideMenu` gives
velocities on both sides of the threshold and at it, and drags to, before and past the half and
the edge of the menu. `MCSnapLayout` gives five frames in quarters of a point, each 20 points
narrower on either side than what the app has of the screen, as the storyboard pins the row: the
narrowest phone (320), one of odd width (375), a common one (390), that one's long side (844,
with a safe area of 47, of which 27 reach into the row), and a third of a tablet's screen (320 of
1024). `UserDetails`, `PhoneVerification` and `UserSession` need none.

## 3. The runs

| Run | Checks | Bounds | What it shows |
|---|---|---|---|
| `signin_safety` | types, seven invariants, the refinements `KeepsToTheSession`, `FollowsTheFlow` and `RegistersByForm` | 2 numbers, 2 requests, 1 sign-in call, 2 profile screens (156,542 states up to symmetry) | two requests suffice for a late or crossing answer, two screens for a screen left behind, one sign-in call for an accepted, refused or unsaved code |
| `signin_spinner` | `SpinnerStops` | 1 number, 2 requests, no sign-in calls, which never touch the spinner | a spinner turns for ever only behind a call that is never answered |
| `signin_label` | `LabelNamesRecipient`, violated | one of each | the label lags one edit |
| `signin_signout` | `SignOutSignsOut`, violated | one of each | a refused keychain leaves the user signed in behind the toast |
| `verify_answers` | types, five invariants, `StaleTimerEndsNoWait`, `CallsRunDown`, `NeverAtWorkForEver`, the refinement `KeepsItsPromise` | 2 calls, 2 pending receipts, 3 receipts, 1 refused keychain write, reads that may be refused at every launch (732,631 states) | timeouts, answers, pushes, pages, a retry per call and restarts in every order |
| `session_users` | types, `KeychainAgrees`, `SavedUserComesBack`, `EverySignInEnds`, the refinement `KeepsItsPromise` | 2 calls, 2 refused accesses of an unlocked keychain, 2 restarts (5,326 states) | sign-ins that overtake one another, a sign-out between them, launches before and after the first unlock, with every access to the keychain refused or not |
| `details_safety` | types, two invariants, the refinement `RegistersByForm` | 2 names, 2 emails (one valid), 2 numbers (82,931 states) | the number is written last, so it stands for the rest, unless the process dies in a sign-out; labels follow the store |
| `details_storedemail` | `StoredEmailIsValid`, violated | same | the email test is never called |
| `menu_safety` | types, `RestingMenuAgrees`, `OnlyCancelsLeaveHalfOpen`, `SwipesMoveHalfOpen` | 3 animations, 1 rotation, 2 cancelled pans (27,160 states) | calm gestures leave the menu where the flag says; no overlap leaves it elsewhere than in its two places, only a cancelled pan does; the next swipe takes hold of such a menu or sends it to one of them, but for the slow right swipe that lines 222-223 cancel while `isExpanded` is `TRUE` |
| `menu_halfopen`, `menu_rotate` | one property each, violated | one cancelled pan; one rotation | the findings of section 5 |
| `layout_snap` | types, `OneCellZoomed`, `FartherIsNeverEarlier`, `ReleaseCentresNearest` | 6 cells, five frames, drags to every multiple of `Grain` (20 points) and both ends | the rectangle never hides the nearest cell, ties and the clamped ends included |

Three animations are one more than two contrary ones, so that a completion can be overtaken; with
more the sequences only repeat. Two cancelled pans let a swipe that repairs a half-open menu be
cancelled in turn. Two calls are enough for every list to hold a second callback, for two pages
to collide and for one call to clear the credential another one brought. The SDK's limit of 32
pending receipts is 2, and the third receipt is the first that drops an older one; with a retry
and restarts a call may ask for more than one. One refused write is enough for memory and
keychain to disagree. Each process of `PhoneVerification` may have any number of timers of token
lists. In `UserSession` the second sign-in is the one that may displace, or be taken for, the
first; the second refusal may fall on the read after a failed write or on the retry after a
failed read; the second restart may follow a launch on a locked device. Six cells are more than
any frame shows, so that there are first, inner and last cells, and cells outside the rectangle.
Deadlock is checked in every run. `signin_safety` also passes with two sign-in calls (1.5 million
states); one is kept so that the run stays short.

Fairness. `SpinnerStops` assumes only that the main run loop drains its queue
(`WF(RunBlock)`). Nothing is assumed of the user, who may leave the screen, or of the SDK: a
spinner behind an unanswered call is excused by the property itself. Which calls are never
answered is the question `NeverAtWorkForEver` settles in `PhoneVerification`. There the work
queue and the main queue run their blocks, timers fire, and a request to the back end succeeds
or fails (every network task of the SDK has a timeout): weak fairness of each call's own steps,
of the probe and its timer, of the timers of the token lists, and of presenting and dismissing
a page. Nothing is assumed of APNs, of pushes, of the user or of restarts. Under that a call
never waits for ever on the SDK: it is answered, or it waits for the user at an open page.
The two exceptions the code makes are written into the property: a page that UIKit refused
to present (`presentURL` passes no completion, so nothing notices) and a callback URL that
carries neither a token nor an error (`FIRPhoneAuthProvider.m` 405 makes no request and calls
nobody back).

In `UserSession` the queues run their blocks, requests succeed or fail, and the owner goes on
unlocking the device; a sign-out, a sign-in or a restart is never assumed, and the keychain may
refuse whatever it is asked until its bound is used up. `SavedUserComesBack` needs the unlock
again and again: one that is announced between the failed read and the observer is missed, and
only the next is heard.

Each property of a passing run has a mutant of the code in the module that breaks it
(`PROJECT.json`, "mutants"): a forgotten assignment, a dropped test, a missing refresh, a
swapped order, a missing reset.

## 4. What is proved

`PhoneSignIn_proofs` proves, for all sets of numbers, requests, sign-in calls and
controllers (assumption `SortsAssumption`: the sorts do not overlap where the code tells them
apart), that `IInv` is an invariant of `Spec`, and from it the types, the seven safety
properties, and two refinements: every step is a step of `SignInFlow`, and one of
`Registration`, or leaves its state alone. None of the seven is inductive alone. What has to be added:

* what each waiting block may rely on when it runs (`BlockStands`): a `showOtp` waits only
  where a session is kept already, a `presentSignUp` only behind an accepted code. A restart
  forgets the session and empties the queue together, which is why `OtpModeHasSession`
  survives it;
* that a resend asks for the number its screen shows, and that a screen asking for a code no
  longer changes that number (`ResendStands`, `FieldsStand`), also while the request is in
  flight or its answer waits;
* that a screen whose code is being or was checked in this process goes on asking for one
  (`CallsStand`), so its number is frozen: the form it presents, however late, shows the number
  the label names (`FormShowsLabel`);
* that sessions which the app or Firebase know have been sent (`SessionsStand`) to a text that
  is not a code (`CallsStand`), hence to a phone number.

`EverySpinnerIsOwed` is inductive on top of `BlockStands`: an answer that joins the queue takes
over from the call it answers, a `smsAnswer` that runs hands over to the `showOtp` it queues,
and every other block leaves what waits where it is.

The step lemma has one case per action. Steps that only append a block, change one call, or
change a field share lemmas about what survives.

`PhoneSignIn_promises` builds on that module and proves the refinement towards the SDK,
`KeepsToTheSession` (`SessionIsKept`). Blocks are
counted as a set: what an append or a run leaves waiting decides how far each call is. It
needs one more invariant, `AnswersAgree`: no call of `signIn` has both a good and a bad
answer waiting, because an answer is queued only for a call in flight, for which none waits.
It says of the app's side that its user is always one a good answer of its own process, or of an
earlier one, signed in. That `PhoneSignIn`'s actions for the SDK allow whatever the SDK does is
argued in 2.2, not proved.

`FormRegisters` needs that a form shows a number or nothing, never a code, which follows from
`FormShowsLabel`.

`FlowIsFollowed` takes from `IInv` that a session known to Firebase was texted, that a code
redeems only a session of its own, and that a form stands behind an accepted code.

`PhoneVerification_proofs` proves, for any set of calls and any limits (`VerificationAssumption`:
the limit of pending receipts is positive, nil is no number and no page), that `IInv` is an
invariant, and from it the types, `OnePageOneCall`, `WaitersAreServed`,
`AwaitedReceiptIsPending`, `RejectedStaysOut`, `OnlyLostSavesBringBack`, `StaleTimerEndsNoWait`,
`CallsRunDown`, and `KeepsItsPromise`, the refinement of `VerifyService`. What has to be added to
the properties:

* a credential that is or was in use, in memory, in the keychain, in a request or rejected, is
  pending no more, so no push can bring it back (`SecretsStand`); the keychain's half of it is
  what a restart needs;
* until a write is lost, a credential that was ever rejected is neither in hand, nor pending, nor in
  the keychain in either way (`KeychainStands`), so no launch brings it back, and one that could
  not read the keychain does not either;
* a call has a callback in the map exactly while it waits for a push (`ReceiptsStand`), so that
  a push and a timeout cannot both go on with it;
* the current list of waiting callbacks has its timer (`TimersStand`).

That the awaited receipt survives is an argument about the order of receipts: what is dropped is
the minimum of at least `MaxPending` receipts below the newest, and the cardinality of an
interval bounds how old it is. `CallsRunDown` is the safety half of `NeverAtWorkForEver`: a
variant over the stages (`StepsLeft`) that every move of a call lowers, the retry too, because it
is taken once. What is left to TLC is that somebody moves the call at all. The refinement has one
case per action and uses `ReceiptsStand` and `OnePageOneCall` for the actions that may end
several calls or the call of the page.

`UserSession_proofs` proves, for any calls and any bounds (`SessionAssumption`: nil is no user),
that `IInv` is an invariant, and from it the types, `KeychainAgrees`, and `KeepsItsPromise`, the
refinement of `SessionService`. The types carry that only users whose code was accepted are
kept; `AcceptedStand` (whoever is past the code has had it accepted) makes them inductive.
`NewcomersWait` (whoever has not been looked up yet is neither current nor saved) is why the
refresh of a token, good or bad, touches nobody who is kept, and `KeychainAgrees` is inductive
on top of it. What the user of the
promise is mapped to is the keychain's, which survives the process.

`UserDetails_proofs` proves types, `RegisteredHasDetails` and `ProfileShowsStored`, which are
inductive together (`DetailsAssumption`: empty, nil and the values differ), and `FormRegisters`,
the refinement of `Registration`: only the completed form touches the number.

`SideMenu_proofs` proves types, `SwipesMoveHalfOpen`, `OnlyCancelsLeaveHalfOpen` and
`RestingMenuAgrees` for every width, threshold, velocity and distance, with every gesture,
rotation and cancellation. The first rests on `HalfOpenStillDrags`: on such a menu
`draggingIsEnabled` is still `TRUE`, so a pan that passes the tests for speed starts a drag. The
invariant behind the last, `MenuInv`, says that a calm menu lies
at the goal of its newest animation unless a finger drags it, and that nothing is animated
then.

`SnapLayout_proofs` proves types, `OneCellZoomed`, `FartherIsNeverEarlier` and
`ReleaseCentresNearest` for any number of cells and any frames (`LayoutAssumption`,
`ScreenAssumption`), all from one theorem about the loop, `TargetIsFirstNearest`: it yields the
offset of the first of the nearest cells, of all cells and not only of those its rectangle
meets. The argument: among the cells met, the loop ends with the first nearest
(`LoopFindsNearest`, by induction over its turns); the nearest of all cells always meets the
rectangle, because the view is wider than a gap (`NearestMeets`); so the two are the same. That
farther throws never come to rest earlier follows from the strict comparison, which breaks every
tie towards the earlier cell; that one cell is zoomed from the pitch of the cells. The offset
after `n` turns is a recursive function; induction is over the set of the turns that fail, whose
least member leads to a contradiction (`Least`, `Induction`), because the library's induction
theorems take operators as parameters.

Only model-checked: `SpinnerStops`, `NeverAtWorkForEver`, `SavedUserComesBack` and
`EverySignInEnds`, which are liveness under fairness.

## 5. Findings

1. The label "Enter OTP sent to", the number for a resend and the stored number may lag one
   edit behind the number the SMS went to (`signin_label`).
2. "Signed out successfully" is shown before the sign-out is tried, and also when it fails
   (`signin_signout`).
3. A rotation during the menu's animation sends it back (`menu_rotate`).
4. A drag that the system cancels leaves the menu where the finger left it, half open
   (`menu_halfopen`: at -130 of a width of 260). The code and the comment that close or open such a
   menu stand in `.ended` only.
5. The form's test of the email names a method without calling it (`details_storedemail`).

Seen in the models and not judged, because no text of the repository promises otherwise:

* the form's live check of the email judges the text before the edit;
* a second accepted "Verify OTP" can present a form after the user signed out, and a sign-in that
  is answered after a sign-out signs in again;
* a late answer to a resend clears the code being typed;
* the names of the last user stay stored after a sign-out; a process that dies between the two keys
  a sign-out removes leaves a number without its email, which still counts as registered;
* the first layout of the row does not centre its first cell, because the insets are computed from
  `itemSize` and the cells are half a screen wide;
* a page that UIKit refuses leaves the presenter busy for the rest of the process, and a bare
  callback URL drops its call;
* when the main thread is busy for the second the probe has, the SDK takes notifications for not
  forwarded and refuses every call until the next launch;
* a rejected credential comes back at a launch if the keychain refused to save that it was cleared.

Seen while reading, in code the models leave out: the picture of the last user stays after a
sign-out; the menu's labels are those of the last launch; a push without a secret passes
`FIRAuthNotificationManager.m` 164, which tests the receipt twice (section 7); an initialisation
that is done over after an unlock makes new token, credential and notification managers
(`FIRAuth.m` 586-593) while calls may wait in the old ones.

## 6. The plan

Order, most important first; all are done.

1. `PhoneSignIn`, its runs and proofs.
2. `SideMenu`, its runs and proofs.
3. `UserDetails`, its runs and proofs.
4. `SnapLayout`, its run and proofs.
5. `SignInFlow`, the refinement checked and proved.
6. `PhoneVerification`, `VerifyService`, their run, proofs and refinement: what the app relies on
   is a promise that the SDK's code is shown to keep.
7. `UserSession`, `SessionService`, their run, proofs and refinements, for `signIn`, `signOut` and
   the launch.
8. `Registration`, the refinements from both modules that have a form; the safety halves of the
   liveness properties (`EverySpinnerIsOwed`, `CallsRunDown`).

Theorems still worth proving: a variant for the calls of `UserSession` like that of
`PhoneVerification`; what the abstract modules promise of each other (a registered number
belongs to a process that had a code accepted).
Worth modelling next: the SDK's managers across a second initialisation; the keyboard observers
of every screen ever opened.

## 7. Not modelled, and why

Drawing, layout constants, colours, toasts, keyboard shifts and the picture of the profile: no
logic that another part reads. The branches of the container for a menu beside the content
(`revealSideMenuOnTop` is a constant `TRUE`). The regular expressions of the two validators: one
has no caller, the other is a predicate of the email here (`ValidEmails`). The menu's rows, the
pins of the map and the reused cells of the row are written by one line each and read by none: a
property of them would restate that line. Multi-factor sign-in, tenants, shared access groups,
the timed refresh of tokens and the providers other than the phone: branches of the SDK the app
does not reach. In `PhoneVerification`: a push with a receipt but no secret, which
`FIRAuthNotificationManager.m` 164 would let pass (it tests the receipt twice) and which would
make a credential without a secret, that the call would not use but go to the reCAPTCHA page
(with it, two calls have up to 1.9 million states, more than a run of a few minutes covers); a
receipt that the back end hands out twice; and an initialisation of the SDK that is done over.
Google Maps and the other pods: third-party code. Firestore, gRPC and BoringSSL are linked but
not called.
