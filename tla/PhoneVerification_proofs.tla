---------------------- MODULE PhoneVerification_proofs ----------------------
(***************************************************************************)
(* What TLAPS proves of PhoneVerification, for any calls and any limit of  *)
(* pending receipts: its types, who holds the page, that waiters are       *)
(* served, which receipts stay pending, that a rejected credential never   *)
(* comes back, and that the whole keeps the promise of VerifyService.      *)
(***************************************************************************)
EXTENDS PhoneVerification, FiniteSetTheorems, WellFoundedInduction, TLAPS

(* The oldest of a set of receipts *)

\* A non-empty set of numbers has a smallest one, and Min is it.
LEMMA MinIsOldest ==
  ASSUME NEW S, S \subseteq Nat, S # {}
  PROVE  Min(S) \in S /\ \A y \in S : Min(S) <= y
<1>1. PICK x \in S : \A y \in S : ~ (<<y, x>> \in OpToRel(<, Nat))
  BY WFMin, NatLessThanWellFounded, Zenon
<1>2. \A y \in S : x <= y
  <2> SUFFICES ASSUME NEW y \in S PROVE x <= y
    OBVIOUS
  <2>1. ~ (y < x)
    BY <1>1 DEF OpToRel
  <2> QED  BY <2>1
<1> QED  BY <1>2 DEF Min

\* A set of receipts is finite.
LEMMA ReceiptsFinite ==
  ASSUME NEW n \in Nat, NEW S \in SUBSET (1..n)
  PROVE  IsFiniteSet(S) /\ Cardinality(S) \in Nat /\ Cardinality(S) <= n
<1>1. IsFiniteSet(1..n) /\ Cardinality(1..n) = n
  BY FS_Interval
<1>2. IsFiniteSet(S) /\ Cardinality(S) <= n
  BY <1>1, FS_Subset
<1> QED  BY <1>2, FS_CardinalityType

\* Making room for one more keeps the limit.
LEMMA DiscardKeepsLimit ==
  ASSUME NEW n \in Nat, NEW S \in SUBSET (1..n), Cardinality(S) <= MaxPending
  PROVE  /\ DiscardOldest(S) \subseteq S
         /\ DiscardOldest(S) \cup {n + 1} \in SUBSET (1..(n + 1))
         /\ Cardinality(DiscardOldest(S) \cup {n + 1}) <= MaxPending
<1>1. IsFiniteSet(S) /\ Cardinality(S) \in Nat
  BY ReceiptsFinite
<1>2. DiscardOldest(S) \subseteq S
  BY DEF DiscardOldest
<1>3. /\ IsFiniteSet(DiscardOldest(S))
      /\ Cardinality(DiscardOldest(S)) \in Nat
      /\ Cardinality(DiscardOldest(S)) + 1 <= MaxPending
  <2>1. CASE Cardinality(S) >= MaxPending
    <3>1. S # {} /\ S \subseteq Nat
      BY <2>1, FS_EmptySet, VerificationAssumption
    <3>2. Min(S) \in S
      BY <3>1, MinIsOldest
    <3>3. DiscardOldest(S) = S \ {Min(S)}
      BY <2>1 DEF DiscardOldest
    <3>4. IsFiniteSet(S \ {Min(S)}) /\ Cardinality(S \ {Min(S)}) = Cardinality(S) - 1
      BY <1>1, <3>2, FS_RemoveElement
    <3> QED  BY <1>1, <3>3, <3>4, FS_CardinalityType, VerificationAssumption
  <2>2. CASE ~ (Cardinality(S) >= MaxPending)
    BY <1>1, <2>2, VerificationAssumption DEF DiscardOldest
  <2> QED  BY <2>1, <2>2
<1>4. /\ IsFiniteSet(DiscardOldest(S) \cup {n + 1})
      /\ \/ Cardinality(DiscardOldest(S) \cup {n + 1}) = Cardinality(DiscardOldest(S))
         \/ Cardinality(DiscardOldest(S) \cup {n + 1}) = Cardinality(DiscardOldest(S)) + 1
  BY <1>3, FS_AddElement
<1>5. DiscardOldest(S) \cup {n + 1} \in SUBSET (1..(n + 1))
  <2>1. 1..n \subseteq 1..(n + 1) /\ n + 1 \in 1..(n + 1)
    OBVIOUS
  <2>2. S \subseteq 1..(n + 1)
    BY <2>1
  <2> QED  BY <1>2, <2>1, <2>2, Zenon
<1> QED  BY <1>2, <1>3, <1>4, <1>5, VerificationAssumption

\* What is discarded is older than a whole list of others.
LEMMA DiscardedIsOld ==
  ASSUME NEW n \in Nat, NEW S \in SUBSET (1..n),
         NEW r \in S, r \notin DiscardOldest(S)
  PROVE  n + 1 >= r + MaxPending
<1>1. Cardinality(S) >= MaxPending /\ r = Min(S)
  BY DEF DiscardOldest
<1>2. S \subseteq r..n
  <2>1. S \subseteq Nat /\ S # {}
    OBVIOUS
  <2>2. \A y \in S : r <= y
    BY <1>1, <2>1, MinIsOldest
  <2> QED  BY <2>2
<1>3. IsFiniteSet(r..n) /\ Cardinality(r..n) = n - r + 1
  BY FS_Interval
<1>4. Cardinality(S) <= n - r + 1
  BY <1>2, <1>3, FS_Subset
<1>5. Cardinality(S) \in Nat
  BY ReceiptsFinite
<1> QED  BY <1>1, <1>4, <1>5, VerificationAssumption

-----------------------------------------------------------------------------
(* Types *)

LEMMA MoveTypes ==
  ASSUME TypeOK, NEW S, NEW s \in Stages, Move(S, s)
  PROVE  stage' \in [Calls -> Stages]
BY DEF TypeOK, Move

\* The states of the token manager.
ApnsTypes ==
  /\ token \in BOOLEAN
  /\ asked \in BOOLEAN
  /\ waiting \in BOOLEAN
  /\ batch \in Nat
  /\ timers \in SUBSET (1..batch)

LEMMA GetTokenTypes ==
  ASSUME ApnsTypes, GetToken \/ UNCHANGED apns
  PROVE  ApnsTypes'
<1>1. CASE UNCHANGED apns
  BY <1>1 DEF ApnsTypes, apns
<1>2. CASE GetToken /\ ~waiting
  <2>1. batch' = batch + 1 /\ timers' = timers \cup {batch + 1}
    BY <1>2 DEF GetToken
  <2>2. batch' \in Nat /\ timers' \in SUBSET (1..batch')
    BY <2>1 DEF ApnsTypes
  <2> QED  BY <1>2, <2>2 DEF ApnsTypes, GetToken
<1>3. CASE GetToken /\ waiting
  BY <1>3, <1>1 DEF GetToken
<1> QED  BY <1>1, <1>2, <1>3 DEF ApnsTypes

\* Verifying some calls keeps the types of what it touches.
LEMMA VerifyClientTypes ==
  ASSUME TypeOK, NEW S, NEW inHand \in Optional(Receipts), VerifyClient(S, inHand)
  PROVE  /\ stage' \in [Calls -> Stages]
         /\ proof' \in [Calls -> Optional(Receipts)]
         /\ ApnsTypes'
<1>1. proof' \in [Calls -> Optional(Receipts)]
  BY DEF VerifyClient, TypeOK
<1>2. /\ Move(S, "sending") \/ Move(S, "verifyingClient") \/ Move(S, "awaitingToken")
      /\ GetToken \/ UNCHANGED apns
  BY DEF VerifyClient
<1>3. stage' \in [Calls -> Stages]
  BY <1>2, MoveTypes DEF Stages
<1>4. ApnsTypes
  BY DEF TypeOK, ApnsTypes
<1> QED  BY <1>1, <1>2, <1>3, <1>4, GetTokenTypes

\* So does calling back, and so does saving.
LEMMA CallBackTypes ==
  ASSUME TypeOK, NEW S, NEW inHand \in Optional(Receipts), CallBack(S, inHand)
  PROVE  /\ stage' \in [Calls -> Stages]
         /\ proof' \in [Calls -> Optional(Receipts)]
         /\ receipt' \in [Calls -> Optional(Receipts)]
<1>1. Move(S, "sending") \/ Move(S, "fetchingDomain")
  BY DEF CallBack
<1>2. stage' \in [Calls -> Stages]
  BY <1>1, MoveTypes DEF Stages
<1>3. proof' \in [Calls -> Optional(Receipts)]
  BY DEF CallBack, TypeOK
<1>4. receipt' \in [Calls -> Optional(Receipts)]
  BY DEF CallBack, TypeOK, Optional
<1> QED  BY <1>2, <1>3, <1>4

LEMMA SaveDataTypes ==
  ASSUME TypeOK, NEW n \in Nat, issued <= n,
         NEW inHand \in Optional(1..n), NEW receipts \in SUBSET (1..n),
         Cardinality(receipts) <= MaxPending,
         SaveData(inHand, receipts)
  PROVE  /\ saved' \in [credential : Optional(1..n), pending : SUBSET (1..n)]
         /\ Cardinality(saved'.pending) <= MaxPending
         /\ lostSaves' \in 0..MaxLostSaves
<1>1. 1..issued \subseteq 1..n
  BY VerificationAssumption DEF TypeOK
<1>2. CASE saved' = [credential |-> inHand, pending |-> receipts] /\ UNCHANGED lostSaves
  BY <1>2 DEF TypeOK
<1>3. CASE saved' = saved /\ lostSaves < MaxLostSaves /\ lostSaves' = lostSaves + 1
  <2>1. saved \in [credential : Optional(1..n), pending : SUBSET (1..n)]
    BY <1>1 DEF TypeOK, Keychain, Optional, Receipts
  <2>2. lostSaves' \in 0..MaxLostSaves
    BY <1>3, VerificationAssumption DEF TypeOK
  <2> QED  BY <1>3, <2>1, <2>2 DEF TypeOK
<1> QED  BY <1>2, <1>3 DEF SaveData

LEMMA TypeInit == Init => TypeOK
<1> SUFFICES ASSUME Init PROVE TypeOK
  OBVIOUS
<1>1. lostSaves \in 0..MaxLostSaves /\ issued \in 0..MaxReceipts
  BY VerificationAssumption DEF Init
<1>2. Cardinality(pending) <= MaxPending /\ Cardinality(saved.pending) <= MaxPending
  BY FS_EmptySet, VerificationAssumption DEF Init
<1>3. saved \in Keychain
  BY DEF Init, Keychain, Optional
<1> QED  BY <1>1, <1>2, <1>3 DEF Init, TypeOK, Stages, Optional

LEMMA TypeStep == TypeOK /\ [Next]_vars => TypeOK'
<1> SUFFICES ASSUME TypeOK, [Next]_vars PROVE TypeOK'
  OBVIOUS
<1> USE DEF answers, probe, apns, secrets
<1>u. issued' = issued => /\ Receipts' = Receipts
                          /\ Optional(Receipts)' = Optional(Receipts)
                          /\ Keychain' = Keychain
  BY DEF Receipts, Optional, Keychain
<1>q. "queued" \in Stages /\ "probing" \in Stages /\ "answered" \in Stages
      /\ "fetchingDomain" \in Stages /\ "verifyingClient" \in Stages
      /\ "sending" \in Stages /\ "dropped" \in Stages /\ "over" \in Stages
      /\ "browsing" \in Stages /\ "awaitingPush" \in Stages
  BY DEF Stages
<1>1. ASSUME NEW c \in Calls, VerifyPhoneNumber(c) PROVE TypeOK'
  BY <1>1, <1>u, <1>q, MoveTypes DEF VerifyPhoneNumber, TypeOK
<1>2. ASSUME NEW c \in Calls, MissingPhoneNumber(c) PROVE TypeOK'
  BY <1>2, <1>u, <1>q, MoveTypes DEF MissingPhoneNumber, TypeOK
<1>3. ASSUME NEW c \in Calls, Probe(c) PROVE TypeOK'
  BY <1>3, <1>u, <1>q, MoveTypes DEF Probe, TypeOK
<1>4. ASSUME NEW c \in Calls, FollowVerdict(c) PROVE TypeOK'
  <2>1. CASE VerifyClient({c}, credential)
    <3>1. credential \in Optional(Receipts)
      BY DEF TypeOK
    <3> QED  BY <1>4, <1>u, <2>1, <3>1, VerifyClientTypes
             DEF FollowVerdict, TypeOK, ApnsTypes
  <2>2. CASE Move({c}, "answered") /\ UNCHANGED <<proof, apns>>
    BY <1>4, <1>u, <1>q, <2>2, MoveTypes DEF FollowVerdict, TypeOK
  <2> QED  BY <1>4, <2>1, <2>2 DEF FollowVerdict
<1>5. CASE RunProber
  <2>1. CASE forwarding = "checking"
    <3>1. credential \in Optional(Receipts) /\ VerifyClient(At("probing"), credential)
      BY <1>5, <2>1 DEF TypeOK, RunProber
    <3> QED  BY <1>5, <1>u, <2>1, <3>1, VerifyClientTypes
             DEF RunProber, TypeOK, ApnsTypes
  <2>2. CASE forwarding # "checking"
    BY <1>5, <1>u, <2>2 DEF RunProber, TypeOK
  <2> QED  BY <2>1, <2>2
<1>6. CASE ProbeTimeout
  BY <1>6, <1>u, <1>q, MoveTypes DEF ProbeTimeout, TypeOK
<1>7. CASE ReceiveToken
  BY <1>7, <1>u, <1>q, MoveTypes DEF ReceiveToken, TypeOK
<1>8. CASE RegistrationFails
  BY <1>8, <1>u, <1>q, MoveTypes DEF RegistrationFails, GiveUpToken, TypeOK
<1>9. ASSUME NEW n \in timers, TokenTimeout(n) PROVE TypeOK'
  BY <1>9, <1>u, <1>q, MoveTypes DEF TokenTimeout, GiveUpToken, TypeOK
<1>10. ASSUME NEW c \in Calls, DidStartVerification(c) PROVE TypeOK'
  <2>1. issued' = issued + 1 /\ issued' \in 0..MaxReceipts /\ issued \in Nat
    BY <1>10, VerificationAssumption DEF DidStartVerification, TypeOK
  <2>2. /\ Receipts' = 1..(issued + 1)
        /\ Receipts \subseteq Receipts'
        /\ Optional(Receipts)' = Optional(1..(issued + 1))
        /\ Keychain' = [credential : Optional(1..(issued + 1)),
                        pending : SUBSET (1..(issued + 1))]
    BY <2>1 DEF Receipts, Optional, Keychain
  <2>3. pending \in SUBSET (1..issued) /\ Cardinality(pending) <= MaxPending
    BY DEF TypeOK, Receipts
  <2>4. pending' = DiscardOldest(pending) \cup {issued + 1}
    BY <1>10, <2>1 DEF DidStartVerification
  <2>5. pending' \in SUBSET (1..(issued + 1)) /\ Cardinality(pending') <= MaxPending
    <3>1. /\ DiscardOldest(pending) \cup {issued + 1} \in SUBSET (1..(issued + 1))
          /\ Cardinality(DiscardOldest(pending) \cup {issued + 1}) <= MaxPending
      BY <2>1, <2>3, DiscardKeepsLimit
    <3> QED  BY <2>4, <3>1, Zenon
  <2>6. credential \in Optional(1..(issued + 1)) /\ SaveData(credential, pending')
    BY <1>10, <2>2 DEF DidStartVerification, TypeOK, Optional, Receipts
  <2>7. /\ saved' \in Keychain'
        /\ Cardinality(saved'.pending) <= MaxPending
        /\ lostSaves' \in 0..MaxLostSaves
    BY <2>1, <2>2, <2>5, <2>6, SaveDataTypes
  <2>8. stage' \in [Calls -> Stages]
    BY <1>10, <1>q, MoveTypes DEF DidStartVerification
  <2>9. /\ receipt' \in [Calls -> Optional(Receipts)']
        /\ proof' \in [Calls -> Optional(Receipts)']
        /\ rejected' \in [Calls -> Optional(Receipts)']
    <3>1. Optional(Receipts) \subseteq Optional(Receipts)' /\ issued' \in Optional(Receipts)'
      BY <2>1, <2>2 DEF Optional, Receipts
    <3> QED  BY <1>10, <3>1 DEF DidStartVerification, TypeOK
  <2> QED  BY <1>10, <2>1, <2>2, <2>5, <2>6, <2>7, <2>8, <2>9
           DEF DidStartVerification, TypeOK
<1>11. ASSUME NEW c \in Calls, VerifyClientFails(c) PROVE TypeOK'
  BY <1>11, <1>u, <1>q, MoveTypes DEF VerifyClientFails, TypeOK
<1>12. ASSUME NEW r \in pending, ReceivePush(r) PROVE TypeOK'
  <2>1. issued \in Nat /\ r \in Optional(Receipts) /\ r \in Optional(1..issued)
    BY VerificationAssumption DEF TypeOK, Optional, Receipts
  <2>2. pending' \in SUBSET (1..issued) /\ Cardinality(pending') <= MaxPending
    <3>1. /\ pending' = pending \ {r}
          /\ IsFiniteSet(pending) /\ Cardinality(pending) \in Nat
      BY <1>12, <2>1, ReceiptsFinite DEF ReceivePush, TypeOK, Receipts
    <3>2. Cardinality(pending \ {r}) = Cardinality(pending) - 1
      BY <3>1, FS_RemoveElement
    <3> QED  BY <3>1, <3>2, VerificationAssumption DEF TypeOK, Receipts
  <2>3. /\ saved' \in Keychain
        /\ Cardinality(saved'.pending) <= MaxPending
        /\ lostSaves' \in 0..MaxLostSaves
    BY <1>12, <2>1, <2>2, SaveDataTypes DEF ReceivePush, Keychain, Receipts
  <2>4. /\ stage' \in [Calls -> Stages]
        /\ proof' \in [Calls -> Optional(Receipts)]
        /\ receipt' \in [Calls -> Optional(Receipts)]
    BY <1>12, <2>1, CallBackTypes DEF ReceivePush
  <2> QED  BY <1>12, <1>u, <2>1, <2>2, <2>3, <2>4 DEF ReceivePush, TypeOK, Receipts
<1>13. ASSUME NEW c \in Calls, PushTimeout(c) PROVE TypeOK'
  <2>1. credential \in Optional(Receipts) /\ CallBack({c}, credential)
    BY <1>13 DEF TypeOK, PushTimeout
  <2> QED  BY <1>13, <1>u, <2>1, CallBackTypes DEF PushTimeout, TypeOK
<1>14. ASSUME NEW c \in Calls, NoAuthDomain(c) PROVE TypeOK'
  BY <1>14, <1>u, <1>q, MoveTypes DEF NoAuthDomain, TypeOK
<1>15. ASSUME NEW c \in Calls, PresentURL(c) PROVE TypeOK'
  <2>1. page' \in Pages \cup {Nil}
    BY <1>15 DEF PresentURL, TypeOK, Pages, PageStates
  <2> QED  BY <1>15, <1>u, <1>q, <2>1, MoveTypes DEF PresentURL, TypeOK
<1>16. CASE ShowPage
  <2>1. page' \in Pages \cup {Nil}
    BY <1>16 DEF ShowPage, TypeOK, Pages, PageStates
  <2> QED  BY <1>16, <1>u, <2>1 DEF ShowPage, TypeOK
<1>17. CASE UserClosesPage
  BY <1>17, <1>u, <1>q, MoveTypes DEF UserClosesPage, TypeOK
<1>18. ASSUME NEW answer \in Answers, CallbackURL(answer) PROVE TypeOK'
  <2>1. page' \in Pages \cup {Nil}
    BY <1>18 DEF CallbackURL, TypeOK, Pages, PageStates
  <2> QED  BY <1>18, <1>u, <2>1 DEF CallbackURL, TypeOK
<1>19. CASE PageDismissed
  <2>1. \/ Move({page.call}, "sending")
        \/ Move({page.call}, "answered")
        \/ Move({page.call}, "dropped")
    BY <1>19 DEF PageDismissed, Answers
  <2>2. stage' \in [Calls -> Stages]
    BY <1>q, <2>1, MoveTypes
  <2> QED  BY <1>19, <1>u, <2>2 DEF PageDismissed, TypeOK
<1>20. ASSUME NEW c \in Calls, NEW ok \in BOOLEAN, SendAnswered(c, ok) PROVE TypeOK'
  BY <1>20, <1>u, <1>q, MoveTypes DEF SendAnswered, TypeOK, Optional
<1>21. ASSUME NEW c \in Calls, CredentialRejected(c) PROVE TypeOK'
  <2>1. Nil \in Optional(Receipts) /\ Nil \in Optional(1..issued) /\ issued \in Nat
    BY VerificationAssumption DEF Optional, TypeOK
  <2>2. /\ stage' \in [Calls -> Stages]
        /\ proof' \in [Calls -> Optional(Receipts)]
        /\ ApnsTypes'
    BY <1>21, <2>1, VerifyClientTypes DEF CredentialRejected
  <2>3. /\ saved' \in Keychain
        /\ Cardinality(saved'.pending) <= MaxPending
        /\ lostSaves' \in 0..MaxLostSaves
    BY <1>21, <2>1, SaveDataTypes DEF CredentialRejected, Keychain, Receipts, TypeOK
  <2>4. rejected' \in [Calls -> Optional(Receipts)] /\ retry' \in [Calls -> BOOLEAN]
    BY <1>21 DEF CredentialRejected, TypeOK
  <2>5. spurned' \in SUBSET Receipts
    <3>1. proof[c] \in Optional(Receipts) /\ spurned \in SUBSET Receipts
      BY DEF TypeOK
    <3>2. spurned' = spurned \cup ({proof[c]} \ {Nil})
      BY <1>21 DEF CredentialRejected
    <3> QED  BY <3>1, <3>2 DEF Optional
  <2> QED  BY <1>21, <1>u, <2>1, <2>2, <2>3, <2>4, <2>5
           DEF CredentialRejected, TypeOK, ApnsTypes
<1>22. ASSUME NEW c \in Calls, Deliver(c) PROVE TypeOK'
  BY <1>22, <1>u, <1>q, MoveTypes DEF Deliver, TypeOK
<1>23. CASE Relaunch
  <2>1. /\ stage' \in [Calls -> Stages]
        /\ retry' \in [Calls -> BOOLEAN]
    BY <1>23 DEF Relaunch, TypeOK, Stages
  <2>2. /\ credential' \in Optional(Receipts)
        /\ pending' \in SUBSET Receipts
        /\ Cardinality(pending') <= MaxPending
    <3>1. CASE credential' = saved.credential /\ pending' = saved.pending
      BY <3>1 DEF TypeOK, Keychain
    <3>2. CASE credential' = Nil /\ pending' = {}
      BY <3>2, FS_EmptySet, VerificationAssumption DEF Optional
    <3> QED  BY <1>23, <3>1, <3>2 DEF Relaunch
  <2>3. /\ receipt' \in [Calls -> Optional(Receipts)]
        /\ proof' \in [Calls -> Optional(Receipts)]
        /\ rejected' \in [Calls -> Optional(Receipts)]
    BY <1>23 DEF Relaunch, Optional
  <2>4. batch' \in Nat /\ timers' \in SUBSET (1..batch')
    BY <1>23 DEF Relaunch
  <2> QED  BY <1>23, <1>u, <2>1, <2>2, <2>3, <2>4 DEF Relaunch, TypeOK
<1>24. CASE UNCHANGED vars
  BY <1>24, <1>u DEF vars, TypeOK
<1> QED
  BY <1>1, <1>2, <1>3, <1>4, <1>5, <1>6, <1>7, <1>8, <1>9, <1>10, <1>11, <1>12,
     <1>13, <1>14, <1>15, <1>16, <1>17, <1>18, <1>19, <1>20, <1>21, <1>22, <1>23,
     <1>24 DEF Next, Advance

\* Every variable keeps its type, and no list of receipts outgrows its limit.
THEOREM TypeCorrect == Spec => []TypeOK
<1> QED  BY TypeInit, TypeStep, PTL DEF Spec

-----------------------------------------------------------------------------
(* The page *)

\* Calls that have no page move among themselves.
LEMMA MoveOffPage ==
  ASSUME TypeOK, OnePageOneCall, NEW S, NEW s, s # "browsing",
         \A c \in S : c \in Calls => stage[c] # "browsing",
         Move(S, s), page' = page
  PROVE  OnePageOneCall'
<1>1. ASSUME NEW c \in Calls PROVE stage'[c] = "browsing" <=> stage[c] = "browsing"
  BY DEF Move
<1> QED  BY <1>1 DEF OnePageOneCall

LEMMA PageStep == TypeOK /\ OnePageOneCall /\ ReceiptsStand /\ [Next]_vars => OnePageOneCall'
<1> SUFFICES ASSUME TypeOK, OnePageOneCall, ReceiptsStand, [Next]_vars
             PROVE  OnePageOneCall'
  OBVIOUS
<1> USE DEF answers, probe, apns, secrets
<1>p. page \in Pages \cup {Nil} /\ Nil \notin Pages
  BY VerificationAssumption DEF TypeOK
<1>1. ASSUME NEW c \in Calls, VerifyPhoneNumber(c) PROVE OnePageOneCall'
  BY <1>1, MoveOffPage DEF VerifyPhoneNumber
<1>2. ASSUME NEW c \in Calls, MissingPhoneNumber(c) PROVE OnePageOneCall'
  BY <1>2, MoveOffPage DEF MissingPhoneNumber
<1>3. ASSUME NEW c \in Calls, Probe(c) PROVE OnePageOneCall'
  BY <1>3, MoveOffPage DEF Probe
<1>4. ASSUME NEW c \in Calls, FollowVerdict(c) PROVE OnePageOneCall'
  BY <1>4, MoveOffPage DEF FollowVerdict, VerifyClient
<1>5. CASE RunProber
  <2>1. CASE forwarding = "checking"
    BY <1>5, <2>1, MoveOffPage DEF RunProber, VerifyClient, At
  <2>2. CASE forwarding # "checking"
    BY <1>5, <2>2 DEF RunProber, OnePageOneCall
  <2> QED  BY <2>1, <2>2
<1>6. CASE ProbeTimeout
  BY <1>6, MoveOffPage DEF ProbeTimeout, At
<1>7. CASE ReceiveToken
  BY <1>7, MoveOffPage DEF ReceiveToken, At
<1>8. CASE RegistrationFails
  BY <1>8, MoveOffPage DEF RegistrationFails, GiveUpToken, At
<1>9. ASSUME NEW n \in timers, TokenTimeout(n) PROVE OnePageOneCall'
  <2>1. CASE GiveUpToken
    BY <1>9, <2>1, MoveOffPage DEF TokenTimeout, GiveUpToken, At
  <2>2. CASE UNCHANGED stage
    BY <1>9, <2>2 DEF TokenTimeout, OnePageOneCall
  <2> QED  BY <1>9, <2>1, <2>2 DEF TokenTimeout
<1>10. ASSUME NEW c \in Calls, DidStartVerification(c) PROVE OnePageOneCall'
  BY <1>10, MoveOffPage DEF DidStartVerification
<1>11. ASSUME NEW c \in Calls, VerifyClientFails(c) PROVE OnePageOneCall'
  BY <1>11, MoveOffPage DEF VerifyClientFails
<1>12. ASSUME NEW r \in pending, ReceivePush(r) PROVE OnePageOneCall'
  <2>1. \A c \in CallbackOf(r) : stage[c] # "browsing"
    BY VerificationAssumption DEF CallbackOf, ReceiptsStand, TypeOK, Receipts
  <2> QED  BY <1>12, <2>1, MoveOffPage DEF ReceivePush, CallBack
<1>13. ASSUME NEW c \in Calls, PushTimeout(c) PROVE OnePageOneCall'
  <2>1. stage[c] # "browsing"
    BY <1>13 DEF PushTimeout, ReceiptsStand
  <2> QED  BY <1>13, <2>1, MoveOffPage DEF PushTimeout, CallBack
<1>14. ASSUME NEW c \in Calls, NoAuthDomain(c) PROVE OnePageOneCall'
  BY <1>14, MoveOffPage DEF NoAuthDomain
<1>15. ASSUME NEW c \in Calls, PresentURL(c) PROVE OnePageOneCall'
  <2>1. CASE page # Nil
    BY <1>15, <2>1, MoveOffPage DEF PresentURL
  <2>2. CASE page = Nil
    <3>1. page' = [call |-> c, at |-> "opening"] /\ page' # Nil
      BY <1>15, <1>p, <2>2 DEF PresentURL, Pages, PageStates
    <3>2. \A d \in Calls : stage[d] # "browsing"
      BY <2>2 DEF OnePageOneCall
    <3>3. \A d \in Calls : stage'[d] = "browsing" <=> d = c
      BY <1>15, <2>2, <3>2 DEF PresentURL, Move
    <3> QED  BY <3>1, <3>3 DEF OnePageOneCall
  <2> QED  BY <2>1, <2>2
<1>16. CASE ShowPage
  <2>1. page \in Pages /\ page' \in Pages /\ page'.call = page.call
    BY <1>16, <1>p DEF ShowPage, Pages, PageStates
  <2> QED  BY <1>16, <1>p, <2>1 DEF ShowPage, OnePageOneCall
<1>17. CASE UserClosesPage
  BY <1>17 DEF UserClosesPage, Move, OnePageOneCall
<1>18. ASSUME NEW answer \in Answers, CallbackURL(answer) PROVE OnePageOneCall'
  <2>1. page \in Pages /\ page' \in Pages /\ page'.call = page.call
    BY <1>18, <1>p DEF CallbackURL, Pages, PageStates
  <2> QED  BY <1>18, <1>p, <2>1 DEF CallbackURL, OnePageOneCall
<1>19. CASE PageDismissed
  <2>1. \/ Move({page.call}, "sending")
        \/ Move({page.call}, "answered")
        \/ Move({page.call}, "dropped")
    BY <1>19 DEF PageDismissed, Answers
  <2>2. page # Nil /\ page' = Nil
    BY <1>19 DEF PageDismissed
  <2>3. \A d \in Calls : stage[d] = "browsing" => d = page.call
    BY <2>2 DEF OnePageOneCall
  <2>4. \A d \in Calls : stage'[d] # "browsing"
    BY <2>1, <2>3 DEF Move
  <2> QED  BY <2>2, <2>4 DEF OnePageOneCall
<1>20. ASSUME NEW c \in Calls, NEW ok \in BOOLEAN, SendAnswered(c, ok)
       PROVE  OnePageOneCall'
  BY <1>20, MoveOffPage DEF SendAnswered
<1>21. ASSUME NEW c \in Calls, CredentialRejected(c) PROVE OnePageOneCall'
  BY <1>21, MoveOffPage DEF CredentialRejected, VerifyClient
<1>22. ASSUME NEW c \in Calls, Deliver(c) PROVE OnePageOneCall'
  BY <1>22, MoveOffPage DEF Deliver
<1>23. CASE Relaunch
  BY <1>23 DEF Relaunch, OnePageOneCall
<1>24. CASE UNCHANGED vars
  BY <1>24 DEF vars, OnePageOneCall
<1> QED
  BY <1>1, <1>2, <1>3, <1>4, <1>5, <1>6, <1>7, <1>8, <1>9, <1>10, <1>11, <1>12,
     <1>13, <1>14, <1>15, <1>16, <1>17, <1>18, <1>19, <1>20, <1>21, <1>22, <1>23,
     <1>24 DEF Next, Advance

-----------------------------------------------------------------------------
(* Waiting *)

\* A call that starts to wait for a token waits in a list with a timer, and no
\* other step of verifyClient touches the waits.
LEMMA VerifyClientWaits ==
  ASSUME TypeOK, WaitersAreServed, TimersStand,
         NEW S, NEW inHand, VerifyClient(S, inHand)
  PROVE  /\ (At("awaitingToken") # {})' => waiting' /\ batch' \in timers'
         /\ TimersStand'
         /\ \A c \in Calls : stage'[c] = "probing" => stage[c] = "probing" /\ c \notin S
<1>1. CASE GetToken /\ Move(S, "awaitingToken")
  <2>1. waiting' /\ batch' \in timers'
    BY <1>1 DEF GetToken, TimersStand, apns
  <2> QED  BY <1>1, <2>1 DEF TimersStand, Move
<1>2. CASE UNCHANGED apns /\ (Move(S, "sending") \/ Move(S, "verifyingClient"))
  <2>1. \A c \in Calls : stage'[c] = "awaitingToken" => stage[c] = "awaitingToken"
    BY <1>2 DEF Move
  <2>2. (At("awaitingToken") # {})' => At("awaitingToken") # {}
    BY <2>1 DEF At
  <2> QED  BY <1>2, <2>2 DEF WaitersAreServed, TimersStand, apns, Move
<1> QED  BY <1>1, <1>2 DEF VerifyClient

\* Moving on to another stage adds nobody to the two waits.
LEMMA MoveOffWaits ==
  ASSUME WaitersAreServed, TimersStand, NEW S, NEW s,
         s \notin {"probing", "awaitingToken"}, Move(S, s), UNCHANGED <<apns, forwarding>>
  PROVE  WaitersAreServed' /\ TimersStand'
<1>1. /\ \A c \in Calls : stage'[c] = "probing" => stage[c] = "probing"
      /\ \A c \in Calls : stage'[c] = "awaitingToken" => stage[c] = "awaitingToken"
  BY DEF Move
<1>2. (At("probing") # {})' => At("probing") # {}
  BY <1>1 DEF At
<1>3. (At("awaitingToken") # {})' => At("awaitingToken") # {}
  BY <1>1 DEF At
<1> QED  BY <1>2, <1>3 DEF WaitersAreServed, TimersStand, apns

LEMMA WaitStep ==
  TypeOK /\ WaitersAreServed /\ TimersStand /\ [Next]_vars
    => WaitersAreServed' /\ TimersStand'
<1> SUFFICES ASSUME TypeOK, WaitersAreServed, TimersStand, [Next]_vars
             PROVE  WaitersAreServed' /\ TimersStand'
  OBVIOUS
<1> USE DEF answers, probe, secrets
<1>1. ASSUME NEW c \in Calls, VerifyPhoneNumber(c) PROVE WaitersAreServed' /\ TimersStand'
  BY <1>1, MoveOffWaits DEF VerifyPhoneNumber
<1>2. ASSUME NEW c \in Calls, MissingPhoneNumber(c) PROVE WaitersAreServed' /\ TimersStand'
  BY <1>2, MoveOffWaits DEF MissingPhoneNumber
<1>3. ASSUME NEW c \in Calls, Probe(c) PROVE WaitersAreServed' /\ TimersStand'
  <2>1. (At("awaitingToken") # {})' => At("awaitingToken") # {}
    BY <1>3 DEF Probe, Move, At
  <2> QED  BY <1>3, <2>1 DEF Probe, WaitersAreServed, TimersStand, apns
<1>4. ASSUME NEW c \in Calls, FollowVerdict(c) PROVE WaitersAreServed' /\ TimersStand'
  <2>1. CASE VerifyClient({c}, credential)
    <3>1. (At("probing") # {})' => At("probing") # {}
      BY <2>1, VerifyClientWaits DEF At
    <3> QED  BY <1>4, <2>1, <3>1, VerifyClientWaits DEF FollowVerdict, WaitersAreServed
  <2>2. CASE Move({c}, "answered") /\ UNCHANGED apns
    BY <1>4, <2>2, MoveOffWaits DEF FollowVerdict
  <2> QED  BY <1>4, <2>1, <2>2 DEF FollowVerdict
<1>5. CASE RunProber
  <2>1. CASE forwarding = "checking"
    <3>1. VerifyClient(At("probing"), credential)
      BY <1>5, <2>1 DEF RunProber
    <3>2. (At("probing"))' = {}
      BY <3>1, VerifyClientWaits DEF At
    <3> QED  BY <3>1, <3>2, VerifyClientWaits DEF WaitersAreServed
  <2>2. CASE forwarding # "checking"
    BY <1>5, <2>2 DEF RunProber, WaitersAreServed, TimersStand, At, apns
  <2> QED  BY <2>1, <2>2
<1>6. CASE ProbeTimeout
  <2>1. (At("probing"))' = {}
    BY <1>6 DEF ProbeTimeout, Move, At
  <2>2. (At("awaitingToken") # {})' => At("awaitingToken") # {}
    BY <1>6 DEF ProbeTimeout, Move, At
  <2> QED  BY <1>6, <2>1, <2>2 DEF ProbeTimeout, WaitersAreServed, TimersStand, apns
<1>7. ASSUME NEW s, s \notin {"probing", "awaitingToken"}, waiting' = FALSE,
             Move(At("awaitingToken"), s), UNCHANGED forwarding
      PROVE  WaitersAreServed' /\ TimersStand'
  <2>1. (At("awaitingToken"))' = {}
    BY <1>7 DEF Move, At
  <2>2. (At("probing") # {})' => At("probing") # {}
    BY <1>7 DEF Move, At
  <2> QED  BY <1>7, <2>1, <2>2 DEF WaitersAreServed, TimersStand
<1>8. CASE ReceiveToken
  BY <1>7, <1>8 DEF ReceiveToken
<1>9. CASE RegistrationFails
  BY <1>7, <1>9 DEF RegistrationFails, GiveUpToken
<1>10. ASSUME NEW n \in timers, TokenTimeout(n) PROVE WaitersAreServed' /\ TimersStand'
  <2>1. CASE waiting /\ n = batch
    BY <1>7, <1>10, <2>1 DEF TokenTimeout, GiveUpToken
  <2>2. CASE ~ (waiting /\ n = batch)
    <3>1. UNCHANGED <<waiting, stage, batch, forwarding>> /\ timers' = timers \ {n}
      BY <1>10, <2>2 DEF TokenTimeout
    <3>2. waiting => batch \in timers'
      BY <2>2, <3>1 DEF TimersStand
    <3> QED  BY <3>1, <3>2 DEF WaitersAreServed, TimersStand, At
  <2> QED  BY <2>1, <2>2
<1>11. ASSUME NEW c \in Calls, DidStartVerification(c)
       PROVE  WaitersAreServed' /\ TimersStand'
  BY <1>11, MoveOffWaits DEF DidStartVerification
<1>12. ASSUME NEW c \in Calls, VerifyClientFails(c) PROVE WaitersAreServed' /\ TimersStand'
  BY <1>12, MoveOffWaits DEF VerifyClientFails
<1>13. ASSUME NEW r \in pending, ReceivePush(r) PROVE WaitersAreServed' /\ TimersStand'
  BY <1>13, MoveOffWaits DEF ReceivePush, CallBack
<1>14. ASSUME NEW c \in Calls, PushTimeout(c) PROVE WaitersAreServed' /\ TimersStand'
  BY <1>14, MoveOffWaits DEF PushTimeout, CallBack
<1>15. ASSUME NEW c \in Calls, NoAuthDomain(c) PROVE WaitersAreServed' /\ TimersStand'
  BY <1>15, MoveOffWaits DEF NoAuthDomain
<1>16. ASSUME NEW c \in Calls, PresentURL(c) PROVE WaitersAreServed' /\ TimersStand'
  BY <1>16, MoveOffWaits DEF PresentURL
<1>17. ASSUME UNCHANGED <<stage, apns, forwarding>>
       PROVE  WaitersAreServed' /\ TimersStand'
  BY <1>17 DEF WaitersAreServed, TimersStand, At, apns
<1>18. CASE ShowPage
  BY <1>17, <1>18 DEF ShowPage
<1>19. CASE UserClosesPage
  BY <1>19, MoveOffWaits DEF UserClosesPage
<1>20. ASSUME NEW answer \in Answers, CallbackURL(answer)
       PROVE  WaitersAreServed' /\ TimersStand'
  BY <1>17, <1>20 DEF CallbackURL
<1>21. CASE PageDismissed
  <2>1. \/ Move({page.call}, "sending")
        \/ Move({page.call}, "answered")
        \/ Move({page.call}, "dropped")
    BY <1>21 DEF PageDismissed, Answers
  <2> QED  BY <1>21, <2>1, MoveOffWaits DEF PageDismissed
<1>22. ASSUME NEW c \in Calls, NEW ok \in BOOLEAN, SendAnswered(c, ok)
       PROVE  WaitersAreServed' /\ TimersStand'
  BY <1>22, MoveOffWaits DEF SendAnswered
<1>23. ASSUME NEW c \in Calls, CredentialRejected(c) PROVE WaitersAreServed' /\ TimersStand'
  <2>1. VerifyClient({c}, Nil) /\ UNCHANGED forwarding
    BY <1>23 DEF CredentialRejected
  <2>2. (At("probing") # {})' => At("probing") # {}
    BY <2>1, VerifyClientWaits DEF At
  <2> QED  BY <2>1, <2>2, VerifyClientWaits DEF WaitersAreServed
<1>24. ASSUME NEW c \in Calls, Deliver(c) PROVE WaitersAreServed' /\ TimersStand'
  BY <1>24, MoveOffWaits DEF Deliver
<1>25. CASE Relaunch
  BY <1>25 DEF Relaunch, WaitersAreServed, TimersStand, At
<1>26. CASE UNCHANGED vars
  BY <1>17, <1>26 DEF vars
<1> QED
  BY <1>1, <1>2, <1>3, <1>4, <1>5, <1>6, <1>8, <1>9, <1>10, <1>11, <1>12, <1>13,
     <1>14, <1>15, <1>16, <1>18, <1>19, <1>20, <1>21, <1>22, <1>23, <1>24, <1>25,
     <1>26 DEF Next, Advance

-----------------------------------------------------------------------------
(* Receipts *)

\* Moving calls that do not wait for a push, to another stage than that.
LEMMA MoveOffReceipts ==
  ASSUME ReceiptsStand, NEW S, NEW s, s # "awaitingPush",
         \A c \in S : c \in Calls => stage[c] # "awaitingPush",
         Move(S, s), receipt' = receipt
  PROVE  ReceiptsStand'
BY DEF Move, ReceiptsStand

\* Nothing happens to the receipts and to those that wait for them.
LEMMA KeepReceipts ==
  ASSUME AwaitedReceiptIsPending, UNCHANGED <<receipt, issued, pending>>
  PROVE  AwaitedReceiptIsPending'
BY DEF AwaitedReceiptIsPending

LEMMA ReceiptStep ==
  TypeOK /\ ReceiptsStand /\ OnePageOneCall /\ AwaitedReceiptIsPending /\ [Next]_vars
    => ReceiptsStand' /\ AwaitedReceiptIsPending'
<1> SUFFICES ASSUME TypeOK, ReceiptsStand, OnePageOneCall, AwaitedReceiptIsPending,
                    [Next]_vars
             PROVE  ReceiptsStand' /\ AwaitedReceiptIsPending'
  OBVIOUS
<1> DEFINE Goal == ReceiptsStand' /\ AwaitedReceiptIsPending'
<1> USE DEF answers, secrets
<1>1. ASSUME NEW c \in Calls, VerifyPhoneNumber(c) PROVE Goal
  BY <1>1, MoveOffReceipts, KeepReceipts DEF VerifyPhoneNumber
<1>2. ASSUME NEW c \in Calls, MissingPhoneNumber(c) PROVE Goal
  BY <1>2, MoveOffReceipts, KeepReceipts DEF MissingPhoneNumber
<1>3. ASSUME NEW c \in Calls, Probe(c) PROVE Goal
  BY <1>3, MoveOffReceipts, KeepReceipts DEF Probe
<1>4. ASSUME NEW c \in Calls, FollowVerdict(c) PROVE Goal
  BY <1>4, MoveOffReceipts, KeepReceipts DEF FollowVerdict, VerifyClient
<1>5. CASE RunProber
  <2>1. CASE forwarding = "checking"
    BY <1>5, <2>1, MoveOffReceipts, KeepReceipts DEF RunProber, VerifyClient, At
  <2>2. CASE forwarding # "checking"
    BY <1>5, <2>2, KeepReceipts DEF RunProber, ReceiptsStand
  <2> QED  BY <2>1, <2>2
<1>6. CASE ProbeTimeout
  BY <1>6, MoveOffReceipts, KeepReceipts DEF ProbeTimeout, At
<1>7. CASE ReceiveToken
  BY <1>7, MoveOffReceipts, KeepReceipts DEF ReceiveToken, At
<1>8. CASE RegistrationFails
  BY <1>8, MoveOffReceipts, KeepReceipts DEF RegistrationFails, GiveUpToken, At
<1>9. ASSUME NEW n \in timers, TokenTimeout(n) PROVE Goal
  <2>1. CASE GiveUpToken
    BY <1>9, <2>1, MoveOffReceipts, KeepReceipts DEF TokenTimeout, GiveUpToken, At
  <2>2. CASE UNCHANGED stage
    BY <1>9, <2>2, KeepReceipts DEF TokenTimeout, ReceiptsStand
  <2> QED  BY <1>9, <2>1, <2>2 DEF TokenTimeout
<1>10. ASSUME NEW c \in Calls, DidStartVerification(c) PROVE Goal
  <2>1. /\ issued \in Nat /\ issued' = issued + 1
        /\ receipt' = [receipt EXCEPT ![c] = issued + 1]
        /\ pending' = DiscardOldest(pending) \cup {issued + 1}
        /\ Move({c}, "awaitingPush")
    BY <1>10, VerificationAssumption DEF DidStartVerification, TypeOK
  <2>2. receipt \in [Calls -> Optional(1..issued)] /\ pending \in SUBSET (1..issued)
    BY DEF TypeOK, Receipts
  <2>3. ReceiptsStand'
    <3>1. issued + 1 # Nil
      BY <2>1, VerificationAssumption
    <3> QED  BY <2>1, <2>2, <3>1 DEF ReceiptsStand, Move
  <2>4. ASSUME NEW d \in Calls, receipt'[d] # Nil, issued' < receipt'[d] + MaxPending
        PROVE  receipt'[d] \in pending'
    <3>1. CASE d = c
      BY <2>1, <2>2, <3>1
    <3>2. CASE d # c
      <4>1. receipt'[d] = receipt[d] /\ receipt[d] \in 1..issued
        BY <2>1, <2>2, <2>4, <3>2 DEF Optional
      <4>2. receipt[d] \in pending
        BY <2>1, <2>4, <4>1, VerificationAssumption DEF AwaitedReceiptIsPending
      <4>3. receipt[d] \in DiscardOldest(pending)
        <5>1. ~ (issued + 1 >= receipt[d] + MaxPending)
          BY <2>1, <2>4, <4>1, VerificationAssumption
        <5> QED  BY <2>1, <2>2, <4>2, <5>1, DiscardedIsOld
      <4> QED  BY <2>1, <4>1, <4>3
    <3> QED  BY <3>1, <3>2
  <2> QED  BY <2>3, <2>4 DEF AwaitedReceiptIsPending
<1>11. ASSUME NEW c \in Calls, VerifyClientFails(c) PROVE Goal
  BY <1>11, MoveOffReceipts, KeepReceipts DEF VerifyClientFails
<1>12. ASSUME NEW S \in SUBSET Calls, NEW inHand, CallBack(S, inHand),
              issued' = issued,
              \A c \in Calls \ S : receipt[c] \in pending /\ receipt[c] # Nil
                                   => receipt[c] \in pending'
       PROVE  Goal
  <2>1. \A c \in Calls : receipt'[c] = IF c \in S THEN Nil ELSE receipt[c]
    BY <1>12 DEF CallBack
  <2>2. \A c \in Calls : \/ c \in S /\ stage'[c] # "awaitingPush"
                         \/ c \notin S /\ stage'[c] = stage[c]
    BY <1>12 DEF CallBack, Move
  <2> QED  BY <1>12, <2>1, <2>2 DEF ReceiptsStand, AwaitedReceiptIsPending
<1>13. ASSUME NEW r \in pending, ReceivePush(r) PROVE Goal
  BY <1>12, <1>13 DEF ReceivePush, CallbackOf
<1>14. ASSUME NEW c \in Calls, PushTimeout(c) PROVE Goal
  BY <1>12, <1>14 DEF PushTimeout
<1>15. ASSUME NEW c \in Calls, NoAuthDomain(c) PROVE Goal
  BY <1>15, MoveOffReceipts, KeepReceipts DEF NoAuthDomain
<1>16. ASSUME NEW c \in Calls, PresentURL(c) PROVE Goal
  BY <1>16, MoveOffReceipts, KeepReceipts DEF PresentURL
<1>17. CASE ShowPage
  BY <1>17, KeepReceipts DEF ShowPage, ReceiptsStand
<1>18. CASE UserClosesPage
  BY <1>18, MoveOffReceipts, KeepReceipts DEF UserClosesPage, OnePageOneCall
<1>19. ASSUME NEW answer \in Answers, CallbackURL(answer) PROVE Goal
  BY <1>19, KeepReceipts DEF CallbackURL, ReceiptsStand
<1>20. CASE PageDismissed
  <2>1. \/ Move({page.call}, "sending")
        \/ Move({page.call}, "answered")
        \/ Move({page.call}, "dropped")
    BY <1>20 DEF PageDismissed, Answers
  <2>2. \A c \in {page.call} : c \in Calls => stage[c] # "awaitingPush"
    BY <1>20 DEF PageDismissed, OnePageOneCall
  <2> QED  BY <1>20, <2>1, <2>2, MoveOffReceipts, KeepReceipts DEF PageDismissed
<1>21. ASSUME NEW c \in Calls, NEW ok \in BOOLEAN, SendAnswered(c, ok) PROVE Goal
  BY <1>21, MoveOffReceipts, KeepReceipts DEF SendAnswered
<1>22. ASSUME NEW c \in Calls, CredentialRejected(c) PROVE Goal
  BY <1>22, MoveOffReceipts, KeepReceipts DEF CredentialRejected, VerifyClient
<1>23. ASSUME NEW c \in Calls, Deliver(c) PROVE Goal
  BY <1>23, MoveOffReceipts, KeepReceipts DEF Deliver
<1>24. CASE Relaunch
  BY <1>24 DEF Relaunch, ReceiptsStand, AwaitedReceiptIsPending
<1>25. CASE UNCHANGED vars
  BY <1>25, KeepReceipts DEF vars, ReceiptsStand
<1> QED
  BY <1>1, <1>2, <1>3, <1>4, <1>5, <1>6, <1>7, <1>8, <1>9, <1>10, <1>11, <1>13,
     <1>14, <1>15, <1>16, <1>17, <1>18, <1>19, <1>20, <1>21, <1>22, <1>23, <1>24,
     <1>25 DEF Next, Advance

-----------------------------------------------------------------------------
(* Secrets *)

\* All that SecretsStand and RejectedStaysOut speak of.
SecretVars == <<credential, pending, saved, proof, rejected, retry>>

LEMMA KeepSecrets ==
  ASSUME SecretsStand, RejectedStaysOut, UNCHANGED SecretVars
  PROVE  SecretsStand' /\ RejectedStaysOut'
BY DEF SecretVars, SecretsStand, RejectedStaysOut

\* Some calls get the credential in hand, or none.
LEMMA HandOut ==
  ASSUME SecretsStand, RejectedStaysOut, Nil \notin pending,
         NEW S, NEW inHand \in {credential, Nil},
         proof' = [c \in Calls |-> IF c \in S THEN inHand ELSE proof[c]],
         UNCHANGED <<credential, pending, saved, rejected, retry>>
  PROVE  SecretsStand' /\ RejectedStaysOut'
<1>1. ASSUME NEW c \in Calls
      PROVE  proof'[c] = inHand \/ proof'[c] = proof[c]
  OBVIOUS
<1>2. \A c \in Calls : proof'[c] \notin pending
  BY <1>1 DEF SecretsStand
<1>3. \A c \in Calls : rejected[c] # Nil => proof'[c] # rejected[c]
  BY <1>1 DEF RejectedStaysOut
<1> QED  BY <1>2, <1>3 DEF SecretsStand, RejectedStaysOut

LEMMA SecretStep ==
  TypeOK /\ SecretsStand /\ RejectedStaysOut /\ [Next]_vars
    => SecretsStand' /\ RejectedStaysOut'
<1> SUFFICES ASSUME TypeOK, SecretsStand, RejectedStaysOut, [Next]_vars
             PROVE  SecretsStand' /\ RejectedStaysOut'
  OBVIOUS
<1> DEFINE Goal == SecretsStand' /\ RejectedStaysOut'
<1> USE DEF answers, secrets
<1>n. Nil \notin pending /\ Nil \notin saved.pending
  <2>1. pending \subseteq 1..issued /\ saved.pending \subseteq 1..issued
    BY DEF TypeOK, Keychain, Receipts
  <2>2. 1..issued \subseteq Nat
    BY VerificationAssumption DEF TypeOK
  <2> QED  BY <2>1, <2>2, VerificationAssumption
<1>1. ASSUME NEW c \in Calls, VerifyPhoneNumber(c) PROVE Goal
  BY <1>1, KeepSecrets DEF VerifyPhoneNumber, SecretVars
<1>2. ASSUME NEW c \in Calls, MissingPhoneNumber(c) PROVE Goal
  BY <1>2, KeepSecrets DEF MissingPhoneNumber, SecretVars
<1>3. ASSUME NEW c \in Calls, Probe(c) PROVE Goal
  BY <1>3, KeepSecrets DEF Probe, SecretVars
<1>4. ASSUME NEW c \in Calls, FollowVerdict(c) PROVE Goal
  <2>1. CASE VerifyClient({c}, credential)
    BY <1>4, <2>1, <1>n, HandOut DEF FollowVerdict, VerifyClient
  <2>2. CASE UNCHANGED proof
    BY <1>4, <2>2, KeepSecrets DEF FollowVerdict, SecretVars
  <2> QED  BY <1>4, <2>1, <2>2 DEF FollowVerdict
<1>5. CASE RunProber
  <2>1. CASE forwarding = "checking"
    BY <1>5, <2>1, <1>n, HandOut DEF RunProber, VerifyClient
  <2>2. CASE forwarding # "checking"
    BY <1>5, <2>2, KeepSecrets DEF RunProber, SecretVars
  <2> QED  BY <2>1, <2>2
<1>6. CASE ProbeTimeout
  BY <1>6, KeepSecrets DEF ProbeTimeout, SecretVars
<1>7. CASE ReceiveToken
  BY <1>7, KeepSecrets DEF ReceiveToken, SecretVars
<1>8. CASE RegistrationFails
  BY <1>8, KeepSecrets DEF RegistrationFails, SecretVars
<1>9. ASSUME NEW n \in timers, TokenTimeout(n) PROVE Goal
  BY <1>9, KeepSecrets DEF TokenTimeout, SecretVars
<1>10. ASSUME NEW c \in Calls, DidStartVerification(c) PROVE Goal
  <2>1. /\ issued \in Nat /\ issued + 1 # Nil /\ issued + 1 \notin 1..issued
        /\ pending \subseteq 1..issued
    BY VerificationAssumption DEF TypeOK, Receipts
  <2>2. \A v \in Optional(1..issued) : v \notin pending => v \notin pending'
    <3>1. pending' \subseteq pending \cup {issued + 1}
      BY <1>10 DEF DidStartVerification, DiscardOldest
    <3> QED  BY <2>1, <3>1 DEF Optional
  <2>3. /\ UNCHANGED <<credential, proof, rejected, retry>>
        /\ \/ saved' = [credential |-> credential, pending |-> pending']
           \/ saved' = saved
    BY <1>10 DEF DidStartVerification, SaveData
  <2>4. credential \in Optional(1..issued)
    BY DEF TypeOK, Receipts
  <2>5. proof \in [Calls -> Optional(1..issued)] /\ rejected \in [Calls -> Optional(1..issued)]
    BY DEF TypeOK, Receipts
  <2> QED  BY <2>2, <2>3, <2>4, <2>5 DEF SecretsStand, RejectedStaysOut
<1>11. ASSUME NEW c \in Calls, VerifyClientFails(c) PROVE Goal
  BY <1>11, KeepSecrets DEF VerifyClientFails, SecretVars
<1>12. ASSUME NEW r \in pending, ReceivePush(r) PROVE Goal
  <2>1. /\ pending' = pending \ {r} /\ credential' = r
        /\ UNCHANGED <<rejected, retry>>
        /\ \/ saved' = [credential |-> r, pending |-> pending']
           \/ saved' = saved
    BY <1>12 DEF ReceivePush, SaveData
  <2>2. \A c \in Calls : proof'[c] = r \/ proof'[c] = proof[c]
    BY <1>12 DEF ReceivePush, CallBack
  <2> QED  BY <2>1, <2>2 DEF SecretsStand, RejectedStaysOut
<1>13. ASSUME NEW c \in Calls, PushTimeout(c) PROVE Goal
  BY <1>13, <1>n, HandOut DEF PushTimeout, CallBack
<1>14. ASSUME NEW c \in Calls, NoAuthDomain(c) PROVE Goal
  BY <1>14, KeepSecrets DEF NoAuthDomain, SecretVars
<1>15. ASSUME NEW c \in Calls, PresentURL(c) PROVE Goal
  BY <1>15, KeepSecrets DEF PresentURL, SecretVars
<1>16. CASE ShowPage
  BY <1>16, KeepSecrets DEF ShowPage, SecretVars
<1>17. CASE UserClosesPage
  BY <1>17, KeepSecrets DEF UserClosesPage, SecretVars
<1>18. ASSUME NEW answer \in Answers, CallbackURL(answer) PROVE Goal
  BY <1>18, KeepSecrets DEF CallbackURL, SecretVars
<1>19. CASE PageDismissed
  BY <1>19, KeepSecrets DEF PageDismissed, SecretVars
<1>20. ASSUME NEW c \in Calls, NEW ok \in BOOLEAN, SendAnswered(c, ok) PROVE Goal
  <2>1. proof' = [d \in Calls |-> IF d \in {c} THEN Nil ELSE proof[d]]
    BY <1>20 DEF SendAnswered, TypeOK
  <2> QED  BY <1>20, <2>1, <1>n, HandOut DEF SendAnswered
<1>21. ASSUME NEW c \in Calls, CredentialRejected(c) PROVE Goal
  <2>1. /\ credential' = Nil /\ pending' = pending
        /\ \/ saved' = [credential |-> Nil, pending |-> pending]
           \/ saved' = saved
    BY <1>21 DEF CredentialRejected, SaveData
  <2>2. \A d \in Calls :
          /\ rejected'[d] = IF d = c THEN proof[c] ELSE rejected[d]
          /\ retry'[d] = IF d = c THEN FALSE ELSE retry[d]
          /\ proof'[d] = IF d = c THEN Nil ELSE proof[d]
    BY <1>21 DEF CredentialRejected, VerifyClient, TypeOK
  <2>3. SecretsStand'
    <3>1. saved'.credential \notin saved'.pending
      BY <1>n, <2>1 DEF SecretsStand
    <3>2. ASSUME NEW d \in Calls
          PROVE  /\ proof'[d] \notin pending'
                 /\ rejected'[d] \notin pending'
                 /\ rejected'[d] # Nil => retry'[d] = FALSE
      <4>1. CASE d = c
        BY <1>n, <2>1, <2>2, <4>1 DEF SecretsStand
      <4>2. CASE d # c
        BY <2>1, <2>2, <4>2 DEF SecretsStand
      <4> QED  BY <4>1, <4>2
    <3> QED  BY <1>n, <2>1, <3>1, <3>2 DEF SecretsStand
  <2>4. RejectedStaysOut'
    BY <2>1, <2>2 DEF RejectedStaysOut
  <2> QED  BY <2>3, <2>4
<1>22. ASSUME NEW c \in Calls, Deliver(c) PROVE Goal
  BY <1>22, KeepSecrets DEF Deliver, SecretVars
<1>23. CASE Relaunch
  BY <1>n, <1>23 DEF Relaunch, SecretsStand, RejectedStaysOut
<1>24. CASE UNCHANGED vars
  BY <1>24, KeepSecrets DEF vars, SecretVars
<1> QED
  BY <1>1, <1>2, <1>3, <1>4, <1>5, <1>6, <1>7, <1>8, <1>9, <1>10, <1>11, <1>12,
     <1>13, <1>14, <1>15, <1>16, <1>17, <1>18, <1>19, <1>20, <1>21, <1>22, <1>23,
     <1>24 DEF Next, Advance

-----------------------------------------------------------------------------
(* The keychain *)

\* Nothing a step does to one call brings a rejected credential back, or leaves it
\* to a later launch.
LEMMA KeychainStep ==
  TypeOK /\ SecretsStand /\ KeychainStands /\ [Next]_vars => KeychainStands'
<1> SUFFICES ASSUME TypeOK, SecretsStand, KeychainStands, [Next]_vars, lostSaves' = 0
             PROVE  KeychainStands'
  BY DEF KeychainStands
<1> USE DEF secrets
<1>t. /\ lostSaves \in Nat /\ issued \in Nat
      /\ spurned \in SUBSET (1..issued) /\ Nil \notin spurned
  <2>1. lostSaves \in 0..MaxLostSaves /\ issued \in 0..MaxReceipts
    BY DEF TypeOK
  <2>2. lostSaves \in Nat /\ issued \in Nat
    BY <2>1, VerificationAssumption
  <2>3. spurned \in SUBSET (1..issued)
    BY DEF TypeOK, Receipts
  <2>4. \A r \in 1..issued : r \in Nat
    BY <2>2
  <2>5. Nil \notin Nat
    BY VerificationAssumption
  <2>6. Nil \notin spurned
    BY <2>3, <2>4, <2>5
  <2> QED  BY <2>2, <2>3, <2>6
<1>1. CASE UNCHANGED <<credential, pending, saved, lostSaves, spurned>>
  BY <1>1 DEF KeychainStands
<1>2. ASSUME NEW inHand, NEW receipts, SaveData(inHand, receipts)
      PROVE  lostSaves = 0 /\ saved' = [credential |-> inHand, pending |-> receipts]
  BY <1>2, <1>t DEF SaveData
<1>3. ASSUME NEW c \in Calls, DidStartVerification(c) PROVE KeychainStands'
  <2>1. /\ pending' = DiscardOldest(pending) \cup {issued + 1}
        /\ credential' = credential /\ spurned' = spurned
        /\ SaveData(credential, pending')
    BY <1>3 DEF DidStartVerification
  <2>2. DiscardOldest(pending) \subseteq pending
    BY DEF DiscardOldest
  <2>3. issued + 1 \notin spurned
    BY <1>t
  <2>4. lostSaves = 0 /\ saved' = [credential |-> credential, pending |-> pending']
    BY <1>2, <2>1
  <2>5. \A r \in spurned : credential # r /\ r \notin pending'
    BY <2>1, <2>2, <2>3, <2>4 DEF KeychainStands
  <2> QED  BY <2>1, <2>4, <2>5 DEF KeychainStands
<1>4. ASSUME NEW r \in pending, ReceivePush(r) PROVE KeychainStands'
  <2>1. /\ pending' = pending \ {r} /\ credential' = r /\ spurned' = spurned
        /\ SaveData(r, pending')
    BY <1>4 DEF ReceivePush
  <2>2. lostSaves = 0 /\ saved' = [credential |-> r, pending |-> pending']
    BY <1>2, <2>1
  <2> QED  BY <2>1, <2>2 DEF KeychainStands
<1>5. ASSUME NEW c \in Calls, CredentialRejected(c) PROVE KeychainStands'
  <2>1. /\ pending' = pending /\ credential' = Nil
        /\ spurned' = spurned \cup ({proof[c]} \ {Nil})
        /\ SaveData(Nil, pending)
    BY <1>5 DEF CredentialRejected
  <2>2. lostSaves = 0 /\ saved' = [credential |-> Nil, pending |-> pending]
    BY <1>2, <2>1
  <2>3. proof[c] \notin pending
    BY DEF SecretsStand
  <2>4. \A r \in spurned' : r # Nil /\ r \notin pending
    BY <1>t, <2>1, <2>2, <2>3 DEF KeychainStands
  <2> QED  BY <2>1, <2>2, <2>4 DEF KeychainStands
<1>6. CASE Relaunch
  BY <1>6, <1>t DEF Relaunch, KeychainStands
<1>7. ASSUME NEW c \in Calls, VerifyPhoneNumber(c) \/ Advance(c) PROVE KeychainStands'
  <2>1. CASE ~ DidStartVerification(c) /\ ~ CredentialRejected(c)
    BY <1>1, <1>7, <2>1 DEF Advance, VerifyPhoneNumber, MissingPhoneNumber, Probe,
       FollowVerdict, VerifyClientFails, PushTimeout, NoAuthDomain, PresentURL,
       SendAnswered, Deliver
  <2> QED  BY <1>3, <1>5, <2>1
<1>8. CASE RunProber \/ ProbeTimeout \/ ReceiveToken \/ RegistrationFails
             \/ (\E n \in timers : TokenTimeout(n)) \/ ShowPage \/ UserClosesPage
             \/ (\E answer \in Answers : CallbackURL(answer)) \/ PageDismissed
  BY <1>1, <1>8 DEF RunProber, ProbeTimeout, ReceiveToken, RegistrationFails,
     TokenTimeout, ShowPage, UserClosesPage, CallbackURL, PageDismissed
<1> QED
  BY <1>1, <1>4, <1>6, <1>7, <1>8 DEF Next, vars

-----------------------------------------------------------------------------
(* The inductive invariant *)

LEMMA InvariantInit == Init => IInv
<1>1. Init => OnePageOneCall /\ TimersStand /\ WaitersAreServed
  BY DEF Init, OnePageOneCall, TimersStand, WaitersAreServed, At
<1>2. Init => ReceiptsStand /\ AwaitedReceiptIsPending
  BY DEF Init, ReceiptsStand, AwaitedReceiptIsPending
<1>3. Init => SecretsStand /\ RejectedStaysOut
  BY DEF Init, SecretsStand, RejectedStaysOut
<1>4. Init => KeychainStands
  BY DEF Init, KeychainStands
<1> QED  BY TypeInit, <1>1, <1>2, <1>3, <1>4 DEF IInv

LEMMA InvariantStep == IInv /\ [Next]_vars => IInv'
BY TypeStep, PageStep, WaitStep, ReceiptStep, SecretStep, KeychainStep DEF IInv

LEMMA Invariance == Spec => []IInv
BY InvariantInit, InvariantStep, PTL DEF Spec

\* Whatever the app, the user, UIKit and the back end do, the presenter's page
\* belongs to the one call that waits for it.
THEOREM PageIsOneCalls == Spec => []OnePageOneCall
<1>1. IInv => OnePageOneCall
  BY DEF IInv
<1> QED  BY Invariance, <1>1, PTL

\* No call waits in a list that nothing will empty any more.
THEOREM NobodyIsForgotten == Spec => []WaitersAreServed
<1>1. IInv => WaitersAreServed
  BY DEF IInv
<1> QED  BY Invariance, <1>1, PTL

\* For every limit of pending receipts: the receipt of a waiting call goes only
\* when that many younger ones have come.
THEOREM AwaitedPushIsAccepted == Spec => []AwaitedReceiptIsPending
<1>1. IInv => AwaitedReceiptIsPending
  BY DEF IInv
<1> QED  BY Invariance, <1>1, PTL

\* A rejected credential never comes back, whatever pushes, timeouts, retries and
\* restarts happen in between.
THEOREM RejectedCredentialStaysOut == Spec => []RejectedStaysOut
<1>1. IInv => RejectedStaysOut
  BY DEF IInv
<1> QED  BY Invariance, <1>1, PTL

\* Across restarts, only a save that the keychain refused brings one back.
THEOREM OnlyLostSavesEverBringBack == Spec => []OnlyLostSavesBringBack
<1>1. IInv => OnlyLostSavesBringBack
  BY DEF IInv, KeychainStands, OnlyLostSavesBringBack
<1> QED  BY <1>1, Invariance, PTL

-----------------------------------------------------------------------------
(* Timers *)

\* A timer that has run out belonged to its own list: only that list is cut short.
LEMMA TimerStep ==
  ASSUME TypeOK, [Next]_vars, NEW n \in timers \ timers', batch' = batch, n # batch
  PROVE  stage' = stage
<1> USE DEF answers, probe, apns, secrets
<1>1. n \in 1..batch
  BY DEF TypeOK
<1>2. CASE Relaunch
  BY <1>1, <1>2 DEF Relaunch
<1>3. ASSUME NEW m \in timers, TokenTimeout(m) PROVE stage' = stage
  <2>1. m = n
    BY <1>3 DEF TokenTimeout
  <2> QED  BY <1>3, <2>1 DEF TokenTimeout
<1>4. ASSUME NEW S, NEW inHand, VerifyClient(S, inHand) PROVE timers \subseteq timers'
  BY <1>4 DEF VerifyClient, GetToken
<1>5. ASSUME NEW c \in Calls, Advance(c) PROVE timers \subseteq timers'
  <2>1. CASE FollowVerdict(c)
    BY <1>4, <2>1 DEF FollowVerdict
  <2>2. CASE CredentialRejected(c)
    BY <1>4, <2>2 DEF CredentialRejected
  <2>3. CASE ~ FollowVerdict(c) /\ ~ CredentialRejected(c)
    BY <1>5, <2>3 DEF Advance, MissingPhoneNumber, Probe, DidStartVerification,
       VerifyClientFails, PushTimeout, NoAuthDomain, PresentURL, SendAnswered, Deliver
  <2> QED  BY <2>1, <2>2, <2>3
<1>6. CASE RunProber
  BY <1>4, <1>6 DEF RunProber
<1>7. CASE ~ Relaunch /\ ~ RunProber /\ ~ (\E m \in timers : TokenTimeout(m))
  <2>1. timers \subseteq timers'
    BY <1>5, <1>7 DEF Next, vars, VerifyPhoneNumber, ProbeTimeout, ReceiveToken,
       RegistrationFails, ReceivePush, ShowPage, UserClosesPage, CallbackURL,
       PageDismissed
  <2> QED  BY <2>1
<1> QED  BY <1>2, <1>3, <1>6, <1>7

\* A timer left over from an earlier wait cuts no later wait short.
THEOREM StaleTimersAreHarmless == Spec => StaleTimerEndsNoWait
<1>1. TypeOK /\ [Next]_vars =>
        [\A n \in timers \ timers' :
           batch' = batch /\ n # batch => UNCHANGED stage]_vars
  BY TimerStep
<1> QED  BY TypeCorrect, <1>1, PTL DEF Spec, StaleTimerEndsNoWait

-----------------------------------------------------------------------------
(* Calls run down *)

\* The steps of each stage, one by one.
LEMMA StepNumbers ==
  /\ \A s \in Stages : StepsOf[s] \in Nat
  /\ StepsOf["idle"] = 10
  /\ StepsOf["queued"] = 9
  /\ StepsOf["probing"] = 8
  /\ StepsOf["awaitingToken"] = 7
  /\ StepsOf["verifyingClient"] = 6
  /\ StepsOf["awaitingPush"] = 5
  /\ StepsOf["fetchingDomain"] = 4
  /\ StepsOf["browsing"] = 3
  /\ StepsOf["sending"] = 2
  /\ StepsOf["answered"] = 1
  /\ StepsOf["dropped"] = 1
  /\ StepsOf["over"] = 0
<1>1. /\ StepsOf["idle"] = 10 /\ StepsOf["queued"] = 9 /\ StepsOf["probing"] = 8
      /\ StepsOf["awaitingToken"] = 7 /\ StepsOf["verifyingClient"] = 6
      /\ StepsOf["awaitingPush"] = 5 /\ StepsOf["fetchingDomain"] = 4
      /\ StepsOf["browsing"] = 3 /\ StepsOf["sending"] = 2 /\ StepsOf["answered"] = 1
      /\ StepsOf["dropped"] = 1 /\ StepsOf["over"] = 0
  BY DEF StepsOf
<1> QED  BY <1>1 DEF Stages

\* Calls that move to a stage of fewer steps, and keep their retry, run down.
LEMMA MoveRunsDown ==
  ASSUME TypeOK, NEW S, NEW s \in Stages, Move(S, s), UNCHANGED retry,
         \A c \in S : c \in Calls => StepsOf[s] < StepsOf[stage[c]],
         NEW c \in Calls, stage'[c] # stage[c]
  PROVE  StepsLeft(c)' < StepsLeft(c)
<1>1. c \in S /\ stage'[c] = s /\ retry'[c] = retry[c]
  BY DEF Move
<1>2. /\ StepsOf[s] \in Nat /\ StepsOf[stage[c]] \in Nat
      /\ StepsOf[s] < StepsOf[stage[c]]
  BY <1>1, StepNumbers DEF TypeOK
<1>3. stage[c] # "over"
  BY <1>2, StepNumbers
<1> QED  BY <1>1, <1>2, <1>3 DEF StepsLeft

\* No step moves a call but towards its end.
LEMMA RunDownStep ==
  ASSUME IInv, Next, NEW c \in Calls, stage'[c] # stage[c]
  PROVE  StepsLeft(c)' < StepsLeft(c)
<1> DEFINE Goal == StepsLeft(c)' < StepsLeft(c)
<1> USE DEF answers
<1>t. TypeOK /\ OnePageOneCall /\ ReceiptsStand
  BY DEF IInv
<1>s. \A s \in {"queued", "probing", "awaitingToken", "verifyingClient", "awaitingPush",
                "fetchingDomain", "browsing", "sending", "answered", "dropped", "over"} :
        s \in Stages
  BY DEF Stages
<1>1. ASSUME NEW d \in Calls, NEW s \in Stages, Move({d}, s), UNCHANGED retry,
             StepsOf[s] < StepsOf[stage[d]]
      PROVE  Goal
  BY <1>1, <1>t, MoveRunsDown
<1>2. ASSUME NEW S, NEW s \in Stages, NEW from \in Stages, Move(S, s), UNCHANGED retry,
             StepsOf[s] < StepsOf[from],
             \A d \in S : d \in Calls => stage[d] = from
      PROVE  Goal
  BY <1>2, <1>t, MoveRunsDown
<1>3. ASSUME NEW S, NEW inHand, NEW from \in {"queued", "probing"}, VerifyClient(S, inHand),
             UNCHANGED retry, \A d \in S : d \in Calls => stage[d] = from
      PROVE  Goal
  <2>1. PICK s \in {"sending", "verifyingClient", "awaitingToken"} : Move(S, s)
    BY <1>3 DEF VerifyClient
  <2>2. s \in Stages /\ from \in Stages /\ StepsOf[s] < StepsOf[from]
    BY <1>s, StepNumbers
  <2> QED  BY <1>2, <1>3, <2>1, <2>2
<1>4. ASSUME NEW d \in Calls, VerifyPhoneNumber(d) \/ Advance(d) PROVE Goal
  <2>1. CASE VerifyPhoneNumber(d)
    <3>1. stage[d] = "idle" /\ Move({d}, "queued") /\ UNCHANGED retry
      BY <2>1 DEF VerifyPhoneNumber
    <3>2. "queued" \in Stages /\ StepsOf["queued"] < StepsOf["idle"]
      BY <1>s, StepNumbers
    <3> QED  BY <3>1, <3>2, <1>1
  <2>2. CASE MissingPhoneNumber(d)
    BY <2>2, <1>s, <1>1, StepNumbers DEF MissingPhoneNumber
  <2>3. CASE Probe(d)
    BY <2>3, <1>s, <1>1, StepNumbers DEF Probe
  <2>4. CASE FollowVerdict(d)
    <3>1. stage[d] = "queued" /\ UNCHANGED retry
      BY <2>4 DEF FollowVerdict
    <3>2. CASE VerifyClient({d}, credential)
      BY <3>1, <3>2, <1>3
    <3>3. CASE Move({d}, "answered")
      <4>1. "answered" \in Stages /\ StepsOf["answered"] < StepsOf["queued"]
        BY <1>s, StepNumbers
      <4> QED  BY <3>1, <3>3, <4>1, <1>1
    <3> QED  BY <2>4, <3>2, <3>3 DEF FollowVerdict
  <2>5. CASE DidStartVerification(d)
    BY <2>5, <1>s, <1>1, StepNumbers DEF DidStartVerification
  <2>6. CASE VerifyClientFails(d)
    BY <2>6, <1>s, <1>1, StepNumbers DEF VerifyClientFails
  <2>7. CASE PushTimeout(d)
    <3>1. stage[d] = "awaitingPush"
      BY <2>7, <1>t DEF PushTimeout, ReceiptsStand
    <3> QED  BY <2>7, <3>1, <1>s, <1>1, StepNumbers DEF PushTimeout, CallBack
  <2>8. CASE NoAuthDomain(d)
    <3>1. stage[d] = "fetchingDomain" /\ Move({d}, "answered") /\ UNCHANGED retry
      BY <2>8 DEF NoAuthDomain
    <3>2. "answered" \in Stages /\ StepsOf["answered"] < StepsOf["fetchingDomain"]
      BY <1>s, StepNumbers
    <3> QED  BY <3>1, <3>2, <1>1
  <2>9. CASE PresentURL(d)
    BY <2>9, <1>s, <1>1, StepNumbers DEF PresentURL
  <2>10. ASSUME NEW ok \in BOOLEAN, SendAnswered(d, ok) PROVE Goal
    BY <2>10, <1>s, <1>1, StepNumbers DEF SendAnswered
  <2>11. CASE CredentialRejected(d)
    <3>1. /\ stage[d] = "sending"
          /\ retry[d]
          /\ retry' = [retry EXCEPT ![d] = FALSE]
          /\ Move({d}, "sending") \/ Move({d}, "verifyingClient") \/ Move({d}, "awaitingToken")
      BY <2>11 DEF CredentialRejected, VerifyClient
    <3>2. c = d /\ ~retry'[c] /\ stage'[c] \in {"verifyingClient", "awaitingToken"}
      BY <3>1, <1>t DEF Move, TypeOK
    <3>3. StepsLeft(c) = 8
      BY <3>1, <3>2, StepNumbers DEF StepsLeft
    <3>4. StepsLeft(c)' \in {6, 7}
      BY <3>2, StepNumbers DEF StepsLeft
    <3> QED  BY <3>3, <3>4
  <2>12. CASE Deliver(d)
    <3>1. stage[d] = "answered" /\ Move({d}, "over") /\ UNCHANGED retry
      BY <2>12 DEF Deliver
    <3>2. "over" \in Stages /\ StepsOf["over"] < StepsOf["answered"]
      BY <1>s, StepNumbers
    <3> QED  BY <3>1, <3>2, <1>1
  <2> QED  BY <1>4, <2>1, <2>2, <2>3, <2>4, <2>5, <2>6, <2>7, <2>8, <2>9, <2>10, <2>11,
              <2>12 DEF Advance
<1>5. CASE RunProber
  <2>1. \A d \in At("probing") : stage[d] = "probing"
    BY DEF At
  <2>2. VerifyClient(At("probing"), credential) /\ UNCHANGED retry
    BY <1>5 DEF RunProber
  <2> QED  BY <2>1, <2>2, <1>3
<1>6. CASE ProbeTimeout
  <2>1. \A d \in At("probing") : stage[d] = "probing"
    BY DEF At
  <2> QED  BY <1>6, <2>1, <1>s, <1>2, StepNumbers DEF ProbeTimeout
<1>7. CASE ReceiveToken \/ RegistrationFails \/ \E n \in timers : TokenTimeout(n)
  <2>1. \A d \in At("awaitingToken") : stage[d] = "awaitingToken"
    BY DEF At
  <2>2. UNCHANGED retry
    BY <1>7 DEF ReceiveToken, RegistrationFails, TokenTimeout
  <2>3. PICK s \in {"verifyingClient", "fetchingDomain"} : Move(At("awaitingToken"), s)
    BY <1>7 DEF ReceiveToken, RegistrationFails, TokenTimeout, GiveUpToken
  <2>4. s \in Stages /\ "awaitingToken" \in Stages /\ StepsOf[s] < StepsOf["awaitingToken"]
    BY <1>s, StepNumbers
  <2> QED  BY <2>1, <2>2, <2>3, <2>4, <1>2
<1>8. ASSUME NEW r \in pending, ReceivePush(r) PROVE Goal
  <2>1. r # Nil
    BY <1>t, VerificationAssumption DEF TypeOK, Receipts
  <2>2. \A d \in CallbackOf(r) : stage[d] = "awaitingPush"
    BY <1>t, <2>1 DEF CallbackOf, ReceiptsStand
  <2>3. PICK s \in {"sending", "fetchingDomain"} : Move(CallbackOf(r), s)
    BY <1>8 DEF ReceivePush, CallBack
  <2>4. s \in Stages /\ "awaitingPush" \in Stages /\ StepsOf[s] < StepsOf["awaitingPush"]
    BY <1>s, StepNumbers
  <2> QED  BY <1>8, <2>2, <2>3, <2>4, <1>2 DEF ReceivePush
<1>9. CASE UserClosesPage \/ PageDismissed
  <2>1. page.call \in Calls /\ stage[page.call] = "browsing"
    BY <1>9, <1>t DEF UserClosesPage, PageDismissed, OnePageOneCall, TypeOK, Pages
  <2>2. PICK s \in {"sending", "answered", "dropped"} : Move({page.call}, s)
    BY <1>9 DEF UserClosesPage, PageDismissed, Answers
  <2>3. s \in Stages /\ StepsOf[s] < StepsOf[stage[page.call]] /\ UNCHANGED retry
    BY <1>9, <1>s, <2>1, StepNumbers DEF UserClosesPage, PageDismissed
  <2> QED  BY <2>1, <2>2, <2>3, <1>1
<1>10. CASE Relaunch
  <2>1. stage'[c] = "over" /\ stage[c] # "over" /\ stage[c] # "idle"
    BY <1>10 DEF Relaunch
  <2>2. StepsLeft(c)' = 0
    BY <2>1, StepNumbers DEF StepsLeft
  <2>3. StepsOf[stage[c]] \in Nat \ {0}
    BY <2>1, <1>t, StepNumbers DEF TypeOK, Stages
  <2> QED  BY <2>2, <2>3 DEF StepsLeft
<1> QED
  BY <1>4, <1>5, <1>6, <1>7, <1>8, <1>9, <1>10 DEF Next, ShowPage, CallbackURL

\* Whatever times out, arrives late, is rejected or dies, a call is moved at most sixteen
\* times: the only way back, the retry, is taken once.
THEOREM CallsAlwaysRunDown == Spec => CallsRunDown
<1>1. IInv /\ [Next]_vars =>
        [\A c \in Calls : stage'[c] # stage[c] => StepsLeft(c)' < StepsLeft(c)]_vars
  BY RunDownStep
<1> QED  BY <1>1, Invariance, PTL DEF Spec, CallsRunDown

-----------------------------------------------------------------------------
(* The promise *)

\* The stages in which the app waits for its answer.
Asked == Stages \ {"idle", "answered", "over"}

\* A step that takes calls from one such stage to another is none to the app.
LEMMA StillAsked ==
  ASSUME TypeOK, NEW S, NEW s \in Asked, Move(S, s), UNCHANGED granted,
         \A c \in S : c \in Calls => stage[c] \in Asked
  PROVE  UNCHANGED Service!vars
<1>1. ASSUME NEW c \in Calls PROVE Progress(c)' = Progress(c)
  BY DEF Move, Progress, Asked
<1> QED  BY <1>1 DEF Service!vars

\* A step that takes such a call to its answer is the answer of the abstract service.
LEMMA NowAnswered ==
  ASSUME TypeOK, NEW S \in SUBSET Calls, NEW G \in SUBSET S, Move(S, "answered"),
         granted' = granted \cup G,
         \A c \in S : stage[c] \in Asked
  PROVE  Service!Next
<1>1. ASSUME NEW c \in Calls
      PROVE  /\ c \in S => Progress(c) = "asked"
             /\ Progress(c)' = IF c \in S THEN "answered" ELSE Progress(c)
  BY DEF Move, Progress, Asked
<1>2. Service!Answer(S, G)
  BY <1>1 DEF Service!Answer
<1> QED  BY <1>2 DEF Service!Next

LEMMA PromiseInit == Init => Service!Init
BY DEF Init, Service!Init, Progress

LEMMA PromiseStep == IInv /\ [Next]_vars => [Service!Next]_(Service!vars)
<1> SUFFICES ASSUME IInv, [Next]_vars PROVE Service!Next \/ UNCHANGED Service!vars
  OBVIOUS
<1> DEFINE Goal == Service!Next \/ UNCHANGED Service!vars
<1> USE DEF answers
<1>t. TypeOK /\ OnePageOneCall /\ ReceiptsStand
  BY DEF IInv
<1>a. Asked = {"queued", "probing", "awaitingToken", "verifyingClient", "awaitingPush",
               "fetchingDomain", "browsing", "sending", "dropped"}
  BY DEF Asked, Stages
<1>0. ASSUME UNCHANGED <<stage, granted>> PROVE Goal
  BY <1>0 DEF Service!vars, Progress
<1>1. ASSUME NEW c \in Calls, VerifyPhoneNumber(c) PROVE Goal
  <2>1. stage[c] = "idle" /\ Move({c}, "queued") /\ granted' = granted
    BY <1>1 DEF VerifyPhoneNumber
  <2>2. \A d \in Calls : Progress(d)' = IF d = c THEN "asked" ELSE Progress(d)
    BY <2>1 DEF Move, Progress
  <2>3. Service!Ask(c)
    BY <2>1, <2>2 DEF Service!Ask, Progress
  <2> QED  BY <2>3 DEF Service!Next
<1>2. ASSUME NEW c \in Calls, NEW s, Move({c}, s), stage[c] \in Asked,
             s \in Asked \cup {"answered"}, granted' = granted
      PROVE  Goal
  <2>1. CASE s \in Asked
    BY <1>2, <1>t, <2>1, StillAsked
  <2>2. CASE s = "answered"
    <3>1. granted' = granted \cup {} /\ {} \in SUBSET {c} /\ {c} \in SUBSET Calls
      BY <1>2
    <3>2. Move({c}, "answered") /\ \A d \in {c} : stage[d] \in Asked
      BY <1>2, <2>2
    <3> QED  BY <1>t, <3>1, <3>2, NowAnswered
  <2> QED  BY <1>2, <2>1, <2>2
<1>3. ASSUME NEW S, NEW inHand, VerifyClient(S, inHand), UNCHANGED granted,
             \A c \in S : c \in Calls => stage[c] \in Asked
      PROVE  Goal
  <2>1. Move(S, "sending") \/ Move(S, "verifyingClient") \/ Move(S, "awaitingToken")
    BY <1>3 DEF VerifyClient
  <2> QED  BY <1>3, <1>t, <1>a, <2>1, StillAsked
<1>4. ASSUME NEW c \in Calls, Advance(c) PROVE Goal
  <2>1. CASE MissingPhoneNumber(c)
    BY <2>1, <1>a, <1>2 DEF MissingPhoneNumber
  <2>2. CASE Probe(c)
    BY <2>2, <1>a, <1>2 DEF Probe
  <2>3. CASE FollowVerdict(c)
    <3>1. stage[c] \in Asked /\ UNCHANGED granted
      BY <2>3, <1>a DEF FollowVerdict
    <3>2. VerifyClient({c}, credential) \/ Move({c}, "answered")
      BY <2>3 DEF FollowVerdict
    <3> QED  BY <3>1, <3>2, <1>2, <1>3
  <2>4. CASE DidStartVerification(c)
    BY <2>4, <1>a, <1>2 DEF DidStartVerification
  <2>5. CASE VerifyClientFails(c)
    BY <2>5, <1>a, <1>2 DEF VerifyClientFails
  <2>6. CASE PushTimeout(c)
    <3>1. stage[c] \in Asked
      BY <2>6, <1>t, <1>a DEF PushTimeout, ReceiptsStand
    <3> QED  BY <2>6, <3>1, <1>a, <1>2 DEF PushTimeout, CallBack
  <2>7. CASE NoAuthDomain(c)
    BY <2>7, <1>a, <1>2 DEF NoAuthDomain
  <2>8. CASE PresentURL(c)
    BY <2>8, <1>a, <1>2 DEF PresentURL
  <2>9. ASSUME NEW ok \in BOOLEAN, SendAnswered(c, ok) PROVE Goal
    <3>1. /\ Move({c}, "answered")
          /\ \A d \in {c} : stage[d] \in Asked
          /\ {c} \in SUBSET Calls
      BY <2>9, <1>a DEF SendAnswered
    <3>2. PICK G \in {{}, {c}} : granted' = granted \cup G
      BY <2>9 DEF SendAnswered
    <3>3. G \in SUBSET {c}
      OBVIOUS
    <3> QED  BY <3>1, <3>2, <3>3, <1>t, NowAnswered
  <2>10. CASE CredentialRejected(c)
    BY <2>10, <1>a, <1>3 DEF CredentialRejected
  <2>11. CASE Deliver(c)
    <3>1. stage[c] = "answered" /\ Move({c}, "over") /\ granted' = granted
      BY <2>11 DEF Deliver
    <3>2. \A d \in Calls : Progress(d)' = IF d = c THEN "over" ELSE Progress(d)
      BY <3>1 DEF Move, Progress
    <3>3. Service!Deliver(c)
      BY <3>1, <3>2 DEF Service!Deliver, Progress
    <3> QED  BY <3>3 DEF Service!Next
  <2> QED  BY <1>4, <2>1, <2>2, <2>3, <2>4, <2>5, <2>6, <2>7, <2>8, <2>9, <2>10,
              <2>11 DEF Advance
<1>5. CASE RunProber
  <2>1. CASE forwarding = "checking"
    BY <1>5, <2>1, <1>a, <1>3 DEF RunProber, At
  <2>2. CASE forwarding # "checking"
    BY <1>5, <2>2, <1>0 DEF RunProber
  <2> QED  BY <2>1, <2>2
<1>6. CASE ProbeTimeout
  <2>1. Move(At("probing"), "answered") /\ granted' = granted \cup {}
    BY <1>6 DEF ProbeTimeout
  <2>2. At("probing") \in SUBSET Calls /\ \A c \in At("probing") : stage[c] \in Asked
    BY <1>a DEF At
  <2> QED  BY <1>t, <2>1, <2>2, NowAnswered
<1>7. ASSUME NEW s \in Asked, Move(At("awaitingToken"), s), UNCHANGED granted PROVE Goal
  <2>1. \A c \in At("awaitingToken") : stage[c] \in Asked
    BY <1>a DEF At
  <2> QED  BY <1>7, <1>t, <2>1, StillAsked
<1>8. CASE ReceiveToken
  BY <1>8, <1>a, <1>7 DEF ReceiveToken
<1>9. CASE RegistrationFails
  BY <1>9, <1>a, <1>7 DEF RegistrationFails, GiveUpToken
<1>10. ASSUME NEW n \in timers, TokenTimeout(n) PROVE Goal
  BY <1>10, <1>a, <1>7, <1>0 DEF TokenTimeout, GiveUpToken
<1>11. ASSUME NEW r \in pending, ReceivePush(r) PROVE Goal
  <2>1. r # Nil
    BY <1>t, VerificationAssumption DEF TypeOK, Receipts
  <2>2. \A c \in CallbackOf(r) : stage[c] \in Asked
    BY <1>t, <1>a, <2>1 DEF CallbackOf, ReceiptsStand
  <2>3. /\ Move(CallbackOf(r), "sending") \/ Move(CallbackOf(r), "fetchingDomain")
        /\ UNCHANGED granted
    BY <1>11 DEF ReceivePush, CallBack
  <2> QED  BY <1>t, <1>a, <2>2, <2>3, StillAsked
<1>12. CASE ShowPage
  BY <1>12, <1>0 DEF ShowPage
<1>13. ASSUME page # Nil
       PROVE  page.call \in Calls /\ stage[page.call] \in Asked
  <2>1. page.call \in Calls
    BY <1>13, <1>t DEF TypeOK, Pages
  <2> QED  BY <1>13, <2>1, <1>t, <1>a DEF OnePageOneCall
<1>14. CASE UserClosesPage
  BY <1>14, <1>2, <1>13 DEF UserClosesPage
<1>15. ASSUME NEW answer \in Answers, CallbackURL(answer) PROVE Goal
  BY <1>15, <1>0 DEF CallbackURL
<1>16. CASE PageDismissed
  <2>1. /\ \/ Move({page.call}, "sending")
           \/ Move({page.call}, "answered")
           \/ Move({page.call}, "dropped")
        /\ page # Nil /\ UNCHANGED granted
    BY <1>16 DEF PageDismissed, Answers
  <2> QED  BY <1>2, <1>13, <1>a, <2>1
<1>17. CASE Relaunch
  <2>1. \A c \in Calls :
          Progress(c)' = IF Progress(c) = "idle" THEN "idle" ELSE "over"
    BY <1>17 DEF Relaunch, Progress
  <2>2. granted' = granted
    BY <1>17 DEF Relaunch
  <2>3. Service!Restart
    BY <2>1, <2>2 DEF Service!Restart
  <2> QED  BY <2>3 DEF Service!Next
<1>18. CASE UNCHANGED vars
  BY <1>18, <1>0 DEF vars
<1> QED
  BY <1>1, <1>4, <1>5, <1>6, <1>8, <1>9, <1>10, <1>11, <1>12, <1>14, <1>15, <1>16,
     <1>17, <1>18 DEF Next

\* However a call is verified, the app is answered at most once, and never with the
\* answer of a process that has died.
THEOREM PromiseIsKept == Spec => KeepsItsPromise
<1> QED  BY PromiseInit, PromiseStep, Invariance, PTL DEF Spec, Service!Spec, KeepsItsPromise

=============================================================================
