------------------------- MODULE DashboardLoginProofs -------------------------
(***************************************************************************)
(* What DashboardLogin promises, for every limit, window, life of a code   *)
(* and number of codes.                                                    *)
(***************************************************************************)
EXTENDS DashboardLogin, FiniteSetTheorems, TLAPS

USE LoginAssumption

\* The stamps miss no code of this process that is in the window, and name no
\* other: pruning drops only what is outside of it.
StampsCover ==
  /\ {c \in issued : age[c] < Window} \subseteq timestamps
  /\ timestamps \subseteq issued
  /\ issued \subseteq 1 .. drawn

\* The pending code is the one drawn last, by this process, and nobody has
\* tried it; nor has anybody tried a code that is still to be drawn.
PendingIsLast ==
  /\ pending # NoCode => pending = drawn /\ pending \in issued /\ tries[pending] = 0
  /\ \A c \in Codes : c > drawn => tries[c] = 0

\* The inductive invariant.
IInv == TypeOK /\ StampsCover /\ PendingIsLast /\ OneTryPerCode

-----------------------------------------------------------------------------
\* A set of codes is finite, and so has a number of elements.
LEMMA CodesFinite ==
  ASSUME NEW S \in SUBSET Codes
  PROVE  IsFiniteSet(S) /\ Cardinality(S) \in Nat
  <1>1. IsFiniteSet(Codes)
    BY FS_Interval DEF Codes
  <1> QED
    BY <1>1, FS_Subset, FS_CardinalityType

\* can_request prunes the stamps to some of them, so that there are no more.
LEMMA PruningShrinks ==
  ASSUME NEW S \in SUBSET Codes
  PROVE  /\ Recent(S) \in SUBSET S
         /\ Cardinality(Recent(S)) <= Cardinality(S)
  <1>1. Recent(S) \in SUBSET S
    BY DEF Recent
  <1> QED
    BY <1>1, CodesFinite, FS_Subset

\* One more stamp than can_request allows is at most the limit.
LEMMA StampFits ==
  ASSUME NEW S \in SUBSET Codes, CanRequest(S), NEW c \in Codes
  PROVE  Cardinality(Recent(S) \cup {c}) <= MaxRequests
  <1>1. IsFiniteSet(Recent(S)) /\ Cardinality(Recent(S)) \in Nat
    BY CodesFinite, PruningShrinks
  <1>2. Cardinality(Recent(S) \cup {c}) \in {Cardinality(Recent(S)), Cardinality(Recent(S)) + 1}
    BY <1>1, FS_AddElement
  <1> QED
    BY <1>1, <1>2 DEF CanRequest

\* Nothing is stored, sent or tried when the server starts first.
LEMMA InitEstablishes == Init => IInv
  <1> SUFFICES ASSUME Init PROVE IInv
    OBVIOUS
  <1>1. Cardinality(timestamps) = 0
    BY FS_EmptySet DEF Init
  <1>2. TypeOK
    BY <1>1 DEF Init, TypeOK, AnyAge, NoCode
  <1> QED
    BY <1>2 DEF Init, IInv, StampsCover, PendingIsLast, OneTryPerCode

\* Every request, answer, tick and restart keeps the invariant.
LEMMA StepKeeps == IInv /\ [Next]_vars => IInv'
  <1> SUFFICES ASSUME IInv, [Next]_vars PROVE IInv'
    OBVIOUS
  <1> USE DEF IInv
  <1>1. CASE Refused
    <2>1. Recent(timestamps) \in SUBSET timestamps
          /\ Cardinality(Recent(timestamps)) <= MaxRequests
      BY PruningShrinks, CodesFinite DEF TypeOK
    <2>2. TypeOK'
      BY <1>1, <2>1 DEF Refused, TypeOK
    <2>3. StampsCover'
      BY <1>1 DEF Refused, StampsCover, Recent
    <2> QED
      BY <1>1, <2>2, <2>3 DEF Refused, PendingIsLast, OneTryPerCode
  <1>2. CASE RequestOtp
    <2>1. drawn' \in Codes /\ drawn' = drawn + 1
      BY <1>2 DEF RequestOtp, TypeOK, Codes
    <2>2. Cardinality(timestamps') <= MaxRequests
      BY <1>2, <2>1, StampFits DEF RequestOtp, TypeOK
    <2>3. age' \in [Codes -> AnyAge] /\ age'[drawn'] = 0
          /\ \A c \in Codes : c # drawn' => age'[c] = age[c]
      BY <1>2, <2>1 DEF RequestOtp, TypeOK, AnyAge
    <2>4. TypeOK'
      <3>1. timestamps' \subseteq Codes
        BY <1>2, <2>1, PruningShrinks DEF RequestOtp, TypeOK
      <3>2. drawn' \in 0 .. CodeBound
        BY <2>1 DEF Codes
      <3>3. pending' \in Codes /\ sending' \subseteq Codes /\ issued' \subseteq Codes
        BY <1>2, <2>1 DEF RequestOtp, TypeOK
      <3> QED
        BY <1>2, <2>2, <2>3, <3>1, <3>2, <3>3 DEF RequestOtp, TypeOK
    <2>5. StampsCover'
      <3>1. issued' \subseteq 1 .. drawn'
        BY <1>2, <2>1 DEF RequestOtp, StampsCover, TypeOK
      <3>2. timestamps' \subseteq issued'
        BY <1>2 DEF RequestOtp, StampsCover, Recent
      <3>3. ASSUME NEW c \in issued', age'[c] < Window PROVE c \in timestamps'
        BY <1>2, <2>1, <2>3, <3>3 DEF RequestOtp, StampsCover, Recent, TypeOK
      <3> QED
        BY <3>1, <3>2, <3>3 DEF StampsCover
    <2>6. PendingIsLast'
      BY <1>2, <2>1 DEF RequestOtp, PendingIsLast, TypeOK, Codes
    <2> QED
      BY <1>2, <2>4, <2>5, <2>6 DEF RequestOtp, OneTryPerCode
  <1>3. ASSUME NEW c \in sending, SendEnds(c) PROVE IInv'
    <2>1. TypeOK'
      BY <1>3 DEF SendEnds, TypeOK
    <2> QED
      BY <1>3, <2>1 DEF SendEnds, StampsCover, PendingIsLast, OneTryPerCode
  <1>4. ASSUME NEW c \in phone \cup {0}, VerifyOtp(c) PROVE IInv'
    <2>1. pending \in Codes /\ pending = drawn /\ tries[pending] = 0
      BY <1>4 DEF VerifyOtp, TypeOK, PendingIsLast
    <2>2. tries' \in [Codes -> Nat] /\ tries'[pending] = (IF age[pending] <= Ttl THEN 1 ELSE 0)
          /\ \A d \in Codes : d # pending => tries'[d] = tries[d]
      BY <1>4, <2>1 DEF VerifyOtp, TypeOK
    <2>3. sessions' \in [Codes -> Nat]
          /\ \A d \in Codes : \/ sessions'[d] = sessions[d]
                              \/ /\ d = pending /\ age[d] <= Ttl
                                 /\ sessions'[d] = sessions[d] + 1
      BY <1>4, <2>1 DEF VerifyOtp, Right, TypeOK
    <2>4. TypeOK'
      BY <1>4, <2>2, <2>3 DEF VerifyOtp, TypeOK, NoCode
    <2>5. StampsCover'
      BY <1>4 DEF VerifyOtp, StampsCover
    <2>6. PendingIsLast'
      BY <1>4, <2>1, <2>2 DEF VerifyOtp, PendingIsLast, TypeOK, Codes
    <2>7. OneTryPerCode'
      BY <2>1, <2>2, <2>3 DEF OneTryPerCode, TypeOK
    <2> QED
      BY <2>4, <2>5, <2>6, <2>7
  <1>5. CASE Tick
    <2>1. age' \in [Codes -> AnyAge] /\ \A c \in Codes : c <= drawn => age'[c] >= age[c]
      <3>1. age \in [Codes -> 0 .. Window]
        BY DEF TypeOK, AnyAge
      <3>2. ASSUME NEW a \in 0 .. Window PROVE Older(a) \in 0 .. Window /\ Older(a) >= a
        BY DEF Older
      <3>3. ASSUME NEW c \in Codes PROVE /\ age'[c] \in 0 .. Window
                                         /\ c <= drawn => age'[c] >= age[c]
        <4>1. age'[c] = IF c <= drawn THEN Older(age[c]) ELSE 0
          BY <1>5 DEF Tick
        <4>2. age[c] \in 0 .. Window
          BY <3>1
        <4> QED
          BY <4>1, <4>2, <3>2
      <3>4. age' = [c \in Codes |-> age'[c]]
        BY <1>5 DEF Tick
      <3> QED
        BY <3>3, <3>4 DEF AnyAge
    <2>2. TypeOK'
      BY <1>5, <2>1 DEF Tick, TypeOK
    <2>3. StampsCover'
      <3>1. ASSUME NEW c \in issued, age'[c] < Window PROVE age[c] < Window
        <4>1. c \in Codes /\ c <= drawn
          BY DEF StampsCover, TypeOK
        <4>2. age[c] \in Int /\ age'[c] \in Int /\ age'[c] >= age[c]
          BY <2>1, <4>1 DEF TypeOK, AnyAge
        <4> QED
          BY <3>1, <4>2
      <3> QED
        BY <1>5, <3>1 DEF Tick, StampsCover
    <2> QED
      BY <1>5, <2>2, <2>3 DEF Tick, PendingIsLast, OneTryPerCode
  <1>6. CASE Restart
    <2>1. Cardinality(timestamps') = 0
      BY <1>6, FS_EmptySet DEF Restart
    <2>2. TypeOK'
      BY <1>6, <2>1 DEF Restart, TypeOK, NoCode
    <2> QED
      BY <1>6, <2>2 DEF Restart, StampsCover, PendingIsLast, OneTryPerCode, NoCode
  <1>7. CASE UNCHANGED vars
    BY <1>7 DEF vars, TypeOK, StampsCover, PendingIsLast, OneTryPerCode
  <1> QED
    BY <1>1, <1>2, <1>3, <1>4, <1>5, <1>6, <1>7 DEF Next

\* The invariant holds whatever the requests, the answers, Telegram, the clock
\* and the restarts do.
THEOREM LoginInvariant == Spec => []IInv
  <1> QED
    BY InitEstablishes, StepKeeps, PTL DEF Spec

-----------------------------------------------------------------------------
\* The shape of the store: the stamps never outgrow the limit.
THEOREM LoginTypeOK == Spec => []TypeOK
  <1>1. IInv => TypeOK
    BY DEF IInv
  <1> QED
    BY <1>1, LoginInvariant, PTL

\* can_request holds every window to the limit: the stamps cover the window.
THEOREM LoginRateLimited == Spec => []RateLimited
  <1>1. ASSUME IInv PROVE RateLimited
    <2> DEFINE W == {c \in issued : age[c] < Window}
    <2>1. W \in SUBSET timestamps /\ timestamps \in SUBSET Codes
          /\ Cardinality(timestamps) <= MaxRequests
      BY <1>1 DEF IInv, StampsCover, TypeOK
    <2>2. IsFiniteSet(timestamps) /\ Cardinality(timestamps) \in Nat
      BY <2>1, CodesFinite
    <2>3. Cardinality(W) \in Nat /\ Cardinality(W) <= Cardinality(timestamps)
      BY <2>1, <2>2, CodesFinite, FS_Subset
    <2>4. Cardinality(W) <= MaxRequests
      BY <2>1, <2>2, <2>3
    <2> QED
      BY <2>4 DEF RateLimited
  <1> QED
    BY <1>1, LoginInvariant, PTL

\* verify takes the code away before it compares: no code is tried twice.
THEOREM LoginOneTryPerCode == Spec => []OneTryPerCode
  <1>1. IInv => OneTryPerCode
    BY DEF IInv
  <1> QED
    BY <1>1, LoginInvariant, PTL

\* Only the answer of the last code of this process opens a session, and only
\* while the code is young.
THEOREM LoginFresh == Spec => FreshLogin
  <1> DEFINE Fresh == \A c \in Codes : sessions'[c] > sessions[c] =>
                         c = drawn /\ c \in issued /\ age[c] <= Ttl
  <1>1. ASSUME IInv, [Next]_vars PROVE Fresh \/ UNCHANGED vars
    <2>1. ASSUME NEW d \in phone \cup {0}, VerifyOtp(d) PROVE Fresh
      <3>1. pending = drawn /\ pending \in issued /\ pending \in Codes
        BY <1>1, <2>1 DEF VerifyOtp, IInv, PendingIsLast, TypeOK
      <3>2. sessions \in [Codes -> Nat]
        BY <1>1 DEF IInv, TypeOK
      <3> QED
        BY <2>1, <3>1, <3>2 DEF VerifyOtp, Right
    <2>2. ASSUME sessions' = sessions PROVE Fresh
      BY <1>1, <2>2 DEF IInv, TypeOK
    <2> QED
      BY <1>1, <2>1, <2>2
      DEF Next, RequestOtp, Refused, Tick, Restart, SendEnds
  <1>2. IInv /\ [Next]_vars => [Fresh]_vars
    BY <1>1
  <1> QED
    BY <1>2, LoginInvariant, PTL DEF Spec, FreshLogin
=============================================================================
