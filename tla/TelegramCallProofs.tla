------------------------- MODULE TelegramCallProofs -------------------------
(* Proofs about TelegramCall: for any number of attempts and any backoff.  *)
EXTENDS TelegramCall, FiniteSetTheorems, TLAPS

\* What the proofs need of the state; the pauses play no part in it.
CallInv ==
    /\ at \in {"post", "executed", "returned", "raised"}
    /\ attempts \in Nat /\ attempt \in Nat
    /\ executed \in Nat /\ lost \in Nat
    /\ ExecutedOnceUnlessLost

(* The calling loop of client.py:80-114 keeps CallInv.                     *)
LEMMA CallInvariant == Spec => []CallInv
<1>1. Init => CallInv
    BY CallAssumption DEF Init, CallInv, ExecutedOnceUnlessLost
<1>2. CallInv /\ [Next]_vars => CallInv'
    <2> SUFFICES ASSUME CallInv, [Next]_vars PROVE CallInv'
        OBVIOUS
    <2> USE DEF CallInv, ExecutedOnceUnlessLost
    <2>1. CASE Execute
        BY <2>1 DEF Execute
    <2>2. CASE Ok
        BY <2>2 DEF Ok, Answered
    <2>3. CASE Error
        BY <2>3 DEF Error, NotAnswered, Again, GivenUp
    <2>4. CASE Limited
        <3>1. PICK pause : Again(pause)
            BY <2>4 DEF Limited
        <3> QED
            BY <2>4, <3>1 DEF Limited, Again, GivenUp
    <2>5. CASE Rejected
        BY <2>5 DEF Rejected, NotAnswered
    <2>6. CASE UNCHANGED vars
        BY <2>6 DEF vars
    <2> QED
        BY <2>1, <2>2, <2>3, <2>4, <2>5, <2>6 DEF Next
<1> QED
    BY <1>1, <1>2, PTL DEF Spec

(* A request is executed once for the answer that arrived and once for     *)
(* each answer that was lost, and never else: duplicates need a lost       *)
(* answer, a failure without one means that nothing was delivered.         *)
THEOREM DuplicatesNeedALostAnswer == Spec => []ExecutedOnceUnlessLost
<1>1. CallInv => ExecutedOnceUnlessLost
    BY DEF CallInv
<1> QED
    BY <1>1, CallInvariant, PTL

(* Every call of _call is one of the sends its caller reckons with         *)
(* (client.py:70-114 against service.py:228-237).                          *)
THEOREM CallImplementsDelivery == Spec => ImplementsDelivery
<1> USE DEF Delivery!vars
<1>1. Init => Delivery!Init
    BY DEF Init, Delivery!Init
<1>2. CallInv /\ [Next]_vars => [Delivery!Next]_(Delivery!vars)
    <2> SUFFICES ASSUME CallInv, [Next]_vars
                 PROVE [Delivery!Next]_(Delivery!vars)
        OBVIOUS
    <2> USE DEF Delivery!Next
    <2>1. CASE Execute
        BY <2>1 DEF Execute, Delivery!Deliver
    <2>2. CASE Ok
        BY <2>2 DEF Ok, Answered, Delivery!Ack
    <2>3. CASE Error
        BY <2>3 DEF Error, NotAnswered, Again, GivenUp,
                    Delivery!AnswerLost, Delivery!SendFail
    <2>4. CASE Limited
        <3>1. PICK pause : Again(pause)
            BY <2>4 DEF Limited
        <3> QED
            BY <2>4, <3>1 DEF Limited, Again, GivenUp, Delivery!SendFail
    <2>5. CASE Rejected
        BY <2>5 DEF Rejected, NotAnswered, Delivery!AnswerLost, Delivery!SendFail
    <2>6. CASE UNCHANGED vars
        BY <2>6 DEF vars
    <2> QED
        BY <2>1, <2>2, <2>3, <2>4, <2>5, <2>6 DEF Next
<1> QED
    BY <1>1, <1>2, CallInvariant, PTL DEF Spec, ImplementsDelivery, Delivery!Spec

-----------------------------------------------------------------------------
(* The pauses.                                                             *)

(* Backoffs grow: 2^n counts the subsets of 1..n, and the subsets of a     *)
(* smaller interval are among them (client.py:82).                         *)
LEMMA PowersGrow ==
    ASSUME NEW m \in Nat, NEW n \in Nat, m <= n
    PROVE  2^m \in Nat /\ 2^n \in Nat /\ 2^m <= 2^n
<1>1. \A k \in Nat : IsFiniteSet(1..k) /\ Cardinality(1..k) = k
    BY FS_Interval
<1>2. ASSUME NEW k \in Nat
      PROVE  IsFiniteSet(SUBSET (1..k)) /\ Cardinality(SUBSET (1..k)) = 2^k
    BY <1>1, FS_SUBSET
<1>3. \A k \in Nat : Cardinality(SUBSET (1..k)) \in Nat
    BY <1>2, FS_CardinalityType
<1>4. SUBSET (1..m) \in SUBSET SUBSET (1..n)
    BY 1..m \subseteq 1..n
<1>5. Cardinality(SUBSET (1..m)) <= Cardinality(SUBSET (1..n))
    BY <1>2, <1>4, FS_Subset
<1> QED
    BY <1>2, <1>3, <1>5

LEMMA DelaysGrow ==
    ASSUME NEW m \in Nat \ {0}, NEW n \in Nat, m <= n
    PROVE  Delay(m) \in Nat /\ Delay(n) \in Nat /\ Delay(m) <= Delay(n)
<1>1. m - 1 \in Nat /\ n - 1 \in Nat /\ m - 1 <= n - 1
    OBVIOUS
<1>2. PICK a \in Nat, b \in Nat : a = 2^(m - 1) /\ b = 2^(n - 1) /\ a <= b
    BY <1>1, PowersGrow
<1>3. Delay(m) = Backoff * a /\ Delay(n) = Backoff * b
    BY <1>2 DEF Delay
<1>4. \A x, y, z \in Nat : x <= y => z * x \in Nat /\ z * y \in Nat /\ z * x <= z * y
    OBVIOUS
<1> QED
    BY <1>2, <1>3, <1>4, CallAssumption

\* Every attempt but the first was preceded by one pause.
PauseInv ==
    /\ attempts \in Nat \ {0} /\ attempt \in 1..attempts /\ slept \in Nat
    /\ slept <= (attempt - 1) * LongestPause

LEMMA LongestPauseType ==
    ASSUME attempts \in Nat \ {0}
    PROVE  LongestPause \in Nat
BY DelaysGrow, CallAssumption DEF LongestPause

LEMMA NextPause ==
    ASSUME PauseInv, NEW pause \in Nat, Again(pause), UNCHANGED attempts,
           attempt < attempts => pause <= LongestPause
    PROVE  PauseInv'
<1>1. LongestPause \in Nat /\ LongestPause' = LongestPause
    BY LongestPauseType DEF PauseInv, LongestPause, Delay
<1>2. CASE attempt < attempts
    <2>1. attempt' = attempt + 1 /\ slept' = slept + pause
        BY <1>2 DEF Again
    <2>2. \A a, p \in Nat : a * p = (a - 1) * p + p
        OBVIOUS
    <2>3. PICK a \in Nat, p \in Nat : a = attempt /\ p = LongestPause
        BY <1>1 DEF PauseInv
    <2>4. slept + pause <= a * p
        <3>1. PICK q \in Int : q = (a - 1) * p
            BY <2>3
        <3> QED
            BY <1>2, <2>2, <2>3, <3>1 DEF PauseInv
    <2> QED
        BY <1>1, <1>2, <2>1, <2>3, <2>4 DEF PauseInv
<1>3. CASE ~(attempt < attempts)
    BY <1>1, <1>3 DEF Again, PauseInv
<1> QED
    BY <1>2, <1>3

LEMMA PausesBounded == Spec => []PauseInv
<1>1. Init => PauseInv
    <2> SUFFICES ASSUME Init PROVE PauseInv
        OBVIOUS
    <2>1. attempts \in Nat \ {0} /\ attempt = 1 /\ slept = 0
        BY CallAssumption DEF Init
    <2>2. LongestPause \in Nat
        BY <2>1, LongestPauseType
    <2> QED
        BY <2>1, <2>2 DEF PauseInv
<1>2. PauseInv /\ [Next]_vars => PauseInv'
    <2> SUFFICES ASSUME PauseInv, [Next]_vars PROVE PauseInv'
        OBVIOUS
    <2>1. /\ Delay(attempt) \in Nat
          /\ Delay(attempt) <= LongestPause
        <3>1. /\ Delay(attempt) \in Nat /\ Delay(attempts) \in Nat
              /\ Delay(attempt) <= Delay(attempts)
            BY DelaysGrow DEF PauseInv
        <3> QED
            BY <3>1, CallAssumption DEF LongestPause
    <2>2. CASE Error
        BY <2>1, <2>2, NextPause DEF Error
    <2>3. CASE Limited
        <3>1. CASE Again(Delay(attempt))
            BY <2>1, <2>3, <3>1, NextPause DEF Limited
        <3>2. ASSUME NEW r \in RetryAfters, Again(Granted(r)) PROVE PauseInv'
            <4>1. Granted(r) \in Nat /\ Granted(r) <= MaxRetryAfter
                BY CallAssumption DEF Granted
            <4>2. Granted(r) <= LongestPause
                BY <2>1, <4>1, CallAssumption, DelaysGrow DEF LongestPause, PauseInv
            <4> QED
                BY <2>3, <3>2, <4>1, <4>2, NextPause DEF Limited
        <3> QED
            BY <2>3, <3>1, <3>2 DEF Limited
    <2>4. CASE UNCHANGED <<attempts, attempt, slept>>
        BY <2>4 DEF PauseInv, LongestPause, Delay
    <2> QED
        BY <2>2, <2>3, <2>4 DEF Next, Execute, Ok, Answered, Rejected, vars
<1> QED
    BY <1>1, <1>2, PTL DEF Spec

(* The pauses of one call are bounded whatever Telegram asks for: a check  *)
(* holds the lock of its site meanwhile (client.py:101, service.py:137).   *)
THEOREM PausesAreBounded == Spec => []SleptBounded
<1>1. PauseInv => SleptBounded
    <2> SUFFICES ASSUME PauseInv PROVE SleptBounded
        OBVIOUS
    <2>1. /\ attempt - 1 \in Nat /\ attempts - 1 \in Nat /\ attempt - 1 <= attempts - 1
          /\ LongestPause \in Nat
        BY LongestPauseType DEF PauseInv
    <2>2. \A a, b, p \in Nat : a <= b => a * p \in Nat /\ b * p \in Nat /\ a * p <= b * p
        OBVIOUS
    <2> QED
        BY <2>1, <2>2 DEF PauseInv, SleptBounded
<1> QED
    BY <1>1, PausesBounded, PTL
=============================================================================
