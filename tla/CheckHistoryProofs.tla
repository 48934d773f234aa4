------------------------- MODULE CheckHistoryProofs -------------------------
(***************************************************************************)
(* The state machine of one site keeps exactly what the definition by the  *)
(* history of replies says, for any replies, thresholds and length of the  *)
(* history.                                                                *)
(*                                                                         *)
(* A history matters only by the instants G of its successes and B of its  *)
(* failures.  The invariant is stated of these two sets and of a           *)
(* ServiceState, so that one lemma says of a failure, a success and a      *)
(* delivered alert each that it keeps the invariant, without the replies.  *)
(***************************************************************************)
EXTENDS CheckHistory, SequenceTheorems, FiniteSetTheorems, TLAPS

Goods == {x \in Counted : Good(x)}
Bads == {x \in Counted : Bad(x)}

Least(m, S) == m \in S /\ \A x \in S : m <= x

\* How many of the replies count, as the code counts them.
Capped(n) == IF n < CountCap THEN n ELSE CountCap

-----------------------------------------------------------------------------
(* Streaks: C is what counts, S the part of it that goes on the streak.    *)

Run(C, a, b) == {x \in C : a <= x /\ x <= b}

Streak(C, S, a, b, k) ==
    a \in C /\ b \in C /\ a <= b /\ Run(C, a, b) \subseteq S /\ Cardinality(Run(C, a, b)) >= k

\* The streak that nothing has broken yet.
Unbroken(C, S) == {x \in C : \A y \in C : x <= y => y \in S}

\* The first failure of its streak.
StartsStreak(C, B, i) == i \in B /\ \A x \in C : x < i => ~Streak(C, B, x, i, 1)

Declared(G, B, t, j) == \E i \in G \union B : Streak(G \union B, B, i, j, t.failure)

Ended(G, B, t, j) ==
    \E k \in G \union B, l \in G \union B : k > j /\ Streak(G \union B, G, k, l, t.recovery)

\* The checks that declare an outage which has not ended.
Lasting(G, B, t) == {j \in G \union B : Declared(G, B, t, j) /\ ~Ended(G, B, t, j)}

-----------------------------------------------------------------------------
(* The inductive invariant, of the successes G, the failures B, the state  *)
(* s, the thresholds t and whether the user heard of the outage.           *)

Moments == Nat \union {None}

States ==
    [url : {Url}, status : Status, status_since : Moments,
     failure_count : 0..CountCap, recovery_count : 0..CountCap,
     failing_since : Moments, down_since : Moments, notified_status : Status \union {None}]

History(G, B) ==
    G \subseteq Nat /\ B \subseteq Nat /\ IsFiniteSet(G) /\ IsFiniteSet(B) /\ G \cap B = {}

Typed(G, B, s, t, h) ==
    History(G, B) /\ s \in States /\ t \in Thresholds /\ h \in BOOLEAN

\* The counters count the streaks that are not broken, and date the failures.
StreakInv(G, B, s) ==
    /\ s.failure_count = Capped(Cardinality(Unbroken(G \union B, B)))
    /\ s.recovery_count = Capped(Cardinality(Unbroken(G \union B, G)))
    /\ Unbroken(G \union B, B) = {} => s.failing_since = None
    /\ Unbroken(G \union B, B) # {} => Least(s.failing_since, Unbroken(G \union B, B))
    /\ Unbroken(G \union B, G) # {} => \E m \in Nat : Least(m, Unbroken(G \union B, G))

StatusInv(G, B, s, t) ==
    /\ s.status = "DOWN" <=> Lasting(G, B, t) # {}
    /\ s.status = "UNKNOWN" <=> Lasting(G, B, t) = {} /\ G = {}

\* An outage is dated from the start of the streak that declared it.
DatedBy(G, B, t, d, i) ==
    /\ Least(d, Lasting(G, B, t))
    /\ Least(i, {x \in G \union B : Streak(G \union B, B, x, d, 1)})

OutageInv(G, B, s, t) ==
    /\ s.status = "DOWN" => \E d \in G \union B : DatedBy(G, B, t, d, s.down_since)
    /\ s.down_since # None => StartsStreak(G \union B, B, s.down_since)

\* What the user heard last is what the state says, until the next alert.
NoticeInv(s, h) ==
    /\ h => s.notified_status = "DOWN" /\ s.down_since # None
    /\ s.status # "UNKNOWN" => s.status_since \in Nat
    /\ s.status = "UP" /\ s.down_since # None => s.down_since < s.status_since

Agrees(G, B, s, t, h) ==
    /\ Typed(G, B, s, t, h) /\ StreakInv(G, B, s) /\ StatusInv(G, B, s, t)
    /\ OutageInv(G, B, s, t) /\ NoticeInv(s, h)

HistInv == replies \in Seq(Codes) /\ Agrees(Goods, Bads, state, th, heard)

-----------------------------------------------------------------------------
(* Streaks of a history that grows at its end.                             *)

LEMMA UnbrokenFinite ==
    ASSUME NEW C, NEW S, IsFiniteSet(C)
    PROVE  IsFiniteSet(Unbroken(C, S)) /\ Cardinality(Unbroken(C, S)) \in Nat
<1>1. Unbroken(C, S) \in SUBSET C
    BY DEF Unbroken
<1>. QED BY <1>1, FS_Subset, FS_CardinalityType

\* The streak that counts up to n is the one that is not broken at n.
LEMMA StreakNow ==
    ASSUME NEW C, NEW S, NEW n \in C, NEW m, NEW k,
           C \subseteq Nat, IsFiniteSet(C), \A x \in C : x <= n,
           Least(m, Unbroken(C, S)), k \in Nat
    PROVE  /\ (\E a \in C : Streak(C, S, a, n, k)) <=> Cardinality(Unbroken(C, S)) >= k
           /\ Cardinality(Unbroken(C, S)) >= k => Streak(C, S, m, n, k)
           /\ {x \in C : Streak(C, S, x, n, 1)} = Unbroken(C, S)
           /\ \A x \in C : x < m => ~Streak(C, S, x, m, 1)
<1>1. m \in C /\ m <= n /\ Unbroken(C, S) \subseteq C
    BY DEF Unbroken, Least
<1>2. Run(C, m, n) = Unbroken(C, S)
    <2>1. ASSUME NEW x \in Run(C, m, n) PROVE x \in Unbroken(C, S)
        BY <2>1, <1>1 DEF Run, Unbroken, Least
    <2>2. ASSUME NEW x \in Unbroken(C, S) PROVE x \in Run(C, m, n)
        BY <2>2, <1>1 DEF Run, Unbroken, Least
    <2>. QED BY <2>1, <2>2
<1>3. Run(C, m, n) \subseteq S
    BY <1>1 DEF Run, Least, Unbroken
<1>4. ASSUME NEW a \in C, Run(C, a, n) \subseteq S
      PROVE  a \in Unbroken(C, S) /\ Run(C, a, n) \subseteq Unbroken(C, S)
    <2>1. ASSUME NEW x \in C, a <= x, NEW y \in C, x <= y PROVE y \in S
        <3>1. a <= y /\ y <= n
            BY <2>1
        <3>. QED BY <3>1, <1>4 DEF Run
    <2>2. a <= a
        OBVIOUS
    <2>. QED BY <2>1, <2>2 DEF Run, Unbroken
<1>5. ASSUME NEW a \in C, Streak(C, S, a, n, k) PROVE Cardinality(Unbroken(C, S)) >= k
    <2>1. Run(C, a, n) \in SUBSET Unbroken(C, S)
        BY <1>4, <1>5 DEF Streak
    <2>2. IsFiniteSet(Unbroken(C, S)) /\ Cardinality(Unbroken(C, S)) \in Nat
        BY UnbrokenFinite
    <2>3. Cardinality(Run(C, a, n)) <= Cardinality(Unbroken(C, S)) /\ IsFiniteSet(Run(C, a, n))
        BY <2>1, <2>2, FS_Subset
    <2>4. Cardinality(Run(C, a, n)) \in Nat
        BY <2>3, FS_CardinalityType
    <2>. QED BY <2>2, <2>3, <2>4, <1>5 DEF Streak
<1>6. Cardinality(Unbroken(C, S)) >= k => Streak(C, S, m, n, k)
    BY <1>1, <1>2, <1>3 DEF Streak
<1>7. {x \in C : Streak(C, S, x, n, 1)} = Unbroken(C, S)
    <2>1. ASSUME NEW x \in Unbroken(C, S) PROVE Streak(C, S, x, n, 1)
        <3>1. x \in C /\ x <= n /\ Run(C, x, n) \subseteq S /\ n \in Run(C, x, n)
            BY <2>1, <1>1 DEF Unbroken, Run
        <3>2. Run(C, x, n) \in SUBSET C
            BY DEF Run
        <3>3. IsFiniteSet(Run(C, x, n)) /\ Cardinality(Run(C, x, n)) \in Nat
            BY <3>2, FS_Subset, FS_CardinalityType
        <3>4. Cardinality(Run(C, x, n)) # 0
            BY <3>1, <3>3, FS_EmptySet
        <3>. QED BY <3>1, <3>3, <3>4 DEF Streak
    <2>2. ASSUME NEW x \in C, Streak(C, S, x, n, 1) PROVE x \in Unbroken(C, S)
        BY <2>2, <1>4 DEF Streak
    <2>. QED BY <2>1, <2>2, <1>1
<1>8. ASSUME NEW x \in C, x < m, Streak(C, S, x, m, 1) PROVE FALSE
    <2>1. x \in Unbroken(C, S)
        <3>1. SUFFICES ASSUME NEW y \in C, x <= y PROVE y \in S
            BY DEF Unbroken
        <3>2. CASE y <= m
            BY <1>8, <3>1, <3>2 DEF Streak, Run
        <3>3. CASE m <= y
            BY <3>3, <1>1 DEF Unbroken, Least
        <3>. QED BY <3>2, <3>3, <1>1
    <2>. QED BY <2>1, <1>8, <1>1 DEF Least
<1>. QED BY <1>1, <1>5, <1>6, <1>7, <1>8


(* At n, after everything in C, the set S grows to R, the set O that also  *)
(* counts stays, and so C grows to D.                                      *)
Grows(S, R, O, C, D, n) ==
    /\ C = S \union O /\ R = S \union {n} /\ D = C \union {n}
    /\ C \subseteq Nat /\ IsFiniteSet(C) /\ n \in Nat /\ \A x \in C : x < n

LEMMA GrowsSets ==
    ASSUME NEW S, NEW R, NEW O, NEW C, NEW D, NEW n, Grows(S, R, O, C, D, n)
    PROVE  /\ C = S \union O /\ C = O \union S /\ D = R \union O /\ D = O \union R
           /\ R = S \union {n} /\ S \subseteq C /\ O \subseteq C /\ C \subseteq D
           /\ n \in Nat /\ n \in R /\ n \in D /\ n \notin C /\ n \notin S /\ n \notin O
           /\ C \subseteq Nat /\ IsFiniteSet(C) /\ D \subseteq Nat /\ IsFiniteSet(D)
           /\ \A x \in C : x < n /\ ~(n <= x)
           /\ \A x \in D : x <= n /\ ~(x > n) /\ (x = n \/ x \in C)
<1>1. C = S \union O /\ R = S \union {n} /\ D = C \union {n} /\ C \subseteq Nat /\ n \in Nat
    BY DEF Grows
<1>2. IsFiniteSet(C) /\ \A x \in C : x < n /\ ~(n <= x)
    BY DEF Grows
<1>3. IsFiniteSet(D)
    BY <1>1, <1>2, FS_AddElement
<1>. QED BY <1>1, <1>2, <1>3

\* What happens at n changes no streak of the past.
LEMMA StreaksStay ==
    ASSUME NEW S, NEW R, NEW O, NEW C, NEW D, NEW n, Grows(S, R, O, C, D, n),
           NEW a \in C, NEW b \in C, NEW k
    PROVE  /\ Streak(D, R, a, b, k) <=> Streak(C, S, a, b, k)
           /\ Streak(D, O, a, b, k) <=> Streak(C, O, a, b, k)
<1>1. a \in D /\ b \in D /\ \A x \in D : x <= b => x \in C
    BY GrowsSets
<1>2. Run(D, a, b) = Run(C, a, b)
    BY <1>1, GrowsSets DEF Run
<1>3. Run(C, a, b) \subseteq R <=> Run(C, a, b) \subseteq S
    BY GrowsSets DEF Run
<1>. QED BY <1>1, <1>2, <1>3 DEF Streak

\* No streak of the other kind touches n, and none that starts at n ends before.
LEMMA StreaksOfNow ==
    ASSUME NEW S, NEW R, NEW O, NEW C, NEW D, NEW n, Grows(S, R, O, C, D, n),
           NEW a, NEW b, NEW k
    PROVE  /\ Streak(D, O, a, b, k) => a \in C /\ b \in C
           /\ Streak(D, R, a, b, k) /\ b \in C => a \in C
<1>1. Streak(D, O, a, b, k) => a \in Run(D, a, b) /\ b \in Run(D, a, b)
    BY GrowsSets DEF Streak, Run
<1>2. Streak(D, O, a, b, k) => a \in O /\ b \in O
    BY <1>1 DEF Streak
<1>3. Streak(D, R, a, b, k) => a \in D /\ a <= b
    BY DEF Streak
<1>. QED BY <1>2, <1>3, GrowsSets

\* A streak ends with one of its kind.
LEMMA StreakEnd ==
    ASSUME NEW C, NEW S, NEW a, NEW b, NEW k, C \subseteq Nat, Streak(C, S, a, b, k)
    PROVE  b \in S /\ b \in C
BY DEF Streak, Run

LEMMA UnbrokenGrows ==
    ASSUME NEW S, NEW R, NEW O, NEW C, NEW D, NEW n, Grows(S, R, O, C, D, n)
    PROVE  /\ Unbroken(D, R) = Unbroken(C, S) \union {n}
           /\ Unbroken(D, O) = {}
           /\ Cardinality(Unbroken(D, R)) = Cardinality(Unbroken(C, S)) + 1
           /\ Cardinality(Unbroken(C, S)) \in Nat
<1>1. ASSUME NEW x \in Unbroken(D, R) PROVE x \in Unbroken(C, S) \union {n}
    BY <1>1, GrowsSets DEF Unbroken
<1>2. ASSUME NEW x \in Unbroken(C, S) \union {n} PROVE x \in Unbroken(D, R)
    BY <1>2, GrowsSets DEF Unbroken
<1>3. Unbroken(D, O) = {}
    BY GrowsSets DEF Unbroken
<1>4. Unbroken(D, R) = Unbroken(C, S) \union {n}
    BY <1>1, <1>2
<1>5. IsFiniteSet(Unbroken(C, S)) /\ Cardinality(Unbroken(C, S)) \in Nat
    BY GrowsSets, UnbrokenFinite
<1>6. n \notin Unbroken(C, S)
    BY GrowsSets DEF Unbroken
<1>7. Cardinality(Unbroken(C, S) \union {n}) = Cardinality(Unbroken(C, S)) + 1
    BY <1>5, <1>6, FS_AddElement
<1>. QED BY <1>3, <1>4, <1>5, <1>7

\* What a streak was dated from stays so.
LEMMA StartsStay ==
    ASSUME NEW S, NEW R, NEW O, NEW C, NEW D, NEW n, Grows(S, R, O, C, D, n), NEW i
    PROVE  /\ StartsStreak(C, S, i) => StartsStreak(D, R, i)
           /\ StartsStreak(C, O, i) => StartsStreak(D, O, i)
<1>1. \A x \in D : i \in C /\ x < i => x \in C
    BY GrowsSets
<1>2. \A x \in C : i \in C => /\ Streak(D, R, x, i, 1) <=> Streak(C, S, x, i, 1)
                              /\ Streak(D, O, x, i, 1) <=> Streak(C, O, x, i, 1)
    BY StreaksStay
<1>3. (i \in S => i \in C /\ i \in R) /\ (i \in O => i \in C)
    BY GrowsSets
<1>. QED BY <1>1, <1>2, <1>3 DEF StartsStreak

LEMMA BeginningsStay ==
    ASSUME NEW S, NEW R, NEW O, NEW C, NEW D, NEW n, Grows(S, R, O, C, D, n), NEW d \in C
    PROVE  /\ {x \in D : Streak(D, R, x, d, 1)} = {x \in C : Streak(C, S, x, d, 1)}
           /\ {x \in D : Streak(D, O, x, d, 1)} = {x \in C : Streak(C, O, x, d, 1)}
<1>1. \A x \in C : /\ Streak(D, R, x, d, 1) <=> Streak(C, S, x, d, 1)
                   /\ Streak(D, O, x, d, 1) <=> Streak(C, O, x, d, 1)
    BY StreaksStay
<1>2. \A x : (Streak(D, R, x, d, 1) => x \in C) /\ (Streak(D, O, x, d, 1) => x \in C)
    BY StreaksOfNow
<1>3. C \subseteq D
    BY GrowsSets
<1>. QED BY <1>1, <1>2, <1>3

\* The streak that goes on at n, in the terms of the definition.
LEMMA StreakUpToNow ==
    ASSUME NEW S, NEW R, NEW O, NEW C, NEW D, NEW n, Grows(S, R, O, C, D, n),
           NEW m, Least(m, Unbroken(D, R)), NEW k \in Nat
    PROVE  /\ (\E a \in D : Streak(D, R, a, n, k)) <=> Cardinality(Unbroken(D, R)) >= k
           /\ Cardinality(Unbroken(D, R)) >= k => Streak(D, R, m, n, k)
           /\ {x \in D : Streak(D, R, x, n, 1)} = Unbroken(D, R)
           /\ StartsStreak(D, R, m)
           /\ m \in Nat
<1>1. D \subseteq Nat /\ IsFiniteSet(D) /\ n \in D /\ (\A x \in D : x <= n)
    BY GrowsSets
<1>2. m \in D /\ m <= n /\ m \in Nat /\ m \in R
    BY <1>1 DEF Least, Unbroken
<1>. QED BY <1>1, <1>2, StreakNow DEF StartsStreak

-----------------------------------------------------------------------------
(* The counters.                                                           *)

LEMMA BumpCounts ==
    ASSUME NEW n \in Nat
    PROVE  /\ Bump(Capped(n)) = Capped(n + 1)
           /\ Capped(n) \in 0..CountCap
           /\ \A k \in 1..CountCap : Capped(n) >= k <=> n >= k
BY CountCapAssumption DEF Bump, Capped

\* What the type invariant gives of the sets and the constants.
LEMMA HistoryFacts ==
    ASSUME NEW G, NEW B, NEW s, NEW t, NEW h, Typed(G, B, s, t, h)
    PROVE  /\ G \union B \subseteq Nat /\ IsFiniteSet(G \union B)
           /\ B \cap (G \union B) = B /\ G \cap (G \union B) = G
           /\ t.failure \in 1..CountCap /\ t.recovery \in 1..CountCap
           /\ None \notin Nat /\ None \notin Status
BY FS_Union, HistoryAssumption DEF Typed, History, Thresholds

-----------------------------------------------------------------------------
(* A failure at n.                                                         *)

LEMMA FailureFields ==
    ASSUME NEW s \in States, NEW n, NEW t, NEW u, u = OnFailure(s, n, t)
    PROVE  /\ u.url = s.url /\ u.notified_status = s.notified_status
           /\ u.recovery_count = 0 /\ u.failure_count = Bump(s.failure_count)
           /\ u.failing_since = StreakStart(s, n)
           /\ s.status # "DOWN" /\ Bump(s.failure_count) >= t.failure =>
                 u.status = "DOWN" /\ u.status_since = n /\ u.down_since = StreakStart(s, n)
           /\ ~(s.status # "DOWN" /\ Bump(s.failure_count) >= t.failure) =>
                 /\ u.status = s.status /\ u.status_since = s.status_since
                 /\ u.down_since = s.down_since
           /\ DOMAIN u = DOMAIN s
           /\ u = [url |-> u.url, status |-> u.status, status_since |-> u.status_since,
                   failure_count |-> u.failure_count, recovery_count |-> u.recovery_count,
                   failing_since |-> u.failing_since, down_since |-> u.down_since,
                   notified_status |-> u.notified_status]
BY DEF OnFailure, States

LEMMA FailureTyped ==
    ASSUME NEW G, NEW B, NEW R, NEW C, NEW D, NEW n, Grows(B, R, G, C, D, n),
           NEW s, NEW t, NEW h, Typed(G, B, s, t, h)
    PROVE  Typed(G, R, OnFailure(s, n, t), t, h)
<1>1. History(G, R)
    <2>1. IsFiniteSet(R)
        BY FS_AddElement, GrowsSets DEF Typed, History
    <2>. QED BY <2>1, GrowsSets DEF Typed, History
<1>2. s \in States /\ n \in Nat
    BY GrowsSets DEF Typed
<1>3. Bump(s.failure_count) \in 0..CountCap /\ StreakStart(s, n) \in Moments
    BY <1>2, CountCapAssumption DEF Bump, StreakStart, States, Moments
<1>4. OnFailure(s, n, t) \in States
    BY <1>2, <1>3, FailureFields, CountCapAssumption DEF States, Status, Moments
<1>. QED BY <1>1, <1>4 DEF Typed

\* A failure at n declares an outage if it is the failure_threshold-th in a
\* row, and ends none.
LEMMA FailureLasting ==
    ASSUME NEW G, NEW B, NEW R, NEW C, NEW D, NEW n, Grows(B, R, G, C, D, n),
           NEW t \in Thresholds, NEW m, Least(m, Unbroken(D, R))
    PROVE  Lasting(G, R, t) =
              Lasting(G, B, t) \union
              (IF Cardinality(Unbroken(D, R)) >= t.failure THEN {n} ELSE {})
<1>1. G \union R = D /\ G \union B = C /\ C \subseteq D /\ n \in D
      /\ \A x \in D : ~(x > n) /\ (x = n \/ x \in C)
    BY GrowsSets
<1>2. \A a \in C, b \in C : /\ Streak(D, R, a, b, t.failure) <=> Streak(C, B, a, b, t.failure)
                            /\ Streak(D, G, a, b, t.recovery) <=> Streak(C, G, a, b, t.recovery)
    BY StreaksStay
<1>3. \A a, b : /\ Streak(D, G, a, b, t.recovery) => a \in C /\ b \in C
                /\ Streak(D, R, a, b, t.failure) /\ b \in C => a \in C
    BY StreaksOfNow
<1>4. \A j : /\ Declared(G, R, t, j) <=> \E i \in D : Streak(D, R, i, j, t.failure)
             /\ Declared(G, B, t, j) <=> \E i \in C : Streak(C, B, i, j, t.failure)
    BY <1>1 DEF Declared
<1>5. \A j : /\ Ended(G, R, t, j) <=> \E k \in D, l \in D : k > j /\ Streak(D, G, k, l, t.recovery)
             /\ Ended(G, B, t, j) <=> \E k \in C, l \in C : k > j /\ Streak(C, G, k, l, t.recovery)
    BY <1>1 DEF Ended
<1>6. \A j \in C : Declared(G, R, t, j) <=> Declared(G, B, t, j)
    BY <1>1, <1>2, <1>3, <1>4
<1>7. \A j \in C : Ended(G, R, t, j) <=> Ended(G, B, t, j)
    BY <1>1, <1>2, <1>3, <1>5
<1>8. ~Ended(G, R, t, n)
    BY <1>1, <1>5
<1>9. Declared(G, R, t, n) <=> Cardinality(Unbroken(D, R)) >= t.failure
    <2>1. t.failure \in Nat
        BY DEF Thresholds
    <2>. QED BY <2>1, <1>4, StreakUpToNow
<1>10. Lasting(G, R, t) = {j \in D : Declared(G, R, t, j) /\ ~Ended(G, R, t, j)}
    BY <1>1 DEF Lasting
<1>11. Lasting(G, B, t) = {j \in C : Declared(G, B, t, j) /\ ~Ended(G, B, t, j)}
    BY <1>1 DEF Lasting
<1>. QED BY <1>1, <1>6, <1>7, <1>8, <1>9, <1>10, <1>11

\* The counter and the start of the streak that goes on after a failure.
LEMMA FailureStreak ==
    ASSUME NEW G, NEW B, NEW R, NEW C, NEW D, NEW n, Grows(B, R, G, C, D, n),
           NEW s, StreakInv(G, B, s)
    PROVE  /\ Least(StreakStart(s, n), Unbroken(D, R))
           /\ Bump(s.failure_count) = Capped(Cardinality(Unbroken(D, R)))
           /\ Cardinality(Unbroken(D, R)) \in Nat
           /\ Unbroken(D, G) = {}
<1>. DEFINE U == Unbroken(C, B)
<1>1. Unbroken(D, R) = U \union {n} /\ Unbroken(D, G) = {}
      /\ Cardinality(Unbroken(D, R)) = Cardinality(U) + 1 /\ Cardinality(U) \in Nat
    BY UnbrokenGrows
<1>2. n \in Nat /\ (\A x \in U : x <= n) /\ U \subseteq Nat
    BY GrowsSets DEF Unbroken
<1>3. /\ s.failure_count = Capped(Cardinality(U))
      /\ U = {} => s.failing_since = None
      /\ U # {} => Least(s.failing_since, U)
    <2>1. G \union B = C
        BY GrowsSets
    <2>. QED BY <2>1 DEF StreakInv
<1>. HIDE DEF U
<1>4. Bump(s.failure_count) = Capped(Cardinality(U) + 1)
    BY <1>1, <1>3, BumpCounts
<1>5. Least(StreakStart(s, n), U \union {n})
    <2>1. CASE U = {}
        BY <2>1, <1>2, <1>3 DEF StreakStart, Least
    <2>2. CASE U # {}
        <3>1. s.failing_since \in Nat /\ Least(s.failing_since, U)
            BY <2>2, <1>2, <1>3 DEF Least
        <3>2. StreakStart(s, n) = s.failing_since
            BY <3>1, HistoryAssumption DEF StreakStart
        <3>. QED BY <3>1, <3>2, <1>2 DEF Least
    <2>. QED BY <2>1, <2>2
<1>. QED BY <1>1, <1>4, <1>5

LEMMA FailureAgrees ==
    ASSUME NEW G, NEW B, NEW R, NEW C, NEW D, NEW n, Grows(B, R, G, C, D, n),
           NEW s, NEW t, NEW h, Agrees(G, B, s, t, h), NEW u, u = OnFailure(s, n, t)
    PROVE  Agrees(G, R, u, t, h)
<1>. DEFINE m == StreakStart(s, n)
            V == Unbroken(D, R)
            fails == Cardinality(V)
<1>0. /\ Typed(G, B, s, t, h) /\ StreakInv(G, B, s) /\ s \in States /\ t \in Thresholds
    BY DEF Agrees, Typed
<1>1. Typed(G, R, u, t, h)
    BY <1>0, FailureTyped
<1>2. G \union R = D /\ G \union B = C /\ n \in D /\ C \subseteq D /\ n \in Nat
      /\ \A x \in C : x < n
    BY GrowsSets
<1>3. /\ Least(m, V) /\ Bump(s.failure_count) = Capped(fails)
      /\ Unbroken(D, G) = {} /\ fails \in Nat
    BY <1>0, FailureStreak
<1>4. Lasting(G, R, t) = Lasting(G, B, t) \union (IF fails >= t.failure THEN {n} ELSE {})
    BY <1>0, <1>3, FailureLasting
<1>5. Capped(fails) >= t.failure <=> fails >= t.failure
    BY <1>0, <1>3, BumpCounts, HistoryFacts
<1>6. StartsStreak(D, R, m) /\ {x \in D : Streak(D, R, x, n, 1)} = V /\ m \in Nat
    BY <1>3, StreakUpToNow
<1>. HIDE DEF m, V, fails
<1>7. /\ u.notified_status = s.notified_status
      /\ u.recovery_count = 0 /\ u.failure_count = Capped(fails) /\ u.failing_since = m
      /\ s.status # "DOWN" /\ fails >= t.failure =>
            u.status = "DOWN" /\ u.status_since = n /\ u.down_since = m
      /\ ~(s.status # "DOWN" /\ fails >= t.failure) =>
            u.status = s.status /\ u.status_since = s.status_since /\ u.down_since = s.down_since
    BY <1>0, <1>3, <1>5, FailureFields DEF m
<1>8. StreakInv(G, R, u)
    <2>1. Capped(Cardinality({})) = 0
        BY FS_EmptySet, CountCapAssumption DEF Capped
    <2>2. V # {}
        BY <1>3 DEF Least
    <2>. QED BY <1>2, <1>3, <1>7, <2>1, <2>2 DEF StreakInv, fails, V
<1>9. StatusInv(G, R, u, t)
    <2>1. s.status = "DOWN" <=> Lasting(G, B, t) # {}
        BY DEF Agrees, StatusInv
    <2>2. s.status = "UNKNOWN" <=> Lasting(G, B, t) = {} /\ G = {}
        BY DEF Agrees, StatusInv
    <2>. QED BY <2>1, <2>2, <1>4, <1>7 DEF StatusInv
<1>10. u.down_since # None => StartsStreak(D, R, u.down_since)
    <2>1. s.down_since # None => StartsStreak(C, B, s.down_since)
        BY <1>2 DEF Agrees, OutageInv
    <2>2. s.down_since # None => StartsStreak(D, R, s.down_since)
        BY <2>1, StartsStay
    <2>. QED BY <2>2, <1>6, <1>7
<1>11. OutageInv(G, R, u, t)
    <2>1. CASE s.status = "DOWN"
        <3>1. PICK d \in C : DatedBy(G, B, t, d, s.down_since)
            BY <2>1, <1>2 DEF Agrees, OutageInv
        <3>2. Least(d, Lasting(G, R, t))
            BY <3>1, <1>2, <1>4 DEF DatedBy, Least
        <3>3. {x \in D : Streak(D, R, x, d, 1)} = {x \in C : Streak(C, B, x, d, 1)}
            BY BeginningsStay
        <3>4. DatedBy(G, R, t, d, s.down_since)
            BY <3>1, <3>2, <3>3, <1>2 DEF DatedBy
        <3>. QED BY <2>1, <3>4, <1>2, <1>7, <1>10 DEF OutageInv
    <2>2. CASE s.status # "DOWN" /\ fails >= t.failure
        <3>1. Lasting(G, R, t) = {n}
            BY <2>2, <1>4 DEF Agrees, StatusInv
        <3>2. DatedBy(G, R, t, n, m)
            <4>1. Least(n, {n})
                BY <1>2 DEF Least
            <4>2. Least(m, {x \in D : Streak(D, R, x, n, 1)})
                BY <1>3, <1>6
            <4>. QED BY <3>1, <4>1, <4>2, <1>2 DEF DatedBy
        <3>. QED BY <2>2, <3>2, <1>2, <1>7, <1>10 DEF OutageInv
    <2>3. CASE s.status # "DOWN" /\ ~(fails >= t.failure)
        BY <2>3, <1>2, <1>7, <1>10 DEF OutageInv
    <2>. QED BY <2>1, <2>2, <2>3
<1>12. NoticeInv(u, h)
    <2>1. m # None
        BY <1>6, HistoryAssumption
    <2>2. NoticeInv(s, h)
        BY DEF Agrees
    <2>. QED BY <2>1, <2>2, <1>2, <1>7 DEF NoticeInv
<1>. QED BY <1>1, <1>8, <1>9, <1>11, <1>12 DEF Agrees

-----------------------------------------------------------------------------
(* A success at n.                                                         *)

LEMMA SuccessFields ==
    ASSUME NEW s \in States, NEW n, NEW t, NEW u, u = OnSuccess(s, n, t)
    PROVE  /\ u.url = s.url /\ u.notified_status = s.notified_status
           /\ u.failure_count = 0 /\ u.recovery_count = Bump(s.recovery_count)
           /\ u.failing_since = None /\ u.down_since = s.down_since
           /\ s.status = "UNKNOWN" \/ (s.status = "DOWN" /\ Bump(s.recovery_count) >= t.recovery) =>
                 u.status = "UP" /\ u.status_since = n
           /\ ~(s.status = "UNKNOWN" \/ (s.status = "DOWN" /\ Bump(s.recovery_count) >= t.recovery)) =>
                 u.status = s.status /\ u.status_since = s.status_since
           /\ u = [url |-> u.url, status |-> u.status, status_since |-> u.status_since,
                   failure_count |-> u.failure_count, recovery_count |-> u.recovery_count,
                   failing_since |-> u.failing_since, down_since |-> u.down_since,
                   notified_status |-> u.notified_status]
BY DEF OnSuccess, Recovers, Cleared, States

LEMMA SuccessTyped ==
    ASSUME NEW G, NEW B, NEW H, NEW C, NEW D, NEW n, Grows(G, H, B, C, D, n),
           NEW s, NEW t, NEW h, Typed(G, B, s, t, h)
    PROVE  Typed(H, B, OnSuccess(s, n, t), t, h)
<1>1. History(H, B)
    <2>1. IsFiniteSet(H)
        BY FS_AddElement, GrowsSets DEF Typed, History
    <2>. QED BY <2>1, GrowsSets DEF Typed, History
<1>2. s \in States /\ n \in Nat
    BY GrowsSets DEF Typed
<1>3. Bump(s.recovery_count) \in 0..CountCap
    BY <1>2, CountCapAssumption DEF Bump, States
<1>4. OnSuccess(s, n, t) \in States
    BY <1>2, <1>3, SuccessFields, CountCapAssumption DEF States, Status, Moments
<1>. QED BY <1>1, <1>4 DEF Typed

\* A success at n ends every outage if it is the recovery_threshold-th in a
\* row, and none if it is not.
LEMMA SuccessLasting ==
    ASSUME NEW G, NEW B, NEW H, NEW C, NEW D, NEW n, Grows(G, H, B, C, D, n), G \cap B = {},
           NEW t \in Thresholds, NEW m, Least(m, Unbroken(D, H))
    PROVE  Lasting(H, B, t) =
              IF Cardinality(Unbroken(D, H)) >= t.recovery THEN {} ELSE Lasting(G, B, t)
<1>1. H \union B = D /\ G \union B = C /\ C \subseteq D /\ n \in D /\ n \notin B /\ C \subseteq Nat
      /\ (\A x \in D : x = n \/ x \in C) /\ H = G \union {n} /\ n \notin C
    BY GrowsSets
<1>2. \A a \in C, b \in C : /\ Streak(D, B, a, b, t.failure) <=> Streak(C, B, a, b, t.failure)
                            /\ Streak(D, H, a, b, t.recovery) <=> Streak(C, G, a, b, t.recovery)
    BY StreaksStay
<1>3. \A a, b : /\ Streak(D, B, a, b, t.failure) => a \in C /\ b \in C
                /\ Streak(D, H, a, b, t.recovery) /\ b \in C => a \in C
    BY StreaksOfNow
<1>4. \A j : /\ Declared(H, B, t, j) <=> \E i \in D : Streak(D, B, i, j, t.failure)
             /\ Declared(G, B, t, j) <=> \E i \in C : Streak(C, B, i, j, t.failure)
    BY <1>1 DEF Declared
<1>5. \A j : /\ Ended(H, B, t, j) <=> \E k \in D, l \in D : k > j /\ Streak(D, H, k, l, t.recovery)
             /\ Ended(G, B, t, j) <=> \E k \in C, l \in C : k > j /\ Streak(C, G, k, l, t.recovery)
    BY <1>1 DEF Ended
<1>6. \A j : Declared(H, B, t, j) <=> Declared(G, B, t, j)
    <2>1. \A i, j : Streak(C, B, i, j, t.failure) => i \in C /\ j \in C
        BY DEF Streak
    <2>2. \A i \in C : i \in D
        BY <1>1
    <2>. QED BY <2>1, <2>2, <1>2, <1>3, <1>4
<1>7. \A j : Declared(H, B, t, j) => j \in B /\ j \in C
    <2>1. \A i, j : Streak(D, B, i, j, t.failure) => j \in B
        BY GrowsSets, StreakEnd
    <2>. QED BY <2>1, <1>3, <1>4
<1>8. /\ (\E a \in D : Streak(D, H, a, n, t.recovery)) <=> Cardinality(Unbroken(D, H)) >= t.recovery
      /\ Cardinality(Unbroken(D, H)) >= t.recovery => Streak(D, H, m, n, t.recovery)
      /\ m \in Nat
    <2>1. t.recovery \in Nat
        BY DEF Thresholds
    <2>. QED BY <2>1, StreakUpToNow
<1>9. Lasting(H, B, t) = {j \in D : Declared(H, B, t, j) /\ ~Ended(H, B, t, j)}
    BY <1>1 DEF Lasting
<1>10. Lasting(G, B, t) = {j \in C : Declared(G, B, t, j) /\ ~Ended(G, B, t, j)}
    BY <1>1 DEF Lasting
<1>11. CASE Cardinality(Unbroken(D, H)) >= t.recovery
    <2>1. ASSUME NEW j \in D, Declared(H, B, t, j) PROVE Ended(H, B, t, j)
        <3>1. j \in B /\ j \in D /\ j \in Nat /\ j \notin H
            BY <2>1, <1>1, <1>7
        <3>2. m \in D /\ ~(m <= j)
            BY <3>1 DEF Least, Unbroken
        <3>3. m > j
            BY <3>1, <3>2, <1>8
        <3>. QED BY <3>2, <3>3, <1>1, <1>5, <1>8, <1>11
    <2>. QED BY <2>1, <1>9, <1>11
<1>12. CASE ~(Cardinality(Unbroken(D, H)) >= t.recovery)
    <2>1. ASSUME NEW j PROVE Ended(H, B, t, j) <=> Ended(G, B, t, j)
        <3>1. ASSUME NEW k \in C, NEW l \in C, k > j, Streak(C, G, k, l, t.recovery)
              PROVE  Ended(H, B, t, j)
            <4>1. k \in D /\ l \in D /\ Streak(D, H, k, l, t.recovery)
                BY <3>1, <1>1, <1>2
            <4>. QED BY <3>1, <4>1, <1>5
        <3>2. ASSUME NEW k \in D, NEW l \in D, k > j, Streak(D, H, k, l, t.recovery)
              PROVE  Ended(G, B, t, j)
            <4>1. l \in C
                BY <3>2, <1>1, <1>8, <1>12
            <4>2. k \in C /\ Streak(C, G, k, l, t.recovery)
                BY <3>2, <4>1, <1>2, <1>3
            <4>. QED BY <3>2, <4>1, <4>2, <1>5
        <3>. QED BY <3>1, <3>2, <1>5
    <2>. QED BY <2>1, <1>1, <1>6, <1>7, <1>9, <1>10, <1>12
<1>. QED BY <1>11, <1>12

LEMMA SuccessAgrees ==
    ASSUME NEW G, NEW B, NEW H, NEW C, NEW D, NEW n, Grows(G, H, B, C, D, n),
           NEW s, NEW t, NEW h, Agrees(G, B, s, t, h), NEW u, u = OnSuccess(s, n, t)
    PROVE  Agrees(H, B, u, t, h)
<1>. DEFINE V == Unbroken(D, H)
            successes == Cardinality(V)
<1>0. /\ Typed(G, B, s, t, h) /\ StreakInv(G, B, s) /\ s \in States /\ t \in Thresholds
      /\ G \cap B = {}
    BY DEF Agrees, Typed, History
<1>1. Typed(H, B, u, t, h)
    BY <1>0, SuccessTyped
<1>2. H \union B = D /\ G \union B = C /\ n \in D /\ C \subseteq D /\ n \in Nat /\ n \in H
      /\ C \subseteq Nat /\ \A x \in C : x < n
    BY GrowsSets
<1>3. /\ V = Unbroken(C, G) \union {n} /\ Unbroken(D, B) = {}
      /\ Bump(s.recovery_count) = Capped(successes) /\ successes \in Nat
    <2>1. /\ V = Unbroken(C, G) \union {n} /\ Unbroken(D, B) = {}
          /\ successes = Cardinality(Unbroken(C, G)) + 1 /\ Cardinality(Unbroken(C, G)) \in Nat
        BY UnbrokenGrows
    <2>2. s.recovery_count = Capped(Cardinality(Unbroken(C, G)))
        BY <1>0, <1>2 DEF StreakInv
    <2>. HIDE DEF V, successes
    <2>. QED BY <2>1, <2>2, BumpCounts
<1>4. PICK m \in Nat : Least(m, V)
    <2>1. CASE Unbroken(C, G) = {}
        BY <2>1, <1>2, <1>3 DEF Least
    <2>2. CASE Unbroken(C, G) # {}
        <3>1. PICK m \in Nat : Least(m, Unbroken(C, G))
            BY <2>2, <1>0, <1>2 DEF StreakInv
        <3>2. m \in C
            BY <3>1 DEF Least, Unbroken
        <3>3. Least(m, Unbroken(C, G) \union {n})
            BY <3>1, <3>2, <1>2 DEF Least
        <3>. QED BY <3>3, <1>3
    <2>. QED BY <2>1, <2>2
<1>5. Lasting(H, B, t) = IF successes >= t.recovery THEN {} ELSE Lasting(G, B, t)
    BY <1>0, <1>4, SuccessLasting
<1>6. Capped(successes) >= t.recovery <=> successes >= t.recovery
    BY <1>0, <1>3, BumpCounts, HistoryFacts
<1>. HIDE DEF V, successes
<1>7. /\ u.notified_status = s.notified_status
      /\ u.failure_count = 0 /\ u.recovery_count = Capped(successes)
      /\ u.failing_since = None /\ u.down_since = s.down_since
      /\ s.status = "UNKNOWN" \/ (s.status = "DOWN" /\ successes >= t.recovery) =>
            u.status = "UP" /\ u.status_since = n
      /\ ~(s.status = "UNKNOWN" \/ (s.status = "DOWN" /\ successes >= t.recovery)) =>
            u.status = s.status /\ u.status_since = s.status_since
    BY <1>0, <1>3, <1>6, SuccessFields
<1>8. StreakInv(H, B, u)
    <2>1. Capped(Cardinality({})) = 0
        BY FS_EmptySet, CountCapAssumption DEF Capped
    <2>. QED BY <1>2, <1>3, <1>4, <1>7, <2>1 DEF StreakInv, successes, V
<1>9. StatusInv(H, B, u, t)
    <2>1. s.status = "DOWN" <=> Lasting(G, B, t) # {}
        BY DEF Agrees, StatusInv
    <2>2. s.status = "UNKNOWN" <=> Lasting(G, B, t) = {} /\ G = {}
        BY DEF Agrees, StatusInv
    <2>. QED BY <2>1, <2>2, <1>2, <1>5, <1>7 DEF StatusInv
<1>10. u.down_since # None => StartsStreak(D, B, u.down_since)
    <2>1. s.down_since # None => StartsStreak(C, B, s.down_since)
        BY <1>2 DEF Agrees, OutageInv
    <2>. QED BY <2>1, <1>7, StartsStay
<1>11. OutageInv(H, B, u, t)
    <2>1. CASE u.status = "DOWN"
        <3>1. s.status = "DOWN" /\ Lasting(H, B, t) = Lasting(G, B, t)
            BY <2>1, <1>5, <1>7
        <3>2. PICK d \in C : DatedBy(G, B, t, d, s.down_since)
            BY <3>1, <1>2 DEF Agrees, OutageInv
        <3>3. {x \in D : Streak(D, B, x, d, 1)} = {x \in C : Streak(C, B, x, d, 1)}
            BY BeginningsStay
        <3>4. DatedBy(H, B, t, d, s.down_since)
            BY <3>1, <3>2, <3>3, <1>2 DEF DatedBy
        <3>. QED BY <3>4, <1>2, <1>7, <1>10 DEF OutageInv
    <2>2. CASE u.status # "DOWN"
        BY <2>2, <1>2, <1>10 DEF OutageInv
    <2>. QED BY <2>1, <2>2
<1>12. NoticeInv(u, h)
    <2>1. NoticeInv(s, h)
        BY DEF Agrees
    <2>2. s.down_since # None => s.down_since \in C
        <3>1. B \subseteq C
            BY <1>2
        <3>. QED BY <3>1 DEF Agrees, OutageInv, StartsStreak
    <2>. QED BY <2>1, <2>2, <1>2, <1>7 DEF NoticeInv
<1>. QED BY <1>1, <1>8, <1>9, <1>11, <1>12 DEF Agrees

-----------------------------------------------------------------------------
(* The alert that was owed is delivered.                                   *)

LEMMA DeliveryAgrees ==
    ASSUME NEW G, NEW B, NEW s, NEW t, NEW h, Agrees(G, B, s, t, h),
           NEW kind, kind = PendingAlert(s), kind # None, NEW u, u = MarkNotified(s, kind)
    PROVE  Agrees(G, B, u, t, kind = "DOWN")
<1>1. s \in States /\ Typed(G, B, s, t, h)
    BY DEF Agrees, Typed
<1>2. /\ u.status = s.status /\ u.status_since = s.status_since
      /\ u.failure_count = s.failure_count /\ u.recovery_count = s.recovery_count
      /\ u.failing_since = s.failing_since
      /\ kind = "DOWN" => s.status = "DOWN" /\ u.notified_status = "DOWN" /\ u.down_since = s.down_since
      /\ kind # "DOWN" => s.status = "UP" /\ u.down_since = None
    BY <1>1 DEF MarkNotified, PendingAlert, States
<1>3. u \in States
    BY <1>1 DEF MarkNotified, States, Status, Moments
<1>4. s.status = "DOWN" => s.down_since # None
    <2>1. s.status = "DOWN" => s.down_since \in G \union B
        BY DEF Agrees, OutageInv, DatedBy, Least
    <2>. QED BY <2>1, <1>1, HistoryFacts
<1>5. Typed(G, B, u, t, kind = "DOWN")
    BY <1>1, <1>3 DEF Typed
<1>6. StreakInv(G, B, u)
    BY <1>2 DEF Agrees, StreakInv
<1>7. StatusInv(G, B, u, t)
    BY <1>2 DEF Agrees, StatusInv
<1>8. OutageInv(G, B, u, t)
    BY <1>2 DEF Agrees, OutageInv
<1>9. NoticeInv(u, kind = "DOWN")
    BY <1>2, <1>4 DEF Agrees, NoticeInv
<1>. QED BY <1>5, <1>6, <1>7, <1>8, <1>9 DEF Agrees

-----------------------------------------------------------------------------
(* The invariant holds.                                                    *)

LEMMA InitAgrees == Init => HistInv
<1>. SUFFICES ASSUME Init PROVE HistInv
    OBVIOUS
<1>. DEFINE E == {}
<1>1. replies \in Seq(Codes) /\ Goods = E /\ Bads = E
    BY DEF Init, Goods, Bads, Counted
<1>2. E = {} /\ E \union E = E /\ E \cap E = {} /\ E \subseteq Nat /\ IsFiniteSet(E) /\ Cardinality(E) = 0
    BY FS_EmptySet
<1>. HIDE DEF E
<1>3. state \in States
    BY CountCapAssumption DEF Init, States, Status, Moments, Fresh
<1>4. Typed(E, E, state, th, heard)
    BY <1>2, <1>3 DEF Init, Typed, History
<1>5. Unbroken(E, E) = E /\ Lasting(E, E, th) = {}
    BY <1>2 DEF Unbroken, Lasting
<1>6. Capped(0) = 0 /\ state.failure_count = 0 /\ state.recovery_count = 0 /\ state.failing_since = None
      /\ state.down_since = None /\ state.status = "UNKNOWN" /\ heard = FALSE
    BY CountCapAssumption DEF Init, Capped, Fresh
<1>7. StreakInv(E, E, state)
    BY <1>2, <1>5, <1>6 DEF StreakInv
<1>8. StatusInv(E, E, state, th) /\ OutageInv(E, E, state, th) /\ NoticeInv(state, heard)
    BY <1>2, <1>5, <1>6 DEF StatusInv, OutageInv, NoticeInv
<1>. QED BY <1>1, <1>4, <1>7, <1>8 DEF HistInv, Agrees

LEMMA CountedParts ==
    ASSUME replies \in Seq(Codes)
    PROVE  /\ Counted = Goods \union Bads /\ Counted \subseteq 1..Len(replies)
           /\ Len(replies) \in Nat /\ DOMAIN replies = 1..Len(replies)
BY DEF Counted, Goods, Bads

\* The reply of the check at n is a success, a failure or counts for nothing.
LEMMA HistoryGrows ==
    ASSUME replies \in Seq(Codes), NEW code \in Codes, replies' = Append(replies, code),
           NEW n, n = Len(replies) + 1
    PROVE  /\ replies' \in Seq(Codes)
           /\ Classify(code) = "ignored" => Goods' = Goods /\ Bads' = Bads
           /\ Classify(code) = "success" =>
                 Grows(Goods, Goods', Bads, Counted, Counted', n) /\ Bads' = Bads
           /\ Classify(code) = "failure" =>
                 Grows(Bads, Bads', Goods, Counted, Counted', n) /\ Goods' = Goods
           /\ Classify(code) \in Outcome
<1>1. /\ replies' \in Seq(Codes) /\ Len(replies') = n /\ replies'[n] = code
      /\ \A x \in 1..Len(replies) : replies'[x] = replies[x]
    BY AppendProperties
<1>2. /\ n \in Nat /\ Len(replies) \in Nat /\ DOMAIN replies = 1..Len(replies)
      /\ DOMAIN replies' = 1..n /\ 1..n = 1..Len(replies) \union {n} /\ n \notin 1..Len(replies)
      /\ \A x \in 1..Len(replies) : x < n
    BY <1>1
<1>3. Goods \subseteq 1..Len(replies) /\ Bads \subseteq 1..Len(replies) /\ Counted = Goods \union Bads
    BY CountedParts
<1>4. code \in Nat
    BY HistoryAssumption
<1>5. Goods' = Goods \union (IF code \in 200..299 THEN {n} ELSE {})
    BY <1>1, <1>2 DEF Goods, Counted, Good, Bad
<1>6. Bads' = Bads \union (IF code = NoReply \/ code >= 500 THEN {n} ELSE {})
    BY <1>1, <1>2 DEF Bads, Counted, Good, Bad
<1>7. Counted' = Goods' \union Bads'
    BY DEF Counted, Goods, Bads
<1>8. Classify(code) \in Outcome
    BY DEF Classify, Outcome
<1>9. /\ Classify(code) = "success" <=> code \in 200..299
      /\ Classify(code) = "failure" <=> code = NoReply \/ code >= 500
    BY <1>4 DEF Classify, NoReply
<1>10. IsFiniteSet(Counted) /\ Counted \subseteq Nat /\ \A x \in Counted : x < n
    <2>1. IsFiniteSet(1..Len(replies))
        BY <1>2, FS_Interval
    <2>2. Counted \in SUBSET (1..Len(replies))
        BY <1>3
    <2>3. IsFiniteSet(Counted)
        BY <2>1, <2>2, FS_Subset
    <2>. QED BY <2>2, <2>3, <1>2
<1>11. CASE Classify(code) = "ignored"
    BY <1>1, <1>5, <1>6, <1>8, <1>9, <1>11
<1>12. CASE Classify(code) = "success"
    <2>1. Goods' = Goods \union {n} /\ Bads' = Bads
        BY <1>5, <1>6, <1>9, <1>12
    <2>2. Counted' = Counted \union {n}
        BY <2>1, <1>3, <1>7
    <2>. QED BY <2>1, <2>2, <1>1, <1>2, <1>3, <1>8, <1>10, <1>12 DEF Grows
<1>13. CASE Classify(code) = "failure"
    <2>1. Bads' = Bads \union {n} /\ Goods' = Goods
        BY <1>5, <1>6, <1>9, <1>13
    <2>2. Counted' = Counted \union {n}
        BY <2>1, <1>3, <1>7
    <2>. QED BY <2>1, <2>2, <1>1, <1>2, <1>3, <1>8, <1>10, <1>13 DEF Grows
<1>. QED BY <1>8, <1>11, <1>12, <1>13 DEF Outcome

LEMMA CheckAgrees ==
    ASSUME HistInv, NEW code \in Codes, NEW delivered \in BOOLEAN, Check(code, delivered)
    PROVE  HistInv'
<1>. DEFINE n == Len(replies) + 1
            s == ApplyCheck(state, Classify(code), n, th)
            kind == PendingAlert(s)
<1>1. /\ replies' = Append(replies, code) /\ th' = th
      /\ state' = IF delivered THEN MarkNotified(s, kind) ELSE s
      /\ heard' = IF delivered THEN kind = "DOWN" ELSE heard
      /\ delivered => kind # None
    BY DEF Check
<1>2. replies \in Seq(Codes) /\ Agrees(Goods, Bads, state, th, heard)
    BY DEF HistInv
<1>. HIDE DEF n
<1>3. /\ replies' \in Seq(Codes)
      /\ Classify(code) = "ignored" => Goods' = Goods /\ Bads' = Bads
      /\ Classify(code) = "success" =>
            Grows(Goods, Goods', Bads, Counted, Counted', n) /\ Bads' = Bads
      /\ Classify(code) = "failure" =>
            Grows(Bads, Bads', Goods, Counted, Counted', n) /\ Goods' = Goods
      /\ Classify(code) \in Outcome
    BY <1>1, <1>2, HistoryGrows DEF n
<1>4. Agrees(Goods', Bads', s, th, heard)
    <2>1. CASE Classify(code) = "ignored"
        BY <2>1, <1>2, <1>3 DEF ApplyCheck
    <2>2. CASE Classify(code) = "success"
        <3>1. s = OnSuccess(state, n, th)
            BY <2>2 DEF ApplyCheck
        <3>. HIDE DEF s
        <3>2. Agrees(Goods', Bads, s, th, heard)
            BY <2>2, <3>1, <1>2, <1>3, SuccessAgrees
        <3>. QED BY <2>2, <3>2, <1>3
    <2>3. CASE Classify(code) = "failure"
        <3>1. s = OnFailure(state, n, th)
            BY <2>3 DEF ApplyCheck
        <3>. HIDE DEF s
        <3>2. Agrees(Goods, Bads', s, th, heard)
            BY <2>3, <3>1, <1>2, <1>3, FailureAgrees
        <3>. QED BY <2>3, <3>2, <1>3
    <2>. QED BY <2>1, <2>2, <2>3, <1>3 DEF Outcome
<1>. HIDE DEF s
<1>5. Agrees(Goods', Bads', state', th, heard')
    <2>1. CASE ~delivered
        BY <2>1, <1>1, <1>4
    <2>2. CASE delivered
        <3>1. state' = MarkNotified(s, kind) /\ heard' = (kind = "DOWN") /\ kind # None
            BY <2>2, <1>1
        <3>2. Agrees(Goods', Bads', MarkNotified(s, kind), th, kind = "DOWN")
            BY <3>1, <1>4, DeliveryAgrees
        <3>. QED BY <3>1, <3>2
    <2>. QED BY <2>1, <2>2
<1>. QED BY <1>1, <1>3, <1>5 DEF HistInv

\* The counters, the status and the dates are what the history of replies
\* says, for any replies, thresholds and number of checks.
THEOREM HistoryInvariant == Spec => []HistInv
<1>1. HistInv /\ [Next]_vars => HistInv'
    <2>. SUFFICES ASSUME HistInv, [Next]_vars PROVE HistInv'
        OBVIOUS
    <2>1. CASE Next
        BY <2>1, CheckAgrees DEF Next
    <2>2. CASE UNCHANGED vars
        BY <2>2 DEF vars, HistInv, Goods, Bads, Counted, Good, Bad
    <2>. QED BY <2>1, <2>2
<1>. QED BY <1>1, InitAgrees, PTL DEF Spec

-----------------------------------------------------------------------------
(* What the definition says of the history, in the terms of the invariant. *)

LEMMA Definitions ==
    ASSUME replies \in Seq(Codes)
    PROVE  /\ Counted \subseteq Nat
           /\ \A i, j, k : /\ FailRun(i, j, k) <=> Streak(Counted, Bads, i, j, k)
                           /\ GoodRun(i, j, k) <=> Streak(Counted, Goods, i, j, k)
           /\ \A j \in Counted : DownAt(j) <=> j \in Lasting(Goods, Bads, th)
           /\ Lasting(Goods, Bads, th) \subseteq Counted
           /\ IsDown <=> Lasting(Goods, Bads, th) # {}
<1>1. Counted = Goods \union Bads /\ Counted \subseteq Nat
    BY CountedParts
<1>2. ASSUME NEW i, NEW j, NEW k
      PROVE  /\ FailRun(i, j, k) <=> Streak(Counted, Bads, i, j, k)
             /\ GoodRun(i, j, k) <=> Streak(Counted, Goods, i, j, k)
    <2>. DEFINE run == {x \in Counted : i <= x /\ x <= j}
    <2>1. Run(Counted, i, j) = run
        BY DEF Run
    <2>2. i \in run /\ j \in run <=> i \in Counted /\ j \in Counted /\ i <= j
        BY <1>1
    <2>3. ((\A x \in run : Bad(x)) <=> run \subseteq Bads) /\ ((\A x \in run : Good(x)) <=> run \subseteq Goods)
        BY DEF Bads, Goods
    <2>4. /\ FailRun(i, j, k) <=> i \in run /\ j \in run /\ Cardinality(run) >= k /\ \A x \in run : Bad(x)
          /\ GoodRun(i, j, k) <=> i \in run /\ j \in run /\ Cardinality(run) >= k /\ \A x \in run : Good(x)
        BY DEF FailRun, GoodRun
    <2>. HIDE DEF run
    <2>. QED BY <2>1, <2>2, <2>3, <2>4 DEF Streak
<1>3. ASSUME NEW j \in Counted PROVE DownAt(j) <=> j \in Lasting(Goods, Bads, th)
    <2>1. Declared(Goods, Bads, th, j) <=> \E i \in Counted : FailRun(i, j, th.failure)
        BY <1>1, <1>2 DEF Declared
    <2>2. Ended(Goods, Bads, th, j) <=>
              \E k \in Counted, l \in Counted : k > j /\ GoodRun(k, l, th.recovery)
        BY <1>1, <1>2 DEF Ended
    <2>. QED BY <2>1, <2>2, <1>1 DEF DownAt, Lasting
<1>4. Lasting(Goods, Bads, th) \subseteq Counted
    BY <1>1 DEF Lasting
<1>5. IsDown <=> Lasting(Goods, Bads, th) # {}
    BY <1>3, <1>4 DEF IsDown
<1>. QED BY <1>1, <1>2, <1>3, <1>4, <1>5

LEMMA InvStatus == HistInv => StatusFollowsHistory
<1>. SUFFICES ASSUME HistInv PROVE StatusFollowsHistory
    OBVIOUS
<1>1. /\ state.status = "DOWN" <=> Lasting(Goods, Bads, th) # {}
      /\ state.status = "UNKNOWN" <=> Lasting(Goods, Bads, th) = {} /\ Goods = {}
    BY DEF HistInv, Agrees, StatusInv
<1>2. IsDown <=> Lasting(Goods, Bads, th) # {}
    BY Definitions DEF HistInv
<1>3. Goods # {} <=> \E i \in Counted : Good(i)
    BY DEF Goods
<1>4. state.status \in {"UNKNOWN", "UP", "DOWN"}
    BY DEF HistInv, Agrees, Typed, States, Status
<1>. QED BY <1>1, <1>2, <1>3, <1>4 DEF StatusFollowsHistory, TrueStatus

LEMMA InvOutage == HistInv => OutageDatedFromFirstFailure
<1>. SUFFICES ASSUME HistInv, IsDown PROVE state.down_since = OutageStart
    BY DEF OutageDatedFromFirstFailure
<1>0. replies \in Seq(Codes)
    BY DEF HistInv
<1>1. Counted = Goods \union Bads
    BY <1>0, CountedParts
<1>2. PICK d \in Counted : DatedBy(Goods, Bads, th, d, state.down_since)
    <2>1. state.status = "DOWN"
        BY <1>0, Definitions DEF HistInv, Agrees, StatusInv
    <2>. QED BY <2>1, <1>1 DEF HistInv, Agrees, OutageInv
<1>. DEFINE First(j) == DownAt(j) /\ \A k \in Counted : DownAt(k) => j <= k
            Begins(i) == FailRun(i, d, 1) /\ \A k \in Counted : FailRun(k, d, 1) => i <= k
<1>3. Counted \subseteq Nat
    BY <1>0, Definitions
<1>4. First(d) /\ \A j \in Counted : First(j) => j = d
    <2>1. /\ \A j \in Counted : DownAt(j) <=> j \in Lasting(Goods, Bads, th)
          /\ Lasting(Goods, Bads, th) \subseteq Counted
        BY <1>0, Definitions
    <2>2. d \in Lasting(Goods, Bads, th) /\ \A k \in Lasting(Goods, Bads, th) : d <= k
        BY <1>2 DEF DatedBy, Least
    <2>. QED BY <2>1, <2>2, <1>3
<1>5. /\ state.down_since \in Counted /\ Begins(state.down_since)
      /\ \A i \in Counted : Begins(i) => i = state.down_since
    <2>1. \A i : FailRun(i, d, 1) <=> Streak(Counted, Bads, i, d, 1)
        BY <1>0, Definitions
    <2>2. Least(state.down_since, {x \in Counted : Streak(Counted, Bads, x, d, 1)})
        BY <1>1, <1>2 DEF DatedBy
    <2>3. /\ state.down_since \in Counted /\ Streak(Counted, Bads, state.down_since, d, 1)
          /\ \A k \in Counted : Streak(Counted, Bads, k, d, 1) => state.down_since <= k
        BY <2>2 DEF Least
    <2>4. Begins(state.down_since)
        BY <2>1, <2>3
    <2>5. ASSUME NEW i \in Counted, Begins(i) PROVE i = state.down_since
        <3>1. i <= state.down_since /\ state.down_since <= i
            BY <2>1, <2>3, <2>5
        <3>2. i \in Nat /\ state.down_since \in Nat
            BY <2>3, <1>3
        <3>. QED BY <3>1, <3>2
    <2>. QED BY <2>3, <2>4, <2>5
<1>6. OutageStart = CHOOSE i \in Counted :
          /\ FailRun(i, CHOOSE j \in Counted : First(j), 1)
          /\ \A k \in Counted : FailRun(k, CHOOSE j \in Counted : First(j), 1) => i <= k
    BY DEF OutageStart
<1>7. (CHOOSE j \in Counted : First(j)) = d
    <2>. HIDE DEF First
    <2>. QED BY <1>4
<1>8. OutageStart = CHOOSE i \in Counted : Begins(i)
    BY <1>6, <1>7
<1>. HIDE DEF Begins
<1>. QED BY <1>5, <1>8

LEMMA InvRecovery == HistInv => RecoveryIsReported
<1>. SUFFICES ASSUME HistInv, state.status = "UP", heard
              PROVE  /\ PendingAlert(state) = "RECOVERED"
                     /\ Downtime(state) # None
                     /\ \E i \in Counted :
                           /\ Bad(i) /\ Downtime(state) = state.status_since - i
                           /\ i = 1 \/ \A x \in Counted : x < i => Good(x) \/ ~FailRun(x, i, 1)
    BY DEF RecoveryIsReported
<1>0. replies \in Seq(Codes) /\ Counted = Goods \union Bads /\ Counted \subseteq Nat
    BY CountedParts, Definitions DEF HistInv
<1>. DEFINE i == state.down_since
<1>1. state.notified_status = "DOWN" /\ i # None /\ state.status_since \in Nat /\ i < state.status_since
    BY DEF HistInv, Agrees, NoticeInv
<1>2. StartsStreak(Counted, Bads, i)
    BY <1>0, <1>1 DEF HistInv, Agrees, OutageInv
<1>3. i \in Counted /\ Bad(i) /\ i \in Nat
    BY <1>0, <1>2 DEF StartsStreak, Bads
<1>4. \A x \in Counted : x < i => ~FailRun(x, i, 1)
    BY <1>0, <1>2, Definitions DEF StartsStreak
<1>5. PendingAlert(state) = "RECOVERED"
    BY <1>1 DEF PendingAlert
<1>6. state.status_since # None
    BY <1>1, HistoryAssumption
<1>7. Downtime(state) = state.status_since - i
    BY <1>1, <1>3, <1>6 DEF Downtime
<1>8. Downtime(state) # None
    BY <1>1, <1>3, <1>7, HistoryAssumption
<1>. QED BY <1>3, <1>4, <1>5, <1>7, <1>8

\* For any replies, thresholds and number of checks the status is DOWN
\* exactly if failure_threshold failures in a row were seen and
\* recovery_threshold successes in a row have not followed
\* (state_machine.py:30-55).
THEOREM StatusIsRight == Spec => []StatusFollowsHistory
BY HistoryInvariant, InvStatus, PTL

\* The outage is dated from the first failure of the streak that declared it,
\* however many failures and ignored replies follow (state_machine.py:48-51).
THEOREM OutageIsDated == Spec => []OutageDatedFromFirstFailure
BY HistoryInvariant, InvOutage, PTL

\* After an outage the user heard of, RECOVERED stays owed until it is
\* delivered, and it reports the time from the first failure of that outage to
\* the recovery (state_machine.py:63-85).
THEOREM RecoveryIsOwed == Spec => []RecoveryIsReported
BY HistoryInvariant, InvRecovery, PTL
=============================================================================
