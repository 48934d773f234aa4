--------------------------- MODULE LifecycleProofs ---------------------------
(* Proofs about Lifecycle: for any intervals and timeouts.                 *)
EXTENDS Lifecycle, TLAPS

\* When the loop is where, and how old the heartbeat may be.
LoopInv ==
    /\ proc = "up" /\ loop \in {"cycle", "ending", "cancelling"} =>
          /\ started <= beat + Interval
          /\ beat <= started
          /\ ~hung => now <= started + MaxCycle
    /\ proc = "up" /\ loop = "sleep" =>
          /\ ~hung
          /\ started <= beat
          /\ now <= started + Interval \/ now = beat

\* How much time has passed since the stop event.
StopInv ==
    proc = "up" =>
        /\ Stopping => since <= stopAt /\ stopAt <= now
        /\ Stopping /\ loop \in {"cycle", "sleep"} => now = stopAt
        /\ loop \in {"ending", "cancelling"} => Stopping /\ now <= stopAt + ShutdownTimeout
        /\ Stopping /\ bot = "poll" => now = stopAt
        /\ Busy => now <= since + MaxHandler
        /\ Stopping /\ loop = "failed" => now <= stopAt + ShutdownTimeout
        /\ bot = "failed" => now <= since + MaxHandler \/ loop = "failed"
        /\ loop = "done" /\ bot = "done" =>
              now <= stopAt + ShutdownTimeout \/ now <= since + MaxHandler

\* Why a task is over.
EndInv ==
    /\ loop = "done" => Stopping
    /\ loop = "cancelled" => bot = "failed"
    /\ bot = "cancelled" => loop = "failed"
    /\ loop = "failed" => failure # None
    /\ bot = "failed" /\ loop # "failed" => failure = "start"

\* Where the cycle is while run_forever is somewhere else.
CycleInv ==
    /\ NoCycleIsLeft
    /\ loop = "cancelling" => task # "runs"
    /\ loop # "cancelling" => task # "cancelled"
    /\ loop = "cycle" /\ task = "none" => ~hung

LifeInv == TypeOK /\ LoopInv /\ StopInv /\ EndInv /\ CycleInv

(* The timing of the loop and of the bot, whatever the constants are.      *)
LEMMA LifeInvariant == Spec => []LifeInv
<1>1. Init => LifeInv
    <2> SUFFICES ASSUME Init PROVE LifeInv
        OBVIOUS
    <2> USE LifecycleAssumption DEF Init
    <2>1. TypeOK
        <3>1. now = 0 /\ started = now /\ beat = now /\ since = now
            OBVIOUS
        <3>2. now \in Nat /\ started \in 0..now /\ beat \in 0..now /\ since \in 0..now
            BY <3>1
        <3>3. /\ loop = "cycle" /\ hung = FALSE /\ bot \in {"start", "done"}
              /\ stopAt = None /\ proc = "up" /\ task = "runs" /\ failure = None
            OBVIOUS
        <3> HIDE DEF Init
        <3> QED
            BY <3>2, <3>3, Zenon DEF TypeOK, Over
    <2>2. LoopInv
        BY DEF LoopInv
    <2>3. StopInv
        BY DEF StopInv, Stopping, Busy
    <2>4. EndInv
        BY DEF EndInv
    <2>5. CycleInv
        BY DEF CycleInv, NoCycleIsLeft
    <2> QED
        BY <2>1, <2>2, <2>3, <2>4, <2>5 DEF LifeInv
<1>2. LifeInv /\ [Next]_vars => LifeInv'
    <2> SUFFICES ASSUME LifeInv, [Next]_vars
                 PROVE  LifeInv'
        OBVIOUS
    <2> USE LifecycleAssumption
        DEF LifeInv, TypeOK, LoopInv, StopInv, EndInv, CycleInv, NoCycleIsLeft,
            Stopping, Over, Busy, clock
    <2>1. CASE Hang
        <3> USE <2>1 DEF Hang
        <3>1. TypeOK'
            OBVIOUS
        <3>2. LoopInv'
            OBVIOUS
        <3>3. StopInv'
            OBVIOUS
        <3>4. EndInv'
            OBVIOUS
        <3>5. CycleInv'
            OBVIOUS
        <3> QED
            BY <3>1, <3>2, <3>3, <3>4, <3>5
    <2>2. CASE CycleDone
        <3> USE <2>2 DEF CycleDone, EndOfCycle, Heartbeat, Gathered
        <3>1. TypeOK'
            OBVIOUS
        <3>2. LoopInv'
            OBVIOUS
        <3>3. StopInv'
            OBVIOUS
        <3>4. EndInv'
            OBVIOUS
        <3>5. CycleInv'
            OBVIOUS
        <3> QED
            BY <3>1, <3>2, <3>3, <3>4, <3>5
    <2>3. CASE CycleStopped
        <3> USE <2>3 DEF CycleStopped
        <3>1. TypeOK'
            OBVIOUS
        <3>2. LoopInv'
            OBVIOUS
        <3>3. StopInv'
            OBVIOUS
        <3>4. EndInv'
            OBVIOUS
        <3>5. CycleInv'
            OBVIOUS
        <3> QED
            BY <3>1, <3>2, <3>3, <3>4, <3>5
    <2>4. CASE CycleCancelled
        <3> USE <2>4 DEF CycleCancelled, CycleDeadline
        <3>1. TypeOK'
            OBVIOUS
        <3>2. LoopInv'
            OBVIOUS
        <3>3. StopInv'
            OBVIOUS
        <3>4. EndInv'
            OBVIOUS
        <3>5. CycleInv'
            OBVIOUS
        <3> QED
            BY <3>1, <3>2, <3>3, <3>4, <3>5
    <2>5. CASE Wake
        <3> USE <2>5 DEF Wake, WakeTime
        <3>1. TypeOK'
            OBVIOUS
        <3>2. LoopInv'
            OBVIOUS
        <3>3. StopInv'
            OBVIOUS
        <3>4. EndInv'
            OBVIOUS
        <3>5. CycleInv'
            OBVIOUS
        <3> QED
            BY <3>1, <3>2, <3>3, <3>4, <3>5
    <2>6. CASE SleepStopped
        <3> USE <2>6 DEF SleepStopped
        <3>1. TypeOK'
            OBVIOUS
        <3>2. LoopInv'
            OBVIOUS
        <3>3. StopInv'
            OBVIOUS
        <3>4. EndInv'
            OBVIOUS
        <3>5. CycleInv'
            OBVIOUS
        <3> QED
            BY <3>1, <3>2, <3>3, <3>4, <3>5
    <2>7. CASE LoopCancelled
        <3> USE <2>7 DEF LoopCancelled, Gathered
        <3>1. TypeOK'
            OBVIOUS
        <3>2. LoopInv'
            OBVIOUS
        <3>3. StopInv'
            OBVIOUS
        <3>4. EndInv'
            OBVIOUS
        <3>5. CycleInv'
            OBVIOUS
        <3> QED
            BY <3>1, <3>2, <3>3, <3>4, <3>5
    <2>8. CASE StartFails
        <3> USE <2>8 DEF StartFails
        <3>1. TypeOK'
            OBVIOUS
        <3>2. LoopInv'
            OBVIOUS
        <3>3. StopInv'
            OBVIOUS
        <3>4. EndInv'
            OBVIOUS
        <3>5. CycleInv'
            OBVIOUS
        <3> QED
            BY <3>1, <3>2, <3>3, <3>4, <3>5
    <2>9. CASE Handle
        <3> USE <2>9 DEF Handle
        <3>1. TypeOK'
            OBVIOUS
        <3>2. LoopInv'
            OBVIOUS
        <3>3. StopInv'
            OBVIOUS
        <3>4. EndInv'
            OBVIOUS
        <3>5. CycleInv'
            OBVIOUS
        <3> QED
            BY <3>1, <3>2, <3>3, <3>4, <3>5
    <2>10. CASE Handled
        <3> USE <2>10 DEF Handled, AfterHandler
        <3>1. TypeOK'
            OBVIOUS
        <3>2. LoopInv'
            OBVIOUS
        <3>3. StopInv'
            OBVIOUS
        <3>4. EndInv'
            OBVIOUS
        <3>5. CycleInv'
            OBVIOUS
        <3> QED
            BY <3>1, <3>2, <3>3, <3>4, <3>5
    <2>11. CASE PollStopped
        <3> USE <2>11 DEF PollStopped
        <3>1. TypeOK'
            OBVIOUS
        <3>2. LoopInv'
            OBVIOUS
        <3>3. StopInv'
            OBVIOUS
        <3>4. EndInv'
            OBVIOUS
        <3>5. CycleInv'
            OBVIOUS
        <3> QED
            BY <3>1, <3>2, <3>3, <3>4, <3>5
    <2>12. CASE BotCancelled
        <3> USE <2>12 DEF BotCancelled
        <3>1. TypeOK'
            OBVIOUS
        <3>2. LoopInv'
            OBVIOUS
        <3>3. StopInv'
            OBVIOUS
        <3>4. EndInv'
            OBVIOUS
        <3>5. CycleInv'
            OBVIOUS
        <3> QED
            BY <3>1, <3>2, <3>3, <3>4, <3>5
    <2>13. CASE Signal
        <3> USE <2>13 DEF Signal
        <3>1. TypeOK'
            OBVIOUS
        <3>2. LoopInv'
            OBVIOUS
        <3>3. StopInv'
            OBVIOUS
        <3>4. EndInv'
            OBVIOUS
        <3>5. CycleInv'
            OBVIOUS
        <3> QED
            BY <3>1, <3>2, <3>3, <3>4, <3>5
    <2>14. CASE Exit
        <3> USE <2>14 DEF Exit
        <3>1. TypeOK'
            OBVIOUS
        <3>2. LoopInv'
            OBVIOUS
        <3>3. StopInv'
            OBVIOUS
        <3>4. EndInv'
            OBVIOUS
        <3>5. CycleInv'
            OBVIOUS
        <3> QED
            BY <3>1, <3>2, <3>3, <3>4, <3>5
    <2>15. CASE Tick
        <3> USE <2>15 DEF Tick, Due, CycleOver, CycleDeadline, WakeTime
        <3>1. TypeOK'
            OBVIOUS
        <3>2. LoopInv'
            OBVIOUS
        <3>3. StopInv'
            OBVIOUS
        <3>4. EndInv'
            OBVIOUS
        <3>5. CycleInv'
            OBVIOUS
        <3> QED
            BY <3>1, <3>2, <3>3, <3>4, <3>5
    <2>16. CASE CycleEnds
        <3> USE <2>16 DEF CycleEnds
        <3>1. TypeOK'
            OBVIOUS
        <3>2. LoopInv'
            OBVIOUS
        <3>3. StopInv'
            OBVIOUS
        <3>4. EndInv'
            OBVIOUS
        <3>5. CycleInv'
            OBVIOUS
        <3> QED
            BY <3>1, <3>2, <3>3, <3>4, <3>5
    <2>17. CASE UNCHANGED vars
        BY <2>17 DEF vars
    <2> QED
        BY <2>1, <2>2, <2>3, <2>4, <2>5, <2>6, <2>7, <2>8, <2>9,
           <2>10, <2>11, <2>12, <2>13, <2>14, <2>15, <2>16, <2>17
           DEF Next, LoopStep, BotStep
<1> QED
    BY <1>1, <1>2, PTL DEF Spec

(* If a cycle takes at most the interval and the grace together, the       *)
(* healthcheck never reports a loop that works (healthcheck.py:30-33).     *)
THEOREM NoFalseAlarm ==
    ASSUME MaxCycle <= Interval + Grace
    PROVE  Spec => []HealthyIsNeverStale
<1>1. LifeInv => HealthyIsNeverStale
    BY LifecycleAssumption
       DEF LifeInv, TypeOK, LoopInv, HealthyIsNeverStale, Stale, MaxAge, Over
<1> QED
    BY <1>1, LifeInvariant, PTL

(* A cycle that hangs is reported in time, for any interval and grace      *)
(* (healthcheck.py:24-34, service.py:182-184).                             *)
THEOREM HangsAreReported == Spec => []StuckIsReported
<1>1. LifeInv => StuckIsReported
    BY LifecycleAssumption
       DEF LifeInv, TypeOK, LoopInv, StuckIsReported, Stale, MaxAge
<1> QED
    BY <1>1, LifeInvariant, PTL

(* If shutdown_timeout is shorter than stop_grace_period, run_forever is   *)
(* over within it, hanging cycle or not, and only a start() or handler     *)
(* that was under way when the signal came keeps the process up after it,  *)
(* for as long as that one takes (service.py:199-209, bot.py:91-93).       *)
THEOREM OnlyBotDelaysStop ==
    ASSUME ShutdownTimeout < StopGrace
    PROVE  Spec => []OnlyBotOutlastsGrace
<1>1. LifeInv => OnlyBotOutlastsGrace
    <2> SUFFICES ASSUME LifeInv, proc = "up", Stopping, now >= stopAt + StopGrace
                 PROVE  loop \in Over /\ since <= stopAt /\ now <= since + MaxHandler
        BY DEF OnlyBotOutlastsGrace
    <2> USE LifecycleAssumption DEF LifeInv, TypeOK, StopInv, Stopping
    <2>1. since <= stopAt
        OBVIOUS
    <2>2. loop \in {"done", "cancelled"}
        BY DEF Over
    <2>3. bot \in {"start", "handle", "failed"} \/ (loop = "done" /\ bot = "done")
        BY <2>2 DEF EndInv, Over
    <2>4. now <= since + MaxHandler
        BY <2>2, <2>3 DEF Busy
    <2> QED
        BY <2>1, <2>2, <2>4 DEF Over
<1> QED
    BY <1>1, LifeInvariant, PTL

(* Monitoring ends by itself only after a failing heartbeat or start(),    *)
(* whatever the handlers of the bot raise (bot.py:84-86, main.py:140-149). *)
THEOREM OnlyFailuresEndMonitoring == Spec => []MonitorOutlivesBot
<1>1. LifeInv => MonitorOutlivesBot
    BY LifecycleAssumption DEF LifeInv, TypeOK, EndInv, MonitorOutlivesBot, Over
<1> QED
    BY <1>1, LifeInvariant, PTL

(* Scheduled cycles never overlap, and run_forever ends, on its own        *)
(* account, only when its cycle has: a cycle that was cancelled is waited  *)
(* for (service.py:180-209).                                               *)
THEOREM CyclesAreAwaited == Spec => []NoCycleIsLeft
<1>1. LifeInv => NoCycleIsLeft
    BY DEF LifeInv, CycleInv
<1> QED
    BY <1>1, LifeInvariant, PTL
=============================================================================
