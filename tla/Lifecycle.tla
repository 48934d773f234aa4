------------------------------ MODULE Lifecycle ------------------------------
(***************************************************************************)
(* The process in time: MonitorService.run_forever with its heartbeat and  *)
(* its shutdown timeout (monitoring/service.py, healthcheck.py), the       *)
(* Telegram bot that runs beside it, and the stop event that ends both     *)
(* (main.py).  Time is counted in steps of some length; a tick is possible *)
(* only when nothing is due, as the event loop is not busy otherwise.      *)
(*                                                                         *)
(* What is not bounded in the code is a constant here: how long a cycle    *)
(* may take (requests, then alerts with their retries), and how long       *)
(* start() or a handler of the bot may (a cycle of its own, for /check).   *)
(*                                                                         *)
(* The cycle is a task beside run_forever: it ends in a step of its own,   *)
(* also when it is cancelled, and goes on when nobody waits for it.        *)
(*                                                                         *)
(* Two things end a task of the process by an exception: a heartbeat that  *)
(* cannot be written, and an error in the bot's start() that is none of    *)
(* Telegram's.  The TaskGroup then cancels the other task, and main leaves *)
(* the store and the HTTP clients.                                         *)
(***************************************************************************)
EXTENDS Naturals

CONSTANTS
    None,
    Interval,           \* monitor.interval
    Grace,              \* GRACE_SECONDS of the healthcheck
    ShutdownTimeout,    \* monitor.shutdown_timeout
    StopGrace,          \* stop_grace_period of docker-compose.yml
    MaxCycle,           \* the longest cycle that does not hang
    MaxHandler,         \* the longest start() or handler of the bot
    MayHang,            \* may a cycle hang for ever?
    Horizon             \* bound on the clock

ASSUME LifecycleAssumption ==
    /\ Interval \in Nat \ {0} /\ Grace \in Nat /\ ShutdownTimeout \in Nat \ {0}
    /\ StopGrace \in Nat /\ MaxCycle \in Nat /\ MaxHandler \in Nat /\ Horizon \in Nat
    /\ MayHang \in BOOLEAN
    /\ None \notin Nat \union {"heartbeat", "start"}

VARIABLES
    now,
    loop,       \* run_forever: "cycle", "ending" (it waits for a cycle after the stop event),
                \* "cancelling" (it waits for a cancelled cycle), "sleep", or over
    task,       \* the task of the cycle: "runs", "cancelled" or "none"
    started,    \* start of the last cycle
    hung,       \* does that cycle hang?
    beat,       \* the time in the heartbeat file
    bot,        \* "start", "poll", "handle", or over
    since,      \* start of the bot's last handler
    stopAt,     \* when the stop event was set, or None
    proc,       \* "up", "exited" (store and clients are closed)
    failure     \* what raised: "heartbeat", "start", or None

clock == <<now, started, hung, since, stopAt>>
vars == <<clock, loop, task, beat, bot, proc, failure>>

\* How a task ends: it returns, raises or is cancelled.
Over == {"done", "failed", "cancelled"}

\* main: the first heartbeat is written before the tasks start; with --no-bot, or
\* without a chat, there is no bot.
Init ==
    /\ now = 0 /\ loop = "cycle" /\ task = "runs" /\ started = 0 /\ hung = FALSE /\ beat = 0
    /\ bot \in {"start", "done"} /\ since = 0 /\ stopAt = None /\ proc = "up"
    /\ failure = None

Stopping == stopAt # None

-----------------------------------------------------------------------------
(* run_forever.                                                            *)

\* The cycle hangs, e.g. on a lock that is never released.
Hang ==
    /\ MayHang /\ proc = "up" /\ loop = "cycle" /\ task = "runs" /\ ~hung
    /\ hung' = TRUE
    /\ UNCHANGED <<now, started, since, stopAt, loop, task, beat, bot, proc, failure>>

\* The task of the cycle ends, also one that run_forever has left; a cancelled one
\* ends wherever it hangs.
CycleEnds ==
    /\ proc = "up"
    /\ task = "cancelled" \/ (task = "runs" /\ ~hung)
    /\ task' = "none"
    /\ UNCHANGED <<clock, loop, beat, bot, proc, failure>>

\* Mutant: the heartbeat gives the time when the next one is due.
Heartbeat_Next == now + Interval

\* write_heartbeat: time.time() after the cycle.
Heartbeat == now

\* After the cycle: the heartbeat, and no sleep if the process is to stop.
EndOfCycle ==
    \/ /\ beat' = Heartbeat
       /\ loop' = IF Stopping THEN "done" ELSE "sleep"
       /\ UNCHANGED failure
    \/ /\ loop' = "failed" /\ failure' = "heartbeat"
       /\ UNCHANGED beat

\* Mutant: run_forever goes on as soon as it has cancelled the cycle.
Gathered_NotAwaited == TRUE

\* A cancelled cycle is waited for.
Gathered == task = "none"

CycleDone ==
    /\ proc = "up"
    /\ \/ loop \in {"cycle", "ending"} /\ task = "none"
       \/ loop = "cancelling" /\ Gathered
    /\ EndOfCycle
    /\ UNCHANGED <<clock, task, bot, proc>>

\* The stop event during a cycle: shutdown_timeout for the cycle to finish.
CycleStopped ==
    /\ proc = "up" /\ loop = "cycle" /\ task = "runs" /\ Stopping
    /\ loop' = "ending"
    /\ UNCHANGED <<clock, task, beat, bot, proc, failure>>

\* Mutant: a cycle is waited for without a timeout.
CycleDeadline_None == now + 1

CycleDeadline == stopAt + ShutdownTimeout

\* It did not finish in time.
CycleCancelled ==
    /\ proc = "up" /\ loop = "ending" /\ task = "runs" /\ now >= CycleDeadline
    /\ loop' = "cancelling" /\ task' = "cancelled"
    /\ UNCHANGED <<clock, beat, bot, proc, failure>>

\* The sleep takes what is left of the interval; a longer cycle leaves nothing.
WakeTime == started + Interval

Wake ==
    /\ proc = "up" /\ loop = "sleep" /\ now >= WakeTime /\ ~Stopping
    /\ loop' = "cycle" /\ task' = "runs" /\ started' = now
    /\ UNCHANGED <<now, hung, since, stopAt, beat, bot, proc, failure>>

SleepStopped ==
    /\ proc = "up" /\ loop = "sleep" /\ Stopping
    /\ loop' = "done"
    /\ UNCHANGED <<clock, task, beat, bot, proc, failure>>

\* The bot has raised.  A cycle that was not cancelled before is left alone.
LoopCancelled ==
    /\ proc = "up" /\ bot = "failed" /\ loop \notin Over
    /\ loop = "cancelling" => Gathered
    /\ loop' = "cancelled"
    /\ UNCHANGED <<clock, task, beat, bot, proc, failure>>

-----------------------------------------------------------------------------
(* TelegramBot.run.                                                        *)

\* Neither start() nor a handler looks at the stop event.
Busy == bot \in {"start", "handle"}

\* start: the bot goes on after a TelegramError, but after no other exception.
StartFails ==
    /\ proc = "up" /\ bot = "start"
    /\ bot' = "failed" /\ failure' = "start"
    /\ UNCHANGED <<clock, loop, task, beat, proc>>

Handle ==
    /\ proc = "up" /\ bot = "poll" /\ ~Stopping
    /\ bot' = "handle" /\ since' = now
    /\ UNCHANGED <<now, started, hung, stopAt, loop, task, beat, proc, failure>>

\* Mutant: what a handler raises is not caught.
AfterHandler_NotCaught(raises) ==
    IF raises THEN "failed" ELSE IF Stopping THEN "done" ELSE "poll"

\* The loop of run: whatever the handler has raised, it looks at the stop event.
AfterHandler(raises) == IF Stopping THEN "done" ELSE "poll"

\* The start or a handler is over.
Handled ==
    /\ proc = "up" /\ Busy
    /\ \E raises \in BOOLEAN : bot' = AfterHandler(raises /\ bot = "handle")
    /\ UNCHANGED <<clock, loop, task, beat, proc, failure>>

\* The stop event cancels the poll.
PollStopped ==
    /\ proc = "up" /\ bot = "poll" /\ Stopping
    /\ bot' = "done"
    /\ UNCHANGED <<clock, loop, task, beat, proc, failure>>

\* run_forever has raised.
BotCancelled ==
    /\ proc = "up" /\ loop = "failed" /\ bot \notin Over
    /\ bot' = "cancelled"
    /\ UNCHANGED <<clock, loop, task, beat, proc, failure>>

-----------------------------------------------------------------------------
(* main.                                                                   *)

\* SIGTERM or SIGINT.
Signal ==
    /\ proc = "up" /\ ~Stopping
    /\ stopAt' = now
    /\ UNCHANGED <<now, started, hung, since, loop, task, beat, bot, proc, failure>>

\* The TaskGroup ends when both tasks have, and the store and the clients are closed.
Exit ==
    /\ proc = "up" /\ loop \in Over /\ bot \in Over
    /\ proc' = "exited"
    /\ UNCHANGED <<clock, loop, task, beat, bot, failure>>

\* The cycle is at its end, unless it hangs.
CycleOver == ~hung /\ now >= started + MaxCycle

\* Something has to happen before time passes.
Due ==
    /\ proc = "up"
    /\ \/ task = "runs" /\ CycleOver
       \/ task = "cancelled" \/ loop = "cancelling"
       \/ loop = "cycle" /\ (Stopping \/ task = "none")
       \/ loop = "ending" /\ (now >= CycleDeadline \/ task = "none")
       \/ loop = "sleep" /\ (Stopping \/ now >= WakeTime)
       \/ bot = "poll" /\ Stopping
       \/ Busy /\ now >= since + MaxHandler
       \/ bot = "failed" \/ loop = "failed"
       \/ loop \in Over /\ bot \in Over

Tick ==
    /\ now < Horizon /\ ~Due
    /\ now' = now + 1
    /\ UNCHANGED <<started, hung, since, stopAt, loop, task, beat, bot, proc, failure>>

LoopStep ==
    Hang \/ CycleEnds \/ CycleDone \/ CycleStopped \/ CycleCancelled \/ Wake \/ SleepStopped \/ LoopCancelled

BotStep == StartFails \/ Handle \/ Handled \/ PollStopped \/ BotCancelled

Next == LoopStep \/ BotStep \/ Signal \/ Exit \/ Tick

Spec == Init /\ [][Next]_vars

-----------------------------------------------------------------------------
(* Properties.                                                             *)

(* Every variable holds a value of its kind, and what is remembered of the *)
(* past lies in the past.                                                  *)
TypeOK ==
    /\ now \in Nat /\ started \in 0..now /\ beat \in 0..now /\ since \in 0..now
    /\ loop \in {"cycle", "ending", "cancelling", "sleep"} \union Over
    /\ hung \in BOOLEAN /\ task \in {"runs", "cancelled", "none"}
    /\ bot \in {"start", "poll", "handle"} \union Over
    /\ stopAt \in Nat \union {None}
    /\ proc \in {"up", "exited"}
    /\ failure \in {"heartbeat", "start", None}

\* Mutant: one interval is allowed for.
MaxAge_OneInterval == Interval + Grace

\* check_heartbeat.
MaxAge == Interval * 2 + Grace
Stale == now > beat + MaxAge

(* As long as no cycle takes longer than the interval and the grace of the *)
(* healthcheck together, a loop that works is never reported as stuck,     *)
(* however long the cycles before were (healthcheck.py:30-33,              *)
(* service.py:180-192).                                                    *)
HealthyIsNeverStale == proc = "up" /\ loop \notin Over /\ ~hung => ~Stale

(* A cycle that hangs is reported, two intervals and the grace after its   *)
(* start at the latest, since only the end of a cycle writes the heartbeat *)
(* (healthcheck.py:24-34, service.py:182-184).                             *)
StuckIsReported == proc = "up" /\ loop = "cycle" /\ now > started + MaxAge => Stale

(* After SIGTERM the process ends by itself, before docker compose stop    *)
(* kills it (README.md:62-64, docker-compose.yml:40).                      *)
StopsInTime == proc = "up" /\ Stopping => now < stopAt + StopGrace

(* What of that is so: whatever the cycle was doing, although it may hang, *)
(* run_forever is over within the grace period.  The process outlasts it   *)
(* by one start() or handler of the bot at most, and only by one that was  *)
(* under way when the signal came (service.py:199-209, bot.py:91-93).      *)
OnlyBotOutlastsGrace ==
    proc = "up" /\ Stopping /\ now >= stopAt + StopGrace =>
        loop \in Over /\ since <= stopAt /\ now <= since + MaxHandler

(* The bot is a convenience: monitoring ends by itself only if the         *)
(* heartbeat cannot be written or start() raises what is no TelegramError, *)
(* never because of what a handler does (bot.py:84-86, 119-127,            *)
(* main.py:140-149).                                                       *)
MonitorOutlivesBot == loop \in Over => Stopping \/ failure # None

(* run_forever neither goes on to sleep nor ends by itself, be it with an  *)
(* error, while its cycle is at work: two scheduled cycles never overlap,  *)
(* and one that outlives its timeout is over before main may close the     *)
(* store (service.py:203-209).                                             *)
NoCycleIsLeft == loop \in {"sleep", "done", "failed"} => task = "none"

(* Nothing works on the store when main has closed it (main.py:138-151).   *)
StoreOutlivesCycle == proc = "exited" => task = "none"
=============================================================================
