# service-sentinel: TLA+ verification project

service-sentinel watches web sites: it requests each of them every `interval`, decides by the
HTTP status and by thresholds whether it is UP or DOWN, and tells one Telegram chat when that
changes. A Telegram bot in the same process adds, pauses, deletes and checks sites. This directory
models the parts of it that keep state, checks them with TLC and proves theorems about them with
TLAPS. Paths below are relative to `src/monitor/`.

## 1. The system

One process, one asyncio event loop, two long-running tasks that end on one stop event: the
scheduler (`MonitorService.run_forever`) and the bot (`TelegramBot.run`). Code between two awaits
is atomic; everything else interleaves.

| Component | State it keeps | Operations | Interacts with |
|---|---|---|---|
| State machine (`monitoring/state_machine.py`, `models/`) | none; works on a `ServiceState` record | `apply_check`, `pending_alert`, `mark_notified`, `downtime` | called by the check pipeline |
| HTTP checker (`checker/http.py`) | none | `check`: one GET, classified as success, ignored (3xx/4xx) or failure | called under the semaphore |
| Check pipeline (`monitoring/service.py`) | `_states`, one `asyncio.Lock` per site, a semaphore | `run_cycle`, `check_service`, `add_service`, `remove_service`, `set_enabled`, `load_state` | registry, checker, store, notifier; called by scheduler and bot |
| Scheduler and shutdown (`service.py`, `main.py`) | time of the cycle, stop event | `run_forever`, `_run_cycle_until_stopped`, signal handlers | pipeline, heartbeat |
| Registry (`registry.py`) | sites of `config.yaml` (read-only) and sites of the store | `load`, `add`, `remove`, `set_enabled` | store; read by everyone |
| Store (`storage/sqlite.py`) | two tables, **one** aiosqlite connection for all tasks | `load`, `save`, `add_service`, `set_service_enabled`, `delete_service` | commits of one task carry the statements of the others |
| Telegram client (`telegram/client.py`) | none | `_call` with attempts, backoff and 429 pauses | Telegram |
| Bot (`telegram/bot.py`, `telegram/ui.py`) | polling offset, ids of ForceReply prompts; its messages stay in the chat with their keyboards | long polling; commands, buttons, replies to prompts; placeholders while a check runs | pipeline, registry, client |
| Heartbeat (`healthcheck.py`) | a file | written after each cycle, read by the container's healthcheck | scheduler |
| Configuration, logging, texts, metrics | - | pure functions of text; metrics are interfaces nobody calls yet | - |

What is hard: manual and scheduled checks, deletions and pauses of one site between awaits; the
shared connection; a crash between sending an alert and recording it; answers of Telegram that get
lost; polling that confirms updates by its next request; SIGTERM while a cycle or a handler is in
progress; names and limits when `config.yaml` shadows rows of the store; keyboards that are pressed
long after they were shown; handlers that go on with a site they looked up several awaits before;
exceptions that end one of the two tasks and with it the other. `PROJECT.json` lists each
hazard at its line with the properties that watch it.

What makes each part correct:

* state machine: status, streaks and dates are a function of the history of replies;
* pipeline: one task per site at a time, nothing left of a deleted site, memory equals the
  committed row between checks, the alerts a user sees alternate DOWN and RECOVERED, none is
  given up, and neither the lock nor the semaphore is held for ever;
* client: a duplicate needs a lost answer; pauses are bounded; returning means delivered;
* polling: updates in order and once per run, confirmed only when handled, none forgotten;
* dialogue: what a message shows or reports is true when it is written, a button does what the
  user saw beside it, nothing is deleted unasked, no placeholder stays for want of a step;
* lifecycle: no false alarm of the healthcheck and no missed one, the loop ends in the grace period
  whatever its cycle does, no cycle is left behind by it, and the bot's handlers never end the
  monitor;
* registry: a free name can always be found, shadowed rows survive.

## 2. Modules

| Module | Models | State and actions against the code |
|---|---|---|
| `StateMachine` | `Classify`, `ApplyCheck`, `PendingAlert`, `MarkNotified`, `Downtime` | operators on a record with the fields decisions read; streak counters saturate at `CountCap`, which no threshold exceeds |
| `CheckHistory` | a site alone, over every history | one action per check; compares the record with definitions that only look at the history |
| `MonitorService` | pipeline, registry and store together | `pc[a][n]`: where the task of actor `a` (`cycle` or `bot`) for site `n` stands; one step per await. `holder` is the lock, `conn` and `disk` are the store as executed and as committed, `told` what the user last heard. `Restart` is any crash or cancelled shutdown |
| `AlertStream` | abstract: what the user may see of one site | `MonitorService` implements it (`ImplementsAlertStream`) |
| `AlertDelivery` | abstract: one `Notifier.send` as the pipeline pictures it | its four actions are `Deliver`, `AnswerLost`, `SendFail`, `Ack` of `MonitorService` |
| `TelegramCall` | `TelegramClient._call` | one action per way an attempt ends; implements `AlertDelivery` (`ImplementsDelivery`) |
| `UpdatePolling` | `start`, `run`, `_poll`, `_handle_safely` and Telegram's queue | `offset` and `batch` are the bot's, `confirmed` Telegram's; each request fails before or after it was served |
| `BotDialogue` | the bot's handlers and keyboards with the registry and the table of sites below them | one update at a time, one step per await (`task`); `chat` is what the user sees, buttons are pressed on any of its messages; `conn` and `disk` as above. Ghosts: `rev` (how often a site changed), `torn`, `spoiled`, `warned`, `ignored`, `born` |
| `Lifecycle` | `run_forever`, heartbeat, shutdown, the bot's start and loop, `--no-bot`, the TaskGroup, the end of `main.run`, the container | discrete time; a tick is possible only when nothing is due. `loop` is where `run_forever` stands, `task` the task of its cycle, which ends in a step of its own and goes on when `run_forever` is cancelled. A heartbeat that cannot be written and an error in `start()` that is no `TelegramError` end their task; the TaskGroup cancels the other |
| `SiteRegistry` | names, addresses, limit and shadowing | one action per operation (the bot calls them one at a time); a name is a title and a suffix |
| `MCMonitorService`, `MCSiteRegistry`, `MCBotDialogue` | - | constants for TLC |
| `...Proofs` | - | theorems |

`MonitorService` EXTENDS `StateMachine` and INSTANCEs `AlertStream`; `TelegramCall` INSTANCEs
`AlertDelivery`. Each operator whose name has an underscore is a mutant: a plausible bug which one
property is known to catch (`PROJECT.json`, "mutants").

Points of the translation a reader may ask about:

* A lock is granted when it is asked for and free, and handed to its waiter when it is released.
  There is at most one waiter, as there are two actors. `remove_service` pops the lock after it
  left it; a check waiting then is resumed with a lock nobody else can find (`woken`), sees that
  the site is gone and ends. It runs before any answer the bot may be waiting for, hence `BotReady`.
* `add_service` loads the state without the lock (`addload`). A cycle may check the new site
  meanwhile; the connection answers in order, so the bot's SELECT is answered first (`LoadDone`).
* Reading and classifying a reply, `apply_check` and the start of the next await are one step.
  When the state of the address is in memory, `_state` does not await, and there is no `load` step.
  `CheckerRaises` is an exception `http.py:80-93` does not catch: the task ends and nothing is known
  of the site.
* After its timeout `_run_cycle_until_stopped` cancels the cycle and waits for it to end
  (`cancelling`); when `run_forever` itself is cancelled, by an error in the bot's `start()`, the
  cycle it had started is not.
* A store error ends the task and releases its lock; the open transaction stays or is rolled back,
  with whatever other tasks have executed in it. `told` is therefore reset by a deletion only when
  the row of the state is really gone.
* In `BotDialogue` the menu stands for the help text, which has one of its buttons, and the name of
  a new site is the user's (how one is found is `SiteRegistry`). A button carries what to do and the
  name of its site; what the user saw beside it is a ghost in the input.
* A status code of 500 or more is a failure without an upper border (`http.py:98`): 600 counts too.
* Every check in `MonitorService` happens at time 0: the instants only feed reported times, and
  `CheckHistory` looks at those.
* The alert a failing `send` leaves behind is not queued anywhere: the next check finds it owed.

## 3. Runs

Bounds are in the cfg files. Passing runs:

| Run | Instance | Shows |
|---|---|---|
| `history` | all histories of 6 replies, codes at the edges of the ranges (199, 200, 300, 499, 500, no reply), thresholds 1..3 | `StatusFollowsHistory`, `OutageDatedFromFirstFailure`, `RecoveryIsReported`: 6 replies are an outage and a recovery at the largest thresholds, and several of each at the smaller ones |
| `two_sites` | two sites, two addresses, one request slot, thresholds 2 and 1, no faults but failing sends or requests; symmetric in names and addresses | every interleaving of scheduler and bot over the shared semaphore and connection: `LedgerAgrees`, `PausedOnDemandIsSilent`, `MemoryIsDurable` and `DeletedMeansGone` although commits carry the statements of others, `ImplementsAlertStream`, and no deadlock |
| `faults` | one site, two addresses; store errors, lost answers, one restart with an edited `config.yaml` | `IInv`, `OneTaskPerSite`, `NobodyIsStuck`, `JudgedAtItsUrl`, `NotifiedWasTold`: every newly recorded notification, the first of a site or a later one, is of the alert the user has just received |
| `live` | one site, lost answers, one crash, fairness | `OwedIsSettled`, `KeepsChecking`, `BotComesBack`; across the crash also `OneStepAtATime`. With one site nothing but the bot contends for the semaphore; that its waiters are not stuck is the deadlock check of `two_sites` and the theorem `WaitingEnds` |
| `telegram_call` | up to 4 attempts, pauses of 0 to 300 s | `ExecutedOnceUnlessLost`, `SleptBounded`, `ImplementsDelivery` |
| `polling` | 3 updates, batches of 2, 3 starts, fairness | `InOrderOncePerRun`, `FreshAfterSkip`, `ConfirmedWasHandled`, `EveryUpdateIsHandled`; a full batch, a second one and two restarts are what it takes to receive an update again |
| `dialogue` | two names, two addresses, prompts kept: 1, three inputs, one fault (a failed or repeated call, a failed store operation, a restart); symmetric in names and addresses | `ShownIsCurrent`, `ReportedIsDurable`, `DeletedWasAsked`, `ConfigIsReadOnly`, `ActsAsShown`, `NothingIsLeftChecking`, `OnlyOldPromptsAreIgnored`. Three inputs are what it takes to show a card, change its site by another message and press the old button; larger instances were explored once: three inputs and two faults (22 million states), one name with four inputs and one fault, one name with five inputs |
| `lifecycle` | steps of 5 s: interval 4, cycles up to 7, `start()` and handlers up to 10, `ShutdownTimeout` 3 and `StopGrace` 6 as configured, horizon 24; cycles that hang, a heartbeat or `start()` that raises, a process with and without a bot | `HealthyIsNeverStale`, `StuckIsReported`, `OnlyBotOutlastsGrace`, `MonitorOutlivesBot`, `NoCycleIsLeft`; the horizon is several cycles and every place of a signal or an exception in them. `MaxHandler` is longer than the grace on purpose: with Telegram unreachable `start()` takes three attempts of 10 s, two pauses and the skip |
| `registry` | 4 addresses on 2 hosts, limit 2, any `config.yaml` with at most one site | `RegistryInv`, `NameIsFound`, `ShadowedRowsAreKept`, `StaysProper` |

Two actors and one or two sites are the whole of the interaction: the bot handles one update at a
time, and sites share only the semaphore, the connection and the actors. A threshold of 2 is
enough to separate a streak from a single result. Deadlock is checked in `registry`, `two_sites` and
`live`; elsewhere the system may stop (a history, the clock or the user's inputs end at their bound,
the bot's starts are used up, a call returns, or with store errors no site is left to check).

`LedgerAgrees` and `ImplementsAlertStream` are claimed without crashes, lost answers and store
errors, `DeletedMeansGone` without crashes and store errors, `MemoryIsDurable` and `OneStepAtATime`
without store errors; the theorems of section 5 carry exactly these assumptions. Where the claims
end is shown next.

Runs that end with a violation, each a promise of the repository the code does not keep in that
corner:

| Run | Promise | What happens |
|---|---|---|
| `v_dup` | README.md:73, `state_machine.py:5`: no duplicate after a restart | a crash between the delivery and the commit of `notified_status` |
| `v_silent` | README.md:15: no alert is lost by a restart | RECOVERED delivered, crash before it is recorded, next outage: `notified_status` still says DOWN, nothing is owed |
| `v_old_commands` | README.md:154-156: old commands are not executed | the only attempt to skip them fails |

More counterexamples are worth knowing, although no run is kept for them:

* `PausedNeverAlerts` as the only property of `two_sites.cfg`: a site paused while a check is in flight still alerts,
  because the check keeps the `ManagedService` it was given (against `service.py:132`). Only a
  scheduled check does that: the one the bot starts on a paused site never alerts
  (`PausedOnDemandIsSilent`, proved as `OnDemandIsSilent`).
* `DeletedMeansGone` as the only property of `two_sites.cfg`, with `MaxCrashes = 1`: another task's commit makes the first
  DELETE durable, and a crash before the second leaves the state of a site that is gone (against
  `ui.py:240`, which announces that the history is deleted too).
* `StopsInTime` as the only invariant of `lifecycle.cfg`: `start()` and the handlers do not look at
  the stop event, and with Telegram unreachable `start()` alone outlasts the 30 s of
  `docker-compose.yml:40` (against README.md:63-64). `OnlyBotOutlastsGrace` is what remains: the loop
  is over in time whatever its cycle does, and the process outlasts the grace by no more than the one
  `start()` or handler that was under way at the signal.
* `StoreOutlivesCycle` as the only invariant of `lifecycle.cfg`: `start()` raises what is no
  `TelegramError` (a mistyped `TELEGRAM_API_BASE` is an `httpx.InvalidURL`), the TaskGroup cancels
  `run_forever`, and its cycle goes on while `main` closes the store (against `bot.py:85`,
  `main.py:138-139`). `NoCycleIsLeft` is what remains: `run_forever` never leaves a cycle by itself.

`ActsAsShown` is claimed for a site that has not changed since the message was written. The toggle
carries no target state: pressed on an old card, or twice, it does the opposite of its label
(`ui.py:223-226`). A confirmation carries a name: pressed after the site was deleted and another
added under the same name, it deletes that one (`ui.py:236-241`).

## 4. Fairness

`MonitorService!Fairness`: a task that can move moves (the event loop is fair; a request is bounded
by `asyncio.timeout`), the scheduler starts a cycle whenever it is idle, the semaphore serves its
waiters in turn (strong fairness of `SemEnter`, since asyncio's semaphore is first come, first
served), and a send that is tried again and again is delivered and answered some day (strong
fairness of `Deliver` and `Ack`: Telegram is not down for ever), and the checker does not raise for
ever (strong fairness of `HttpDone`). Nothing is assumed of the user, of
crashes or of store errors. `UpdatePolling!Fairness` is the same: strong for the poll and its
answer, weak for the bot's own steps. `Lifecycle` needs none, because time does not pass a deadline.

## 5. Proofs

| Theorem | For all values of the constants | Argument |
|---|---|---|
| `MonitorServiceProofs!Inductive` | `[]IInv` | one step per action; see below |
| `TypeCorrect`, `MutualExclusion`, `NoCheckOfDeletedSite`, `NoStateOfAnotherAddress` | `TypeOK`, `OneTaskPerSite`, `ChecksRegisteredSite`, `JudgedAtItsUrl` | from `IInv` |
| `NoLockLeftBehind` | `LockIsNotLeft` | inductive beside `IInv` |
| `WaitingEnds` | `NobodyIsStuck` | `WaitInv`: nobody waits for a free lock. So who waits, waits for an owner (`LockIsNotLeft`), who works, or waits for the semaphore, whose slots are then all taken by requests in flight |
| `OnDemandIsSilent` | `PausedOnDemandIsSilent` | `SnapInv`: the bot's own check knows whether its site is paused, because nobody but the bot pauses |
| `AlertProofs!NothingGivenUp` | `NotifiedWasTold`, over every fault | `NoticeInv`: an alert is owed while it is being sent, and is what the user heard last once it arrived. Only `Ack` makes a new record; every other step copies one (`Heard`, `ToldFirst`) |
| `RestartDecidesAlike`, `CommitsAreSteps` | `MemoryIsDurable`, `OneStepAtATime`, without store errors | `StoreInv`; see below |
| `DeletionIsComplete` | `DeletedMeansGone`, without store errors and crashes | `GoneInv`: nothing is stored or told about a site that is not there |
| `LedgerIsTrue`, `NoRepeatedAlert`, `OutageIsTold` | `LedgerAgrees`, `EveryAlertIsNews`, `NoSilentOutage`, without store errors, crashes and lost answers | `LedgerInv`. The last two are what `v_dup` and `v_silent` refute with one crash |
| `ServiceImplementsAlertStream` | refinement of `AlertStream`, under the same assumptions | what one step shows of its own site is a step of `AlertStream` or nothing (`SeenAt`), of other sites nothing (`OthersSame`) |
| `CheckHistoryProofs!HistoryInvariant`, `StatusIsRight`, `OutageIsDated`, `RecoveryIsOwed` | `[]HistInv`, `StatusFollowsHistory`, `OutageDatedFromFirstFailure`, `RecoveryIsReported`, for any replies, thresholds and length | `HistInv`; see below |
| `TelegramCallProofs!PausesAreBounded` | `SleptBounded`, for any number of attempts | `PauseInv`: what was slept is at most the attempts so far times their longest pause, which grows since `2^n` does (it counts the subsets of `1..n`) |
| `TelegramCallProofs!DuplicatesNeedALostAnswer`, `CallImplementsDelivery` | `ExecutedOnceUnlessLost`, refinement of `AlertDelivery` | `CallInv`; every step maps to a step or a stutter |
| `UpdatePollingProofs!HandledInOrder`, `SkippingIsEnough`, `NothingConfirmedUnhandled` | `InOrderOncePerRun`, `FreshAfterSkip`, `ConfirmedWasHandled` | `PollInv`: the batch continues at what was handled last, the offset is behind it, and Telegram has confirmed no more than a poll's offset |
| `BotDialogueProofs!DialogueTypeCorrect`, `NoLostPlaceholder`, `ConfigUntouched`, `AskedBeforeDeleted` | `TypeOK`, `NothingIsLeftChecking`, `ConfigIsReadOnly`, `DeletedWasAsked` | `DialogueInv`: what the running handler knows (`TaskInv`), which inputs are possible (`InputInv`), what the connection holds beside memory (`ConnInv`), that every confirmation was shown (`AskInv`) |
| `ToldIsOnDisk` | `ReportedIsDurable` | `DurableInv`: what memory lists is committed, but for sites with a write that failed half-way |
| `AlwaysCurrent`, `ButtonsDoAsShown` | `ShownIsCurrent`, `ActsAsShown` | `SeenInv`: a message with the present `rev` of a site shows the site as it is |
| `BotDialogueProofs!RepliesAreHeard` | `OnlyOldPromptsAreIgnored`, for any `PromptLimit` | prompts are never edited (`TargetInv`), so what is known of them stays; the deque holds this run's last prompts in order (`MemoryInv`), and one that is not in it is older than a full deque, whose entries inject into `Later` |
| `LifecycleProofs!NoFalseAlarm` | `HealthyIsNeverStale`, if `MaxCycle <= Interval + Grace` | `LifeInv`: a cycle starts at most one interval after the last heartbeat, and time stops when it is over |
| `HangsAreReported` | `StuckIsReported` | the last heartbeat is no later than the start of the cycle that hangs |
| `OnlyBotDelaysStop` | `OnlyBotOutlastsGrace`, if `ShutdownTimeout < StopGrace`, for handlers of any length | `LifeInv`: how much time can pass after the signal in each place |
| `OnlyFailuresEndMonitoring` | `MonitorOutlivesBot` | a task is over without a signal only through an exception of its own or of the other |
| `CyclesAreAwaited` | `NoCycleIsLeft` | `CycleInv`: which task a cycle has at each place of `run_forever` |
| `SiteRegistryProofs!RegistryInvariant`, `ShadowingIsHarmless` | `RegistryInv`, `ShadowedRowsAreKept` | memory is always what loading the store would give |
| `SiteRegistryProofs!NameAlwaysFound` | `NameIsFound`, for any limit | below the limit fewer names are taken than there are suffixes (cardinalities of finite sets) |
| `SiteRegistryProofs!ListStaysProper` | `StaysProper`, for any limit and any file | an addition takes one free name for an address that is not listed; memory is what a restart would load |

`MonitorService!IInv` is `TypeOK` and four parts. Mutual exclusion alone is not inductive: a task
past the lock must own it (`LockInv`); it keeps the address it was given and the site stays
registered (`TaskInv`), which holds because only `remove_service` deletes and it needs the lock;
the bot's own operations are alone (`BotInv`), and a check that lost its lock to a deletion finds
the site gone while the bot has not moved (`WokenInv`). TLC checks `IInv` in `faults`.

`AlertProofs!StoreInv` says of each site how memory, the connection and the disk may differ. Memory
is what the connection would load, except between a decision and its UPSERT (`MemoryAt`); once
saved, the row is the state until the answer of the alert changes it (`RowAt`); only a task on its
way to a commit leaves a row uncommitted (`SyncAt`), and what it leaves is one check or one
notification (`StepAt`). The last is what makes the shared connection harmless: whoever commits
first commits a whole step. Steps of one site are shown to leave every other site alone but for the
commit (`OthersSame`), so each invariant is proved for one site.

The assumptions are the named ASSUMEs of the modules (types of the constants; `None` is none of
the other values; thresholds of at least 1), which TLC evaluates in the runs.

`CheckHistoryProofs!HistInv` relates the counters, which see one reply at a time, to the definition,
which sees the whole history. A history matters only by the instants of its successes `G` and its
failures `B`, and the invariant is one of these two sets and the state (`Agrees`). The counters are
the sizes of the streak nothing has broken yet (`Unbroken`, capped as the code's counters are in the
model) and `failing_since` is its least element (`StreakInv`); the status says whether a declaration
lasts (`StatusInv`); an outage is dated from the start of the streak that declared it first
(`OutageInv`); and what the user heard last is recorded (`NoticeInv`). `StatusFollowsHistory` alone
is not inductive: it says nothing of the counters. One lemma each says that a failure
(`FailureAgrees`), a success (`SuccessAgrees`) and a delivered alert (`DeliveryAgrees`) keep
`Agrees`; they rest on what a check at the end of a history does to its streaks (`Grows`): none of
the past changes, one is continued, the other broken. TLC found `HistInv` invariant in the instance
of `history` before it was proved.

Only model-checked: liveness (`OwedIsSettled`, `BotComesBack`, `KeepsChecking`,
`EveryUpdateIsHandled`), since the prover handles neither fairness nor ENABLED. Every safety
property of a passing run is a theorem. `NobodyIsStuck` is the part of `BotComesBack` that needs no
fairness; it names the guards of the steps (`CanStep`) instead of ENABLED, and TLC finds the two the
same in the instance of `faults`. No module declares a RECURSIVE operator.

## 6. Not modelled

* Parsing of addresses, durations, YAML and environment; texts, keyboards and logs: functions of
  text. Their results enter as constants. The length limit of a name is among them.
* `health_url`: a site is its checked address; thresholds and timeout per site: the thresholds are
  one pair, which the decisions see one at a time anyway.
* Time inside `MonitorService`: a hung request is a task that does not move. Lengths of a cycle and
  of a handler are constants of `Lifecycle`, since no timeout in the code bounds them as a whole
  (httpx timeouts are per phase, an alert may be retried).
* A cancelled cycle in a process whose bot still finishes a handler: `Restart` ends both at once.
* `--once`, `--dry-run` and the other one-shot modes; `delete_state`, which nobody calls; the
  metrics of stage 2.
* The commands that only display (`/list`, `/status`, `/help`, `/menu`); a check started by the bot inside
  `BotDialogue` is a step that returns (what it does to the site's state is `MonitorService`).

## 7. Plan

Done: `StateMachine`, `CheckHistory`, `MonitorService` with `AlertStream`, `TelegramCall` with
`AlertDelivery`, `UpdatePolling`, `Lifecycle` with the exceptions that end a task, `SiteRegistry`,
`BotDialogue`, and the proofs of section 5.

Next, most important first:

1. The phases of `main.run` before the tasks start: configuration and store errors, the startup
   check of the token, what is closed in which order when one of them raises.
2. A cancelled cycle beside a bot that is still at work; a cycle length derived from request
   timeout, semaphore and retries.
3. `MonitorService` with store errors: how far memory and store may drift apart before the next
   successful save repairs them.
