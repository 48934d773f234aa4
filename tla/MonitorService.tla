--------------------------- MODULE MonitorService ---------------------------
(***************************************************************************)
(* The monitoring core: MonitorService (monitoring/service.py) with the    *)
(* registry of sites (registry.py) and the SQLite store                    *)
(* (storage/sqlite.py) it drives.                                          *)
(*                                                                         *)
(* Everything runs in one asyncio loop, so the code between two awaits is  *)
(* atomic, and each await is a step boundary here.  Two actors call the    *)
(* service: "cycle", the scheduled run_cycle with one task per enabled     *)
(* site, and "bot", the Telegram bot, which handles one update at a time   *)
(* but can start a whole cycle of its own (/check).  pc[a][n] is where the *)
(* task that actor a runs for site n stands.                               *)
(*                                                                         *)
(* The store is one aiosqlite connection shared by all tasks.  conn is     *)
(* what the connection sees, disk what is committed: a COMMIT issued by    *)
(* any task commits the statements of all of them.  Every crash, and every *)
(* shutdown that cancels its tasks, is a Restart.                          *)
(*                                                                         *)
(* The instant of a check only feeds the reported times, so every check    *)
(* here starts at time 0; CheckHistory looks at the instants.              *)
(***************************************************************************)
EXTENDS StateMachine, FiniteSets

CONSTANTS
    Names,              \* site names
    Urls,               \* addresses that are checked
    Configs,            \* contents config.yaml may have: Names -> a site or None
    MaxConcurrency,     \* HTTP checks in flight at once
    FailureThreshold,
    RecoveryThreshold,
    ReplyCodes,         \* replies the checked sites give
    AmbiguousSend,      \* may Telegram deliver an alert and its answer get lost?
    StoreFails,         \* may a store operation raise?
    MaxCrashes          \* bound on restarts

Sites == [url : Urls, enabled : BOOLEAN]

StateRecords ==
    [url : Urls, status : Status, status_since : {None, 0},
     failure_count : 0..CountCap, recovery_count : 0..CountCap,
     failing_since : {None, 0}, down_since : {None, 0},
     notified_status : {None, "UP", "DOWN"}]

ASSUME ThresholdsAssumption ==
    [failure |-> FailureThreshold, recovery |-> RecoveryThreshold] \in Thresholds

ASSUME ParametersAssumption ==
    /\ IsFiniteSet(Names)
    /\ None \notin Sites \union StateRecords \union Kind \union Outcome
    /\ None \notin {"cycle", "bot"}
    /\ Configs # {} /\ Configs \subseteq [Names -> Sites \union {None}]
    /\ MaxConcurrency \in Nat \ {0}
    /\ ReplyCodes \subseteq Nat
    /\ AmbiguousSend \in BOOLEAN /\ StoreFails \in BOOLEAN
    /\ MaxCrashes \in Nat

VARIABLES
    config,     \* config.yaml as read at the last start
    sites,      \* ServiceRegistry: name -> the registered site
    states,     \* MonitorService._states
    holder,     \* MonitorService._locks: name -> the actor whose task owns the lock
    pc,         \* actor -> name -> where its task for that site stands
    snap,       \* actor -> name -> the ManagedService the task was given
    res,        \* actor -> name -> an outcome not applied yet
    conn,       \* the store as the shared connection sees it
    disk,       \* the store as committed
    told,       \* name -> the last alert the user received since it has a row
    crashes     \* restarts so far

vars == <<config, sites, states, holder, pc, snap, res, conn, disk, told, crashes>>

Actors == {"cycle", "bot"}
Other(a) == IF a = "cycle" THEN "bot" ELSE "cycle"

Threshold == [failure |-> FailureThreshold, recovery |-> RecoveryThreshold]

CheckSteps  == {"sem", "http", "load", "save", "commit",
                "send", "sent", "save2", "commit2"}
JudgedSteps == CheckSteps \ {"sem", "http", "load"}   \* the result is applied
RemoveSteps == {"del2", "delc"}
StoreSteps  == {"load", "save", "commit", "save2", "commit2",
                "insc", "addload", "togc", "rmlock", "del2", "delc"}
Steps == {"idle", "lock", "woken", "rmlock"}
            \union CheckSteps \union RemoveSteps \union StoreSteps

At(a, n, step) == pc[a][n] = step
Idle(a) == \A n \in Names : At(a, n, "idle")

\* A task whose lock was dropped by remove_service is resumed by the event loop
\* before any answer the bot waits for can arrive.
BotReady == Idle("bot") /\ \A n \in Names : ~At("cycle", n, "woken")

-----------------------------------------------------------------------------
(* Per-site lock (asyncio.Lock): at most one waiter, served on release.    *)

Waiting(a, n) == pc[a][n] \in {"lock", "rmlock"}

\* The owner once a asks for the lock.
Granted(a, n) == IF holder[n] = None THEN a ELSE holder[n]

\* Mutant: a task does not wait for the lock to be its own.
Owns_LockNotAwaited(a, n) == holder[n] # None

Owns(a, n) == holder[n] = a

\* Mutant: the lock is not released.
HandedOver_NotReleased(a, n) == holder[n]

\* The owner once a has left.
HandedOver(a, n) ==
    IF holder[n] # a THEN holder[n]
    ELSE IF Waiting(Other(a), n) THEN Other(a) ELSE None

Goto(a, n, step) == pc' = [pc EXCEPT ![a][n] = step]

(* The task of a for n is over, whatever way it ends.                      *)
Leave(a, n) ==
    /\ Goto(a, n, "idle")
    /\ snap' = [snap EXCEPT ![a][n] = None]
    /\ res' = [res EXCEPT ![a][n] = None]
    /\ holder' = [holder EXCEPT ![n] = HandedOver(a, n)]

-----------------------------------------------------------------------------
(* Store.                                                                  *)

\* Mutant: a row is used although it belongs to another address.
Loaded_AnyUrl(db, n, u) == IF db.state[n] = None THEN Fresh(u) ELSE db.state[n]

\* StateStore.load: what the row of n says about address u.
Loaded(db, n, u) ==
    IF db.state[n] # None /\ db.state[n].url = u THEN db.state[n] ELSE Fresh(u)

\* The sites the registry holds after loading: config.yaml shadows the store.
Registered(c, db) == [n \in Names |-> IF c[n] # None THEN c[n] ELSE db.managed[n]]

Cached(n, u) == states[n] # None /\ states[n].url = u

\* Whether the bot may pause or delete n (ManagedService.editable).
Editable(n) == sites[n] # None /\ config[n] = None

-----------------------------------------------------------------------------
Init ==
    /\ config \in Configs
    /\ conn = [managed |-> [n \in Names |-> None], state |-> [n \in Names |-> None]]
    /\ disk = conn
    /\ sites = config
    /\ states = [n \in Names |-> IF config[n] = None THEN None ELSE Fresh(config[n].url)]
    /\ holder = [n \in Names |-> None]
    /\ pc = [a \in Actors |-> [n \in Names |-> "idle"]]
    /\ snap = [a \in Actors |-> [n \in Names |-> None]]
    /\ res = snap
    /\ told = [n \in Names |-> None]
    /\ crashes = 0

-----------------------------------------------------------------------------
(* check_service, from the lock to the last commit.                        *)

Due == {n \in Names : sites[n] # None /\ sites[n].enabled}

\* run_cycle: one task per enabled site; each runs to its lock at once.
RunCycle(a) ==
    /\ Idle(a) /\ (a = "bot" => BotReady)
    /\ Due # {}
    /\ pc' = [pc EXCEPT ![a] = [n \in Names |-> IF n \in Due THEN "lock" ELSE "idle"]]
    /\ snap' = [snap EXCEPT ![a] = [n \in Names |-> IF n \in Due THEN sites[n] ELSE None]]
    /\ holder' = [n \in Names |-> IF n \in Due THEN Granted(a, n) ELSE holder[n]]
    /\ UNCHANGED <<config, sites, states, res, conn, disk, told, crashes>>

\* The lock is ours; a site deleted meanwhile is skipped.
Enter(a, n) ==
    /\ \/ At(a, n, "lock") /\ Owns(a, n)
       \/ At(a, n, "woken")
    /\ IF sites[n] = None
       THEN Leave(a, n)
       ELSE Goto(a, n, "sem") /\ UNCHANGED <<snap, res, holder>>
    /\ UNCHANGED <<config, sites, states, conn, disk, told, crashes>>

Requesting == {t \in Actors \X Names : At(t[1], t[2], "http")}

SlotFree(k) == Cardinality(Requesting) < k

\* async with self._semaphore
SemEnter(a, n) ==
    /\ At(a, n, "sem") /\ SlotFree(MaxConcurrency)
    /\ Goto(a, n, "http")
    /\ UNCHANGED <<config, sites, states, holder, snap, res, conn, disk, told, crashes>>

\* The reply arrives; the state is at hand, or has to be read from the store.
HttpDone(a, n) ==
    /\ At(a, n, "http")
    /\ \E code \in ReplyCodes :
         IF Cached(n, snap[a][n].url)
         THEN /\ states' = [states EXCEPT ![n] = ApplyCheck(@, Classify(code), 0, Threshold)]
              /\ Goto(a, n, "save")
              /\ UNCHANGED res
         ELSE /\ res' = [res EXCEPT ![a][n] = Classify(code)]
              /\ Goto(a, n, "load")
              /\ UNCHANGED states
    /\ UNCHANGED <<config, sites, holder, snap, conn, disk, told, crashes>>

\* The checker raises what it does not catch itself: the task ends, and nothing is
\* known of the site.
CheckerRaises(a, n) ==
    /\ At(a, n, "http")
    /\ Leave(a, n)
    /\ UNCHANGED <<config, sites, states, conn, disk, told, crashes>>

\* The SELECT answers; the connection answers in order, so after the bot's own.
LoadDone(a, n) ==
    /\ At(a, n, "load") /\ ~At("bot", n, "addload")
    /\ states' = [states EXCEPT ![n] =
                    ApplyCheck(Loaded(conn, n, snap[a][n].url), res[a][n], 0, Threshold)]
    /\ res' = [res EXCEPT ![a][n] = None]
    /\ Goto(a, n, "save")
    /\ UNCHANGED <<config, sites, holder, snap, conn, disk, told, crashes>>

\* Mutant: the UPSERT does not update notified_status.
Upserted_ForgetsNotified(n) ==
    [states[n] EXCEPT !.notified_status =
        IF conn.state[n] = None THEN @ ELSE conn.state[n].notified_status]

\* The row StateStore.save writes.
Upserted(n) == states[n]

\* The UPSERT of StateStore.save.
Save(a, n) ==
    /\ pc[a][n] \in {"save", "save2"}
    /\ conn' = [conn EXCEPT !.state[n] = Upserted(n)]
    /\ Goto(a, n, IF At(a, n, "save") THEN "commit" ELSE "commit2")
    /\ UNCHANGED <<config, sites, states, holder, snap, res, disk, told, crashes>>

\* Mutant: only the check that declares an outage announces it.
Alert_OnceDeclared(a, n) ==
    IF snap[a][n].enabled /\ states[n].failure_count = 1 THEN PendingAlert(states[n]) ELSE None

\* Mutant: a site checked on demand alerts although it is paused.
Alert_AlsoPaused(a, n) ==
    IF snap[a][n].enabled \/ a = "bot" THEN PendingAlert(states[n]) ELSE None

\* The alert a task owes the user once its result is saved.
Alert(a, n) == IF snap[a][n].enabled THEN PendingAlert(states[n]) ELSE None

\* The result is committed; the alert is sent, if one is owed.
Commit(a, n) ==
    /\ At(a, n, "commit")
    /\ disk' = conn
    /\ IF Alert(a, n) = None
       THEN Leave(a, n)
       ELSE Goto(a, n, "send") /\ UNCHANGED <<snap, res, holder>>
    /\ UNCHANGED <<config, sites, states, conn, told, crashes>>

\* Telegram accepts the message.
Deliver(a, n) ==
    /\ At(a, n, "send")
    /\ told' = [told EXCEPT ![n] = PendingAlert(states[n])]
    /\ Goto(a, n, "sent")
    /\ UNCHANGED <<config, sites, states, holder, snap, res, conn, disk, crashes>>

\* Mutant: a failed send counts as a notification.
Unsent_Marked(s) == MarkNotified(s, PendingAlert(s))

\* What TelegramError leaves in the state: the alert is still owed.
Unsent(s) == s

\* All attempts failed: TelegramError, the next check tries again.
SendFail(a, n) ==
    /\ At(a, n, "send")
    /\ states' = [states EXCEPT ![n] = Unsent(@)]
    /\ Leave(a, n)
    /\ UNCHANGED <<config, sites, conn, disk, told, crashes>>

\* The message arrived, its answer did not: another attempt, or TelegramError.
AnswerLost(a, n) ==
    /\ AmbiguousSend
    /\ At(a, n, "sent")
    /\ \/ Goto(a, n, "send") /\ UNCHANGED <<snap, res, holder>>
       \/ Leave(a, n)
    /\ UNCHANGED <<config, sites, states, conn, disk, told, crashes>>

\* The answer arrives: mark_notified, then save again.
Ack(a, n) ==
    /\ At(a, n, "sent")
    /\ states' = [states EXCEPT ![n] = MarkNotified(@, PendingAlert(@))]
    /\ Goto(a, n, "save2")
    /\ UNCHANGED <<config, sites, holder, snap, res, conn, disk, told, crashes>>

CommitNotified(a, n) ==
    /\ At(a, n, "commit2")
    /\ disk' = conn
    /\ Leave(a, n)
    /\ UNCHANGED <<config, sites, states, conn, told, crashes>>

-----------------------------------------------------------------------------
(* What the bot asks for, besides RunCycle("bot").                         *)

\* The check button: check_service on one site, enabled or paused.
BotCheck(n) ==
    /\ BotReady /\ sites[n] # None
    /\ Goto("bot", n, "lock")
    /\ snap' = [snap EXCEPT !["bot"][n] = sites[n]]
    /\ holder' = [holder EXCEPT ![n] = Granted("bot", n)]
    /\ UNCHANGED <<config, sites, states, res, conn, disk, told, crashes>>

\* add_service: the INSERT.
BotAdd(n, u) ==
    /\ BotReady /\ sites[n] = None
    /\ \A m \in Names : sites[m] # None => sites[m].url # u
    /\ conn.managed[n] = None       \* otherwise the INSERT raises: nothing changes
    /\ conn' = [conn EXCEPT !.managed[n] = [url |-> u, enabled |-> TRUE]]
    /\ snap' = [snap EXCEPT !["bot"][n] = [url |-> u, enabled |-> TRUE]]
    /\ Goto("bot", n, "insc")
    /\ UNCHANGED <<config, sites, states, holder, res, disk, told, crashes>>

\* ... its COMMIT: the site is registered and its state is looked for.
AddCommit(n) ==
    /\ At("bot", n, "insc")
    /\ disk' = conn
    /\ sites' = [sites EXCEPT ![n] = snap["bot"][n]]
    /\ Goto("bot", n, "addload")
    /\ UNCHANGED <<config, states, holder, snap, res, conn, told, crashes>>

\* ... the state is there; the bot goes on to check the new site.
AddLoad(n) ==
    /\ At("bot", n, "addload")
    /\ states' = [states EXCEPT ![n] = Loaded(conn, n, snap["bot"][n].url)]
    /\ Goto("bot", n, "lock")
    /\ holder' = [holder EXCEPT ![n] = Granted("bot", n)]
    /\ UNCHANGED <<config, sites, snap, res, conn, disk, told, crashes>>

\* set_enabled: the UPDATE, which matches no row if the row is gone.
BotToggle(n) ==
    /\ BotReady /\ Editable(n)
    /\ conn' = IF conn.managed[n] = None THEN conn
               ELSE [conn EXCEPT !.managed[n] =
                        [url |-> @.url, enabled |-> ~sites[n].enabled]]
    /\ Goto("bot", n, "togc")
    /\ UNCHANGED <<config, sites, states, holder, snap, res, disk, told, crashes>>

ToggleCommit(n) ==
    /\ At("bot", n, "togc")
    /\ disk' = conn
    /\ sites' = [sites EXCEPT ![n].enabled = ~@]
    /\ Goto("bot", n, "idle")
    /\ UNCHANGED <<config, states, holder, snap, res, conn, told, crashes>>

\* remove_service asks for the lock of the site.
BotDelete(n) ==
    /\ BotReady /\ sites[n] # None
    /\ Goto("bot", n, "rmlock")
    /\ holder' = [holder EXCEPT ![n] = Granted("bot", n)]
    /\ UNCHANGED <<config, sites, states, snap, res, conn, disk, told, crashes>>

\* Mutant: remove_service does not wait for a check of the site.
MayDelete_Unlocked(n) == TRUE

MayDelete(n) == Owns("bot", n)

\* delete_service: the first DELETE; a site of config.yaml is refused.
DeleteSite(n) ==
    /\ At("bot", n, "rmlock") /\ MayDelete(n)
    /\ IF Editable(n)
       THEN /\ conn' = [conn EXCEPT !.managed[n] = None]
            /\ Goto("bot", n, "del2")
            /\ UNCHANGED <<snap, res, holder>>
       ELSE Leave("bot", n) /\ UNCHANGED conn
    /\ UNCHANGED <<config, sites, states, disk, told, crashes>>

\* Mutant: the row of the state is not deleted.
StateDeleted_Kept(n) == conn

StateDeleted(n) == [conn EXCEPT !.state[n] = None]

\* ... the second DELETE.
DeleteState(n) ==
    /\ At("bot", n, "del2")
    /\ conn' = StateDeleted(n)
    /\ Goto("bot", n, "delc")
    /\ UNCHANGED <<config, sites, states, holder, snap, res, disk, told, crashes>>

\* ... the COMMIT; the site, its state and its lock are dropped, and a check that
\* waits is resumed with a lock nobody else knows.
DeleteCommit(n) ==
    /\ At("bot", n, "delc")
    /\ disk' = conn
    /\ sites' = [sites EXCEPT ![n] = None]
    /\ states' = [states EXCEPT ![n] = None]
    /\ holder' = [holder EXCEPT ![n] = None]
    /\ told' = [told EXCEPT ![n] = IF conn.state[n] = None THEN None ELSE @]
    /\ pc' = [pc EXCEPT !["bot"][n] = "idle",
                        !["cycle"][n] = IF @ = "lock" THEN "woken" ELSE @]
    /\ UNCHANGED <<config, snap, res, conn, crashes>>

-----------------------------------------------------------------------------
\* A store operation raises: the task ends and its lock is released.  The open
\* transaction stays open or SQLite rolls it back.
StoreError(a, n) ==
    /\ StoreFails
    /\ pc[a][n] \in StoreSteps
    /\ At(a, n, "rmlock") => Owns(a, n)
    /\ conn' \in {conn, disk}
    /\ Leave(a, n)
    /\ UNCHANGED <<config, sites, states, disk, told, crashes>>

\* The process stops anywhere and starts again (load_state), perhaps with an
\* edited config.yaml.
Restart ==
    /\ crashes < MaxCrashes
    /\ crashes' = crashes + 1
    /\ config' \in Configs
    /\ sites' = Registered(config', disk)
    /\ states' = [n \in Names |->
                    IF sites'[n] = None THEN None ELSE Loaded(disk, n, sites'[n].url)]
    /\ holder' = [n \in Names |-> None]
    /\ pc' = [a \in Actors |-> [n \in Names |-> "idle"]]
    /\ snap' = [a \in Actors |-> [n \in Names |-> None]]
    /\ res' = [a \in Actors |-> [n \in Names |-> None]]
    /\ conn' = disk
    /\ UNCHANGED <<disk, told>>

CheckStep(a, n) ==
    \/ Enter(a, n) \/ SemEnter(a, n) \/ HttpDone(a, n) \/ CheckerRaises(a, n)
    \/ LoadDone(a, n) \/ Save(a, n) \/ Commit(a, n) \/ Deliver(a, n) \/ SendFail(a, n)
    \/ AnswerLost(a, n) \/ Ack(a, n) \/ CommitNotified(a, n)

BotRequest(n) ==
    \/ BotCheck(n) \/ BotToggle(n) \/ BotDelete(n)
    \/ \E u \in Urls : BotAdd(n, u)

BotStep(n) ==
    \/ AddCommit(n) \/ AddLoad(n) \/ ToggleCommit(n)
    \/ DeleteSite(n) \/ DeleteState(n) \/ DeleteCommit(n)

Next ==
    \/ \E a \in Actors : RunCycle(a)
    \/ \E a \in Actors, n \in Names : CheckStep(a, n) \/ StoreError(a, n)
    \/ \E n \in Names : BotRequest(n) \/ BotStep(n)
    \/ Restart

Spec == Init /\ [][Next]_vars

-----------------------------------------------------------------------------
(* Properties.                                                             *)

Stores == [managed : [Names -> Sites \union {None}],
           state : [Names -> StateRecords \union {None}]]

(* Every variable holds a value of its kind.                               *)
TypeOK ==
    /\ config \in [Names -> Sites \union {None}]
    /\ sites \in [Names -> Sites \union {None}]
    /\ states \in [Names -> StateRecords \union {None}]
    /\ holder \in [Names -> Actors \union {None}]
    /\ pc \in [Actors -> [Names -> Steps]]
    /\ snap \in [Actors -> [Names -> Sites \union {None}]]
    /\ res \in [Actors -> [Names -> Outcome \union {None}]]
    /\ conn \in Stores
    /\ disk \in Stores
    /\ told \in [Names -> Kind \union {None}]
    /\ crashes \in 0..MaxCrashes

Working(a, n) == pc[a][n] \in CheckSteps \union RemoveSteps

(* A manual check, a scheduled check and a deletion of one site never      *)
(* overlap: they wait for each other at the lock of check_service and      *)
(* remove_service (service.py:100, 137).                                   *)
OneTaskPerSite ==
    \A n \in Names : ~(Working("cycle", n) /\ Working("bot", n))

(* The owner of a lock is a task that still works on the site or is about  *)
(* to: whatever way a check, an addition or a deletion ends, the next in   *)
(* line is not left waiting for ever (service.py:98-101, 137).             *)
LockIsNotLeft ==
    \A n \in Names :
        holder[n] # None => Working(holder[n], n) \/ Waiting(holder[n], n)

\* Whether the task of a for n can take its next step.
CanStep(a, n) ==
    \/ pc[a][n] \in {"woken", "http", "save", "commit", "send", "sent", "save2", "commit2"}
    \/ At(a, n, "lock") /\ Owns(a, n)
    \/ At(a, n, "sem") /\ SlotFree(MaxConcurrency)
    \/ At(a, n, "load") /\ ~At("bot", n, "addload")
    \/ a = "bot" /\ pc[a][n] \in {"insc", "addload", "togc", "del2", "delc"}
    \/ a = "bot" /\ At(a, n, "rmlock") /\ MayDelete(n)

(* Locks and semaphore never end in everyone waiting on everyone, whatever *)
(* fails: a task that cannot go on waits for the other actor's task for    *)
(* the same site, which can, or for a request in flight (service.py:98-101,*)
(* 137-141).                                                               *)
NobodyIsStuck ==
    \A a \in Actors, n \in Names :
        At(a, n, "idle") \/ CanStep(a, n) \/ CanStep(Other(a), n) \/ Requesting # {}

(* A check that is past its lock works on a site that is still registered, *)
(* at the address it has now: remove_service waits for checks, and a check *)
(* that waited for a removal gives up (service.py:96-102, 138).            *)
ChecksRegisteredSite ==
    \A a \in Actors, n \in Names :
        pc[a][n] \in CheckSteps =>
            sites[n] # None /\ sites[n].url = snap[a][n].url

(* The state a result was applied to belongs to the address that was       *)
(* checked, also after config.yaml gave a known name a new address         *)
(* (sqlite.py:142-149): no streak and no alert carries over.               *)
JudgedAtItsUrl ==
    \A a \in Actors, n \in Names :
        pc[a][n] \in JudgedSteps => states[n].url = snap[a][n].url

Quiet(n) == \A a \in Actors : pc[a][n] \in {"idle", "lock"}

(* Between checks the committed row of a site is what memory holds, so a   *)
(* restart at that moment decides as the running process would             *)
(* (service.py:162, 237: every change is saved before the lock is freed).  *)
MemoryIsDurable ==
    \A n \in Names :
        Quiet(n) /\ sites[n] # None => states[n] = Loaded(disk, n, sites[n].url)

(* A deletion leaves nothing of a site behind, although a check of it may  *)
(* have been running or waiting when it was asked for (service.py:96-102). *)
DeletedMeansGone ==
    \A n \in Names :
        Quiet(n) /\ sites[n] = None =>
            states[n] = None /\ disk.state[n] = None /\ disk.managed[n] = None

(* Whenever no delivered alert waits for its answer, notified_status says  *)
(* whether the last thing the user heard of the site is that it is down    *)
(* (models/state.py:36-37): nothing is lost and nothing is owed twice.     *)
LedgerAgrees ==
    \A n \in Names :
        states[n] # None /\ (\A a \in Actors : ~At(a, n, "sent")) =>
            (states[n].notified_status = "DOWN" <=> told[n] = "DOWN")

(* An attempt to send is always news: the user has not been told the same  *)
(* about the site last, and the first news is DOWN (README.md:70-73).      *)
EveryAlertIsNews ==
    \A a \in Actors, n \in Names :
        At(a, n, "send") =>
            IF PendingAlert(states[n]) = "DOWN" THEN told[n] # "DOWN" ELSE told[n] = "DOWN"

\* What memory, the connection and the disk record as notified.
Recorded(n) ==
    {s.notified_status : s \in {states[n], conn.state[n], disk.state[n]} \ {None}}

\* The alert whose delivery notified_status records.
AlertOf(status) == IF status = "DOWN" THEN "DOWN" ELSE "RECOVERED"

(* Whatever crashes or fails, every notification that is newly recorded is *)
(* of an alert the user has just received: neither a send that failed, nor *)
(* a store error, nor a restart gives up an alert, the first of a site or a*)
(* later one (README.md:71-72, service.py:228-237).                        *)
NotifiedWasTold ==
    [][\A n \in Names :
         \A status \in Recorded(n)' \ (Recorded(n) \union {None}) :
            told[n] = AlertOf(status)]_vars

Durable(n) == disk.state[n]

(* One commit moves the committed state of a site by exactly one check or  *)
(* one notification, or starts it afresh, or deletes it, although any task *)
(* may commit what another task has executed (sqlite.py:152-158, 184-188). *)
OneStepAtATime ==
    [][\A n \in Names :
         Durable(n)' # Durable(n) =>
            \/ Durable(n)' = None
            \/ \E o \in Outcome, u \in Urls :
                 Durable(n)' = ApplyCheck(Loaded(disk, n, u), o, 0, Threshold)
            \/ /\ Durable(n) # None
               /\ \E k \in Kind : Durable(n)' = MarkNotified(Durable(n), k)]_vars

\* The alert a task is sending about n, if one is.
Posting == [n \in Names |->
              IF \E a \in Actors : At(a, n, "send") THEN PendingAlert(states[n]) ELSE None]

Alerts == INSTANCE AlertStream WITH posting <- Posting

(* The user sees one DOWN per outage and one RECOVERED after it, whatever  *)
(* checks, pauses and deletions interleave: see AlertStream.               *)
ImplementsAlertStream == Alerts!Spec

(* A paused site never alerts (service.py:132), not even when it is paused *)
(* while a check of it runs: once the result is saved, no alert is owed.   *)
PausedNeverAlerts ==
    \A a \in Actors, n \in Names :
        At(a, n, "commit") /\ ~sites[n].enabled => Alert(a, n) = None

(* What remains of it: a paused site is checked on demand, but the bot's   *)
(* own check never alerts, since the bot does one thing at a time. Only a  *)
(* scheduled check that began before the pause still may.                  *)
PausedOnDemandIsSilent ==
    \A n \in Names : At("bot", n, "send") => sites[n] # None /\ sites[n].enabled

(* While nothing is being done about a site that is down, either an alert  *)
(* is still owed or DOWN is the last thing the user heard (README.md:15).  *)
NoSilentOutage ==
    \A n \in Names :
        (/\ Quiet(n) /\ states[n] # None
         /\ states[n].status = "DOWN" /\ PendingAlert(states[n]) = None)
        => told[n] = "DOWN"

-----------------------------------------------------------------------------
(* The invariant that the proofs of the properties above rest on.          *)

\* Whoever is past the lock owns it.
LockInv ==
    \A a \in Actors, n \in Names : Working(a, n) => holder[n] = a

\* What a task knows about its site.
TaskInv ==
    \A a \in Actors, n \in Names :
        /\ pc[a][n] \in CheckSteps \union {"lock"} =>
              /\ snap[a][n] \in Sites /\ sites[n] \in Sites
              /\ sites[n].url = snap[a][n].url
        /\ At(a, n, "load") => res[a][n] \in Outcome
        /\ pc[a][n] \in JudgedSteps =>
              states[n] \in StateRecords /\ states[n].url = snap[a][n].url

\* The requests of the bot that concern one site only.
SoloSteps == {"insc", "addload", "togc", "rmlock", "del2", "delc"}

BotInv ==
    \A n \in Names :
        /\ sites[n] = None => states[n] = None
        /\ At("bot", n, "insc") => snap["bot"][n] \in Sites /\ sites[n] = None
        /\ At("bot", n, "addload") =>
              /\ snap["bot"][n] \in Sites /\ sites[n] \in Sites
              /\ sites[n].url = snap["bot"][n].url /\ states[n] = None
        /\ At("bot", n, "togc") => sites[n] \in Sites
        /\ pc["bot"][n] \in SoloSteps =>
              \A m \in Names \ {n} : At("bot", m, "idle")

\* A check resumed after a deletion finds the site gone and the bot unmoved.
WokenInv ==
    \A n \in Names :
        /\ ~At("bot", n, "woken")
        /\ At("cycle", n, "woken") => sites[n] = None /\ Idle("bot")

(* The inductive invariant: types, the ownership of the lock, and what the *)
(* tasks between two awaits may still rely on (service.py:93-165).         *)
IInv == TypeOK /\ LockInv /\ TaskInv /\ BotInv /\ WokenInv

-----------------------------------------------------------------------------
(* Liveness.  Every task that can move moves; the scheduler starts cycles  *)
(* (run_forever); the semaphore serves its waiters in turn; the checker    *)
(* does not raise for ever, and Telegram is not unreachable for ever.      *)

Proceed(a, n) ==
    \/ Enter(a, n) \/ HttpDone(a, n) \/ CheckerRaises(a, n) \/ LoadDone(a, n) \/ Save(a, n)
    \/ Commit(a, n) \/ Deliver(a, n) \/ SendFail(a, n)
    \/ AnswerLost(a, n) \/ Ack(a, n) \/ CommitNotified(a, n)

ScheduledCycle == RunCycle("cycle")

Fairness ==
    /\ WF_vars(ScheduledCycle)
    /\ \A n \in Names : WF_vars(BotStep(n))
    /\ \A a \in Actors, n \in Names :
         /\ WF_vars(Proceed(a, n)) /\ SF_vars(SemEnter(a, n))
         /\ SF_vars(HttpDone(a, n)) /\ SF_vars(Deliver(a, n)) /\ SF_vars(Ack(a, n))

FairSpec == Spec /\ Fairness

Owed(n) ==
    /\ sites[n] # None /\ sites[n].enabled
    /\ states[n] # None /\ PendingAlert(states[n]) # None

(* An alert that is owed about a site that stays registered and enabled is *)
(* delivered, or the site changes back, over failed sends and a crash      *)
(* between the change of status and the send (README.md:71-72).            *)
OwedIsSettled == \A n \in Names : Owed(n) ~> ~Owed(n)

(* Whatever the bot was asked to do ends: no lock is held for ever, and    *)
(* nobody holds a lock while waiting for one (service.py:100, 137-141).    *)
BotComesBack == \A n \in Names : ~At("bot", n, "idle") ~> At("bot", n, "idle")

(* An enabled site is requested again and again (service.py:176-192).      *)
KeepsChecking ==
    \A n \in Names :
        []<>(sites[n] = None \/ ~sites[n].enabled \/ \E a \in Actors : At(a, n, "http"))
=============================================================================
