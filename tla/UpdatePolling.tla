---------------------------- MODULE UpdatePolling ----------------------------
(***************************************************************************)
(* The Telegram bot's long polling (telegram/bot.py): which updates are    *)
(* handled, in which order and how often, over lost requests and answers,  *)
(* stops, crashes and restarts.                                            *)
(*                                                                         *)
(* Telegram keeps the updates the bot has not confirmed; a request with an *)
(* offset confirms everything below it.  The bot moves its offset as soon  *)
(* as a batch arrives, but Telegram only hears of it with the next request,*)
(* which is made after the batch was handled.  Updates are numbered from 1.*)
(* What a handler does to the sites is part of MonitorService.             *)
(***************************************************************************)
EXTENDS Naturals, FiniteSets, Sequences

CONSTANTS
    None,
    MaxUpdates,     \* bound on the updates sent
    BatchLimit,     \* updates in one answer of Telegram
    MaxStarts,      \* bound on the starts of the process
    SkipFails       \* may the one attempt to skip old updates fail?

ASSUME PollingAssumption ==
    /\ MaxUpdates \in Nat /\ BatchLimit \in Nat \ {0} /\ MaxStarts \in Nat
    /\ SkipFails \in BOOLEAN
    /\ None \notin Nat

Updates == 1..MaxUpdates

VARIABLES
    sent,       \* last update Telegram has received for the bot
    confirmed,  \* Telegram has forgotten the updates up to here
    at,         \* where TelegramBot.run stands
    offset,     \* TelegramBot._offset
    answer,     \* the updates in the answer that is under way
    batch,      \* the updates received whose handling has not ended
    stop,       \* the stop event
    starts,     \* starts of the process so far
    skipped,    \* did _skip_pending_updates succeed in this run?
    dropped,    \* updates a run has skipped
    old,        \* updates that arrived while the bot was not running
    log,        \* handlers begun: the run and the update
    finished    \* updates whose handler has ended

server == <<sent, confirmed>>
ghosts == <<starts, skipped, dropped, old, log, finished>>
vars == <<sent, confirmed, at, offset, answer, batch, stop,
          starts, skipped, dropped, old, log, finished>>

\* "commands": setMyCommands; "skip" and "skipping": _skip_pending_updates before
\* and after Telegram has its request; "poll" and "polling": the same of _poll;
\* "loop": between two updates of a batch; "handle": in a handler.
Phases == {"off", "commands", "skip", "skipping", "poll", "polling", "wait", "loop", "handle"}

Init ==
    /\ sent = 0 /\ confirmed = 0
    /\ at = "off" /\ offset = None /\ answer = {} /\ batch = {} /\ stop = FALSE
    /\ starts = 0 /\ skipped = FALSE /\ dropped = {} /\ old = {}
    /\ log = <<>> /\ finished = {}

-----------------------------------------------------------------------------
(* Telegram.                                                               *)

\* The user sends a command or presses a button.
Send ==
    /\ sent < MaxUpdates
    /\ sent' = sent + 1
    /\ old' = IF at = "off" THEN old \union {sent'} ELSE old
    /\ UNCHANGED <<confirmed, at, offset, answer, batch, stop,
                   starts, skipped, dropped, log, finished>>

Pending(c) == {u \in Updates : c < u /\ u <= sent}

First(s) == CHOOSE u \in s : \A v \in s : u <= v
Newest(s) == CHOOSE u \in s : \A v \in s : v <= u

Oldest(s) == {u \in s : Cardinality({v \in s : v < u}) < BatchLimit}

-----------------------------------------------------------------------------
(* Starting.                                                               *)

Start ==
    /\ at = "off" /\ starts < MaxStarts
    /\ at' = "commands" /\ starts' = starts + 1 /\ skipped' = FALSE
    /\ UNCHANGED <<server, offset, answer, batch, stop, dropped, old, log, finished>>

\* setMyCommands; its failure is only logged.
CommandsSet ==
    /\ at = "commands"
    /\ at' = "skip"
    /\ UNCHANGED <<server, offset, answer, batch, stop, ghosts>>

\* Telegram returns the last pending update, and may forget the others at once.
SkipServed ==
    /\ at = "skip"
    /\ answer' = {u \in Pending(confirmed) : u = sent}
    /\ confirmed' \in {confirmed} \union {u - 1 : u \in answer'}
    /\ dropped' = dropped \union (Pending(confirmed) \ Pending(confirmed'))
    /\ at' = "skipping"
    /\ UNCHANGED <<sent, offset, batch, stop, starts, skipped, old, log, finished>>

\* Mutant: the offset is that of the last update instead of the next one.
NextOffset_Same(s) == IF s = {} THEN offset ELSE Newest(s)

\* The offset once an answer has arrived.
NextOffset(s) == IF s = {} THEN offset ELSE Newest(s) + 1

SkipDone ==
    /\ at = "skipping"
    /\ offset' = NextOffset(answer)
    /\ dropped' = dropped \union {u \in Pending(confirmed) : \E v \in answer : u <= v}
    /\ answer' = {} /\ skipped' = TRUE
    /\ at' = "poll"
    /\ UNCHANGED <<server, batch, stop, starts, old, log, finished>>

\* The one attempt fails: the bot goes on without an offset.
SkipFailed ==
    /\ SkipFails
    /\ at \in {"skip", "skipping"}
    /\ answer' = {}
    /\ at' = "poll"
    /\ UNCHANGED <<server, offset, batch, stop, ghosts>>

-----------------------------------------------------------------------------
(* Polling.                                                                *)

\* Mutant: the bot polls again while it handles a batch.
MayPoll_NotWaiting == at \in {"poll", "handle"}

MayPoll == at = "poll"

\* Telegram gets the request and answers with what is pending, if anything.
PollServed ==
    /\ MayPoll /\ ~stop
    /\ confirmed' = IF offset # None /\ offset > confirmed + 1 THEN offset - 1 ELSE confirmed
    /\ answer' = Oldest(Pending(confirmed'))
    /\ at' = "polling"
    /\ UNCHANGED <<sent, offset, batch, stop, ghosts>>

\* An update arrives during the long poll.
PollFilled ==
    /\ at = "polling" /\ answer = {} /\ Pending(confirmed) # {}
    /\ answer' = Oldest(Pending(confirmed))
    /\ UNCHANGED <<server, at, offset, batch, stop, ghosts>>

\* The answer arrives, also in the moment the bot is told to stop.
PollDone ==
    /\ at = "polling"
    /\ batch' = answer
    /\ offset' = NextOffset(answer)
    /\ answer' = {}
    /\ at' = "loop"
    /\ UNCHANGED <<server, stop, ghosts>>

\* TelegramError, or any other exception: wait, then poll again.
PollFailed ==
    /\ at \in {"poll", "polling"} /\ ~stop
    /\ answer' = {}
    /\ at' = "wait"
    /\ UNCHANGED <<server, offset, batch, stop, ghosts>>

WaitOver ==
    /\ at = "wait"
    /\ at' = "poll"
    /\ UNCHANGED <<server, offset, answer, batch, stop, ghosts>>

Begin ==
    /\ at = "loop" /\ batch # {} /\ ~stop
    /\ log' = Append(log, [run |-> starts, update |-> First(batch)])
    /\ at' = "handle"
    /\ UNCHANGED <<server, offset, answer, batch, stop, starts, skipped, dropped, old, finished>>

\* Mutant: an exception in a handler ends the batch.
Rest_Dropped(s) == {}

\* What is left of a batch when its first update was handled.
Rest(s) == s \ {First(s)}

\* _handle_safely returns, whatever the handler raised.
End ==
    /\ at = "handle"
    /\ finished' = finished \union {First(batch)}
    /\ batch' = Rest(batch)
    /\ at' = "loop"
    /\ UNCHANGED <<server, offset, answer, stop, starts, skipped, dropped, old, log>>

\* The batch is done, or left because of the stop event.
BatchOver ==
    /\ at = "loop" /\ (batch = {} \/ stop)
    /\ batch' = {}
    /\ at' = "poll"
    /\ UNCHANGED <<server, offset, answer, stop, ghosts>>

-----------------------------------------------------------------------------
(* Stopping.                                                               *)

StopSignal ==
    /\ at # "off" /\ ~stop
    /\ stop' = TRUE
    /\ UNCHANGED <<server, at, offset, answer, batch, ghosts>>

\* Nothing of a process outlives it.
Exit ==
    /\ at' = "off"
    /\ offset' = None /\ answer' = {} /\ batch' = {} /\ stop' = FALSE
    /\ UNCHANGED <<server, ghosts>>

\* The stop event ends a poll and a wait; start() and handlers end first.
StopSeen == stop /\ at \in {"poll", "polling", "wait"} /\ Exit

Crash == at # "off" /\ Exit

BotStep ==
    \/ CommandsSet \/ SkipServed \/ SkipDone \/ SkipFailed
    \/ PollServed \/ PollFilled \/ PollDone \/ PollFailed \/ WaitOver
    \/ Begin \/ End \/ BatchOver \/ StopSeen

Next == Send \/ Start \/ BotStep \/ StopSignal \/ Crash

Spec == Init /\ [][Next]_vars

-----------------------------------------------------------------------------
(* Properties.                                                             *)

(* Every variable holds a value of its kind.                               *)
TypeOK ==
    /\ sent \in 0..MaxUpdates /\ confirmed \in 0..MaxUpdates
    /\ at \in Phases
    /\ offset \in Nat \union {None}
    /\ answer \subseteq Updates /\ batch \subseteq Updates
    /\ stop \in BOOLEAN /\ starts \in 0..MaxStarts /\ skipped \in BOOLEAN
    /\ dropped \subseteq Updates /\ old \subseteq Updates /\ finished \subseteq Updates
    /\ log \in Seq([run : Nat, update : Updates])

(* One run handles updates in the order they were sent, each at most once, *)
(* although polls fail after Telegram has answered them (bot.py:115-116).  *)
InOrderOncePerRun ==
    \A i, j \in DOMAIN log :
        i < j /\ log[i].run = log[j].run => log[i].update < log[j].update

(* If old updates could be skipped at the start, the run handles nothing   *)
(* that was sent while the bot was down, and nothing an earlier run has    *)
(* begun to handle without confirming it (README.md:153-155).              *)
FreshAfterSkip ==
    skipped =>
        \A i \in DOMAIN log :
            log[i].run = starts =>
                /\ log[i].update \notin old
                /\ \A j \in 1..(i - 1) : log[j].update # log[i].update

(* Telegram is told to forget an update only after its handler has ended   *)
(* or after it was skipped at a start: a crash in the middle of a batch    *)
(* never confirms what was not handled (bot.py:92-94, 115-116).            *)
ConfirmedWasHandled == 1..confirmed \subseteq finished \union dropped

(* Commands sent while the service was down are not executed afterwards    *)
(* (README.md:153-155).                                                    *)
OldIsNeverHandled == \A i \in DOMAIN log : log[i].update \notin old

Fairness ==
    /\ WF_vars(CommandsSet) /\ WF_vars(SkipServed) /\ WF_vars(SkipDone)
    /\ SF_vars(PollServed) /\ WF_vars(PollFilled) /\ SF_vars(PollDone)
    /\ WF_vars(WaitOver) /\ WF_vars(Begin) /\ WF_vars(End) /\ WF_vars(BatchOver)
    /\ WF_vars(StopSeen)

FairSpec == Spec /\ Fairness

(* While the bot runs, every update is handled, unless the start skips it  *)
(* or the process ends first: a failing handler or poll loses no other    *)
(* (bot.py:92-94, 119-127).                                                *)
EveryUpdateIsHandled ==
    \A u \in Updates :
        u \in 1..sent /\ at # "off" ~> (u \in finished \union dropped \/ at = "off")
=============================================================================
