----------------------------- MODULE BotDialogue -----------------------------
(***************************************************************************)
(* The control bot in its chat (telegram/bot.py, telegram/ui.py): messages *)
(* with keyboards that stay in the chat and may be pressed at any later    *)
(* time, against sites that have changed meanwhile; prompts that are       *)
(* answered by a reply; placeholders shown while a check runs.             *)
(*                                                                         *)
(* The menu stands for the help text too, which has one of its buttons.    *)
(* One update is handled at a time; every await of a handler is a step.    *)
(* Only the bot changes the list of sites, but the scheduler commits on    *)
(* the same connection (MonitorService).  A button carries what to do and  *)
(* the site's name (service_id); what the user saw beside it is a ghost.   *)
(* The names a site may get are SiteRegistry's matter: here the user names *)
(* it.  Messages are numbered in the order they appear in the chat.        *)
(***************************************************************************)
EXTENDS Naturals, Sequences, FiniteSets

CONSTANTS
    None,
    Names,
    Urls,
    Configs,        \* contents config.yaml may have: name -> row or None
    PromptLimit,    \* PENDING_ADD_LIMIT
    MaxInputs,      \* bound on what the user does
    MaxFaults       \* bound on failed or repeated calls and on restarts

Rows == [url : Urls, enabled : BOOLEAN]
Sites == [url : Urls, enabled : BOOLEAN, editable : BOOLEAN]
Tables == [Names -> Rows \union {None}]

ASSUME DialogueAssumption ==
    /\ None \notin Rows \union Sites \union Names \union Urls
    /\ Configs # {} /\ Configs \subseteq Tables
    /\ PromptLimit \in Nat \ {0}
    /\ MaxInputs \in Nat /\ MaxFaults \in Nat

VARIABLES
    config,     \* ServiceRegistry._config
    telegram,   \* ServiceRegistry._telegram
    conn,       \* table managed_service as the shared connection sees it
    disk,       \* ... as committed
    chat,       \* the messages of the bot, as the user sees them
    prompts,    \* TelegramBot._pending_add
    queue,      \* updates the bot has not confirmed
    done,       \* how many of them this run has begun to handle
    task,       \* the handler that runs
    inputs, faults,     \* counters of the bounds
    rev,        \* name -> how often the site has changed
    torn,       \* names with a write that failed half-way in this run
    spoiled,    \* messages whose handler failed, or that were sent twice
    warned,     \* names for which a confirmation was shown
    ignored,    \* prompts of which a reply was ignored
    born        \* messages in the chat when this run began

registry == <<config, telegram, conn, disk, rev, torn>>
updates == <<queue, done>>
bounds == <<inputs, faults>>
marks == <<spoiled, warned, ignored, born>>
vars == <<registry, chat, prompts, updates, task, bounds, marks>>

-----------------------------------------------------------------------------
(* The list of sites.                                                      *)

Managed(row, e) ==
    IF row = None THEN None ELSE [url |-> row.url, enabled |-> row.enabled, editable |-> e]

Loaded(c, r) == [n \in Names |-> IF c[n] = None THEN r[n] ELSE None]

\* get, by_id
Get(n) == IF config[n] # None THEN Managed(config[n], FALSE) ELSE Managed(telegram[n], TRUE)

Listing == [n \in Names |-> Get(n)]

\* add refuses a name that is taken and an address that is listed.
Addable(n, u) ==
    /\ Get(n) = None
    /\ \A m \in Names : Get(m) # None => Get(m).url # u

\* Mutant: a site of config.yaml is changed like any other.
Refused_NotConfig(s) == s = None

\* _require_editable
Refused(s) == s = None \/ ~s.editable

-----------------------------------------------------------------------------
(* Messages and their keyboards.                                           *)

Blank == [n \in Names |-> None]
Only(n, s) == [Blank EXCEPT ![n] = s]

View(kind, shown) ==
    [kind |-> kind, shown |-> shown,
     rev |-> [n \in Names |-> IF shown[n] = None THEN 0 ELSE rev[n]]]

Text == View("text", Blank)
ListView == View("list", Listing)
CardView(n, s) == View("card", Only(n, s))

\* Mutant: the card deletes without asking.
Controls_NoQuestion == {"toggle", "delyes"}

\* What the card of a site that may be changed offers.
Controls == {"toggle", "del"}

Buttons(v) ==
    LET on == {n \in Names : v.shown[n] # None}
    IN  CASE v.kind = "menu" -> {"menu", "list", "add", "checkall"} \X {None}
          [] v.kind = "list" -> ({"card"} \X on) \union ({"add", "menu"} \X {None})
                                \union (IF on = {} THEN {} ELSE {<<"checkall", None>>})
          [] v.kind = "card" -> ({"check"} \X on) \union {<<"list", None>>}
                                \union (Controls \X {n \in on : v.shown[n].editable})
          [] v.kind = "confirm" -> {"delyes", "card"} \X on
          [] OTHER -> {}

-----------------------------------------------------------------------------
Idle == [step |-> "idle", input |-> None, msg |-> 0, service |-> None]

Init ==
    /\ config \in Configs
    /\ disk = Blank /\ conn = Blank /\ telegram = Blank
    /\ chat = <<>> /\ prompts = <<>>
    /\ queue = <<>> /\ done = 0
    /\ task = Idle
    /\ inputs = 0 /\ faults = 0
    /\ rev = [n \in Names |-> 0]
    /\ torn = {} /\ spoiled = {} /\ warned = {} /\ ignored = {} /\ born = 0

-----------------------------------------------------------------------------
(* The user.                                                               *)

Post(in) ==
    /\ inputs < MaxInputs
    /\ inputs' = inputs + 1
    /\ queue' = Append(queue, in)
    /\ UNCHANGED <<registry, chat, prompts, done, task, faults, marks>>

\* msg = 0 for a command; seen and rev are what a pressed message showed.
Input(do, msg, n, u) ==
    [do |-> do, msg |-> msg, name |-> n, url |-> u,
     seen |-> IF msg = 0 \/ n = None THEN None ELSE chat[msg].shown[n],
     rev |-> IF msg = 0 \/ n = None THEN 0 ELSE chat[msg].rev[n]]

Command ==
    \/ \E do \in {"menu", "list", "checkall", "add"} : Post(Input(do, 0, None, None))
    \/ \E n \in Names, u \in Urls : Post(Input("addsite", 0, n, u))

Press ==
    \E m \in DOMAIN chat : \E b \in Buttons(chat[m]) : Post(Input(b[1], m, b[2], None))

Reply ==
    \E m \in DOMAIN chat, n \in Names, u \in Urls :
        chat[m].kind = "prompt" /\ Post(Input("reply", m, n, u))

-----------------------------------------------------------------------------
(* The bot receives updates, and handles them one after the other.         *)

\* A poll confirms what was handled; UpdatePolling has the rest of it.
Confirm ==
    /\ task = Idle /\ done > 0
    /\ queue' = SubSeq(queue, done + 1, Len(queue))
    /\ done' = 0
    /\ UNCHANGED <<registry, chat, prompts, task, bounds, marks>>

Start(step, in, s) ==
    task' = [step |-> step, input |-> in, msg |-> IF in.do = "reply" THEN 0 ELSE in.msg,
             service |-> s]

Handle ==
    /\ task = Idle /\ done < Len(queue)
    /\ done' = done + 1
    /\ UNCHANGED <<registry, chat, prompts, queue, bounds, spoiled, warned, born>>

\* /add with an address, and the reply to a prompt.
Adds == {"addsite", "reply"}

Remembers(m) == \E i \in DOMAIN prompts : prompts[i] = m

BeginCommand(in) ==
    /\ Handle
    /\ in.msg = 0 /\ in.do # "addsite"
    /\ Start(IF in.do = "add" THEN "ask" ELSE "send", in, None)
    /\ UNCHANGED ignored

\* /add with an address, or a reply to a prompt that is remembered.
BeginAdd(in) ==
    /\ Handle
    /\ in.do = "addsite" \/ (in.do = "reply" /\ Remembers(in.msg))
    /\ Start(IF Addable(in.name, in.url) THEN "write" ELSE "send", in, None)
    /\ UNCHANGED ignored

\* Any other text is none of the bot's business.
Ignore(in) ==
    /\ Handle
    /\ in.do = "reply" /\ ~Remembers(in.msg)
    /\ ignored' = ignored \union {in.msg}
    /\ UNCHANGED task

BeginPress(in) ==
    /\ Handle
    /\ in.msg # 0 /\ in.do # "reply"
    /\ LET s == IF in.do \in {"check", "toggle", "del", "delyes"} THEN Get(in.name) ELSE None
       IN  Start(IF in.do \in {"toggle", "delyes"} /\ ~Refused(s) THEN "write" ELSE "answer",
                 in, s)
    /\ UNCHANGED ignored

\* handle_update: the next update.
Begin ==
    LET in == queue[done + 1]
    IN  BeginCommand(in) \/ BeginAdd(in) \/ Ignore(in) \/ BeginPress(in)

-----------------------------------------------------------------------------
(* The steps of a handler.                                                 *)

Do == task.input.do
Site == task.input.name

At(step) == task.step = step

\* To the next step, or to the end.
Proceed(step) == task' = IF step = "idle" THEN Idle ELSE [task EXCEPT !.step = step]

\* answerCallbackQuery: a failure is only logged.
Answer ==
    /\ At("answer")
    /\ Proceed(CASE Do = "add" -> "ask"
                 [] Do \in {"toggle", "del"} /\ Refused(task.service) -> "idle"
                 [] Do = "delyes" /\ task.service # None /\ Refused(task.service) -> "idle"
                 [] OTHER -> "edit")
    /\ UNCHANGED <<registry, chat, prompts, updates, bounds, marks>>

\* Checks follow a placeholder; a site that is gone is not checked.
Checking == Do = "checkall" \/ (Do = "check" /\ task.service # None)

\* What a press turns its message into.
Edited ==
    CASE Do = "menu" -> View("menu", Blank)
      [] Checking -> View("checking", Blank)
      [] Do = "card" /\ Get(Site) # None -> CardView(Site, Get(Site))
      [] Do = "toggle" -> CardView(Site, task.service)
      [] Do = "del" -> View("confirm", Only(Site, task.service))
      [] OTHER -> ListView

\* What a message becomes when the check is over.
Checked == IF Do = "checkall" THEN ListView ELSE CardView(Site, task.service)

Put(v) ==
    /\ chat' = [chat EXCEPT ![task.msg] = v]
    /\ warned' = warned \union {n \in Names : v.kind = "confirm" /\ v.shown[n] # None}

Pending == IF At("edit") THEN Edited ELSE Checked

\* Mutant: the message keeps its placeholder.
AfterWork_NoEdit == IF Do \in Adds THEN "send" ELSE "idle"

\* After a check its result is shown.
AfterWork == IF Do \in Adds THEN "send" ELSE "result"

\* editMessageText
Edit ==
    /\ At("edit") \/ At("result")
    /\ Put(Pending)
    /\ Proceed(IF At("edit") /\ Checking THEN "work" ELSE "idle")
    /\ spoiled' = spoiled \ {task.msg}
    /\ UNCHANGED <<registry, prompts, updates, bounds, ignored, born>>

Fault ==
    /\ faults < MaxFaults
    /\ faults' = faults + 1
    /\ UNCHANGED inputs

\* A handler that fails leaves its message as it is.
Fail ==
    /\ task' = Idle
    /\ spoiled' = spoiled \union ({task.msg} \ {0})
    /\ UNCHANGED <<prompts, updates, ignored, born>>

\* One attempt: TelegramError, whether or not Telegram has changed the message.
EditFails ==
    /\ Fault
    /\ At("edit") \/ At("result")
    /\ Put(Pending) \/ UNCHANGED <<chat, warned>>
    /\ Fail
    /\ UNCHANGED registry

\* What a command is answered with.
Sent ==
    CASE At("ask") -> View("prompt", Blank)
      [] Do = "menu" -> View("menu", Blank)
      [] Do = "list" -> ListView
      [] Do = "checkall" -> View("checking", Blank)
      [] Do \in Adds /\ task.service # None -> CardView(Site, task.service)
      [] OTHER -> Text

\* Mutant: a full deque keeps the old prompts.
Remembered_Oldest(m) == IF Len(prompts) < PromptLimit THEN Append(prompts, m) ELSE prompts

\* deque(maxlen=PENDING_ADD_LIMIT)
Remembered(m) ==
    Append(IF Len(prompts) < PromptLimit THEN prompts ELSE Tail(prompts), m)

\* sendMessage, and its message_id.
Send ==
    /\ At("send") \/ At("ask")
    /\ chat' = Append(chat, Sent)
    /\ prompts' = IF At("ask") THEN Remembered(Len(chat')) ELSE prompts
    /\ task' = IF At("send") /\ Do = "checkall"
               THEN [task EXCEPT !.step = "work", !.msg = Len(chat')]
               ELSE Idle
    /\ UNCHANGED <<registry, updates, bounds, marks>>

\* The answer got lost, and the message is sent again.
SendAgain ==
    /\ Fault
    /\ At("send") \/ At("ask")
    /\ chat' = Append(chat, Sent)
    /\ spoiled' = spoiled \union {Len(chat')}
    /\ UNCHANGED <<registry, prompts, updates, task, warned, ignored, born>>

\* All attempts failed.
SendFails ==
    /\ Fault
    /\ At("send") \/ At("ask")
    /\ Fail
    /\ UNCHANGED <<registry, chat, warned>>

\* check_service or run_cycle; MonitorService has its steps.
Work ==
    /\ At("work")
    /\ Proceed(AfterWork)
    /\ UNCHANGED <<registry, chat, prompts, updates, bounds, marks>>

-----------------------------------------------------------------------------
(* Changes of the list.                                                    *)

\* The row the statement of this handler leaves.
Row ==
    CASE Do \in Adds -> [url |-> task.input.url, enabled |-> TRUE]
      [] Do = "toggle" /\ conn[Site] # None -> [conn[Site] EXCEPT !.enabled = ~task.service.enabled]
      [] OTHER -> None

\* Left over from an add whose commit failed.
Clashes == Do \in Adds /\ conn[Site] # None

\* INSERT, UPDATE or DELETE
Write ==
    /\ At("write") /\ ~Clashes
    /\ conn' = [conn EXCEPT ![Site] = Row]
    /\ Proceed("commit")
    /\ UNCHANGED <<config, telegram, disk, rev, torn, chat, prompts, updates, bounds, marks>>

\* Mutant: the change is left uncommitted.
Committed_NotYet == disk

Committed == conn

\* Mutant: the button always pauses.
Entry_Pause ==
    CASE Do \in Adds -> [url |-> task.input.url, enabled |-> TRUE]
      [] Do = "toggle" -> [url |-> task.service.url, enabled |-> FALSE]
      [] OTHER -> None

\* What memory holds for the site once the change is committed.
Entry ==
    CASE Do \in Adds -> [url |-> task.input.url, enabled |-> TRUE]
      [] Do = "toggle" -> [url |-> task.service.url, enabled |-> ~task.service.enabled]
      [] OTHER -> None

\* Mutant: the handler goes on with the site as it was.
Updated_Before == IF Do \in Adds THEN Managed(Entry, TRUE) ELSE task.service

\* The ManagedService the handler goes on with.
Updated == IF Do = "delyes" THEN task.service ELSE Managed(Entry, TRUE)

Commit ==
    /\ At("commit")
    /\ disk' = Committed
    /\ telegram' = [telegram EXCEPT ![Site] = Entry]
    /\ rev' = [rev EXCEPT ![Site] = @ + 1]
    /\ task' = [task EXCEPT !.service = Updated,
                            !.step = IF Do \in Adds THEN "work" ELSE "answer"]
    /\ UNCHANGED <<config, conn, torn, chat, prompts, updates, bounds, marks>>

Uncommitted == {n \in Names : conn[n] # disk[n]}

\* A store operation of the handler raises.  SQLite keeps the transaction open or
\* rolls it back; what fails inside run_cycle stays there.
StoreError ==
    /\ Fault
    /\ At("write") \/ At("commit") \/ (At("work") /\ Do # "checkall")
    /\ conn' \in {conn, disk}
    /\ torn' = torn \union Uncommitted \union (IF At("commit") THEN {Site} ELSE {})
    /\ Fail
    /\ UNCHANGED <<config, telegram, disk, rev, chat, warned>>

\* The INSERT of a row that is there already: IntegrityError.
InsertClashes ==
    /\ At("write") /\ Clashes
    /\ Fail
    /\ UNCHANGED <<registry, chat, bounds, warned>>

\* A check of the scheduler commits, or fails and takes the transaction with it.
OtherCommit ==
    /\ conn # disk
    /\ disk' = conn
    /\ UNCHANGED <<config, telegram, conn, rev, torn, chat, prompts, updates, task, bounds, marks>>

OtherRollback ==
    /\ Fault /\ conn # disk
    /\ conn' = disk
    /\ torn' = torn \union Uncommitted
    /\ UNCHANGED <<config, telegram, disk, rev, chat, prompts, updates, task, marks>>

-----------------------------------------------------------------------------
\* The process stops anywhere and starts again, perhaps with an edited config.yaml;
\* what is pending at Telegram is skipped, or not (UpdatePolling).
Restart ==
    /\ Fault
    /\ config' \in Configs
    /\ telegram' = Loaded(config', disk)
    /\ conn' = disk
    /\ rev' = [n \in Names |->
                 IF config'[n] = config[n] /\ telegram'[n] = telegram[n] THEN rev[n] ELSE rev[n] + 1]
    /\ torn' = {}
    /\ prompts' = <<>>
    /\ queue' \in {queue, <<>>} /\ done' = 0
    /\ task' = Idle
    /\ spoiled' = spoiled \union ({task.msg} \ {0})
    /\ born' = Len(chat)
    /\ UNCHANGED <<disk, chat, warned, ignored>>

User == Command \/ Press \/ Reply

Step ==
    \/ Answer \/ Edit \/ EditFails \/ Send \/ SendAgain \/ SendFails
    \/ Work \/ Write \/ Commit \/ StoreError \/ InsertClashes

Next == User \/ Confirm \/ Begin \/ Step \/ OtherCommit \/ OtherRollback \/ Restart

Spec == Init /\ [][Next]_vars

-----------------------------------------------------------------------------
(* Properties.                                                             *)

Kinds == {"text", "menu", "list", "card", "confirm", "prompt", "checking"}

Views == [kind : Kinds, shown : [Names -> Sites \union {None}], rev : [Names -> Nat]]

Orders == {"menu", "list", "checkall", "add", "card", "check", "toggle", "del", "delyes"} \union Adds

Inputs ==
    [do : Orders, msg : Nat, name : Names \union {None}, url : Urls \union {None},
     seen : Sites \union {None}, rev : Nat]

Steps == {"idle", "answer", "edit", "work", "result", "send", "ask", "write", "commit"}

Tasks == [step : Steps, input : Inputs \union {None}, msg : Nat, service : Sites \union {None}]

(* Every variable holds a value of its kind.                               *)
TypeOK ==
    /\ config \in Tables /\ telegram \in Tables /\ conn \in Tables /\ disk \in Tables
    /\ rev \in [Names -> Nat]
    /\ chat \in Seq(Views) /\ prompts \in Seq(Nat)
    /\ queue \in Seq(Inputs) /\ done \in 0..Len(queue)
    /\ task \in Tasks

\* The messages a step writes.
News == {m \in DOMAIN chat' : m \notin DOMAIN chat \/ chat'[m] # chat[m]}

(* Whatever a message shows of a site is so when the message is written,   *)
(* and a list shows all sites, although the site was looked up before the  *)
(* awaits of its handler (bot.py:269-322).                                 *)
ShownIsCurrent ==
    [][\A m \in News : \A n \in Names :
         /\ chat'[m].shown[n] \in {None, Get(n)}
         /\ chat'[m].kind = "list" => chat'[m].shown[n] = Get(n)]_vars

(* What a message tells of the sites that were added in the chat is on     *)
(* disk, unless a write for the site failed half-way in this run: no crash *)
(* takes back what the user has read (sqlite.py:170-188, bot.py:249-322).  *)
ReportedIsDurable ==
    [][\A m \in News : \A n \in Names \ torn :
         LET s == chat'[m].shown[n]
         IN  /\ s # None /\ s.editable => disk[n] = [url |-> s.url, enabled |-> s.enabled]
             /\ chat'[m].kind = "list" /\ s = None => disk[n] = None]_vars

(* A site is deleted only after a question that names it was shown, also   *)
(* by buttons of old messages (bot.py:298-322).                            *)
DeletedWasAsked ==
    [][\A n \in Names :
         telegram[n] # None /\ telegram'[n] = None /\ ~Restart => n \in warned]_vars

(* No button or command touches a row whose name config.yaml has taken,    *)
(* whatever keyboards are left from before (registry.py:155-163,           *)
(* tests/test_bot.py:335).                                                 *)
ConfigIsReadOnly == [][\A n \in Names : config[n] # None => conn'[n] = conn[n]]_vars

(* A button acts on what its message shows: if the site has not changed    *)
(* since, pausing pauses, resuming resumes and deleting deletes the site   *)
(* that was seen (bot.py:283-322, ui.py:223-246).                          *)
ActsAsShown ==
    [][LET in == task.input
       IN  At("commit") /\ rev'[Site] # rev[Site] /\ ~Restart
             /\ Do \in {"toggle", "delyes"} /\ in.rev = rev[Site] =>
           /\ in.seen = Get(Site)
           /\ Do = "toggle" => telegram'[Site].enabled = ~in.seen.enabled]_vars

\* The prompts that came after m and reached the bot's memory.
Later(m) == {k \in DOMAIN chat \ spoiled : k > m /\ chat[k].kind = "prompt"}

(* The reply to a prompt is ignored only if the prompt is from before a    *)
(* restart, its sending failed, or PENDING_ADD_LIMIT prompts followed it   *)
(* (bot.py:151-154, 241-244).                                              *)
OnlyOldPromptsAreIgnored ==
    \A m \in ignored : m <= born \/ m \in spoiled \/ Cardinality(Later(m)) >= PromptLimit

(* A message says that a check is running only while the check runs,       *)
(* unless an edit failed, the store failed or the process stopped          *)
(* meanwhile (bot.py:231-239, 275-281).                                    *)
NothingIsLeftChecking ==
    \A m \in DOMAIN chat :
        chat[m].kind = "checking" =>
            m \in spoiled \/ (task.msg = m /\ task.step \in {"work", "result"})
=============================================================================
