-------------------------- MODULE BotDialogueProofs --------------------------
(* Proofs about BotDialogue: for any names, addresses, contents of         *)
(* config.yaml and numbers of inputs and failures.                         *)
EXTENDS BotDialogue, SequenceTheorems, FiniteSetTheorems, TLAPS

-----------------------------------------------------------------------------
(* What the operators return.                                              *)

Shown == [Names -> Sites \union {None}]

LEMMA ManagedType ==
    ASSUME NEW row \in Rows \union {None}, NEW e \in BOOLEAN
    PROVE  /\ Managed(row, e) \in Sites \union {None}
           /\ Managed(row, e) = None <=> row = None
           /\ row # None => Managed(row, e).editable = e
<1>1. CASE row = None
    BY <1>1 DEF Managed
<1>2. CASE row # None
    <2>1. row \in Rows
        BY <1>2
    <2>2. Managed(row, e) \in Sites
        BY <1>2, <2>1 DEF Managed, Rows, Sites
    <2> QED
        BY <1>2, <2>2, DialogueAssumption DEF Managed
<1> QED
    BY <1>1, <1>2

LEMMA GetType ==
    ASSUME config \in Tables, telegram \in Tables, NEW n \in Names
    PROVE  /\ Get(n) \in Sites \union {None}
           /\ Get(n) = None <=> config[n] = None /\ telegram[n] = None
           /\ config[n] # None => Get(n).editable = FALSE
           /\ Get(n) # None /\ config[n] = None => Get(n).editable = TRUE
BY ManagedType DEF Get, Tables

LEMMA ViewType ==
    ASSUME rev \in [Names -> Nat], NEW kind \in Kinds, NEW shown \in Shown
    PROVE  /\ View(kind, shown) \in Views
           /\ View(kind, shown).kind = kind /\ View(kind, shown).shown = shown
BY DEF View, Views, Shown

LEMMA ShownType ==
    /\ Blank \in Shown
    /\ \A n \in Names, s \in Sites \union {None} :
          /\ Only(n, s) \in Shown
          /\ \A m \in Names : Only(n, s)[m] = IF m = n THEN s ELSE None
    /\ config \in Tables /\ telegram \in Tables => Listing \in Shown
BY GetType DEF Blank, Only, Shown, Listing

(* The views the bot writes, and what they show.                           *)
LEMMA ViewsType ==
    ASSUME config \in Tables, telegram \in Tables, rev \in [Names -> Nat]
    PROVE  /\ Text \in Views /\ Text.kind = "text" /\ Text.shown = Blank
           /\ ListView \in Views /\ ListView.kind = "list" /\ ListView.shown = Listing
           /\ \A n \in Names, s \in Sites \union {None} :
                 /\ CardView(n, s) \in Views /\ CardView(n, s).kind = "card"
                 /\ CardView(n, s).shown = Only(n, s)
           /\ \A k \in Kinds : 
                 /\ View(k, Blank) \in Views /\ View(k, Blank).kind = k
                 /\ View(k, Blank).shown = Blank
           /\ \A n \in Names, s \in Sites \union {None} :
                 /\ View("confirm", Only(n, s)) \in Views
                 /\ View("confirm", Only(n, s)).kind = "confirm"
                 /\ View("confirm", Only(n, s)).shown = Only(n, s)
BY ViewType, ShownType DEF Text, ListView, CardView, Kinds

-----------------------------------------------------------------------------
(* The inductive invariant.                                                *)

\* Orders that concern a site.
Acting == {"card", "check", "toggle", "del", "delyes"}

\* What an update is like, however long it has been waiting.
Sound(in) ==
    /\ in.msg \in 0..Len(chat)
    /\ in.do \in Adds => in.name \in Names /\ in.url \in Urls
    /\ in.do = "addsite" <=> in.do \in Adds /\ in.msg = 0
    /\ in.do \in Acting => in.name \in Names /\ in.msg # 0
    /\ in.do = "delyes" => in.name \in warned

InputInv == \A i \in 1..Len(queue) : Sound(queue[i])

\* What the handler that runs may rely on at its steps.
TaskInv ==
    task.step # "idle" =>
        /\ task.input \in Inputs /\ Sound(task.input)
        /\ task.msg \in 0..Len(chat)
        /\ IF Do \in Adds THEN task.msg = 0 ELSE At("send") \/ At("ask") \/ task.msg # 0
        /\ At("write") \/ At("commit") => 
              /\ Do \in Adds \union {"toggle", "delyes"} /\ config[Site] = None
              /\ Do = "toggle" => task.service \in Sites
        /\ At("ask") => Do = "add"
        /\ At("work") => Do \in Adds \union {"check", "checkall"}
        /\ At("result") => Do \in {"check", "checkall"}
        /\ At("answer") \/ At("edit") => Do \notin Adds
        /\ task.service # None => Do \in Adds \union Acting
        /\ task.service # None /\ Do # "delyes" => task.service = Get(Site)

\* The transaction leaves the names of config.yaml alone.
ConnInv == \A n \in Names : config[n] # None => conn[n] = disk[n]

\* A question that can be seen was asked.
AskInv ==
    \A m \in 1..Len(chat), n \in Names :
        chat[m].kind = "confirm" /\ chat[m].shown[n] # None => n \in warned

DialogueInv ==
    TypeOK /\ InputInv /\ TaskInv /\ ConnInv /\ AskInv /\ NothingIsLeftChecking

LEMMA InitInv == Init => DialogueInv
<1> SUFFICES ASSUME Init PROVE DialogueInv
    OBVIOUS
<1> USE DialogueAssumption DEF Init
<1>1. Blank \in Tables
    BY DEF Blank, Tables
<1>2. task.step = "idle" /\ Idle \in Tasks
    BY DEF Idle, Tasks, Steps
<1>3. TypeOK
    BY <1>1, <1>2 DEF TypeOK
<1>4. InputInv /\ TaskInv /\ ConnInv /\ AskInv /\ NothingIsLeftChecking
    BY <1>2 DEF InputInv, TaskInv, ConnInv, AskInv, NothingIsLeftChecking
<1> QED
    BY <1>3, <1>4 DEF DialogueInv

-----------------------------------------------------------------------------
(* What the variables are, as the provers need it.                         *)
LEMMA Types ==
    ASSUME DialogueInv
    PROVE  /\ config \in Tables /\ telegram \in Tables /\ conn \in Tables /\ disk \in Tables
           /\ rev \in [Names -> Nat]
           /\ chat \in Seq(Views) /\ Len(chat) \in Nat /\ DOMAIN chat = 1..Len(chat)
           /\ \A m \in 1..Len(chat) : chat[m] \in Views
           /\ prompts \in Seq(Nat)
           /\ queue \in Seq(Inputs) /\ Len(queue) \in Nat
           /\ \A i \in 1..Len(queue) : queue[i] \in Inputs
           /\ done \in 0..Len(queue)
           /\ task \in Tasks /\ task.step \in Steps
BY LenProperties, ElementOfSeq DEF DialogueInv, TypeOK, Tasks

(* What is sound stays so, for messages stay and so do questions.          *)
LEMMA SoundStays ==
    ASSUME NEW in \in Inputs, Sound(in), Len(chat) \in Nat, Len(chat') \in Nat,
           Len(chat) <= Len(chat'), warned \subseteq warned'
    PROVE  Sound(in)'
BY DEF Sound, Inputs

LEMMA InputsStay ==
    ASSUME DialogueInv, Len(chat') \in Nat, Len(chat) <= Len(chat'), warned \subseteq warned',
           UNCHANGED queue
    PROVE  InputInv'
<1>1. \A i \in 1..Len(queue) : Sound(queue[i])'
    BY Types, SoundStays DEF DialogueInv, InputInv
<1> QED
    BY <1>1 DEF InputInv

-----------------------------------------------------------------------------
(* The user.                                                               *)

LEMMA PostStep ==
    ASSUME DialogueInv, NEW in \in Inputs, Sound(in), Post(in)
    PROVE  DialogueInv'
<1> USE DEF Post, registry, marks
<1>1. /\ queue' \in Seq(Inputs) /\ Len(queue') = Len(queue) + 1
      /\ \A i \in 1..Len(queue') : queue'[i] = IF i = Len(queue) + 1 THEN in ELSE queue[i]
    BY Types, AppendProperties
<1>2. TypeOK'
    BY <1>1, Types DEF DialogueInv, TypeOK, Tables
<1>3. InputInv'
    BY <1>1, Types DEF DialogueInv, InputInv, Sound
<1>4. TaskInv'
    BY DEF DialogueInv, TaskInv, Sound, At, Do, Site, Get
<1>5. ConnInv' /\ AskInv' /\ NothingIsLeftChecking'
    BY DEF DialogueInv, ConnInv, AskInv, NothingIsLeftChecking
<1> QED
    BY <1>2, <1>3, <1>4, <1>5 DEF DialogueInv

LEMMA UserStep ==
    ASSUME DialogueInv, User
    PROVE  DialogueInv'
<1> USE DialogueAssumption DEF Adds, Orders, Acting
<1>1. CASE Command
    <2>1. \A do \in {"menu", "list", "checkall", "add"} :
             /\ Input(do, 0, None, None) \in Inputs
             /\ Sound(Input(do, 0, None, None))
        BY Types DEF Input, Inputs, Sound
    <2>2. \A n \in Names, u \in Urls :
             /\ Input("addsite", 0, n, u) \in Inputs
             /\ Sound(Input("addsite", 0, n, u))
        BY Types DEF Input, Inputs, Sound
    <2> QED
        BY <1>1, <2>1, <2>2, PostStep DEF Command
<1>2. CASE Press
    <2>1. PICK m \in DOMAIN chat : \E b \in Buttons(chat[m]) : Post(Input(b[1], m, b[2], None))
        BY <1>2 DEF Press
    <2>2. PICK b \in Buttons(chat[m]) : Post(Input(b[1], m, b[2], None))
        BY <2>1
    <2>3. m \in 1..Len(chat) /\ chat[m] \in Views
        BY Types
    <2>4. /\ b[1] \in Orders \ Adds /\ b[2] \in Names \union {None}
          /\ b[1] \in Acting => b[2] \in Names /\ chat[m].shown[b[2]] # None
          /\ b[1] = "delyes" => chat[m].kind = "confirm"
        BY <2>3 DEF Buttons, Views, Controls
    <2>5. Input(b[1], m, b[2], None) \in Inputs
        BY <2>3, <2>4, Types DEF Input, Inputs, Views
    <2>6. Sound(Input(b[1], m, b[2], None))
        BY <2>3, <2>4, Types DEF Input, Sound, DialogueInv, AskInv
    <2> QED
        BY <2>2, <2>5, <2>6, PostStep
<1>3. CASE Reply
    <2>1. PICK m \in DOMAIN chat, n \in Names, u \in Urls : Post(Input("reply", m, n, u))
        BY <1>3 DEF Reply
    <2>2. m \in 1..Len(chat) /\ chat[m] \in Views
        BY Types
    <2>3. Input("reply", m, n, u) \in Inputs
        BY <2>2, Types DEF Input, Inputs, Views
    <2>4. Sound(Input("reply", m, n, u))
        BY <2>2, Types DEF Input, Sound
    <2> QED
        BY <2>1, <2>3, <2>4, PostStep
<1> QED
    BY <1>1, <1>2, <1>3 DEF User

-----------------------------------------------------------------------------
(* The updates.                                                            *)

LEMMA ConfirmStep ==
    ASSUME DialogueInv, Confirm
    PROVE  DialogueInv'
<1> USE DEF Confirm, registry, bounds, marks
<1> DEFINE rest == SubSeq(queue, done + 1, Len(queue))
<1>1. /\ rest \in Seq(Inputs) /\ Len(rest) \in Nat
      /\ \A i \in 1..Len(rest) : done + i \in 1..Len(queue) /\ rest[i] = queue[done + i]
    <2>1. \A i \in done + 1..Len(queue) : queue[i] \in Inputs
        BY Types
    <2>2. /\ rest \in Seq(Inputs)
          /\ Len(rest) = IF done + 1 <= Len(queue) THEN Len(queue) - (done + 1) + 1 ELSE 0
          /\ \A i \in 1..Len(queue) - (done + 1) + 1 : rest[i] = queue[done + 1 + i - 1]
        BY <2>1, Types, SubSeqProperties
    <2>3. done \in Nat /\ Len(queue) \in Nat /\ done <= Len(queue)
        BY Types
    <2> HIDE DEF rest
    <2> QED
        BY <2>2, <2>3
<1>2. TypeOK'
    BY <1>1, Types DEF DialogueInv, TypeOK, Tables
<1>3. InputInv'
    BY <1>1, Types DEF DialogueInv, InputInv, Sound
<1>4. TaskInv' /\ ConnInv' /\ AskInv' /\ NothingIsLeftChecking'
    BY DEF DialogueInv, TaskInv, Idle, ConnInv, AskInv, NothingIsLeftChecking
<1> QED
    BY <1>2, <1>3, <1>4 DEF DialogueInv

(* The task a handler starts with.                                         *)
LEMMA StartStep ==
    ASSUME DialogueInv, Handle, task' \in Tasks, TaskInv'
    PROVE  DialogueInv'
<1> USE DEF Handle, registry, bounds
<1>1. TypeOK'
    BY Types DEF DialogueInv, TypeOK, Tables
<1>2. InputInv'
    BY DEF DialogueInv, InputInv, Sound
<1>3. ConnInv' /\ AskInv'
    BY DEF DialogueInv, ConnInv, AskInv
<1>4. NothingIsLeftChecking'
    BY DEF DialogueInv, NothingIsLeftChecking, Idle
<1> QED
    BY <1>1, <1>2, <1>3, <1>4 DEF DialogueInv

LEMMA BeginStep ==
    ASSUME DialogueInv, Begin
    PROVE  DialogueInv'
<1>0. Handle
    BY DEF Begin, BeginCommand, BeginAdd, Ignore, BeginPress
<1> PICK in \in Inputs : in = queue[done + 1] /\ Sound(in)
    BY <1>0, Types DEF Handle, DialogueInv, InputInv
<1>1. Handle /\ in \in Inputs /\ Sound(in)
    BY <1>0
<1>2. UNCHANGED <<config, telegram, chat, warned>>
    BY <1>1 DEF Handle, registry
<1> USE <1>1, <1>2, DialogueAssumption
<1>3. CASE BeginCommand(in)
    <2>1. task' \in Tasks
        BY <1>3 DEF BeginCommand, Start, Tasks, Steps, Inputs
    <2>2. TaskInv'
        BY <1>3 DEF BeginCommand, Start, TaskInv, Sound, At, Do, Site, Adds
    <2> QED
        BY <2>1, <2>2, StartStep
<1>4. CASE BeginAdd(in)
    <2>1. task' \in Tasks
        BY <1>4 DEF BeginAdd, Start, Tasks, Steps, Inputs
    <2>2. in.name \in Names /\ (Addable(in.name, in.url) => config[in.name] = None)
        BY <1>4, GetType, Types DEF BeginAdd, Sound, Adds, Addable
    <2>3. TaskInv'
        BY <1>4, <2>2, Types DEF BeginAdd, Start, TaskInv, Sound, At, Do, Site, Adds
    <2> QED
        BY <2>1, <2>3, StartStep
<1>5. CASE Ignore(in)
    <2>1. task' \in Tasks /\ TaskInv'
        BY <1>5, Types DEF Ignore, Handle, Idle, TaskInv
    <2> QED
        BY <2>1, StartStep
<1>6. CASE BeginPress(in)
    <2> DEFINE s == IF in.do \in {"check", "toggle", "del", "delyes"} THEN Get(in.name) ELSE None
    <2>1. s \in Sites \union {None}
        <3>1. CASE in.do \in {"check", "toggle", "del", "delyes"}
            <4>1. in.name \in Names
                BY <3>1 DEF Sound, Acting
            <4> QED
                BY <4>1, <3>1, GetType, Types
        <3> QED
            BY <3>1
    <2>2. in.do \in {"toggle", "delyes"} /\ ~Refused(s) =>
             s \in Sites /\ in.name \in Names /\ config[in.name] = None
        BY <1>6, <2>1, GetType, Types DEF Sound, Acting, Refused
    <2>3. task' = [step |-> IF in.do \in {"toggle", "delyes"} /\ ~Refused(s)
                            THEN "write" ELSE "answer",
                   input |-> in, msg |-> in.msg, service |-> s]
        BY <1>6 DEF BeginPress, Start
    <2>4. s # None => s = Get(in.name) /\ in.do \in Acting
        BY DEF Acting
    <2>5. in.msg \in 1..Len(chat) /\ in.do \notin Adds
        BY <1>6, Types DEF BeginPress, Sound, Adds, Inputs
    <2> HIDE DEF s
    <2>6. task' \in Tasks
        BY <2>1, <2>3, <2>5, Types DEF Tasks, Steps
    <2>7. TaskInv'
        <3>1. Sound(in)'
            BY DEF Sound
        <3>2. s # None => s = Get(in.name)'
            BY <2>4 DEF Get
        <3>3. /\ task'.input = in /\ task'.msg = in.msg /\ task'.service = s
              /\ task'.step \in {"write", "answer"}
              /\ task'.step = "write" => in.do \in {"toggle", "delyes"} /\ ~Refused(s)
            BY <2>3
        <3> QED
            BY <3>1, <3>2, <3>3, <2>1, <2>2, <2>4, <2>5, Types DEF TaskInv, At, Do, Site
    <2> QED
        BY <2>6, <2>7, StartStep
<1> QED
    BY <1>3, <1>4, <1>5, <1>6 DEF Begin

-----------------------------------------------------------------------------
(* Messages.                                                               *)

LEMMA PutView ==
    ASSUME DialogueInv, NEW v \in Views, Put(v), task.msg \in 1..Len(chat)
    PROVE  /\ chat' \in Seq(Views) /\ Len(chat') = Len(chat) /\ DOMAIN chat' = 1..Len(chat)
           /\ \A m \in 1..Len(chat) : chat'[m] = IF m = task.msg THEN v ELSE chat[m]
           /\ AskInv' /\ warned \subseteq warned'
<1>1. /\ chat' \in Seq(Views) /\ Len(chat') = Len(chat)
      /\ \A m \in 1..Len(chat) : chat'[m] = IF m = task.msg THEN v ELSE chat[m]
    BY Types, ExceptSeq DEF Put
<1>2. DOMAIN chat' = 1..Len(chat)
    BY <1>1, LenProperties
<1>3. \A n \in Names : v.kind = "confirm" /\ v.shown[n] # None => n \in warned'
    BY DEF Put
<1>4. AskInv' /\ warned \subseteq warned'
    BY <1>1, <1>3 DEF DialogueInv, AskInv, Put
<1> QED
    BY <1>1, <1>2, <1>4

LEMMA AppendView ==
    ASSUME DialogueInv, NEW v \in Views, v.kind # "confirm", chat' = Append(chat, v),
           UNCHANGED warned
    PROVE  /\ chat' \in Seq(Views) /\ Len(chat') = Len(chat) + 1
           /\ DOMAIN chat' = 1..Len(chat) + 1
           /\ \A m \in 1..Len(chat) : chat'[m] = chat[m]
           /\ chat'[Len(chat) + 1] = v
           /\ AskInv'
<1>1. /\ chat' \in Seq(Views) /\ Len(chat') = Len(chat) + 1
      /\ \A m \in 1..Len(chat) : chat'[m] = chat[m]
      /\ chat'[Len(chat) + 1] = v
    BY Types, AppendProperties
<1>2. DOMAIN chat' = 1..Len(chat) + 1
    BY <1>1, LenProperties
<1>3. AskInv'
    BY <1>1, Types DEF DialogueInv, AskInv
<1> QED
    BY <1>1, <1>2, <1>3

LEMMA PendingType ==
    ASSUME DialogueInv, At("edit") \/ At("result")
    PROVE  /\ Pending \in Views
           /\ Pending.kind = "checking" => At("edit") /\ Checking
           /\ task.msg \in 1..Len(chat) /\ task.input \in Inputs
           /\ task.service \in Sites \union {None}
<1>1. /\ task.input \in Inputs /\ task.msg \in 1..Len(chat)
      /\ task.service \in Sites \union {None}
      /\ Do \in Acting => Site \in Names
    BY Types DEF DialogueInv, TaskInv, At, Tasks, Sound, Do, Site, Adds
<1>2. CASE At("edit")
    <2>1. Edited \in Views /\ (Edited.kind = "checking" => Checking)
        <3>1. Do = "card" => Get(Site) \in Sites \union {None}
            BY <1>1, GetType, Types DEF Acting
        <3> QED
            BY <1>1, <3>1, ViewsType, Types DEF Edited, Acting, Kinds
    <2> QED
        BY <1>1, <1>2, <2>1 DEF Pending
<1>3. CASE ~At("edit")
    <2>1. Do \in {"check", "checkall"}
        BY <1>3 DEF DialogueInv, TaskInv, At
    <2>2. Checked \in Views /\ Checked.kind # "checking"
        BY <1>1, <2>1, ViewsType, Types DEF Checked, Acting
    <2> QED
        BY <1>1, <1>3, <2>2 DEF Pending
<1> QED
    BY <1>2, <1>3

LEMMA SentType ==
    ASSUME DialogueInv, At("send") \/ At("ask")
    PROVE  /\ Sent \in Views /\ Sent.kind # "confirm"
           /\ Sent.kind = "checking" => At("send") /\ Do = "checkall"
           /\ task.input \in Inputs
<1>1. /\ task.input \in Inputs /\ task.service \in Sites \union {None}
      /\ Do \in Adds => Site \in Names
    BY Types DEF DialogueInv, TaskInv, At, Tasks, Sound, Do, Site
<1>2. /\ \A k \in {"prompt", "menu", "checking"} :
            View(k, Blank) \in Views /\ View(k, Blank).kind = k
      /\ ListView \in Views /\ ListView.kind = "list"
      /\ Text \in Views /\ Text.kind = "text"
    BY ViewsType, Types DEF Kinds
<1>3. Do \in Adds /\ task.service # None =>
          /\ CardView(Site, task.service) \in Views
          /\ CardView(Site, task.service).kind = "card"
    BY <1>1, ViewsType, Types
<1>4. /\ At("ask") => Do = "add" /\ ~At("send")
      /\ ~At("ask") => At("send")
    BY DEF DialogueInv, TaskInv, At
<1> QED
    BY <1>1, <1>2, <1>3, <1>4 DEF Sent, Adds

(* What the handler knows stays true while the list of sites does.         *)
LEMMA TaskStays ==
    ASSUME DialogueInv, task.step # "idle", UNCHANGED <<config, telegram>>,
           Len(chat') \in Nat, Len(chat) <= Len(chat'), warned \subseteq warned',
           NEW step \in {"edit", "work", "result", "send", "ask", "commit"},
           task' = [task EXCEPT !.step = step],
           Do \in Adds => step \in {"send", "commit"},
           step = "edit" => Do \notin Adds,
           step = "ask" => Do = "add",
           step = "work" => Do \in {"check", "checkall"},
           step = "result" => Do \in {"check", "checkall"},
           step = "commit" => At("write"),
           step = "edit" \/ step = "work" \/ step = "result" => task.msg # 0
    PROVE  task' \in Tasks /\ TaskInv'
<1>1. /\ task'.step = step /\ task'.input = task.input /\ task'.msg = task.msg
      /\ task'.service = task.service
      /\ task' \in Tasks
    BY Types DEF Tasks, Steps
<1>2. task.input \in Inputs /\ Sound(task.input)
    BY DEF DialogueInv, TaskInv
<1>3. Sound(task.input)'
    BY <1>1, <1>2, Types DEF Sound, Inputs
<1>4. Do' = Do /\ Site' = Site /\ Get(Site)' = Get(Site)
    BY <1>1 DEF Do, Site, Get
<1>5. TaskInv'
    BY <1>1, <1>2, <1>3, <1>4, Types DEF DialogueInv, TaskInv, At
<1> QED
    BY <1>1, <1>5

-----------------------------------------------------------------------------
(* The steps of a handler.                                                 *)

(* A handler that has ended, whatever became of its messages.              *)
LEMMA EndStep ==
    ASSUME DialogueInv, task' = Idle, UNCHANGED <<config, telegram, disk, rev, updates>>,
           conn' \in {conn, disk}, prompts' \in Seq(Nat),
           chat' \in Seq(Views), Len(chat) <= Len(chat'), warned \subseteq warned',
           AskInv', NothingIsLeftChecking'
    PROVE  DialogueInv'
<1> USE DEF updates
<1>1. Len(chat') \in Nat
    BY LenProperties
<1>2. TypeOK'
    BY Types DEF DialogueInv, TypeOK, Tables, Idle, Tasks, Steps
<1>3. InputInv' /\ TaskInv'
    BY <1>1, InputsStay DEF TaskInv, Idle
<1>4. ConnInv'
    BY DEF DialogueInv, ConnInv
<1> QED
    BY <1>2, <1>3, <1>4 DEF DialogueInv

(* A handler that goes on.                                                 *)
LEMMA GoOn ==
    ASSUME DialogueInv, task' \in Tasks, TaskInv', UNCHANGED <<config, telegram, disk, rev, updates>>,
           conn' \in Tables, ConnInv', prompts' \in Seq(Nat),
           chat' \in Seq(Views), Len(chat) <= Len(chat'), warned \subseteq warned',
           AskInv', NothingIsLeftChecking'
    PROVE  DialogueInv'
<1> USE DEF updates
<1>1. Len(chat') \in Nat
    BY LenProperties
<1>2. TypeOK'
    BY Types DEF DialogueInv, TypeOK, Tables
<1> QED
    BY <1>1, <1>2, InputsStay DEF DialogueInv

LEMMA AnswerStep ==
    ASSUME DialogueInv, Answer
    PROVE  DialogueInv'
<1> USE DEF Answer, registry, marks
<1> DEFINE step == CASE Do = "add" -> "ask"
                     [] Do \in {"toggle", "del"} /\ Refused(task.service) -> "idle"
                     [] Do = "delyes" /\ task.service # None /\ Refused(task.service) -> "idle"
                     [] OTHER -> "edit"
<1>1. At("answer") /\ Do \notin Adds /\ task.msg # 0 /\ Proceed(step)
    BY DEF At, DialogueInv, TaskInv
<1>2. step \in {"idle", "ask", "edit"} /\ (step = "ask" => Do = "add")
    OBVIOUS
<1> HIDE DEF step
<1>3. AskInv' /\ ConnInv' /\ NothingIsLeftChecking'
    BY <1>1 DEF DialogueInv, AskInv, ConnInv, NothingIsLeftChecking, At
<1>4. CASE step = "idle"
    BY <1>1, <1>3, <1>4, EndStep, Types DEF Proceed
<1>5. CASE step # "idle"
    <2>1. task' = [task EXCEPT !.step = step] /\ task.step # "idle"
        BY <1>1, <1>5 DEF Proceed, At
    <2>2. \E s \in {"ask", "edit"} : step = s
        BY <1>2, <1>5
    <2>3. task' \in Tasks /\ TaskInv'
        BY <1>1, <1>2, <2>1, <2>2, TaskStays, Types
    <2> QED
        BY <1>3, <2>3, GoOn, Types
<1> QED
    BY <1>4, <1>5

LEMMA EditStep ==
    ASSUME DialogueInv, Edit
    PROVE  DialogueInv'
<1> USE DEF Edit, registry
<1>1. PICK v \in Views : v = Pending
    BY PendingType
<1>2. /\ chat' \in Seq(Views) /\ Len(chat') = Len(chat) /\ DOMAIN chat' = 1..Len(chat)
      /\ \A m \in 1..Len(chat) : chat'[m] = IF m = task.msg THEN v ELSE chat[m]
      /\ AskInv' /\ warned \subseteq warned'
    BY <1>1, PendingType, PutView
<1>3. ConnInv'
    BY DEF DialogueInv, ConnInv
<1>4. v.kind = "checking" => At("edit") /\ Checking
    BY <1>1, PendingType
<1>5. task.step # "idle" /\ task.msg \in 1..Len(chat) /\ task.msg # 0
    BY PendingType, Types DEF At
<1>6. \A m \in 1..Len(chat) : chat[m].kind = "checking" /\ m # task.msg => m \in spoiled
    BY Types DEF DialogueInv, NothingIsLeftChecking
<1>7. CASE At("edit") /\ Checking
    <2>1. task' = [task EXCEPT !.step = "work"]
        BY <1>7 DEF Proceed
    <2>2. Do \in {"check", "checkall"}
        BY <1>7 DEF Checking
    <2>3. task' \in Tasks /\ TaskInv'
        BY <1>2, <1>5, <2>1, <2>2, TaskStays, Types DEF Adds
    <2>4. task'.step = "work" /\ task'.msg = task.msg
        BY <2>1, Types DEF Tasks
    <2>5. NothingIsLeftChecking'
        BY <1>2, <1>6, <2>4 DEF NothingIsLeftChecking
    <2> QED
        BY <1>2, <1>3, <2>3, <2>5, GoOn, Types
<1>8. CASE ~(At("edit") /\ Checking)
    <2>1. task' = Idle
        BY <1>8 DEF Proceed
    <2>2. NothingIsLeftChecking'
        BY <1>2, <1>4, <1>6, <1>8 DEF NothingIsLeftChecking
    <2> QED
        BY <1>2, <2>1, <2>2, EndStep, Types
<1> QED
    BY <1>7, <1>8

LEMMA EditFailsStep ==
    ASSUME DialogueInv, EditFails
    PROVE  DialogueInv'
<1> USE DEF EditFails, Fail, Fault, registry
<1>1. PICK v \in Views : v = Pending
    BY PendingType
<1>2. task.msg \in 1..Len(chat) /\ task.msg # 0
    BY PendingType, Types
<1>3. /\ chat' \in Seq(Views) /\ Len(chat') = Len(chat) /\ DOMAIN chat' = 1..Len(chat)
      /\ \A m \in 1..Len(chat) : m # task.msg => chat'[m] = chat[m]
      /\ AskInv' /\ warned \subseteq warned'
    <2>1. CASE Put(Pending)
        BY <1>1, <1>2, <2>1, PutView
    <2>2. CASE UNCHANGED <<chat, warned>>
        BY <2>2, Types DEF DialogueInv, AskInv
    <2> QED
        BY <2>1, <2>2
<1>4. \A m \in 1..Len(chat) : chat[m].kind = "checking" /\ m # task.msg => m \in spoiled
    BY Types DEF DialogueInv, NothingIsLeftChecking
<1>5. NothingIsLeftChecking'
    BY <1>2, <1>3, <1>4 DEF NothingIsLeftChecking
<1> QED
    BY <1>3, <1>5, EndStep, Types

LEMMA SendStep ==
    ASSUME DialogueInv, Send
    PROVE  DialogueInv'
<1> USE DEF Send, registry, marks
<1>1. PICK v \in Views : v = Sent
    BY SentType
<1>2. /\ chat' \in Seq(Views) /\ Len(chat') = Len(chat) + 1
      /\ DOMAIN chat' = 1..Len(chat) + 1
      /\ \A m \in 1..Len(chat) : chat'[m] = chat[m]
      /\ chat'[Len(chat) + 1] = v
      /\ AskInv'
    BY <1>1, SentType, AppendView
<1>3. /\ task.step # "idle" /\ task.input \in Inputs
      /\ v.kind = "checking" => At("send") /\ Do = "checkall"
    BY <1>1, SentType DEF At
<1>4. ConnInv'
    BY DEF DialogueInv, ConnInv
<1>5. prompts' \in Seq(Nat)
    <2>1. Len(chat') \in Nat
        BY <1>2, Types
    <2>2. prompts # <<>> => Tail(prompts) \in Seq(Nat)
        BY Types, HeadTailProperties
    <2>3. prompts = <<>> => Len(prompts) < PromptLimit
        BY DialogueAssumption
    <2> QED
        BY <2>1, <2>2, <2>3, Types, AppendProperties DEF Remembered
<1>6. \A m \in 1..Len(chat) : chat[m].kind = "checking" => m \in spoiled
    BY Types DEF DialogueInv, NothingIsLeftChecking, At
<1>7. CASE At("send") /\ Do = "checkall"
    <2>1. task' = [task EXCEPT !.step = "work", !.msg = Len(chat) + 1]
        BY <1>2, <1>7
    <2>2. /\ task' \in Tasks /\ task'.step = "work" /\ task'.msg = Len(chat) + 1
          /\ task'.input = task.input /\ task'.service = task.service
        <3>1. task \in Tasks /\ Len(chat) + 1 \in Nat
            BY Types
        <3> QED
            BY <2>1, <3>1 DEF Tasks, Steps
    <2>3. task'.input \in Inputs /\ Sound(task.input)
        BY <1>3, <2>2 DEF DialogueInv, TaskInv
    <2>4. Sound(task.input)'
        BY <1>2, <1>3, <2>2, <2>3, Types DEF Sound, Inputs
    <2>5. task.service = None
        BY <1>3, <1>7 DEF DialogueInv, TaskInv, At, Adds, Acting
    <2>6. Do' = Do /\ Do \notin Adds /\ Len(chat) + 1 \in 0..Len(chat') /\ Len(chat) + 1 # 0
        BY <1>2, <1>7, <2>2, Types DEF Do, Adds
    <2>7. TaskInv'
        BY <1>7, <2>2, <2>3, <2>4, <2>5, <2>6 DEF TaskInv, At
    <2>8. NothingIsLeftChecking'
        BY <1>2, <1>6, <2>2 DEF NothingIsLeftChecking
    <2> QED
        BY <1>2, <1>4, <1>5, <2>2, <2>7, <2>8, GoOn, Types
<1>8. CASE ~(At("send") /\ Do = "checkall")
    <2>1. task' = Idle
        BY <1>8
    <2>2. NothingIsLeftChecking'
        BY <1>2, <1>3, <1>6, <1>8 DEF NothingIsLeftChecking
    <2> QED
        BY <1>2, <1>5, <2>1, <2>2, EndStep, Types
<1> QED
    BY <1>7, <1>8

LEMMA SendAgainStep ==
    ASSUME DialogueInv, SendAgain
    PROVE  DialogueInv'
<1> USE DEF SendAgain, registry
<1>1. PICK v \in Views : v = Sent
    BY SentType
<1>2. /\ chat' \in Seq(Views) /\ Len(chat') = Len(chat) + 1
      /\ DOMAIN chat' = 1..Len(chat) + 1
      /\ \A m \in 1..Len(chat) : chat'[m] = chat[m]
      /\ AskInv'
    BY <1>1, SentType, AppendView
<1>3. ConnInv'
    BY DEF DialogueInv, ConnInv
<1>4. NothingIsLeftChecking'
    BY <1>2, Types DEF DialogueInv, NothingIsLeftChecking
<1>5. task' \in Tasks /\ TaskInv'
    <2>1. task.input \in Inputs /\ Sound(task.input)
        BY SentType DEF DialogueInv, TaskInv, At
    <2>2. Sound(task.input)'
        BY <1>2, <2>1, Types DEF Sound, Inputs
    <2>3. Do' = Do /\ Site' = Site /\ Get(Site)' = Get(Site)
        BY DEF Do, Site, Get
    <2> QED
        BY <1>2, <2>1, <2>2, <2>3, Types DEF DialogueInv, TaskInv, At
<1> QED
    BY <1>2, <1>3, <1>4, <1>5, GoOn, Types

LEMMA SendFailsStep ==
    ASSUME DialogueInv, SendFails
    PROVE  DialogueInv'
<1> USE DEF SendFails, Fail, registry
<1>1. AskInv' /\ NothingIsLeftChecking'
    BY DEF DialogueInv, AskInv, NothingIsLeftChecking, At
<1> QED
    BY <1>1, EndStep, Types

LEMMA WorkStep ==
    ASSUME DialogueInv, Work
    PROVE  DialogueInv'
<1> USE DEF Work, registry, marks
<1>1. /\ At("work") /\ task.step # "idle" /\ Proceed(AfterWork)
      /\ Do \in Adds \union {"check", "checkall"}
      /\ IF Do \in Adds THEN task.msg = 0 ELSE task.msg # 0
    BY DEF At, DialogueInv, TaskInv
<1>2. AfterWork = IF Do \in Adds THEN "send" ELSE "result"
    BY DEF AfterWork
<1>3. task' = [task EXCEPT !.step = AfterWork]
    BY <1>1, <1>2 DEF Proceed
<1>4. \E s \in {"send", "result"} : AfterWork = s
    BY <1>2
<1>5. task' \in Tasks /\ TaskInv'
    BY <1>1, <1>2, <1>3, <1>4, TaskStays, Types
<1>6. task'.step = AfterWork /\ task'.msg = task.msg
    BY <1>3, Types DEF Tasks
<1>7. AskInv' /\ ConnInv' /\ NothingIsLeftChecking'
    BY <1>1, <1>2, <1>6, Types DEF DialogueInv, AskInv, ConnInv, NothingIsLeftChecking
<1> QED
    BY <1>5, <1>7, GoOn, Types

-----------------------------------------------------------------------------
(* Changes of the list.                                                    *)

(* A handler changes a site only if it is not one of config.yaml.          *)
LEMMA Changing ==
    ASSUME DialogueInv, At("write") \/ At("commit")
    PROVE  /\ task.step # "idle" /\ task.input \in Inputs /\ Sound(task.input)
           /\ Do \in Adds \union {"toggle", "delyes"}
           /\ Site \in Names /\ config[Site] = None
           /\ Do \in Adds => task.input.url \in Urls /\ task.msg = 0
           /\ Do \notin Adds => task.msg \in 1..Len(chat)
           /\ Do = "toggle" => task.service \in Sites
           /\ task.service \in Sites \union {None}
BY Types DEF DialogueInv, TaskInv, At, Sound, Do, Site, Adds, Acting, Tasks

LEMMA WriteStep ==
    ASSUME DialogueInv, Write
    PROVE  DialogueInv'
<1> USE DEF Write, bounds, marks
<1>1. task' = [task EXCEPT !.step = "commit"] /\ At("write")
    BY DEF Proceed
<1>2. Row \in Rows \union {None}
    <2>1. conn[Site] \in Rows \union {None}
        BY Changing, Types DEF Tables
    <2>2. CASE Do = "toggle" /\ conn[Site] # None
        BY <2>1, <2>2, Changing DEF Row, Rows, Sites, Adds
    <2>3. CASE ~(Do = "toggle" /\ conn[Site] # None)
        BY <2>3, Changing DEF Row, Rows
    <2> QED
        BY <2>2, <2>3
<1>3. /\ conn' \in Tables
      /\ \A n \in Names : n # Site => conn'[n] = conn[n]
    BY <1>2, Changing, Types DEF Tables
<1>4. ConnInv'
    BY <1>3, Changing DEF DialogueInv, ConnInv
<1>5. task' \in Tasks /\ TaskInv'
    BY <1>1, Changing, TaskStays, Types
<1>6. task'.step = "commit"
    BY <1>1, Types DEF Tasks
<1>7. AskInv' /\ NothingIsLeftChecking'
    BY <1>1, <1>6, Types DEF DialogueInv, AskInv, NothingIsLeftChecking, At
<1> QED
    BY <1>3, <1>4, <1>5, <1>7, GoOn, Types

LEMMA CommitStep ==
    ASSUME DialogueInv, Commit
    PROVE  DialogueInv'
<1> USE DEF Commit, updates, bounds, marks
<1> DEFINE next == IF Do \in Adds THEN "work" ELSE "answer"
<1>1. Entry \in Rows \union {None}
    BY Changing DEF Entry, Rows, Sites, Adds
<1>2. Updated \in Sites \union {None}
    BY <1>1, Changing, ManagedType DEF Updated
<1>3. /\ telegram' \in Tables /\ rev' \in [Names -> Nat] /\ disk' \in Tables
      /\ telegram'[Site] = Entry
    BY <1>1, Changing, Types DEF Tables, Committed
<1>4. /\ task' \in Tasks /\ task'.input = task.input /\ task'.msg = task.msg
      /\ task'.step = next /\ task'.service = Updated
    BY <1>2, Types DEF Tasks, Steps
<1>5. TypeOK'
    BY <1>3, <1>4, Types DEF DialogueInv, TypeOK, Tables
<1>6. InputInv'
    BY InputsStay, Types
<1>7. Do' = Do /\ Site' = Site
    BY <1>4 DEF Do, Site
<1>8. Do # "delyes" => Updated = Get(Site)'
    BY <1>3, <1>7, Changing DEF Updated, Get
<1>9. Sound(task.input)'
    BY <1>4, Changing DEF Sound
<1>10. TaskInv'
    BY <1>4, <1>7, <1>8, <1>9, Changing, Types DEF TaskInv, At, Adds, Acting
<1>11. ConnInv'
    BY DEF ConnInv, Committed
<1>12. AskInv' /\ NothingIsLeftChecking'
    BY DEF DialogueInv, AskInv, NothingIsLeftChecking, At
<1> QED
    BY <1>5, <1>6, <1>10, <1>11, <1>12 DEF DialogueInv

LEMMA StoreFailsStep ==
    ASSUME DialogueInv, StoreError \/ InsertClashes
    PROVE  DialogueInv'
<1> USE DEF StoreError, InsertClashes, Fail, Fault, registry, bounds
<1>1. task' = Idle /\ conn' \in {conn, disk} /\ UNCHANGED <<config, telegram, disk, rev, updates>>
    OBVIOUS
<1>2. AskInv' /\ NothingIsLeftChecking'
    BY Types DEF DialogueInv, AskInv, NothingIsLeftChecking, At, Tasks
<1> QED
    BY <1>1, <1>2, EndStep, Types

LEMMA OtherStep ==
    ASSUME DialogueInv, OtherCommit \/ OtherRollback
    PROVE  DialogueInv'
<1> USE DEF OtherCommit, OtherRollback, Fault, updates, marks
<1>1. /\ conn' = disk' /\ conn' \in {conn, disk}
      /\ UNCHANGED <<config, telegram, rev, chat, prompts, updates, task, marks>>
    OBVIOUS
<1>2. TypeOK'
    BY <1>1, Types DEF DialogueInv, TypeOK, Tables
<1>3. InputInv' /\ TaskInv'
    BY <1>1 DEF DialogueInv, InputInv, TaskInv, Sound, At, Do, Site, Get
<1>4. ConnInv' /\ AskInv' /\ NothingIsLeftChecking'
    BY <1>1 DEF DialogueInv, ConnInv, AskInv, NothingIsLeftChecking
<1> QED
    BY <1>2, <1>3, <1>4 DEF DialogueInv

LEMMA RestartStep ==
    ASSUME DialogueInv, Restart
    PROVE  DialogueInv'
<1> USE DEF Restart, Fault
<1>1. config' \in Tables /\ telegram' \in Tables /\ rev' \in [Names -> Nat]
    <2>1. config' \in Tables
        BY DialogueAssumption
    <2>2. telegram' \in Tables
        BY <2>1, Types DEF Loaded, Tables
    <2> QED
        BY <2>1, <2>2, Types
<1>2. queue' \in Seq(Inputs) /\ done' \in 0..Len(queue')
    <2>1. queue' = queue \/ (queue' = <<>> /\ queue' \in Seq(Inputs) /\ Len(queue') = 0)
        BY EmptySeq
    <2> QED
        BY <2>1, Types
<1>3. TypeOK'
    BY <1>1, <1>2, Types DEF TypeOK, Idle, Tasks, Steps, Tables
<1>4. InputInv'
    <2>1. CASE queue' = queue
        BY <2>1, InputsStay, Types
    <2>2. CASE queue' = <<>>
        BY <2>2 DEF InputInv
    <2> QED
        BY <2>1, <2>2
<1>5. TaskInv' /\ ConnInv' /\ AskInv' /\ NothingIsLeftChecking'
    BY Types DEF DialogueInv, TaskInv, ConnInv, AskInv, NothingIsLeftChecking, Idle
<1> QED
    BY <1>3, <1>4, <1>5 DEF DialogueInv

-----------------------------------------------------------------------------
(* The results.                                                            *)

LEMMA StepInv == DialogueInv /\ [Next]_vars => DialogueInv'
<1> SUFFICES ASSUME DialogueInv, [Next]_vars
             PROVE  DialogueInv'
    OBVIOUS
<1>1. CASE User
    BY <1>1, UserStep
<1>2. CASE Confirm
    BY <1>2, ConfirmStep
<1>3. CASE Begin
    BY <1>3, BeginStep
<1>4. CASE Answer
    BY <1>4, AnswerStep
<1>5. CASE Edit \/ EditFails
    BY <1>5, EditStep, EditFailsStep
<1>6. CASE Send \/ SendAgain \/ SendFails
    BY <1>6, SendStep, SendAgainStep, SendFailsStep
<1>7. CASE Work
    BY <1>7, WorkStep
<1>8. CASE Write \/ Commit
    BY <1>8, WriteStep, CommitStep
<1>9. CASE StoreError \/ InsertClashes
    BY <1>9, StoreFailsStep
<1>10. CASE OtherCommit \/ OtherRollback
    BY <1>10, OtherStep
<1>11. CASE Restart
    BY <1>11, RestartStep
<1>12. CASE UNCHANGED vars
    BY <1>12 DEF vars, registry, updates, bounds, marks, DialogueInv, TypeOK, InputInv, TaskInv,
                 Sound, At, Do, Site, Get, ConnInv, AskInv, NothingIsLeftChecking
<1> QED
    BY <1>1, <1>2, <1>3, <1>4, <1>5, <1>6, <1>7, <1>8, <1>9, <1>10, <1>11, <1>12 DEF Next, Step

LEMMA Inductive == Spec => []DialogueInv
BY InitInv, StepInv, PTL DEF Spec

(* Every variable of the dialogue holds a value of its kind.               *)
THEOREM DialogueTypeCorrect == Spec => []TypeOK
<1>1. DialogueInv => TypeOK
    BY DEF DialogueInv
<1> QED
    BY <1>1, Inductive, PTL

(* A message says that a check is running only while the check runs,       *)
(* unless an edit failed, the store failed or the process stopped          *)
(* meanwhile (bot.py:231-239, 275-281).                                    *)
THEOREM NoLostPlaceholder == Spec => []NothingIsLeftChecking
<1>1. DialogueInv => NothingIsLeftChecking
    BY DEF DialogueInv
<1> QED
    BY <1>1, Inductive, PTL

(* No button or command touches a row whose name config.yaml has taken     *)
(* (registry.py:155-163).                                                  *)
THEOREM ConfigUntouched == Spec => ConfigIsReadOnly
<1> DEFINE A == \A n \in Names : config[n] # None => conn'[n] = conn[n]
<1>1. DialogueInv /\ [Next]_vars => [A]_vars
    <2> SUFFICES ASSUME DialogueInv, Next
                 PROVE  A
        BY DEF vars
    <2>1. CASE UNCHANGED conn
        BY <2>1
    <2>2. CASE conn' \in {conn, disk}
        BY <2>2 DEF DialogueInv, ConnInv
    <2>3. CASE Write
        BY <2>3, Changing, Types DEF Write, Tables
    <2>4. UNCHANGED conn \/ conn' \in {conn, disk} \/ Write
        BY DEF Next, Step, User, Command, Press, Reply, Post, Confirm, Begin, BeginCommand,
               BeginAdd, Ignore, BeginPress, Handle, Answer, Edit, EditFails, Send, SendAgain,
               SendFails, Work, Commit, StoreError, InsertClashes, OtherCommit,
               OtherRollback, Restart, registry
    <2> QED
        BY <2>1, <2>2, <2>3, <2>4
<1> QED
    BY <1>1, Inductive, PTL DEF Spec, ConfigIsReadOnly

(* A site is deleted only after a question that names it was shown, also   *)
(* by buttons of old messages (bot.py:298-322).                            *)
THEOREM AskedBeforeDeleted == Spec => DeletedWasAsked
<1> DEFINE A == \A n \in Names :
                   telegram[n] # None /\ telegram'[n] = None /\ ~Restart => n \in warned
<1>1. DialogueInv /\ [Next]_vars => [A]_vars
    <2> SUFFICES ASSUME DialogueInv, Next
                 PROVE  A
        BY DEF vars
    <2>1. CASE UNCHANGED telegram
        BY <2>1
    <2>2. CASE Commit
        <3>1. Do # "delyes" => Entry # None
            <4>1. Do # "delyes" => Entry \in Rows
                BY Changing, <2>2 DEF Entry, Commit, Rows, Sites, Adds
            <4> QED
                BY <4>1, DialogueAssumption
        <3>2. Do = "delyes" => Site \in warned
            BY <2>2, Changing DEF Commit, Sound, Do, Site
        <3>3. \A n \in Names : telegram'[n] = IF n = Site THEN Entry ELSE telegram[n]
            BY <2>2, Types DEF Commit, Tables
        <3> QED
            BY <3>1, <3>2, <3>3
    <2>3. UNCHANGED telegram \/ Commit \/ Restart
        BY DEF Next, Step, User, Command, Press, Reply, Post, Confirm, Begin, BeginCommand,
               BeginAdd, Ignore, BeginPress, Handle, Answer, Edit, EditFails, Send, SendAgain,
               SendFails, Work, Write, StoreError, InsertClashes, OtherCommit,
               OtherRollback, registry
    <2> QED
        BY <2>1, <2>2, <2>3
<1> QED
    BY <1>1, Inductive, PTL DEF Spec, DeletedWasAsked

-----------------------------------------------------------------------------
(* What the bot writes into the chat.                                      *)

Current(v) ==
    \A n \in Names :
        /\ v.shown[n] \in {None, Get(n)}
        /\ v.kind = "list" => v.shown[n] = Get(n)
        /\ v.shown[n] # None => v.rev[n] = rev[n]

LEMMA ViewCurrent ==
    ASSUME NEW kind \in Kinds, NEW shown \in Shown,
           \A n \in Names : shown[n] \in {None, Get(n)},
           kind = "list" => \A n \in Names : shown[n] = Get(n)
    PROVE  Current(View(kind, shown))
BY DEF Current, View

LEMMA ViewsCurrent ==
    ASSUME config \in Tables, telegram \in Tables, rev \in [Names -> Nat]
    PROVE  /\ Current(Text) /\ Current(ListView)
           /\ \A k \in Kinds \ {"list"} : Current(View(k, Blank))
           /\ \A n \in Names, s \in Sites \union {None} : s \in {None, Get(n)} =>
                 Current(CardView(n, s)) /\ Current(View("confirm", Only(n, s)))
<1>1. \A n \in Names : Blank[n] = None /\ Listing[n] = Get(n)
    BY DEF Blank, Listing
<1>2. Current(ListView)
    BY <1>1, ShownType, ViewCurrent DEF ListView, Kinds
<1>3. \A k \in Kinds \ {"list"} : Current(View(k, Blank))
    BY <1>1, ShownType, ViewCurrent
<1>4. Current(Text)
    BY <1>3 DEF Text, Kinds
<1>5. ASSUME NEW n \in Names, NEW s \in Sites \union {None}, s \in {None, Get(n)}
      PROVE  Current(CardView(n, s)) /\ Current(View("confirm", Only(n, s)))
    <2>1. Only(n, s) \in Shown /\ \A m \in Names : Only(n, s)[m] \in {None, Get(m)}
        BY <1>5, ShownType
    <2>2. \A k \in {"card", "confirm"} : Current(View(k, Only(n, s)))
        BY <2>1, ViewCurrent DEF Kinds
    <2> QED
        BY <2>2 DEF CardView
<1> QED
    BY <1>2, <1>3, <1>4, <1>5

LEMMA PendingCurrent ==
    ASSUME DialogueInv, At("edit") \/ At("result")
    PROVE  Current(Pending)
<1>1. /\ task.service \in Sites \union {None} /\ task.input \in Inputs
      /\ Do # "delyes" => task.service \in {None, Get(Site)}
      /\ Do \in Acting => Site \in Names
      /\ At("result") => Do \in {"check", "checkall"}
      /\ At("result") => ~At("edit")
    BY PendingType DEF DialogueInv, TaskInv, At, Sound, Do, Site
<1>2. Do = "card" => Get(Site) \in Sites \union {None}
    BY <1>1, GetType, Types DEF Acting
<1>3. \A n \in Names, s \in Sites \union {None} : s \in {None, Get(n)} =>
          Current(CardView(n, s)) /\ Current(View("confirm", Only(n, s)))
    BY ViewsCurrent, Types
<1>4. /\ Current(ListView) /\ Current(View("menu", Blank)) /\ Current(View("checking", Blank))
    BY ViewsCurrent, Types DEF Kinds
<1>5. Do \in Acting \ {"delyes"} => Current(CardView(Site, task.service))
                                    /\ Current(View("confirm", Only(Site, task.service)))
    BY <1>1, <1>3
<1>6. Do = "card" => Current(CardView(Site, Get(Site)))
    BY <1>1, <1>2, <1>3 DEF Acting
<1>7. At("edit") => Current(Edited)
    BY <1>4, <1>5, <1>6 DEF Edited, Acting
<1>8. At("result") => Current(Checked)
    BY <1>1, <1>4, <1>5 DEF Checked, Acting
<1> QED
    BY <1>1, <1>7, <1>8 DEF Pending

LEMMA SentCurrent ==
    ASSUME DialogueInv, At("send") \/ At("ask")
    PROVE  Current(Sent)
<1>1. /\ task.service \in Sites \union {None}
      /\ Do \in Adds => Site \in Names /\ task.service \in {None, Get(Site)}
      /\ At("ask") => Do = "add"
    BY SentType, Types DEF DialogueInv, TaskInv, At, Sound, Do, Site, Adds, Tasks
<1>2. Do \in Adds => Current(CardView(Site, task.service))
    BY <1>1, ViewsCurrent, Types
<1>3. /\ Current(ListView) /\ Current(Text) /\ Current(View("menu", Blank))
      /\ Current(View("checking", Blank)) /\ Current(View("prompt", Blank))
    BY ViewsCurrent, Types DEF Kinds
<1> QED
    BY <1>1, <1>2, <1>3 DEF Sent, Adds

(* A message is written only while the list of sites is at rest, and what  *)
(* it shows is so.                                                         *)
LEMMA Written ==
    ASSUME DialogueInv, Next, NEW m \in News
    PROVE  /\ Edit \/ EditFails \/ Send \/ SendAgain
           /\ Current(chat'[m])
<1>1. CASE UNCHANGED chat
    BY <1>1 DEF News
<1>2. CASE (Edit \/ EditFails) /\ Put(Pending)
    <2>1. PICK v \in Views : v = Pending
        BY <1>2, PendingType DEF Edit, EditFails
    <2>2. /\ DOMAIN chat' = 1..Len(chat)
          /\ \A k \in 1..Len(chat) : chat'[k] = IF k = task.msg THEN v ELSE chat[k]
        BY <1>2, <2>1, PendingType, PutView DEF Edit, EditFails
    <2>3. chat'[m] = Pending
        BY <2>1, <2>2, Types DEF News
    <2>4. Current(Pending)
        BY <1>2, PendingCurrent DEF Edit, EditFails
    <2> QED
        BY <1>2, <2>3, <2>4
<1>3. CASE Send \/ SendAgain
    <2>1. PICK v \in Views : v = Sent
        BY <1>3, SentType DEF Send, SendAgain
    <2>2. /\ DOMAIN chat' = 1..Len(chat) + 1
          /\ \A k \in 1..Len(chat) : chat'[k] = chat[k]
          /\ chat'[Len(chat) + 1] = v
        BY <1>3, <2>1, SentType, AppendView DEF Send, SendAgain, marks
    <2>3. chat'[m] = Sent
        BY <2>1, <2>2, Types DEF News
    <2>4. Current(Sent)
        BY <1>3, SentCurrent DEF Send, SendAgain
    <2> QED
        BY <1>3, <2>3, <2>4
<1>4. \/ UNCHANGED chat
      \/ (Edit \/ EditFails) /\ Put(Pending)
      \/ Send \/ SendAgain
    BY DEF Next, Step, User, Command, Press, Reply, Post, Confirm, Begin, BeginCommand,
           BeginAdd, Ignore, BeginPress, Handle, Answer, Edit, EditFails,
           SendFails, Work, Write, Commit, StoreError, InsertClashes, OtherCommit,
           OtherRollback, Restart
<1> QED
    BY <1>1, <1>2, <1>3, <1>4

(* Whatever a message shows of a site is so when the message is written,   *)
(* and a list shows all sites (bot.py:269-322).                            *)
THEOREM AlwaysCurrent == Spec => ShownIsCurrent
<1> DEFINE A == \A m \in News : \A n \in Names :
                   /\ chat'[m].shown[n] \in {None, Get(n)}
                   /\ chat'[m].kind = "list" => chat'[m].shown[n] = Get(n)
<1>1. DialogueInv /\ [Next]_vars => [A]_vars
    <2> SUFFICES ASSUME DialogueInv, Next, NEW m \in News
                 PROVE  Current(chat'[m])
        BY DEF vars, Current
    <2> QED
        BY Written
<1> QED
    BY <1>1, Inductive, PTL DEF Spec, ShownIsCurrent

-----------------------------------------------------------------------------
(* What is on disk.                                                        *)

\* A site with no write that failed is on disk as in memory, but for the one that
\* is being changed; what its transaction holds is what memory will.
DurableInv ==
    \A n \in Names \ torn :
        config[n] = None =>
            IF At("commit") /\ n = Site
            THEN conn[n] = Entry
            ELSE conn[n] = telegram[n] /\ disk[n] = telegram[n]

LEMMA RegistryAtRest ==
    ASSUME DurableInv, UNCHANGED registry,
           task' = task \/ (~At("commit") /\ task'.step # "commit")
    PROVE  DurableInv'
BY DEF DurableInv, registry, At, Site, Entry, Do

LEMMA DurableStep ==
    ASSUME DialogueInv, DurableInv, Next
    PROVE  DurableInv'
<1>1. CASE Write
    <2>1. /\ At("write") /\ ~Clashes /\ task' = [task EXCEPT !.step = "commit"]
          /\ conn' = [conn EXCEPT ![Site] = Row]
          /\ UNCHANGED <<config, telegram, disk, torn>>
        BY <1>1 DEF Write, Proceed
    <2>2. task'.step = "commit" /\ Do' = Do /\ Site' = Site /\ task'.service = task.service
        BY <2>1, Types DEF Tasks, Do, Site
    <2>3. Entry' = Entry
        BY <2>1, <2>2, Types DEF Entry, Tasks
    <2>4. Site \notin torn => Row = Entry
        <3>1. CASE Do \in Adds \/ Do = "delyes"
            BY <3>1 DEF Row, Entry, Adds
        <3>2. CASE Do = "toggle" /\ Site \notin torn
            <4>1. /\ Site \in Names /\ config[Site] = None /\ task.service \in Sites
                  /\ task.service = Get(Site)
                BY <2>1, <3>2, Changing, DialogueAssumption DEF DialogueInv, TaskInv
            <4>2. conn[Site] = telegram[Site]
                BY <2>1, <3>2, <4>1 DEF DurableInv, At
            <4>3. conn[Site] \in Rows
                <5>1. telegram[Site] \in Rows \union {None}
                    BY <4>1, Types DEF Tables
                <5>2. Get(Site) # None
                    BY <4>1, DialogueAssumption
                <5> QED
                    BY <4>1, <4>2, <5>1, <5>2, GetType, Types
            <4>4. task.service.url = conn[Site].url
                <5>1. task.service = Managed(conn[Site], TRUE) /\ conn[Site] # None
                    BY <4>1, <4>2, <4>3, DialogueAssumption DEF Get
                <5> QED
                    BY <5>1 DEF Managed
            <4>5. Row = [url |-> conn[Site].url, enabled |-> ~task.service.enabled]
                BY <3>2, <4>3, DialogueAssumption DEF Row, Rows, Adds
            <4> QED
                BY <3>2, <4>4, <4>5 DEF Entry, Adds
        <3> QED
            BY <2>1, <3>1, <3>2, Changing
    <2>5. \A n \in Names : conn'[n] = IF n = Site THEN Row ELSE conn[n]
        BY <2>1, Types DEF Tables
    <2> QED
        BY <2>1, <2>2, <2>3, <2>4, <2>5 DEF DurableInv, At
<1>2. CASE Commit
    <2>1. /\ At("commit") /\ UNCHANGED <<config, conn, torn>> /\ disk' = conn
          /\ task'.step # "commit"
        BY <1>2, Types DEF Commit, Committed, Tasks
    <2>2. \A n \in Names : telegram'[n] = IF n = Site THEN Entry ELSE telegram[n]
        BY <1>2, Types DEF Commit, Tables
    <2> QED
        BY <2>1, <2>2 DEF DurableInv, At
<1>3. CASE StoreError
    <2>1. /\ UNCHANGED <<config, telegram, disk>> /\ conn' \in {conn, disk}
          /\ torn' = torn \union Uncommitted \union (IF At("commit") THEN {Site} ELSE {})
          /\ task'.step # "commit"
        BY <1>3 DEF StoreError, Fail, Idle
    <2> QED
        BY <2>1 DEF DurableInv, At
<1>4. CASE OtherCommit
    <2>1. UNCHANGED <<config, telegram, conn, torn, task>> /\ disk' = conn
        BY <1>4 DEF OtherCommit
    <2> QED
        BY <2>1 DEF DurableInv, At, Site, Do, Entry
<1>5. CASE OtherRollback
    <2>1. /\ UNCHANGED <<config, telegram, disk, task>> /\ conn' = disk
          /\ torn' = torn \union {n \in Names : conn[n] # disk[n]}
        BY <1>5 DEF OtherRollback, Uncommitted
    <2> QED
        BY <2>1 DEF DurableInv, At, Site, Do, Entry
<1>6. CASE Restart
    <2>1. /\ telegram' = Loaded(config', disk) /\ conn' = disk /\ disk' = disk
          /\ task'.step # "commit"
        BY <1>6 DEF Restart, Idle
    <2> QED
        BY <2>1 DEF DurableInv, At, Loaded
<1>7. CASE InsertClashes
    <2>1. UNCHANGED registry /\ ~At("commit") /\ task'.step # "commit"
        BY <1>7 DEF InsertClashes, Fail, Idle, At
    <2> QED
        BY <2>1, RegistryAtRest
<1>8. CASE User \/ Confirm
    <2>1. UNCHANGED <<registry, task>>
        BY <1>8 DEF User, Command, Press, Reply, Post, Confirm
    <2> QED
        BY <2>1, RegistryAtRest
<1>9. CASE Begin
    <2>1. UNCHANGED registry /\ ~At("commit") /\ task'.step # "commit"
        BY <1>9 DEF Begin, BeginCommand, BeginAdd, Ignore, BeginPress, Handle, Start, Idle, At
    <2> QED
        BY <2>1, RegistryAtRest
<1>10. CASE Answer
    <2>1. UNCHANGED registry /\ ~At("commit")
        BY <1>10 DEF Answer, At
    <2>2. task'.step # "commit"
        BY <1>10, Types DEF Answer, Proceed, Idle, Tasks
    <2> QED
        BY <2>1, <2>2, RegistryAtRest
<1>11. CASE Edit \/ EditFails
    <2>1. UNCHANGED registry /\ ~At("commit") /\ task'.step # "commit"
        BY <1>11, Types DEF Edit, EditFails, Fail, Proceed, Idle, At, Tasks
    <2> QED
        BY <2>1, RegistryAtRest
<1>12. CASE Send \/ SendAgain \/ SendFails
    <2>1. UNCHANGED registry /\ ~At("commit")
        BY <1>12 DEF Send, SendAgain, SendFails, At
    <2>2. task' = task \/ task' = Idle \/ task' = [task EXCEPT !.step = "work", !.msg = Len(chat')]
        BY <1>12 DEF Send, SendAgain, SendFails, Fail
    <2>3. task' = task \/ task'.step # "commit"
        <3> DEFINE t == [task EXCEPT !.step = "work", !.msg = Len(chat')]
        <3>1. t.step = "work" /\ Idle.step = "idle"
            BY Types DEF Idle, Tasks
        <3>2. task' = task \/ task' = Idle \/ task' = t
            BY <2>2
        <3> HIDE DEF t
        <3> QED
            BY <3>1, <3>2
    <2> QED
        BY <2>1, <2>3, RegistryAtRest
<1>13. CASE Work
    <2>1. UNCHANGED registry /\ ~At("commit") /\ task'.step # "commit"
        BY <1>13, Types DEF Work, Proceed, AfterWork, Idle, At, Tasks
    <2> QED
        BY <2>1, RegistryAtRest
<1> QED
    BY <1>1, <1>2, <1>3, <1>4, <1>5, <1>6, <1>7, <1>8, <1>9, <1>10, <1>11, <1>12, <1>13
    DEF Next, Step

LEMMA DurableInductive == Spec => []DurableInv
<1>1. Init => DurableInv
    BY DEF Init, Idle, DurableInv, At, Blank
<1>2. DialogueInv /\ DurableInv /\ [Next]_vars => DurableInv'
    <2> SUFFICES ASSUME DialogueInv, DurableInv, UNCHANGED vars
                 PROVE  DurableInv'
        BY DurableStep
    <2> QED
        BY RegistryAtRest DEF vars
<1> QED
    BY <1>1, <1>2, Inductive, PTL DEF Spec

(* What a message tells of the sites that were added in the chat is on     *)
(* disk, unless a write for the site failed half-way in this run           *)
(* (sqlite.py:170-188, bot.py:249-322).                                    *)
THEOREM ToldIsOnDisk == Spec => ReportedIsDurable
<1> DEFINE A ==
        \A m \in News : \A n \in Names \ torn :
            LET s == chat'[m].shown[n]
            IN  /\ s # None /\ s.editable => disk[n] = [url |-> s.url, enabled |-> s.enabled]
                /\ chat'[m].kind = "list" /\ s = None => disk[n] = None
<1>1. DialogueInv /\ DurableInv /\ [Next]_vars => [A]_vars
    <2> SUFFICES ASSUME DialogueInv, DurableInv, Next, NEW m \in News, NEW n \in Names \ torn
                 PROVE  LET s == chat'[m].shown[n]
                        IN  /\ s # None /\ s.editable =>
                                   disk[n] = [url |-> s.url, enabled |-> s.enabled]
                            /\ chat'[m].kind = "list" /\ s = None => disk[n] = None
        BY DEF vars
    <2>1. ~At("commit")
        BY Written DEF Edit, EditFails, Send, SendAgain, At
    <2>2. config[n] = None => disk[n] = telegram[n] /\ disk[n] \in Rows \union {None}
        BY <2>1, Types DEF DurableInv, Tables
    <2> DEFINE s == chat'[m].shown[n]
    <2>3. s \in {None, Get(n)} /\ (chat'[m].kind = "list" => s = Get(n))
        BY Written DEF Current
    <2> HIDE DEF s
    <2>4. ASSUME s # None, s.editable
          PROVE  disk[n] = [url |-> s.url, enabled |-> s.enabled]
        <3>1. s = Get(n) /\ Get(n) # None
            BY <2>3, <2>4
        <3>2. config[n] = None
            BY <2>4, <3>1, GetType, Types
        <3>3. s = Managed(disk[n], TRUE) /\ disk[n] # None
            BY <2>2, <3>1, <3>2, GetType, Types DEF Get
        <3>4. s.url = disk[n].url /\ s.enabled = disk[n].enabled /\ disk[n] \in Rows
            BY <2>2, <3>2, <3>3 DEF Managed
        <3> QED
            BY <3>4 DEF Rows
    <2>5. ASSUME chat'[m].kind = "list", s = None
          PROVE  disk[n] = None
        <3>1. config[n] = None /\ telegram[n] = None
            BY <2>3, <2>5, GetType, Types
        <3> QED
            BY <2>2, <3>1
    <2> QED
        BY <2>4, <2>5 DEF s
<1> QED
    BY <1>1, Inductive, DurableInductive, PTL DEF Spec, ReportedIsDurable

-----------------------------------------------------------------------------
(* What the user saw.                                                      *)

\* A site that was seen is as it was, or has been counted as changed.
Seen(s, r, n) == r <= rev[n] /\ (r = rev[n] => s = Get(n))

SeenInChat ==
    \A m \in 1..Len(chat), n \in Names :
        chat[m].shown[n] # None => Seen(chat[m].shown[n], chat[m].rev[n], n)

SeenInQueue ==
    \A i \in 1..Len(queue) :
        queue[i].do \in Acting => Seen(queue[i].seen, queue[i].rev, queue[i].name)

SeenInTask ==
    task.step # "idle" /\ Do \in Acting => Seen(task.input.seen, task.input.rev, Site)

SeenInv == SeenInChat /\ SeenInQueue /\ SeenInTask

(* Every change of a site is counted.                                      *)
LEMMA ChangesAreCounted ==
    ASSUME DialogueInv, Next
    PROVE  /\ \A n \in Names : /\ rev[n] \in Nat /\ rev'[n] \in Nat /\ rev[n] <= rev'[n]
                               /\ rev'[n] = rev[n] => Get(n)' = Get(n)
           /\ Commit \/ Restart \/ UNCHANGED <<config, telegram, rev>>
<1>1. CASE UNCHANGED <<config, telegram, rev>>
    BY <1>1, Types DEF Get
<1>2. CASE Commit
    <2>1. Site \in Names
        BY <1>2, Changing DEF Commit
    <2>2. \A n \in Names : /\ rev'[n] = IF n = Site THEN rev[n] + 1 ELSE rev[n]
                           /\ n # Site => telegram'[n] = telegram[n]
        BY <1>2, <2>1, Types DEF Commit, Tables
    <2>3. \A n \in Names : rev[n] \in Nat
        BY Types
    <2>4. \A n \in Names : n # Site => Get(n)' = Get(n)
        BY <1>2, <2>2 DEF Commit, Get
    <2> QED
        BY <1>2, <2>2, <2>3, <2>4
<1>3. CASE Restart
    <2>1. \A n \in Names : rev'[n] = IF config'[n] = config[n] /\ telegram'[n] = telegram[n]
                                     THEN rev[n] ELSE rev[n] + 1
        BY <1>3 DEF Restart
    <2>2. \A n \in Names : rev[n] \in Nat
        BY Types
    <2>3. \A n \in Names : config'[n] = config[n] /\ telegram'[n] = telegram[n]
                             => Get(n)' = Get(n)
        BY DEF Get
    <2>4. \A n \in Names : /\ rev'[n] \in Nat /\ rev[n] <= rev'[n]
                           /\ rev'[n] = rev[n] => config'[n] = config[n] /\ telegram'[n] = telegram[n]
        BY <2>1, <2>2
    <2> QED
        BY <1>3, <2>2, <2>3, <2>4
<1>4. UNCHANGED <<config, telegram, rev>> \/ Commit \/ Restart
    BY DEF Next, Step, User, Command, Press, Reply, Post, Confirm, Begin, BeginCommand,
           BeginAdd, Ignore, BeginPress, Handle, Answer, Edit, EditFails, Send, SendAgain,
           SendFails, Work, Write, StoreError, InsertClashes, OtherCommit,
           OtherRollback, registry
<1> QED
    BY <1>1, <1>2, <1>3, <1>4

LEMMA SeenStays ==
    ASSUME DialogueInv, Next, NEW n \in Names, NEW s, NEW r \in Nat, Seen(s, r, n)
    PROVE  Seen(s, r, n)'
<1>1. /\ rev[n] \in Nat /\ rev'[n] \in Nat /\ rev[n] <= rev'[n]
      /\ rev'[n] = rev[n] => Get(n)' = Get(n)
    BY ChangesAreCounted
<1> QED
    BY <1>1 DEF Seen

LEMMA ChatSeen ==
    ASSUME DialogueInv, SeenInv, Next
    PROVE  SeenInChat'
<1> SUFFICES ASSUME NEW m \in DOMAIN chat', NEW n \in Names, chat'[m].shown[n] # None
             PROVE  Seen(chat[m].shown[n], chat[m].rev[n], n)'
    <2>1. DOMAIN chat' = 1..Len(chat')
        BY StepInv, LenProperties DEF DialogueInv, TypeOK
    <2> QED
        BY <2>1 DEF SeenInChat
<1>1. CASE m \in News
    <2>1. /\ chat'[m].shown[n] = Get(n) /\ chat'[m].rev[n] = rev[n]
          /\ Edit \/ EditFails \/ Send \/ SendAgain
        BY <1>1, Written DEF Current
    <2>2. UNCHANGED <<config, telegram, rev>>
        BY <2>1 DEF Edit, EditFails, Send, SendAgain, registry
    <2>3. rev[n] \in Nat /\ Get(n)' = Get(n)
        BY <2>2, Types DEF Get
    <2> QED
        BY <2>1, <2>2, <2>3 DEF Seen
<1>2. CASE m \notin News
    <2>1. m \in 1..Len(chat) /\ chat'[m] = chat[m]
        BY <1>2, Types DEF News
    <2>2. chat[m].rev[n] \in Nat
        BY <2>1, Types DEF Views
    <2>3. Seen(chat[m].shown[n], chat[m].rev[n], n)
        BY <2>1 DEF SeenInv, SeenInChat
    <2>4. PICK s : s = chat[m].shown[n]
        OBVIOUS
    <2>5. PICK r \in Nat : r = chat[m].rev[n]
        BY <2>2
    <2>6. Seen(s, r, n)'
        BY <2>3, <2>4, <2>5, SeenStays
    <2> QED
        BY <2>1, <2>4, <2>5, <2>6 DEF Seen
<1> QED
    BY <1>1, <1>2

(* An input that matches keeps matching.                                   *)
LEMMA InputSeen ==
    ASSUME DialogueInv, Next, NEW in \in Inputs, Sound(in),
           in.do \in Acting => Seen(in.seen, in.rev, in.name)
    PROVE  in.do \in Acting => Seen(in.seen, in.rev, in.name)'
<1> SUFFICES ASSUME in.do \in Acting
             PROVE  Seen(in.seen, in.rev, in.name)'
    OBVIOUS
<1>1. in.name \in Names /\ in.rev \in Nat
    BY DEF Sound, Inputs
<1> QED
    BY <1>1, SeenStays

LEMMA QueueSeen ==
    ASSUME DialogueInv, SeenInv, Next
    PROVE  SeenInQueue'
<1>1. \A in \in Inputs : Sound(in) /\ (in.do \in Acting => Seen(in.seen, in.rev, in.name)) =>
          (in.do \in Acting => Seen(in.seen, in.rev, in.name)')
    BY InputSeen
<1>2. \A i \in 1..Len(queue) : queue[i].do \in Acting =>
          Seen(queue[i].seen, queue[i].rev, queue[i].name)
    BY DEF SeenInv, SeenInQueue
<1>3. ASSUME NEW i \in 1..Len(queue)
      PROVE  \E in \in Inputs : /\ in = queue[i]
                                /\ in.do \in Acting => Seen(in.seen, in.rev, in.name)'
    <2>1. PICK in \in Inputs : in = queue[i]
        BY Types
    <2>2. Sound(in) /\ (in.do \in Acting => Seen(in.seen, in.rev, in.name))
        BY <1>2, <2>1 DEF DialogueInv, InputInv
    <2> QED
        BY <1>1, <2>1, <2>2
<1>4. CASE UNCHANGED queue
    BY <1>3, <1>4 DEF SeenInQueue, Seen
<1>5. CASE Confirm
    <2>1. \A i \in 1..Len(queue') : \E j \in 1..Len(queue) : queue'[i] = queue[j]
        <3> DEFINE rest == SubSeq(queue, done + 1, Len(queue))
        <3>1. \A i \in done + 1..Len(queue) : queue[i] \in Inputs
            BY Types
        <3>2. /\ Len(rest) = IF done + 1 <= Len(queue) THEN Len(queue) - (done + 1) + 1 ELSE 0
              /\ \A i \in 1..Len(queue) - (done + 1) + 1 : rest[i] = queue[done + 1 + i - 1]
            BY <3>1, Types, SubSeqProperties
        <3>3. done \in Nat /\ Len(queue) \in Nat /\ done <= Len(queue) /\ queue' = rest
            BY <1>5, Types DEF Confirm
        <3> HIDE DEF rest
        <3> QED
            BY <3>2, <3>3
    <2> QED
        BY <1>3, <2>1 DEF SeenInQueue, Seen
<1>6. CASE Restart
    <2>1. queue' = queue \/ (queue' = <<>> /\ Len(queue') = 0)
        BY <1>6 DEF Restart
    <2>2. CASE queue' = queue
        BY <1>3, <2>2 DEF SeenInQueue, Seen
    <2>3. CASE queue' = <<>> /\ Len(queue') = 0
        BY <2>3 DEF SeenInQueue
    <2> QED
        BY <2>1, <2>2, <2>3
<1>7. CASE User
    <2>1. UNCHANGED <<config, telegram, rev>>
        BY <1>7 DEF User, Command, Press, Reply, Post, registry
    <2>2. PICK in \in Inputs : /\ queue' = Append(queue, in)
                               /\ in.do \in Acting => Seen(in.seen, in.rev, in.name)
        <3>1. CASE Command \/ Reply
            <4>1. \E in \in Inputs : in.do \notin Acting /\ Post(in)
                <5>1. CASE Command
                    <6>1. \A do \in {"menu", "list", "checkall", "add"} :
                             /\ Input(do, 0, None, None) \in Inputs
                             /\ Input(do, 0, None, None).do \notin Acting
                        BY DEF Input, Inputs, Orders, Acting
                    <6>2. \A n \in Names, u \in Urls :
                             /\ Input("addsite", 0, n, u) \in Inputs
                             /\ Input("addsite", 0, n, u).do \notin Acting
                        BY DEF Input, Inputs, Orders, Adds, Acting
                    <6> QED
                        BY <5>1, <6>1, <6>2 DEF Command
                <5>2. CASE Reply
                    <6>1. \A m \in 1..Len(chat), n \in Names, u \in Urls :
                             /\ Input("reply", m, n, u) \in Inputs
                             /\ Input("reply", m, n, u).do \notin Acting
                        BY Types DEF Input, Inputs, Orders, Adds, Acting, Views
                    <6> QED
                        BY <5>2, <6>1, Types DEF Reply
                <5> QED
                    BY <3>1, <5>1, <5>2
            <4> QED
                BY <4>1 DEF Post
        <3>2. CASE Press
            <4>1. PICK m \in DOMAIN chat : \E b \in Buttons(chat[m]) : Post(Input(b[1], m, b[2], None))
                BY <3>2 DEF Press
            <4>2. PICK b \in Buttons(chat[m]) : Post(Input(b[1], m, b[2], None))
                BY <4>1
            <4>3. m \in 1..Len(chat) /\ chat[m] \in Views
                BY Types
            <4>4. /\ b[1] \in Orders /\ b[2] \in Names \union {None}
                  /\ b[1] \in Acting => b[2] \in Names /\ chat[m].shown[b[2]] # None
                BY <4>3 DEF Buttons, Views, Controls, Orders, Acting
            <4>5. Input(b[1], m, b[2], None) \in Inputs
                BY <4>3, <4>4, Types DEF Input, Inputs, Views
            <4>6. b[1] \in Acting =>
                     /\ b[2] \in Names /\ b[2] # None /\ m # 0
                     /\ Seen(chat[m].shown[b[2]], chat[m].rev[b[2]], b[2])
                BY <4>3, <4>4, DialogueAssumption, Types DEF SeenInv, SeenInChat
            <4>7. b[1] \in Acting =>
                     /\ Input(b[1], m, b[2], None).seen = chat[m].shown[b[2]]
                     /\ Input(b[1], m, b[2], None).rev = chat[m].rev[b[2]]
                BY <4>6 DEF Input
            <4>8. /\ Input(b[1], m, b[2], None).do = b[1]
                  /\ Input(b[1], m, b[2], None).name = b[2]
                BY DEF Input
            <4> QED
                BY <4>2, <4>5, <4>6, <4>7, <4>8 DEF Post
        <3> QED
            BY <1>7, <3>1, <3>2 DEF User
    <2>3. /\ Len(queue') = Len(queue) + 1
          /\ \A i \in 1..Len(queue') : queue'[i] = IF i = Len(queue) + 1 THEN in ELSE queue[i]
        BY <2>2, Types, AppendProperties
    <2>4. in.do \in Acting => Seen(in.seen, in.rev, in.name)'
        BY <2>1, <2>2 DEF Seen, Get
    <2>5. \A i \in 1..Len(queue') : i = Len(queue) + 1 \/ i \in 1..Len(queue)
        BY <2>3, Types
    <2> QED
        BY <1>3, <2>3, <2>4, <2>5 DEF SeenInQueue, Seen
<1>8. UNCHANGED queue \/ Confirm \/ Restart \/ User
    BY DEF Next, Step, Begin, BeginCommand,
           BeginAdd, Ignore, BeginPress, Handle, Answer, Edit, EditFails, Send, SendAgain,
           SendFails, Work, Write, Commit, StoreError, InsertClashes, OtherCommit, Fail,
           OtherRollback, updates
<1> QED
    BY <1>4, <1>5, <1>6, <1>7, <1>8

LEMMA TaskSeen ==
    ASSUME DialogueInv, SeenInv, Next
    PROVE  SeenInTask'
<1>1. CASE task'.step = "idle"
    BY <1>1 DEF SeenInTask
<1>2. CASE task.step # "idle" /\ task'.input = task.input
    <2>1. PICK in \in Inputs : in = task.input
        BY <1>2 DEF DialogueInv, TaskInv
    <2>2. Sound(in) /\ (in.do \in Acting => Seen(in.seen, in.rev, in.name))
        BY <1>2, <2>1 DEF DialogueInv, TaskInv, SeenInv, SeenInTask, Do, Site
    <2>3. in.do \in Acting => Seen(in.seen, in.rev, in.name)'
        BY <2>1, <2>2, InputSeen
    <2> QED
        BY <1>2, <2>1, <2>3 DEF SeenInTask, Seen, Do, Site
<1>3. CASE Begin
    <2>1. Handle
        BY <1>3 DEF Begin, BeginCommand, BeginAdd, Ignore, BeginPress
    <2>2. PICK in \in Inputs :
             /\ in = queue[done + 1]
             /\ in.do \in Acting => Seen(in.seen, in.rev, in.name)
        BY <2>1, Types DEF Handle, SeenInv, SeenInQueue
    <2>3. task' = task \/ task'.input = in
        BY <1>3, <2>2 DEF Begin, BeginCommand, BeginAdd, Ignore, BeginPress, Start
    <2>4. CASE task'.input = in
        BY <2>1, <2>2, <2>4 DEF Handle, registry, SeenInTask, Seen, Get, Do, Site
    <2>5. CASE task' = task
        BY <2>1, <2>5, <1>1 DEF Handle, Idle
    <2> QED
        BY <2>3, <2>4, <2>5
<1>4. task'.step = "idle" \/ (task.step # "idle" /\ task'.input = task.input) \/ Begin
    <2>1. CASE User \/ Confirm \/ OtherCommit \/ OtherRollback
        <3>1. task' = task
            BY <2>1 DEF User, Command, Press, Reply, Post, Confirm, OtherCommit, OtherRollback
        <3> QED
            BY <3>1
    <2>2. CASE Restart
        BY <2>2 DEF Restart, Idle
    <2>3. CASE Step
        <3>1. task.step # "idle"
            BY <2>3 DEF Step, Answer, Edit, EditFails, Send, SendAgain, SendFails, Work, Write,
                        Commit, StoreError, InsertClashes, At
        <3>2. /\ Idle.step = "idle"
              /\ \A s : [task EXCEPT !.step = s].input = task.input
              /\ \A s, m : [task EXCEPT !.step = s, !.msg = m].input = task.input
              /\ \A s, x : [task EXCEPT !.service = x, !.step = s].input = task.input
            BY Types DEF Idle, Tasks
        <3>3. \/ task' = task \/ task' = Idle
              \/ \E s : task' = [task EXCEPT !.step = s]
              \/ \E s, m : task' = [task EXCEPT !.step = s, !.msg = m]
              \/ \E s, x : task' = [task EXCEPT !.service = x, !.step = s]
            BY <2>3 DEF Step, Answer, Edit, EditFails, Send, SendAgain, SendFails, Work, Write,
                        Commit, StoreError, InsertClashes, Fail, Proceed
        <3>4. CASE \E s : task' = [task EXCEPT !.step = s]
            BY <3>1, <3>2, <3>4
        <3>5. CASE \E s, m : task' = [task EXCEPT !.step = s, !.msg = m]
            BY <3>1, <3>2, <3>5
        <3>6. CASE \E s, x : task' = [task EXCEPT !.service = x, !.step = s]
            BY <3>1, <3>2, <3>6
        <3>7. CASE task' = task \/ task' = Idle
            BY <3>1, <3>2, <3>7
        <3> QED
            BY <3>3, <3>4, <3>5, <3>6, <3>7
    <2> QED
        BY <2>1, <2>2, <2>3 DEF Next
<1> QED
    BY <1>1, <1>2, <1>3, <1>4

LEMMA SeenInductive == Spec => []SeenInv
<1>1. Init => SeenInv
    BY DEF Init, Idle, SeenInv, SeenInChat, SeenInQueue, SeenInTask
<1>2. DialogueInv /\ SeenInv /\ [Next]_vars => SeenInv'
    <2>1. CASE Next
        BY <2>1, ChatSeen, QueueSeen, TaskSeen DEF SeenInv
    <2>2. CASE UNCHANGED vars
        BY <2>2 DEF vars, registry, updates, SeenInv, SeenInChat, SeenInQueue, SeenInTask,
                    Seen, Get, Do, Site
    <2> QED
        BY <2>1, <2>2
<1> QED
    BY <1>1, <1>2, Inductive, PTL DEF Spec

(* A button acts on what its message shows: if the site has not changed    *)
(* since, pausing pauses, resuming resumes and deleting deletes the site   *)
(* that was seen (bot.py:283-322, ui.py:223-246).                          *)
THEOREM ButtonsDoAsShown == Spec => ActsAsShown
<1> DEFINE A ==
        LET in == task.input
        IN  At("commit") /\ rev'[Site] # rev[Site] /\ ~Restart
              /\ Do \in {"toggle", "delyes"} /\ in.rev = rev[Site] =>
            /\ in.seen = Get(Site)
            /\ Do = "toggle" => telegram'[Site].enabled = ~in.seen.enabled
<1>1. DialogueInv /\ SeenInv /\ [Next]_vars => [A]_vars
    <2> SUFFICES ASSUME DialogueInv, SeenInv, Next, At("commit"), rev'[Site] # rev[Site], ~Restart,
                        Do \in {"toggle", "delyes"}, task.input.rev = rev[Site]
                 PROVE  /\ task.input.seen = Get(Site)
                        /\ Do = "toggle" => telegram'[Site].enabled = ~task.input.seen.enabled
        BY DEF vars
    <2>1. task.input.seen = Get(Site)
        BY DEF SeenInv, SeenInTask, Seen, At, Acting
    <2>2. Commit /\ Site \in Names
        BY ChangesAreCounted, Changing
    <2>3. Do = "toggle" => task.service = Get(Site)
        BY DialogueAssumption, Changing DEF DialogueInv, TaskInv
    <2>4. telegram'[Site] = Entry
        BY <2>2, Types DEF Commit, Tables
    <2>5. Do = "toggle" => Entry.enabled = ~task.service.enabled
        BY DEF Entry, Adds
    <2> QED
        BY <2>1, <2>3, <2>4, <2>5
<1> QED
    BY <1>1, Inductive, SeenInductive, PTL DEF Spec, ActsAsShown

-----------------------------------------------------------------------------
(* The prompts: which replies find the prompt they answer in the bot's     *)
(* memory, for any limit and any interleaving of prompts, failures and     *)
(* restarts.                                                               *)

IsPrompt(m) == m \in 1..Len(chat) /\ chat[m].kind = "prompt"

\* The prompts of this run whose message_id reached the bot.
Known == {m \in 1..Len(chat) : chat[m].kind = "prompt" /\ m \notin spoiled /\ m > born}

Matching(in) == in.msg # 0 => (in.do = "reply" <=> IsPrompt(in.msg))

\* Prompts have no buttons: they are replied to, and never edited.
TargetInv ==
    /\ \A i \in 1..Len(queue) : Matching(queue[i])
    /\ task.msg \in 0..Len(chat) /\ ~IsPrompt(task.msg)
    /\ spoiled \subseteq 1..Len(chat) /\ born \in 0..Len(chat)

\* The deque holds the last prompts, in their order.
MemoryInv ==
    /\ Len(prompts) <= PromptLimit
    /\ \A i \in 1..Len(prompts) : prompts[i] \in Known
    /\ \A i, j \in 1..Len(prompts) : i < j => prompts[i] < prompts[j]
    /\ \A m \in Known :
          \/ \E i \in 1..Len(prompts) : prompts[i] = m
          \/ Len(prompts) = PromptLimit /\ \A i \in 1..Len(prompts) : m < prompts[i]

Excused(m) == m <= born \/ m \in spoiled \/ Cardinality(Later(m)) >= PromptLimit

IgnoredInv == \A m \in ignored : IsPrompt(m) /\ Excused(m)

-----------------------------------------------------------------------------
(* What the steps do to messages and marks.                                *)

LEMMA PendingKind ==
    ASSUME DialogueInv, At("edit") \/ At("result")
    PROVE  Pending.kind # "prompt"
<1>1. /\ task.service \in Sites \union {None}
      /\ Do \in Acting => Site \in Names
    BY PendingType, Types DEF DialogueInv, TaskInv, At, Sound, Do, Site
<1>2. At("result") => Do \in {"check", "checkall"}
    BY DEF DialogueInv, TaskInv, At
<1>3. CASE At("edit")
    <2>1. Do = "card" => Get(Site) \in Sites \union {None}
        BY <1>1, GetType, Types DEF Acting
    <2>2. Edited.kind # "prompt"
        BY <1>1, <2>1, ViewsType, Types DEF Edited, Acting, Kinds
    <2> QED
        BY <1>3, <2>2 DEF Pending
<1>4. CASE ~At("edit")
    <2>1. Checked.kind # "prompt"
        BY <1>1, <1>2, <1>4, ViewsType, Types DEF Checked, Acting
    <2> QED
        BY <1>4, <2>1 DEF Pending
<1> QED
    BY <1>3, <1>4

LEMMA SentKind ==
    ASSUME DialogueInv, At("send") \/ At("ask")
    PROVE  Sent.kind = "prompt" <=> At("ask")
<1>1. /\ task.service \in Sites \union {None}
      /\ Do \in Adds => Site \in Names
    BY Types DEF DialogueInv, TaskInv, At, Tasks, Sound, Do, Site
<1>2. /\ \A k \in {"prompt", "menu", "checking"} : View(k, Blank).kind = k
      /\ ListView.kind = "list" /\ Text.kind = "text"
    BY ViewsType, Types DEF Kinds
<1>3. Do \in Adds /\ task.service # None => CardView(Site, task.service).kind = "card"
    BY <1>1, ViewsType, Types
<1>4. At("ask") => Do = "add" /\ ~At("send")
    BY DEF DialogueInv, TaskInv, At
<1>5. CASE At("ask")
    BY <1>2, <1>4, <1>5 DEF Sent, Adds
<1>6. CASE ~At("ask")
    BY <1>2, <1>3, <1>6 DEF Sent, Adds
<1> QED
    BY <1>5, <1>6

\* A step leaves messages, memory and marks alone, or it is one of these.
LEMMA Changes ==
    ASSUME DialogueInv, Next
    PROVE  \/ UNCHANGED <<chat, prompts, spoiled, born>>
           \/ Edit \/ EditFails \/ Send \/ SendAgain \/ Restart
           \/ /\ UNCHANGED <<chat, prompts, born>>
              /\ spoiled' = spoiled \union ({task.msg} \ {0})
BY DEF Next, User, Command, Press, Reply, Post, Confirm, Begin, BeginCommand, BeginAdd, Ignore,
       BeginPress, Handle, Step, Answer, SendFails, Work, Write, Commit, StoreError,
       InsertClashes, Fail, OtherCommit, OtherRollback, marks

\* The message a step adds to the chat.
LEMMA Sending ==
    ASSUME DialogueInv, Send \/ SendAgain
    PROVE  /\ Len(chat) \in Nat /\ Len(chat') = Len(chat) + 1
           /\ \A m \in 1..Len(chat) : chat'[m] = chat[m]
           /\ chat'[Len(chat) + 1].kind = "prompt" <=> At("ask")
<1>1. At("send") \/ At("ask")
    BY DEF Send, SendAgain
<1>2. PICK v \in Views : v = Sent /\ v.kind # "confirm"
    BY <1>1, SentType
<1>3. /\ Len(chat') = Len(chat) + 1
      /\ \A m \in 1..Len(chat) : chat'[m] = chat[m]
      /\ chat'[Len(chat) + 1] = v
    BY <1>2, AppendView DEF Send, SendAgain, marks
<1> QED
    BY <1>1, <1>2, <1>3, SentKind, Types

LEMMA Editing ==
    ASSUME DialogueInv, TargetInv, Edit \/ EditFails
    PROVE  /\ Len(chat') = Len(chat)
           /\ \A m \in 1..Len(chat) : m # task.msg => chat'[m] = chat[m]
           /\ \A m \in 1..Len(chat) : IsPrompt(m)' <=> IsPrompt(m)
<1>1. At("edit") \/ At("result")
    BY DEF Edit, EditFails
<1>2. PICK v \in Views : v = Pending /\ v.kind # "prompt"
    BY <1>1, PendingType, PendingKind
<1>3. CASE Put(Pending)
    <2>1. /\ Len(chat') = Len(chat)
          /\ \A m \in 1..Len(chat) : chat'[m] = IF m = task.msg THEN v ELSE chat[m]
        BY <1>1, <1>2, <1>3, PendingType, PutView
    <2> QED
        BY <1>2, <2>1 DEF IsPrompt, TargetInv
<1>4. CASE UNCHANGED chat
    BY <1>4 DEF IsPrompt
<1> QED
    BY <1>3, <1>4 DEF Edit, EditFails

(* Messages stay, prompts stay prompts, and what is known of a prompt's    *)
(* sending does not change any more.                                       *)
LEMMA PromptsStay ==
    ASSUME DialogueInv, TargetInv, Next
    PROVE  /\ Len(chat) \in Nat /\ Len(chat') \in Nat /\ Len(chat) <= Len(chat')
           /\ \A m \in 1..Len(chat) : IsPrompt(m)' <=> IsPrompt(m)
           /\ \A m \in 1..Len(chat) : IsPrompt(m) => (m \in spoiled' <=> m \in spoiled)
           /\ spoiled' \subseteq 1..Len(chat')
           /\ born' \in 0..Len(chat') /\ born <= born'
<1>1. CASE UNCHANGED <<chat, spoiled, born>>
    BY <1>1, Types DEF TargetInv, IsPrompt
<1>2. CASE Edit \/ EditFails
    <2>1. UNCHANGED born /\ spoiled' \subseteq spoiled \union {task.msg}
          /\ spoiled \ {task.msg} \subseteq spoiled'
        BY <1>2 DEF Edit, EditFails, Fail
    <2>2. task.msg \in 1..Len(chat)
        BY <1>2, PendingType DEF Edit, EditFails
    <2> QED
        <3>1. Len(chat) \in Nat /\ Len(chat') = Len(chat)
            BY <1>2, Editing, Types
        <3>2. \A m \in 1..Len(chat) : IsPrompt(m)' <=> IsPrompt(m)
            BY <1>2, Editing
        <3>3. \A m \in 1..Len(chat) : IsPrompt(m) => (m \in spoiled' <=> m \in spoiled)
            BY <2>1 DEF TargetInv
        <3>4. spoiled' \subseteq 1..Len(chat')
            BY <2>1, <2>2, <3>1 DEF TargetInv
        <3>5. born' \in 0..Len(chat') /\ born <= born'
            BY <2>1, <3>1 DEF TargetInv
        <3> QED
            BY <3>1, <3>2, <3>3, <3>4, <3>5
<1>3. CASE Send \/ SendAgain
    <2>1. UNCHANGED born /\ (spoiled' = spoiled \/ spoiled' = spoiled \union {Len(chat) + 1})
        BY <1>3, Sending DEF Send, SendAgain, marks
    <2>2. /\ Len(chat) \in Nat /\ Len(chat') = Len(chat) + 1
          /\ \A m \in 1..Len(chat) : chat'[m] = chat[m]
        BY <1>3, Sending
    <2>3. \A m \in 1..Len(chat) : IsPrompt(m)' <=> IsPrompt(m)
        BY <2>2 DEF IsPrompt
    <2>4. spoiled \subseteq 1..Len(chat) /\ born \in 0..Len(chat)
        BY DEF TargetInv
    <2>5. \A m \in 1..Len(chat) : m \in spoiled' <=> m \in spoiled
        BY <2>1, <2>2
    <2>6. spoiled' \subseteq 1..Len(chat')
        <3>1. \A m : m \in 1..Len(chat') <=> m \in 1..Len(chat) \/ m = Len(chat) + 1
            BY <2>2
        <3> QED
            BY <2>1, <2>4, <3>1
    <2> QED
        BY <2>1, <2>2, <2>3, <2>4, <2>5, <2>6
<1>4. CASE /\ UNCHANGED chat /\ born' \in {born, Len(chat)}
           /\ spoiled' = spoiled \union ({task.msg} \ {0})
    <2>1. Len(chat) \in Nat /\ Len(chat') = Len(chat)
        BY <1>4, Types
    <2>2. \A m \in 1..Len(chat) : IsPrompt(m)' <=> IsPrompt(m)
        BY <1>4, <2>1 DEF IsPrompt
    <2>3. \A m \in 1..Len(chat) : IsPrompt(m) => (m \in spoiled' <=> m \in spoiled)
        BY <1>4 DEF TargetInv
    <2>4. spoiled' \subseteq 1..Len(chat')
        <3>1. task.msg # 0 => task.msg \in 1..Len(chat)
            BY <2>1 DEF TargetInv
        <3>2. spoiled \subseteq 1..Len(chat)
            BY DEF TargetInv
        <3> QED
            BY <1>4, <2>1, <3>1, <3>2
    <2>5. born' \in 0..Len(chat') /\ born <= born'
        BY <1>4, <2>1 DEF TargetInv
    <2> QED
        BY <2>1, <2>2, <2>3, <2>4, <2>5
<1>5. Restart => UNCHANGED chat /\ born' = Len(chat) /\ spoiled' = spoiled \union ({task.msg} \ {0})
    BY DEF Restart
<1> QED
    BY <1>1, <1>2, <1>3, <1>4, <1>5, Changes

-----------------------------------------------------------------------------
(* What is handled, and which messages it names.                           *)

LEMMA MatchingStays ==
    ASSUME DialogueInv, TargetInv, Next, NEW in \in Inputs, Sound(in), Matching(in)
    PROVE  Matching(in)'
BY PromptsStay DEF Matching, Sound, Inputs

LEMMA NewInputMatches ==
    ASSUME DialogueInv, User
    PROVE  UNCHANGED chat /\ \E in \in Inputs : queue' = Append(queue, in) /\ Matching(in)
<1> USE DialogueAssumption DEF Post, Orders, Adds
<1>1. CASE Command
    <2>1. \A do \in {"menu", "list", "checkall", "add"} :
             /\ Input(do, 0, None, None) \in Inputs /\ Input(do, 0, None, None).msg = 0
        BY DEF Input, Inputs
    <2>2. \A n \in Names, u \in Urls :
             /\ Input("addsite", 0, n, u) \in Inputs /\ Input("addsite", 0, n, u).msg = 0
        BY DEF Input, Inputs
    <2> QED
        BY <1>1, <2>1, <2>2 DEF Command, Matching
<1>2. CASE Reply
    <2>1. PICK m \in DOMAIN chat, n \in Names, u \in Urls :
             chat[m].kind = "prompt" /\ Post(Input("reply", m, n, u))
        BY <1>2 DEF Reply
    <2>2. m \in 1..Len(chat) /\ chat[m] \in Views
        BY Types
    <2>3. Input("reply", m, n, u) \in Inputs
        BY <2>2, Types DEF Input, Inputs, Views
    <2>4. Matching(Input("reply", m, n, u))
        BY <2>1, <2>2 DEF Matching, IsPrompt, Input
    <2> QED
        BY <2>1, <2>3, <2>4
<1>3. CASE Press
    <2>1. PICK m \in DOMAIN chat : \E b \in Buttons(chat[m]) : Post(Input(b[1], m, b[2], None))
        BY <1>3 DEF Press
    <2>2. PICK b \in Buttons(chat[m]) : Post(Input(b[1], m, b[2], None))
        BY <2>1
    <2>3. m \in 1..Len(chat) /\ chat[m] \in Views
        BY Types
    <2>4. /\ b[1] \in Orders \ Adds /\ b[2] \in Names \union {None}
          /\ b[1] \in Acting => b[2] \in Names
          /\ chat[m].kind # "prompt"
        BY <2>3 DEF Buttons, Views, Controls, Acting
    <2>5. Input(b[1], m, b[2], None) \in Inputs
        BY <2>3, <2>4, Types DEF Input, Inputs, Views
    <2>6. Matching(Input(b[1], m, b[2], None))
        BY <2>4 DEF Matching, IsPrompt, Input
    <2> QED
        BY <2>2, <2>5, <2>6
<1> QED
    BY <1>1, <1>2, <1>3 DEF User

LEMMA QueueMatches ==
    ASSUME DialogueInv, TargetInv, Next
    PROVE  (\A i \in 1..Len(queue) : Matching(queue[i]))'
<1>1. ASSUME NEW i \in 1..Len(queue)
      PROVE  \E in \in Inputs : in = queue[i] /\ Matching(in)'
    <2>1. PICK in \in Inputs : in = queue[i]
        BY Types
    <2>2. Sound(in) /\ Matching(in)
        BY <2>1 DEF DialogueInv, InputInv, TargetInv
    <2> QED
        BY <2>1, <2>2, MatchingStays
<1>2. CASE UNCHANGED queue
    BY <1>1, <1>2 DEF Matching, IsPrompt
<1>3. CASE Confirm
    <2>1. \A i \in 1..Len(queue') : \E j \in 1..Len(queue) : queue'[i] = queue[j]
        <3> DEFINE rest == SubSeq(queue, done + 1, Len(queue))
        <3>1. \A i \in done + 1..Len(queue) : queue[i] \in Inputs
            BY Types
        <3>2. /\ Len(rest) = IF done + 1 <= Len(queue) THEN Len(queue) - (done + 1) + 1 ELSE 0
              /\ \A i \in 1..Len(queue) - (done + 1) + 1 : rest[i] = queue[done + 1 + i - 1]
            BY <3>1, Types, SubSeqProperties
        <3>3. done \in Nat /\ Len(queue) \in Nat /\ done <= Len(queue) /\ queue' = rest
            BY <1>3, Types DEF Confirm
        <3> HIDE DEF rest
        <3>4. \A i \in 1..Len(rest) : done + i \in 1..Len(queue) /\ rest[i] = queue[done + i]
            BY <3>2, <3>3
        <3> QED
            BY <3>3, <3>4
    <2> QED
        BY <1>1, <2>1 DEF Matching, IsPrompt
<1>4. CASE Restart
    <2>1. queue' = queue \/ (queue' = <<>> /\ Len(queue') = 0)
        BY <1>4 DEF Restart
    <2> QED
        BY <1>2, <2>1
<1>5. CASE User
    <2>1. UNCHANGED chat
        BY <1>5, NewInputMatches
    <2>2. PICK in \in Inputs : queue' = Append(queue, in) /\ Matching(in)
        BY <1>5, NewInputMatches
    <2>3. /\ Len(queue') = Len(queue) + 1
          /\ \A i \in 1..Len(queue') : queue'[i] = IF i = Len(queue) + 1 THEN in ELSE queue[i]
        BY <2>2, Types, AppendProperties
    <2>4. Matching(in)'
        BY <2>1, <2>2 DEF Matching, IsPrompt
    <2>5. \A i \in 1..Len(queue') : i = Len(queue) + 1 \/ i \in 1..Len(queue)
        BY <2>3, Types
    <2> QED
        BY <1>1, <2>3, <2>4, <2>5 DEF Matching, IsPrompt
<1>6. UNCHANGED queue \/ Confirm \/ Restart \/ User
    BY DEF Next, Step, Begin, BeginCommand,
           BeginAdd, Ignore, BeginPress, Handle, Answer, Edit, EditFails, Send, SendAgain,
           SendFails, Work, Write, Commit, StoreError, InsertClashes, OtherCommit, Fail,
           OtherRollback, updates
<1> QED
    BY <1>2, <1>3, <1>4, <1>5, <1>6

\* The input that the next update is.
LEMMA NextInput ==
    ASSUME DialogueInv, TargetInv, Handle
    PROVE  /\ queue[done + 1] \in Inputs /\ Sound(queue[done + 1])
           /\ Matching(queue[done + 1])
BY Types DEF Handle, DialogueInv, InputInv, TargetInv

LEMMA TaskTargets ==
    ASSUME DialogueInv, TargetInv, Next
    PROVE  task'.msg \in 0..Len(chat') /\ ~IsPrompt(task.msg)'
<1>1. CASE task'.msg = task.msg
    BY <1>1, PromptsStay DEF TargetInv, IsPrompt
<1>2. CASE task'.msg = 0
    BY <1>2, PromptsStay DEF IsPrompt
<1>3. CASE Begin
    <2>1. Handle
        BY <1>3 DEF Begin, BeginCommand, BeginAdd, Ignore, BeginPress
    <2>2. PICK in \in Inputs : in = queue[done + 1] /\ Sound(in) /\ Matching(in)
        BY <2>1, NextInput
    <2>3. task' = task \/ task'.msg = IF in.do = "reply" THEN 0 ELSE in.msg
        BY <1>3, <2>2 DEF Begin, BeginCommand, BeginAdd, Ignore, BeginPress, Start
    <2>4. UNCHANGED chat
        BY <2>1 DEF Handle
    <2>5. in.do # "reply" => in.msg \in 0..Len(chat) /\ ~IsPrompt(in.msg)
        BY <2>2 DEF Sound, Matching, IsPrompt
    <2>6. CASE in.do # "reply" /\ task'.msg = in.msg
        BY <2>4, <2>5, <2>6 DEF IsPrompt
    <2> QED
        BY <1>1, <1>2, <2>3, <2>6
<1>4. CASE Send /\ task' = [task EXCEPT !.step = "work", !.msg = Len(chat')] /\ At("send")
    <2>1. task'.msg = Len(chat) + 1
        BY <1>4, Types, Sending DEF Tasks
    <2>2. ~At("ask")
        BY <1>4 DEF At
    <2> QED
        BY <1>4, <2>1, <2>2, Sending DEF IsPrompt
<1>5. task'.msg = task.msg \/ task'.msg = 0 \/ Begin
      \/ (Send /\ task' = [task EXCEPT !.step = "work", !.msg = Len(chat')] /\ At("send"))
    <2>1. CASE User \/ Confirm \/ OtherCommit \/ OtherRollback
        BY <2>1 DEF User, Command, Press, Reply, Post, Confirm, OtherCommit, OtherRollback
    <2>2. CASE Restart
        BY <2>2 DEF Restart, Idle
    <2>3. CASE Step
        <3>1. /\ Idle.msg = 0
              /\ \A s : [task EXCEPT !.step = s].msg = task.msg
              /\ \A s, x : [task EXCEPT !.service = x, !.step = s].msg = task.msg
            BY Types DEF Idle, Tasks
        <3>2. \/ task' = task \/ task' = Idle
              \/ \E s : task' = [task EXCEPT !.step = s]
              \/ \E s, x : task' = [task EXCEPT !.service = x, !.step = s]
              \/ Send /\ task' = [task EXCEPT !.step = "work", !.msg = Len(chat')] /\ At("send")
            BY <2>3 DEF Step, Answer, Edit, EditFails, Send, SendAgain, SendFails, Work, Write,
                        Commit, StoreError, InsertClashes, Fail, Proceed
        <3>3. CASE \E s : task' = [task EXCEPT !.step = s]
            BY <3>1, <3>3
        <3>4. CASE \E s, x : task' = [task EXCEPT !.service = x, !.step = s]
            BY <3>1, <3>4
        <3> QED
            BY <3>1, <3>2, <3>3, <3>4
    <2> QED
        BY <2>1, <2>2, <2>3 DEF Next
<1> QED
    BY <1>1, <1>2, <1>3, <1>4, <1>5

LEMMA TargetStep ==
    ASSUME DialogueInv, TargetInv, Next
    PROVE  TargetInv'
BY QueueMatches, TaskTargets, PromptsStay DEF TargetInv

-----------------------------------------------------------------------------
(* The memory of the bot.                                                  *)

\* What the deque holds after a prompt was sent.
LEMMA DequeType ==
    ASSUME DialogueInv, MemoryInv, NEW k \in Nat
    PROVE  \/ /\ Len(prompts) < PromptLimit /\ Len(Remembered(k)) = Len(prompts) + 1
              /\ \A i \in 1..Len(prompts) : Remembered(k)[i] = prompts[i]
              /\ Remembered(k)[Len(prompts) + 1] = k
           \/ /\ Len(prompts) = PromptLimit /\ Len(Remembered(k)) = PromptLimit
              /\ \A i \in 1..PromptLimit - 1 : Remembered(k)[i] = prompts[i + 1]
              /\ Remembered(k)[PromptLimit] = k
<1>1. prompts \in Seq(Nat) /\ Len(prompts) \in Nat /\ PromptLimit \in Nat /\ PromptLimit >= 1
    BY Types, LenProperties, DialogueAssumption
<1>2. CASE Len(prompts) < PromptLimit
    BY <1>1, <1>2, AppendProperties DEF Remembered
<1>3. CASE ~(Len(prompts) < PromptLimit)
    <2>1. Len(prompts) = PromptLimit
        BY <1>1, <1>3 DEF MemoryInv
    <2>2. prompts # <<>>
        BY <1>1, <2>1
    <2>3. /\ Tail(prompts) \in Seq(Nat) /\ Len(Tail(prompts)) = PromptLimit - 1
          /\ \A i \in 1..PromptLimit - 1 : Tail(prompts)[i] = prompts[i + 1]
        BY <1>1, <2>1, <2>2, HeadTailProperties
    <2>4. Remembered(k) = Append(Tail(prompts), k)
        BY <1>3 DEF Remembered
    <2> QED
        BY <1>1, <2>1, <2>3, <2>4, AppendProperties
<1> QED
    BY <1>2, <1>3

LEMMA MemoryStays ==
    ASSUME MemoryInv, UNCHANGED prompts, Known' = Known
    PROVE  MemoryInv'
BY DEF MemoryInv

LEMMA AskRemembers ==
    ASSUME DialogueInv, TargetInv, MemoryInv, Send, At("ask")
    PROVE  MemoryInv'
<1> DEFINE new == Len(chat) + 1
<1>1. /\ Len(chat) \in Nat /\ Len(chat') = new
      /\ \A m \in 1..Len(chat) : chat'[m] = chat[m]
      /\ chat'[new].kind = "prompt"
    BY Sending
<1>2. UNCHANGED <<spoiled, born>> /\ prompts' = Remembered(new)
    BY <1>1 DEF Send, marks
<1>3. Known' = Known \union {new}
    <2>1. spoiled \subseteq 1..Len(chat) /\ born \in 0..Len(chat)
        BY DEF TargetInv
    <2>2. new \notin spoiled /\ new > born
        BY <1>1, <2>1
    <2>3. \A m : m \in 1..Len(chat') <=> m \in 1..Len(chat) \/ m = new
        BY <1>1
    <2>4. \A m \in 1..Len(chat') : m \in Known' <=> m \in Known \/ m = new
        BY <1>1, <1>2, <2>2, <2>3 DEF Known
    <2>5. Known' \subseteq 1..Len(chat') /\ Known \subseteq 1..Len(chat)
        BY DEF Known
    <2> QED
        BY <2>3, <2>4, <2>5
<1>4. /\ Len(prompts) \in Nat /\ PromptLimit \in Nat /\ PromptLimit >= 1 /\ new \in Nat
      /\ \A i \in 1..Len(prompts) : prompts[i] \in Nat /\ prompts[i] \in Known /\ prompts[i] < new
      /\ \A m \in Known : m \in Nat /\ m < new
    <2>1. Len(prompts) \in Nat /\ PromptLimit \in Nat /\ PromptLimit >= 1 /\ new \in Nat
        BY <1>1, Types, LenProperties, DialogueAssumption
    <2>2. \A m \in Known : m \in Nat /\ m < new
        BY <1>1 DEF Known
    <2>3. \A i \in 1..Len(prompts) : prompts[i] \in Known
        BY DEF MemoryInv
    <2> QED
        BY <2>1, <2>2, <2>3
<1>5. /\ Len(prompts) <= PromptLimit
      /\ \A i, j \in 1..Len(prompts) : i < j => prompts[i] < prompts[j]
      /\ \A m \in Known :
            \/ \E i \in 1..Len(prompts) : prompts[i] = m
            \/ Len(prompts) = PromptLimit /\ \A i \in 1..Len(prompts) : m < prompts[i]
    BY DEF MemoryInv
<1> HIDE DEF new
<1>6. CASE /\ Len(prompts) < PromptLimit /\ Len(prompts') = Len(prompts) + 1
           /\ \A i \in 1..Len(prompts) : prompts'[i] = prompts[i]
           /\ prompts'[Len(prompts) + 1] = new
    <2>1. Len(prompts') <= PromptLimit
        BY <1>4, <1>6
    <2>2. \A i \in 1..Len(prompts') : prompts'[i] \in Known'
        BY <1>3, <1>4, <1>6
    <2>3. \A i, j \in 1..Len(prompts') : i < j => prompts'[i] < prompts'[j]
        BY <1>4, <1>5, <1>6
    <2>4. \A m \in Known' : \E i \in 1..Len(prompts') : prompts'[i] = m
        <3> SUFFICES ASSUME NEW m \in Known' PROVE \E i \in 1..Len(prompts') : prompts'[i] = m
            OBVIOUS
        <3>1. CASE m = new
            BY <1>4, <1>6, <3>1
        <3>2. CASE m \in Known
            <4>1. PICK i \in 1..Len(prompts) : prompts[i] = m
                BY <1>4, <1>5, <1>6, <3>2
            <4> QED
                BY <1>4, <1>6, <4>1
        <3> QED
            BY <1>3, <3>1, <3>2
    <2> QED
        BY <2>1, <2>2, <2>3, <2>4 DEF MemoryInv
<1>7. CASE /\ Len(prompts) = PromptLimit /\ Len(prompts') = PromptLimit
           /\ \A i \in 1..PromptLimit - 1 : prompts'[i] = prompts[i + 1]
           /\ prompts'[PromptLimit] = new
    <2>1. \A i \in 1..PromptLimit - 1 : i + 1 \in 1..Len(prompts)
        BY <1>4, <1>7
    <2>2. \A i \in 1..Len(prompts') : prompts'[i] \in Known'
        BY <1>3, <1>4, <1>7, <2>1
    <2>3. \A i, j \in 1..Len(prompts') : i < j => prompts'[i] < prompts'[j]
        BY <1>4, <1>5, <1>7, <2>1
    <2>4. ASSUME NEW m \in Known'
          PROVE  \/ \E i \in 1..Len(prompts') : prompts'[i] = m
                 \/ \A i \in 1..Len(prompts') : m < prompts'[i]
        <3>1. CASE m = new
            BY <1>4, <1>7, <3>1
        <3>2. CASE m \in Known /\ \E i \in 1..Len(prompts) : prompts[i] = m
            <4>1. PICK i \in 1..Len(prompts) : prompts[i] = m
                BY <3>2
            <4>2. CASE i = 1
                <5>1. \A j \in 1..PromptLimit - 1 : m < prompts[j + 1]
                    BY <1>4, <1>5, <1>7, <2>1, <4>1, <4>2
                <5>2. m < new
                    BY <1>4, <3>2
                <5>3. ASSUME NEW j \in 1..Len(prompts') PROVE m < prompts'[j]
                    <6>1. j = PromptLimit \/ j \in 1..PromptLimit - 1
                        BY <1>4, <1>7
                    <6> QED
                        BY <1>7, <5>1, <5>2, <6>1
                <5> QED
                    BY <5>3
            <4>3. CASE i # 1
                <5>1. i - 1 \in 1..PromptLimit - 1 /\ prompts'[i - 1] = m
                    BY <1>4, <1>7, <4>1, <4>3
                <5> QED
                    BY <1>4, <1>7, <5>1
            <4> QED
                BY <4>2, <4>3
        <3>3. CASE m \in Known /\ \A i \in 1..Len(prompts) : m < prompts[i]
            <4>1. \A j \in 1..PromptLimit - 1 : m < prompts[j + 1]
                BY <2>1, <3>3
            <4> QED
                BY <1>4, <1>7, <3>3, <4>1
        <3> QED
            BY <1>3, <1>5, <3>1, <3>2, <3>3
    <2> QED
        BY <1>4, <1>7, <2>2, <2>3, <2>4 DEF MemoryInv
<1> QED
    BY <1>2, <1>4, <1>6, <1>7, DequeType

LEMMA MemoryStep ==
    ASSUME DialogueInv, TargetInv, MemoryInv, Next
    PROVE  MemoryInv'
<1>1. CASE Send /\ At("ask")
    BY <1>1, AskRemembers
<1>2. CASE Restart
    <2>1. Known' = {}
        BY <1>2, Types DEF Restart, Known
    <2>2. prompts' = <<>> /\ Len(prompts') = 0
        BY <1>2 DEF Restart
    <2> QED
        BY <2>1, <2>2, DialogueAssumption DEF MemoryInv
<1>3. CASE UNCHANGED <<prompts, born>> /\ ~(Send /\ At("ask"))
    <2>1. ASSUME NEW m PROVE m \in Known' <=> m \in Known
        <3>1. CASE m \in 1..Len(chat)
            <4>1. m \in Known <=> IsPrompt(m) /\ m \notin spoiled /\ m > born
                BY <3>1 DEF Known, IsPrompt
            <4>2. m \in Known' <=> IsPrompt(m)' /\ m \notin spoiled' /\ m > born
                BY <1>3, <3>1, PromptsStay DEF Known, IsPrompt
            <4> QED
                BY <3>1, <4>1, <4>2, PromptsStay
        <3>2. CASE m \notin 1..Len(chat) /\ m \in 1..Len(chat')
            <4>1. CASE Send
                <5>1. ~At("ask")
                    BY <1>3, <4>1
                <5> QED
                    BY <3>2, <4>1, <5>1, Sending DEF Known
            <4>2. CASE SendAgain
                <5>1. Len(chat') \in spoiled' /\ m = Len(chat')
                    BY <3>2, <4>2, Sending DEF SendAgain
                <5> QED
                    BY <3>2, <5>1 DEF Known
            <4>3. CASE ~(Send \/ SendAgain)
                <5>1. Len(chat') = Len(chat)
                    BY <4>3, Changes, Editing DEF Restart
                <5> QED
                    BY <3>2, <5>1
            <4> QED
                BY <4>1, <4>2, <4>3
        <3>3. CASE m \notin 1..Len(chat) /\ m \notin 1..Len(chat')
            BY <3>3 DEF Known
        <3> QED
            BY <3>1, <3>2, <3>3
    <2> QED
        BY <1>3, <2>1, MemoryStays
<1>4. Restart \/ (Send /\ At("ask")) \/ UNCHANGED <<prompts, born>>
    BY Changes DEF Edit, EditFails, Send, SendAgain, Fail, marks
<1> QED
    BY <1>1, <1>2, <1>3, <1>4

-----------------------------------------------------------------------------
(* The replies that are ignored.                                           *)

LEMMA LaterIsFinite ==
    ASSUME DialogueInv, NEW m
    PROVE  IsFiniteSet(Later(m)) /\ Cardinality(Later(m)) \in Nat
<1>1. Later(m) \in SUBSET (1..Len(chat)) /\ Len(chat) \in Nat
    BY Types DEF Later
<1>2. IsFiniteSet(1..Len(chat))
    BY <1>1, FS_Interval
<1> QED
    BY <1>1, <1>2, FS_Subset, FS_CardinalityType

(* A prompt that was pushed out of the deque is followed by as many as the *)
(* deque holds.                                                            *)
LEMMA PushedOut ==
    ASSUME DialogueInv, MemoryInv, NEW m, Len(prompts) = PromptLimit,
           \A i \in 1..Len(prompts) : m < prompts[i]
    PROVE  Cardinality(Later(m)) >= PromptLimit
<1> DEFINE f == [i \in 1..PromptLimit |-> prompts[i]]
<1>1. \A i \in 1..PromptLimit : prompts[i] \in Later(m)
    BY Types DEF MemoryInv, Known, Later
<1>2. \A i, j \in 1..PromptLimit : i # j => prompts[i] # prompts[j]
    <2>1. \A i \in 1..PromptLimit : prompts[i] \in Nat
        BY Types, ElementOfSeq
    <2> QED
        BY <2>1, DialogueAssumption DEF MemoryInv
<1>3. f \in Injection(1..PromptLimit, Later(m))
    BY <1>1, <1>2 DEF Injection, IsInjective
<1>4. Cardinality(1..PromptLimit) <= Cardinality(Later(m))
    BY <1>3, LaterIsFinite, FS_Injection
<1>5. Cardinality(1..PromptLimit) = PromptLimit
    BY DialogueAssumption, FS_Interval
<1> QED
    BY <1>4, <1>5, LaterIsFinite, DialogueAssumption

LEMMA ExcuseStays ==
    ASSUME DialogueInv, TargetInv, Next, NEW m, IsPrompt(m), Excused(m)
    PROVE  IsPrompt(m)' /\ Excused(m)'
<1>1. m \in 1..Len(chat) /\ IsPrompt(m)'
    BY PromptsStay DEF IsPrompt
<1>2. CASE m <= born
    <2>1. born \in Nat /\ born' \in Nat /\ m \in Nat /\ born <= born'
        BY <1>1, PromptsStay DEF TargetInv
    <2> QED
        BY <1>1, <1>2, <2>1 DEF Excused
<1>3. CASE m \in spoiled
    BY <1>1, <1>3, PromptsStay DEF Excused
<1>4. CASE Cardinality(Later(m)) >= PromptLimit
    <2>1. Later(m) \subseteq Later(m)'
        <3> SUFFICES ASSUME NEW k \in Later(m) PROVE k \in Later(m)'
            OBVIOUS
        <3>1. k \in 1..Len(chat) /\ k \notin spoiled /\ k > m /\ IsPrompt(k)
            BY Types DEF Later, IsPrompt
        <3>2. IsPrompt(k)' /\ k \notin spoiled'
            BY <3>1, PromptsStay
        <3>3. DialogueInv'
            BY StepInv
        <3>4. DOMAIN chat' = 1..Len(chat')
            BY <3>3, LenProperties DEF DialogueInv, TypeOK
        <3> QED
            BY <3>1, <3>2, <3>4 DEF Later, IsPrompt
    <2>2. IsFiniteSet(Later(m)') /\ Cardinality(Later(m)') \in Nat
        <3>1. DialogueInv'
            BY StepInv
        <3>2. /\ Later(m)' \in SUBSET (1..Len(chat')) /\ Len(chat') \in Nat
            BY <3>1, LenProperties DEF DialogueInv, TypeOK, Later
        <3>3. IsFiniteSet(1..Len(chat'))
            BY <3>2, FS_Interval
        <3> QED
            BY <3>2, <3>3, FS_Subset, FS_CardinalityType
    <2>3. Cardinality(Later(m)) <= Cardinality(Later(m)')
        BY <2>1, <2>2, FS_Subset
    <2>4. Cardinality(Later(m)') >= PromptLimit
        BY <1>4, <2>2, <2>3, LaterIsFinite, DialogueAssumption
    <2> QED
        BY <1>1, <2>4 DEF Excused
<1> QED
    BY <1>2, <1>3, <1>4 DEF Excused

LEMMA IgnoredStep ==
    ASSUME DialogueInv, TargetInv, MemoryInv, IgnoredInv, Next
    PROVE  IgnoredInv'
<1>1. ASSUME NEW in, in = queue[done + 1], Ignore(in)
      PROVE  IsPrompt(in.msg) /\ Excused(in.msg)
    <2>1. Handle /\ in.do = "reply" /\ ~Remembers(in.msg)
        BY <1>1 DEF Ignore
    <2>2. in \in Inputs /\ Sound(in) /\ Matching(in)
        BY <1>1, <2>1, NextInput
    <2>3. IsPrompt(in.msg)
        BY <2>1, <2>2 DEF Sound, Matching, Adds
    <2>4. CASE in.msg \in Known
        <3>1. DOMAIN prompts = 1..Len(prompts)
            BY Types, LenProperties
        <3>2. Len(prompts) = PromptLimit /\ \A i \in 1..Len(prompts) : in.msg < prompts[i]
            BY <2>1, <2>4, <3>1 DEF Remembers, MemoryInv
        <3> QED
            BY <2>3, <3>2, PushedOut DEF Excused
    <2>5. CASE in.msg \notin Known
        <3>1. in.msg \in Nat /\ born \in Nat
            BY <2>2, Types DEF Inputs, TargetInv
        <3> QED
            BY <2>3, <2>5, <3>1 DEF Known, IsPrompt, Excused
    <2> QED
        BY <2>4, <2>5
<1>2. \/ UNCHANGED ignored
      \/ \E in : in = queue[done + 1] /\ Ignore(in) /\ ignored' = ignored \union {in.msg}
    BY DEF Next, User, Command, Press, Reply, Post, Confirm, Begin, BeginCommand, BeginAdd, Ignore,
           BeginPress, Handle, Step, Answer, Edit, EditFails, Send, SendAgain, SendFails, Work,
           Write, Commit, StoreError, InsertClashes, Fail, OtherCommit, OtherRollback, Restart,
           marks
<1>3. \A m \in ignored' : IsPrompt(m) /\ Excused(m)
    BY <1>1, <1>2 DEF IgnoredInv
<1>4. \A m \in ignored' : IsPrompt(m)' /\ Excused(m)'
    BY <1>3, ExcuseStays
<1> QED
    BY <1>4 DEF IgnoredInv

LEMMA PromptsInductive == Spec => [](TargetInv /\ MemoryInv /\ IgnoredInv)
<1>1. Init => TargetInv /\ MemoryInv /\ IgnoredInv
    <2> SUFFICES ASSUME Init PROVE TargetInv /\ MemoryInv /\ IgnoredInv
        OBVIOUS
    <2>1. Len(chat) = 0 /\ Len(queue) = 0 /\ Len(prompts) = 0 /\ task.msg = 0
        BY DEF Init, Idle
    <2> QED
        BY <2>1, DialogueAssumption DEF Init, TargetInv, MemoryInv, IgnoredInv, IsPrompt, Known
<1>2. DialogueInv /\ TargetInv /\ MemoryInv /\ IgnoredInv /\ [Next]_vars
          => (TargetInv /\ MemoryInv /\ IgnoredInv)'
    <2>1. CASE Next
        BY <2>1, TargetStep, MemoryStep, IgnoredStep
    <2>2. CASE UNCHANGED vars
        BY <2>2 DEF vars, updates, marks, TargetInv, Matching, MemoryInv, IgnoredInv, IsPrompt,
                    Known, Excused, Later
    <2> QED
        BY <2>1, <2>2
<1> QED
    BY <1>1, <1>2, Inductive, PTL DEF Spec

(* The reply to a prompt is ignored only if the prompt is from before a    *)
(* restart, its sending failed, or PENDING_ADD_LIMIT prompts followed it   *)
(* (bot.py:151-154, 241-244).                                              *)
THEOREM RepliesAreHeard == Spec => []OnlyOldPromptsAreIgnored
<1>1. IgnoredInv => OnlyOldPromptsAreIgnored
    BY DEF IgnoredInv, Excused, OnlyOldPromptsAreIgnored
<1> QED
    BY <1>1, PromptsInductive, PTL
=============================================================================
