----------------------------- MODULE AlertProofs -----------------------------
(***************************************************************************)
(* Proofs about what MonitorService remembers and what the user is told,   *)
(* for any sites, addresses, thresholds and replies, in three steps:       *)
(* whatever fails, a notification is recorded only of an alert the user    *)
(* has just received; while no store operation fails, memory and store     *)
(* agree over any number of crashes; while nothing fails at all, the       *)
(* alerts of a site are exactly the news about it.                         *)
(***************************************************************************)
EXTENDS MonitorServiceProofs

-----------------------------------------------------------------------------
(* The operators of StateMachine.                                          *)

(* A check does not touch the record of what was delivered                 *)
(* (state_machine.py:26-60).                                               *)
LEMMA ApplyCheckKeeps ==
  ASSUME NEW s \in StateRecords, NEW o \in Outcome
  PROVE  ApplyCheck(s, o, 0, Threshold).notified_status = s.notified_status
<1>1. OnSuccess(s, 0, Threshold).notified_status = s.notified_status
  BY DEF OnSuccess, StateRecords
<1>2. OnFailure(s, 0, Threshold).notified_status = s.notified_status
  BY DEF OnFailure, StateRecords
<1>. QED
  BY <1>1, <1>2 DEF ApplyCheck, Outcome

(* A notification records what was delivered (state_machine.py:72-77).     *)
LEMMA MarkNotifiedSets ==
  ASSUME NEW s \in StateRecords, NEW k
  PROVE  MarkNotified(s, k).notified_status = IF k = "DOWN" THEN "DOWN" ELSE "UP"
  BY DEF MarkNotified, StateRecords

(* DOWN is owed only if it was not delivered, RECOVERED only if it was     *)
(* (state_machine.py:63-69).                                               *)
LEMMA PendingAlertMeans ==
  ASSUME NEW s
  PROVE  /\ PendingAlert(s) = "DOWN" => s.notified_status # "DOWN"
         /\ PendingAlert(s) = "RECOVERED" => s.notified_status = "DOWN"
         /\ s.status = "DOWN" /\ PendingAlert(s) = None => s.notified_status = "DOWN"
  BY ParametersAssumption DEF PendingAlert, Kind

(* Two tasks are never both at work on one site (service.py:100).          *)
LEMMA Alone ==
  ASSUME IInv, NEW a \in Actors, NEW n \in Names, pc[a][n] \in CheckSteps \union RemoveSteps
  PROVE  \A b \in Actors : b # a => pc[b][n] \notin CheckSteps \union RemoveSteps
  BY DEF IInv, LockInv, Working

(* A task at work moves alone, whether it goes on or ends.                 *)
LEMMA MovesAlone ==
  ASSUME TypeOK, NEW a \in Actors, NEW n \in Names, NEW step,
         Goto(a, n, step)
  PROVE  \A b \in Actors, m \in Names :
            pc'[b][m] = IF b = a /\ m = n THEN step ELSE pc[b][m]
  BY DEF Goto, TypeOK

-----------------------------------------------------------------------------
(* What was told before it is recorded, over every fault.                  *)

\* A task that sends owes its alert, and one that waits for the answer has told it.
NoticeAt(n) ==
    \A a \in Actors :
      /\ pc[a][n] \in {"send", "sent"} => PendingAlert(states[n]) # None
      /\ At(a, n, "sent") => told[n] = PendingAlert(states[n])

NoticeInv == \A n \in Names : NoticeAt(n)

\* The state s records nothing new about n, or what the user has just received.
Heard(s, n) ==
    s # None =>
        \/ s.notified_status \in Recorded(n) \union {None}
        \/ told[n] = AlertOf(s.notified_status)

\* What NotifiedWasTold says of one step and one site.
ToldFirst(n) ==
    \A status \in Recorded(n)' \ (Recorded(n) \union {None}) : told[n] = AlertOf(status)

\* What every step does.
NoticeStep == \A n \in Names : NoticeAt(n)' /\ ToldFirst(n)

(* What a step may do to a site without recording anything untold.         *)
LEMMA NoticeKept ==
  ASSUME NEW n \in Names, NoticeAt(n),
         \/ states'[n] = states[n] /\ told'[n] \in {told[n], PendingAlert(states[n])}
         \/ Heard(states'[n], n) /\ \A a \in Actors : pc'[a][n] \notin {"send", "sent"},
         conn'.state[n] \in {conn.state[n], disk.state[n], states[n], None},
         disk'.state[n] \in {conn.state[n], disk.state[n]},
         \A a \in Actors :
            \/ pc'[a][n] = pc[a][n] \/ pc'[a][n] \notin {"send", "sent"}
            \/ /\ PendingAlert(states[n]) # None
               /\ pc'[a][n] = "send" \/ told'[n] = PendingAlert(states[n])
  PROVE  NoticeAt(n)' /\ ToldFirst(n)
<1>1. ASSUME NEW a \in Actors, pc'[a][n] \in {"send", "sent"}
      PROVE  PendingAlert(states'[n]) # None
  BY <1>1 DEF NoticeAt
<1>2. ASSUME NEW a \in Actors, pc'[a][n] = "sent"
      PROVE  told'[n] = PendingAlert(states'[n])
  BY <1>2 DEF NoticeAt, At
<1>3. ToldFirst(n)
  <2>. SUFFICES ASSUME NEW status \in Recorded(n)', status \notin Recorded(n) \union {None}
                PROVE  told[n] = AlertOf(status)
    BY DEF ToldFirst
  <2>1. PICK s \in {states'[n], conn'.state[n], disk'.state[n]} :
          s # None /\ status = s.notified_status
    BY DEF Recorded
  <2>2. s \notin {states[n], conn.state[n], disk.state[n]}
    BY <2>1 DEF Recorded
  <2>3. Heard(s, n)
    BY <2>1, <2>2
  <2>. QED
    BY <2>1, <2>3 DEF Heard
<1>. QED
  BY <1>1, <1>2, <1>3 DEF NoticeAt, At

(* A check that moves on without touching memory or sending.               *)
LEMMA NoticeMove ==
  ASSUME IInv, NoticeInv, NEW a \in Actors, NEW n \in Names, NEW step,
         Goto(a, n, step), step \notin {"send", "sent"},
         UNCHANGED <<states, told>>,
         \A m \in Names : conn'.state[m] \in {conn.state[m], disk.state[m], states[m], None},
         disk' \in {conn, disk}
  PROVE  NoticeStep
<1>1. ASSUME NEW m \in Names PROVE NoticeAt(m)' /\ ToldFirst(m)
  <2>1. \A b \in Actors : pc'[b][m] = pc[b][m] \/ pc'[b][m] = step
    BY MovesAlone DEF IInv
  <2>. QED
    BY <2>1, NoticeKept DEF NoticeInv
<1>. QED
  BY <1>1 DEF NoticeStep

(* A step that changes the state of one site nobody else is sending about. *)
LEMMA NoticeWrite ==
  ASSUME IInv, NoticeInv, NEW a \in Actors, NEW n \in Names,
         NEW step, Goto(a, n, step), step \notin {"send", "sent"},
         \A b \in Actors : b # a => pc[b][n] \notin {"send", "sent"},
         \A m \in Names : m # n => states'[m] = states[m],
         Heard(states'[n], n),
         UNCHANGED <<conn, disk, told>>
  PROVE  NoticeStep
<1>1. ASSUME NEW m \in Names PROVE NoticeAt(m)' /\ ToldFirst(m)
  <2>1. \A b \in Actors :
          /\ pc'[b][m] = pc[b][m] \/ pc'[b][m] = step
          /\ pc'[b][n] \notin {"send", "sent"}
    BY MovesAlone DEF IInv
  <2>. QED
    BY <2>1, NoticeKept DEF NoticeInv
<1>. QED
  BY <1>1 DEF NoticeStep

(* A state that is loaded records nothing the store did not.               *)
LEMMA LoadedHeard ==
  ASSUME NEW db \in {conn, disk}, NEW n, NEW u
  PROVE  Heard(Loaded(db, n, u), n)
<1>1. CASE db.state[n] # None /\ db.state[n].url = u
  BY <1>1 DEF Loaded, Heard, Recorded
<1>2. CASE ~(db.state[n] # None /\ db.state[n].url = u)
  BY <1>2 DEF Loaded, Heard, Fresh
<1>. QED
  BY <1>1, <1>2

LEMMA NoticeCheck ==
  ASSUME IInv, NoticeInv, NEW a \in Actors, NEW n \in Names, CheckStep(a, n)
  PROVE  NoticeStep
<1>. TypeOK /\ TypeOK' /\ NoticeAt(n)
  BY NextInv DEF IInv, NoticeInv, Next
<1>1. CASE Enter(a, n)
  <2>1. \E step \in {"idle", "sem"} : Goto(a, n, step)
    BY <1>1 DEF Enter, Leave
  <2>2. UNCHANGED <<states, told, conn, disk>>
    BY <1>1 DEF Enter
  <2>. QED
    BY <2>1, <2>2, NoticeMove
<1>2. CASE SemEnter(a, n)
  BY <1>2, NoticeMove DEF SemEnter
<1>3. CASE HttpDone(a, n)
  <2>0. pc[a][n] \in CheckSteps /\ UNCHANGED <<conn, disk, told>>
    BY <1>3 DEF HttpDone, At, CheckSteps
  <2>1. CASE UNCHANGED states
    <3>1. \E step \in {"save", "load"} : Goto(a, n, step)
      BY <1>3 DEF HttpDone
    <3>. QED
      BY <2>0, <2>1, <3>1, NoticeMove
  <2>2. CASE ~UNCHANGED states
    <3>1. PICK code \in ReplyCodes :
            /\ Cached(n, snap[a][n].url)
            /\ states' = [states EXCEPT ![n] = ApplyCheck(@, Classify(code), 0, Threshold)]
            /\ Goto(a, n, "save")
      BY <1>3, <2>2 DEF HttpDone
    <3>2. Classify(code) \in Outcome /\ states[n] \in StateRecords
      BY <3>1, ClassifyType, ParametersAssumption DEF Cached, TypeOK
    <3>3. states'[n] = ApplyCheck(states[n], Classify(code), 0, Threshold)
      BY <3>1 DEF TypeOK
    <3>4. /\ states'[n].notified_status = states[n].notified_status
          /\ states[n] # None
      BY <3>2, <3>3, ApplyCheckKeeps, ParametersAssumption
    <3>5. \A m \in Names : m # n => states'[m] = states[m]
      BY <3>1 DEF TypeOK
    <3>6. Heard(states'[n], n)
      BY <3>4 DEF Heard, Recorded
    <3>7. \A b \in Actors : b # a => pc[b][n] \notin {"send", "sent"}
      BY <2>0, Alone DEF CheckSteps
    <3>. QED
      BY <2>0, <3>1, <3>5, <3>6, <3>7, NoticeWrite
  <2>. QED
    BY <2>1, <2>2
<1>4. CASE LoadDone(a, n)
  <2> DEFINE r == Loaded(conn, n, snap[a][n].url)
  <2>1. /\ pc[a][n] \in CheckSteps /\ UNCHANGED <<conn, disk, told>>
        /\ Goto(a, n, "save")
        /\ states' = [states EXCEPT ![n] = ApplyCheck(r, res[a][n], 0, Threshold)]
    BY <1>4 DEF LoadDone, At, CheckSteps
  <2>2. snap[a][n].url \in Urls /\ res[a][n] \in Outcome
    BY <1>4 DEF LoadDone, IInv, TaskInv, At, CheckSteps, Sites
  <2>3. r \in StateRecords /\ Heard(r, n)
    BY <2>2, LoadedType, LoadedHeard DEF TypeOK
  <2>4. /\ states'[n] = ApplyCheck(r, res[a][n], 0, Threshold)
        /\ \A m \in Names : m # n => states'[m] = states[m]
    BY <2>1 DEF TypeOK
  <2> HIDE DEF r
  <2>5. states'[n].notified_status = r.notified_status /\ r # None
    BY <2>2, <2>3, <2>4, ApplyCheckKeeps, ParametersAssumption
  <2>6. Heard(states'[n], n)
    BY <2>3, <2>5 DEF Heard
  <2>7. \A b \in Actors : b # a => pc[b][n] \notin {"send", "sent"}
    BY <2>1, Alone DEF CheckSteps
  <2>. QED
    BY <2>1, <2>4, <2>6, <2>7, NoticeWrite
<1>5. CASE Save(a, n)
  <2>1. \A m \in Names : conn'.state[m] \in {conn.state[m], states[m]}
    BY <1>5 DEF Save, Upserted, TypeOK, Stores
  <2>2. /\ \E step \in {"commit", "commit2"} : Goto(a, n, step)
        /\ UNCHANGED <<states, told, disk>>
    BY <1>5 DEF Save
  <2>. QED
    BY <2>1, <2>2, NoticeMove
<1>6. CASE Commit(a, n)
  <2>1. disk' = conn /\ UNCHANGED <<states, told, conn>>
    BY <1>6 DEF Commit
  <2>2. CASE Alert(a, n) = None
    BY <1>6, <2>1, <2>2, NoticeMove DEF Commit, Leave
  <2>3. CASE Alert(a, n) # None
    <3>1. Goto(a, n, "send") /\ PendingAlert(states[n]) # None
      BY <1>6, <2>3 DEF Commit, Alert
    <3>2. ASSUME NEW m \in Names PROVE NoticeAt(m)' /\ ToldFirst(m)
      <4>1. \A b \in Actors : pc'[b][m] = pc[b][m] \/ (pc'[b][m] = "send" /\ m = n)
        BY <3>1, MovesAlone
      <4>. QED
        BY <2>1, <3>1, <4>1, NoticeKept DEF NoticeInv
    <3>. QED
      BY <3>2 DEF NoticeStep
  <2>. QED
    BY <2>2, <2>3
<1>7. CASE Deliver(a, n)
  <2>1. /\ Goto(a, n, "sent") /\ told' = [told EXCEPT ![n] = PendingAlert(states[n])]
        /\ PendingAlert(states[n]) # None
        /\ UNCHANGED <<states, conn, disk>>
    BY <1>7 DEF Deliver, NoticeAt, At
  <2>2. ASSUME NEW m \in Names PROVE NoticeAt(m)' /\ ToldFirst(m)
    <3>1. /\ \A b \in Actors : pc'[b][m] = pc[b][m] \/ (pc'[b][m] = "sent" /\ m = n)
          /\ told'[m] = IF m = n THEN PendingAlert(states[n]) ELSE told[m]
      BY <2>1, MovesAlone DEF TypeOK
    <3>. QED
      BY <2>1, <3>1, NoticeKept DEF NoticeInv
  <2>. QED
    BY <2>2 DEF NoticeStep
<1>8. CASE SendFail(a, n)
  <2>1. UNCHANGED <<states, conn, disk, told>> /\ Goto(a, n, "idle")
    BY <1>8 DEF SendFail, Unsent, Leave, TypeOK
  <2>. QED
    BY <2>1, NoticeMove
<1>9. CASE AnswerLost(a, n)
  <2>1. /\ UNCHANGED <<states, conn, disk, told>>
        /\ PendingAlert(states[n]) # None
        /\ \E step \in {"send", "idle"} : Goto(a, n, step)
    BY <1>9 DEF AnswerLost, Leave, NoticeAt, At
  <2>2. ASSUME NEW m \in Names PROVE NoticeAt(m)' /\ ToldFirst(m)
    <3>1. \A b \in Actors :
            pc'[b][m] = pc[b][m] \/ (pc'[b][m] \in {"send", "idle"} /\ m = n)
      BY <2>1, MovesAlone
    <3>. QED
      BY <2>1, <3>1, NoticeKept DEF NoticeInv
  <2>. QED
    BY <2>2 DEF NoticeStep
<1>10. CASE Ack(a, n)
  <2>1. /\ pc[a][n] \in CheckSteps /\ pc[a][n] \in JudgedSteps
        /\ UNCHANGED <<conn, disk, told>> /\ Goto(a, n, "save2")
        /\ told[n] = PendingAlert(states[n]) /\ told[n] # None
        /\ states' = [states EXCEPT ![n] = MarkNotified(@, PendingAlert(@))]
    BY <1>10 DEF Ack, At, CheckSteps, JudgedSteps, NoticeAt
  <2>2. /\ states'[n] = MarkNotified(states[n], told[n])
        /\ \A m \in Names : m # n => states'[m] = states[m]
    BY <2>1 DEF TypeOK
  <2>3. states[n] \in StateRecords /\ told[n] \in Kind
    BY <2>1 DEF IInv, TaskInv, TypeOK
  <2>4. AlertOf(states'[n].notified_status) = told[n]
    BY <2>2, <2>3, MarkNotifiedSets DEF AlertOf, Kind
  <2>5. Heard(states'[n], n)
    BY <2>4 DEF Heard
  <2>6. \A b \in Actors : b # a => pc[b][n] \notin {"send", "sent"}
    BY <2>1, Alone DEF CheckSteps
  <2>. QED
    BY <2>1, <2>2, <2>5, <2>6, NoticeWrite
<1>11. CASE CommitNotified(a, n)
  BY <1>11, NoticeMove DEF CommitNotified, Leave
<1>12. CASE CheckerRaises(a, n)
  BY <1>12, NoticeMove DEF CheckerRaises, Leave
<1>. QED
  BY <1>1, <1>2, <1>3, <1>4, <1>5, <1>6, <1>7, <1>8, <1>9, <1>10, <1>11, <1>12 DEF CheckStep

LEMMA NoticeBot ==
  ASSUME IInv, NoticeInv, NEW n \in Names, BotRequest(n) \/ BotStep(n)
  PROVE  NoticeStep
<1>. TypeOK /\ NoticeAt(n) /\ "bot" \in Actors
  BY DEF IInv, NoticeInv, Actors
<1>1. CASE BotCheck(n) \/ BotDelete(n) \/ AddCommit(n) \/ ToggleCommit(n) \/ DeleteSite(n)
            \/ DeleteState(n) \/ BotToggle(n) \/ \E u \in Urls : BotAdd(n, u)
  <2>1. \E step \in {"lock", "rmlock", "addload", "idle", "del2", "delc", "togc", "insc"} :
          Goto("bot", n, step)
    BY <1>1 DEF BotCheck, BotDelete, AddCommit, ToggleCommit, DeleteSite, DeleteState,
       BotToggle, BotAdd, Leave
  <2>2. UNCHANGED <<states, told>> /\ disk' \in {conn, disk}
    BY <1>1 DEF BotCheck, BotDelete, AddCommit, ToggleCommit, DeleteSite, DeleteState,
       BotToggle, BotAdd
  <2>3. \A m \in Names : conn'.state[m] \in {conn.state[m], None}
    BY <1>1 DEF BotCheck, BotDelete, AddCommit, ToggleCommit, DeleteSite, DeleteState,
       StateDeleted, BotToggle, BotAdd, TypeOK, Stores
  <2>. QED
    BY <2>1, <2>2, <2>3, NoticeMove
<1>2. CASE AddLoad(n)
  <2>1. /\ Goto("bot", n, "lock") /\ At("bot", n, "addload")
        /\ states' = [states EXCEPT ![n] = Loaded(conn, n, snap["bot"][n].url)]
        /\ UNCHANGED <<conn, disk, told>>
    BY <1>2 DEF AddLoad
  <2>2. /\ Heard(states'[n], n)
        /\ \A m \in Names : m # n => states'[m] = states[m]
    BY <2>1, LoadedHeard DEF TypeOK
  <2>3. states[n] = None
    BY <2>1 DEF IInv, BotInv
  <2>4. \A b \in Actors : pc[b][n] \notin {"send", "sent"}
    BY <2>3, ParametersAssumption DEF IInv, TaskInv, JudgedSteps, CheckSteps
  <2>. QED
    BY <2>1, <2>2, <2>4, NoticeWrite
<1>3. CASE DeleteCommit(n)
  <2>1. /\ disk' = conn /\ UNCHANGED conn
        /\ states' = [states EXCEPT ![n] = None]
        /\ told' = [told EXCEPT ![n] = IF conn.state[n] = None THEN None ELSE @]
        /\ pc["bot"][n] \in RemoveSteps
    BY <1>3 DEF DeleteCommit, At, RemoveSteps
  <2>2. /\ \A b \in Actors : pc'[b][n] \notin {"send", "sent"}
        /\ \A b \in Actors, m \in Names \ {n} : pc'[b][m] = pc[b][m]
    BY <1>3, <2>1, Alone DEF DeleteCommit, TypeOK, Actors, CheckSteps, RemoveSteps
  <2>3. /\ states'[n] = None /\ told'[n] = IF conn.state[n] = None THEN None ELSE told[n]
        /\ \A m \in Names \ {n} : states'[m] = states[m] /\ told'[m] = told[m]
    BY <2>1 DEF TypeOK
  <2>4. ASSUME NEW m \in Names, m # n PROVE NoticeAt(m)' /\ ToldFirst(m)
    BY <2>1, <2>2, <2>3, <2>4, NoticeKept DEF NoticeInv
  <2>5. Heard(states'[n], n)
    BY <2>3 DEF Heard
  <2>6. NoticeAt(n)' /\ ToldFirst(n)
    BY <2>1, <2>2, <2>5, NoticeKept
  <2>. QED
    BY <2>4, <2>6 DEF NoticeStep
<1>. QED
  BY <1>1, <1>2, <1>3 DEF BotRequest, BotStep

LEMMA NoticeRestart == ASSUME IInv, NoticeInv, Restart PROVE NoticeStep
<1>1. ASSUME NEW n \in Names PROVE NoticeAt(n)' /\ ToldFirst(n)
  <2>1. /\ \A a \in Actors : pc'[a][n] = "idle"
        /\ UNCHANGED <<disk, told>> /\ conn' = disk
        /\ states'[n] = IF sites'[n] = None THEN None ELSE Loaded(disk, n, sites'[n].url)
    BY DEF Restart
  <2>2. Heard(states'[n], n)
    BY <2>1, LoadedHeard DEF Heard
  <2>. QED
    BY <2>1, <2>2, NoticeKept DEF NoticeInv
<1>. QED
  BY <1>1 DEF NoticeStep

(* Every step of the program, with or without faults, preserves NoticeInv. *)
LEMMA NextNotice == ASSUME IInv, NoticeInv, [Next]_vars PROVE NoticeStep
<1>1. ASSUME NEW a \in Actors, RunCycle(a) PROVE NoticeStep
  <2>1. /\ \A b \in Actors, n \in Names : pc'[b][n] = pc[b][n] \/ pc'[b][n] \in {"lock", "idle"}
        /\ UNCHANGED <<states, conn, disk, told>>
    BY <1>1 DEF RunCycle, IInv, TypeOK
  <2>2. ASSUME NEW n \in Names PROVE NoticeAt(n)' /\ ToldFirst(n)
    BY <2>1, NoticeKept DEF NoticeInv
  <2>. QED
    BY <2>2 DEF NoticeStep
<1>2. ASSUME NEW a \in Actors, NEW n \in Names, StoreError(a, n) PROVE NoticeStep
  BY <1>2, NoticeMove DEF StoreError, Leave
<1>3. CASE UNCHANGED vars
  <2>1. ASSUME NEW n \in Names PROVE NoticeAt(n)' /\ ToldFirst(n)
    BY <1>3, NoticeKept DEF vars, NoticeInv
  <2>. QED
    BY <2>1 DEF NoticeStep
<1>. QED
  BY <1>1, <1>2, <1>3, NoticeCheck, NoticeBot, NoticeRestart DEF Next

(* NoticeInv holds always, over crashes, store errors and lost answers.    *)
LEMMA NoticeAlways == Spec => []NoticeInv
<1>1. Init => NoticeInv
  BY DEF Init, NoticeInv, NoticeAt, At
<1>2. NoticeStep => NoticeInv'
  BY DEF NoticeStep, NoticeInv
<1>. QED
  BY <1>1, <1>2, NextNotice, Inductive, PTL DEF Spec

(* What memory, the connection or the disk newly records as notified is an *)
(* alert the user has just received, the first of a site or a later one,   *)
(* over any faults and restarts: no alert is given up before it was        *)
(* delivered (service.py:230-237; README.md:72).                           *)
THEOREM NothingGivenUp == Spec => NotifiedWasTold
<1> DEFINE Step ==
      \A n \in Names :
         \A status \in Recorded(n)' \ (Recorded(n) \union {None}) :
            told[n] = AlertOf(status)
<1>1. NoticeStep => Step
  BY DEF NoticeStep, ToldFirst
<1>2. IInv /\ NoticeInv /\ [Next]_vars => [Step]_vars
  BY <1>1, NextNotice
<1>3. [][Step]_vars <=> NotifiedWasTold
  BY DEF NotifiedWasTold
<1>. QED
  BY <1>2, <1>3, Inductive, NoticeAlways, PTL DEF Spec

-----------------------------------------------------------------------------
(* Memory and store, while no store operation fails.                       *)

\* Whether a task of somebody for n is at one of these steps.
Some(n, S) == \E a \in Actors : pc[a][n] \in S

\* The steps between a change and its commit, or its answer.
Marks == {"insc", "addload", "togc", "save", "commit", "send", "sent",
          "save2", "commit2", "del2", "delc"}

\* Memory holds what the connection would load, except inside a change.
MemoryAt(n) ==
    sites[n] # None /\ ~At("bot", n, "addload") /\ ~Some(n, {"save", "save2", "delc"}) =>
        states[n] = Loaded(conn, n, sites[n].url)

\* Once it is saved, the row is the state, and stays so until the answer.
RowAt(n) ==
    Some(n, {"commit", "send", "sent", "commit2"}) => conn.state[n] = states[n]

\* Only a task on its way to a commit leaves a row uncommitted.
SyncAt(n) ==
    /\ disk.state[n] # conn.state[n] => Some(n, {"commit", "commit2", "delc"})
    /\ disk.managed[n] # conn.managed[n] => Some(n, {"insc", "togc", "del2", "delc"})

\* One check, of some outcome, of the site at some address leads from row r to s.
Checked(n, r, s) ==
    \E o \in Outcome, u \in Urls :
        s = ApplyCheck(IF r # None /\ r.url = u THEN r ELSE Fresh(u), o, 0, Threshold)

Notified(r, s) == r # None /\ \E k \in Kind : s = MarkNotified(r, k)

\* What is executed but not committed, or decided but not saved, is one step.
StepAt(n) ==
    /\ \/ conn.state[n] \in {disk.state[n], None}
       \/ Checked(n, disk.state[n], conn.state[n])
       \/ Notified(disk.state[n], conn.state[n])
    /\ Some(n, {"save"}) => Checked(n, conn.state[n], states[n])
    /\ Some(n, {"save2"}) => Notified(conn.state[n], states[n])

StoreAt(n) == MemoryAt(n) /\ RowAt(n) /\ SyncAt(n) /\ StepAt(n)

StoreInv == \A n \in Names : StoreAt(n)

\* Nothing is executed, decided or told about n in this step; what another
\* task commits may include what was executed for n before.
Same(n) ==
    /\ \A a \in Actors :
         pc'[a][n] = pc[a][n] \/ (pc[a][n] \notin Marks /\ pc'[a][n] \notin Marks)
    /\ sites'[n] = sites[n] /\ states'[n] = states[n] /\ told'[n] = told[n]
    /\ conn'.state[n] = conn.state[n] /\ conn'.managed[n] = conn.managed[n]
    /\ \/ disk'.state[n] = disk.state[n] /\ disk'.managed[n] = disk.managed[n]
       \/ disk'.state[n] = conn.state[n] /\ disk'.managed[n] = conn.managed[n]

LEMMA SameStore == ASSUME NEW n \in Names, StoreAt(n), Same(n) PROVE StoreAt(n)'
<1>1. \A a \in Actors : \A s \in Marks : pc'[a][n] = s <=> pc[a][n] = s
  BY DEF Same
<1>2. MemoryAt(n)'
  BY <1>1 DEF Same, StoreAt, MemoryAt, Some, Marks, Loaded, At, Actors
<1>3. RowAt(n)'
  BY <1>1 DEF Same, StoreAt, RowAt, Some, Marks
<1>4. SyncAt(n)'
  BY <1>1 DEF Same, StoreAt, SyncAt, Some, Marks
<1>5. StepAt(n)'
  <2>1. /\ Some(n, {"save"})' => Some(n, {"save"})
        /\ Some(n, {"save2"})' => Some(n, {"save2"})
    BY <1>1 DEF Some, Marks
  <2>2. /\ Checked(n, conn.state[n], states[n])' <=> Checked(n, conn.state[n], states[n])
        /\ Notified(conn.state[n], states[n])' <=> Notified(conn.state[n], states[n])
    BY DEF Same, Checked, Notified
  <2>3. (/\ \/ conn.state[n] \in {disk.state[n], None}
            \/ Checked(n, disk.state[n], conn.state[n])
            \/ Notified(disk.state[n], conn.state[n]))'
    <3>1. CASE disk'.state[n] = conn.state[n]
      BY <3>1 DEF Same
    <3>2. CASE disk'.state[n] = disk.state[n]
      BY <3>2 DEF Same, StoreAt, StepAt, Checked, Notified
    <3>. QED
      BY <3>1, <3>2 DEF Same
  <2>. QED
    BY <2>1, <2>2, <2>3 DEF StoreAt, StepAt
<1>. QED
  BY <1>2, <1>3, <1>4, <1>5 DEF StoreAt

\* A task of a for n that goes from one step to another, whatever else it does.
Moves(a, n, step) ==
    \A b \in Actors, m \in Names : pc'[b][m] = IF b = a /\ m = n THEN step ELSE pc[b][m]

(* A step of one site is none of any other site's business, but for the    *)
(* shared commit (sqlite.py:154, 187).                                     *)
LEMMA OthersSame ==
  ASSUME IInv, NEW n \in Names, NEW m \in Names, m # n,
         \/ \E a \in Actors : CheckStep(a, n)
         \/ BotRequest(n)
         \/ BotStep(n)
  PROVE  Same(m)
<1>. TypeOK /\ "bot" \in Actors
  BY DEF IInv, Actors
<1>1. ASSUME NEW a \in Actors, NEW step, Goto(a, n, step)
      PROVE  \A b \in Actors : pc'[b][m] = pc[b][m]
  BY <1>1, MovesAlone
<1>2. ASSUME NEW a \in Actors, CheckStep(a, n) PROVE Same(m)
  <2>1. \E step : Goto(a, n, step)
    BY <1>2 DEF CheckStep, Enter, SemEnter, HttpDone, CheckerRaises, LoadDone, Save, Commit,
       Deliver, SendFail, AnswerLost, Ack, CommitNotified, Leave
  <2>2. \A b \in Actors : pc'[b][m] = pc[b][m]
    BY <1>1, <2>1
  <2>3. /\ UNCHANGED sites /\ disk' \in {disk, conn}
        /\ states'[m] = states[m]
        /\ told'[m] = told[m]
        /\ conn'.managed = conn.managed /\ conn'.state[m] = conn.state[m]
    BY <1>2 DEF CheckStep, Enter, SemEnter, HttpDone, CheckerRaises, LoadDone, Save, Upserted,
       Commit, Deliver, SendFail, AnswerLost, Ack, CommitNotified, TypeOK, Stores
  <2>. QED
    BY <2>2, <2>3 DEF Same
<1>3. CASE BotRequest(n)
  <2>1. \E step : Goto("bot", n, step)
    BY <1>3 DEF BotRequest, BotCheck, BotToggle, BotDelete, BotAdd
  <2>2. \A b \in Actors : pc'[b][m] = pc[b][m]
    BY <1>1, <2>1
  <2>3. /\ UNCHANGED <<sites, states, told, disk>>
        /\ conn'.managed[m] = conn.managed[m] /\ conn'.state = conn.state
    BY <1>3 DEF BotRequest, BotCheck, BotToggle, BotDelete, BotAdd, TypeOK, Stores
  <2>. QED
    BY <2>2, <2>3 DEF Same
<1>4. CASE AddCommit(n) \/ AddLoad(n) \/ ToggleCommit(n) \/ DeleteSite(n) \/ DeleteState(n)
  <2>1. \E step : Goto("bot", n, step)
    BY <1>4 DEF AddCommit, AddLoad, ToggleCommit, DeleteSite, DeleteState, Leave
  <2>2. \A b \in Actors : pc'[b][m] = pc[b][m]
    BY <1>1, <2>1
  <2>3. /\ sites'[m] = sites[m] /\ states'[m] = states[m] /\ UNCHANGED told
        /\ disk' \in {disk, conn}
        /\ conn'.managed[m] = conn.managed[m] /\ conn'.state[m] = conn.state[m]
    BY <1>4 DEF AddCommit, AddLoad, ToggleCommit, DeleteSite, DeleteState, StateDeleted,
       TypeOK, Stores
  <2>. QED
    BY <2>2, <2>3 DEF Same
<1>5. CASE DeleteCommit(n)
  BY <1>5 DEF DeleteCommit, Same, TypeOK
<1>. QED
  BY <1>2, <1>3, <1>4, <1>5 DEF BotStep

(* The steps that change nothing but where a task stands.                  *)
LEMMA IdleMove ==
  ASSUME IInv, NEW a \in Actors, NEW n \in Names, NEW step, Goto(a, n, step),
         pc[a][n] \notin Marks, step \notin Marks,
         UNCHANGED <<sites, states, told, conn, disk>>
  PROVE  Same(n)
  BY MovesAlone DEF IInv, Same

LEMMA QuietSteps ==
  ASSUME IInv, NEW n \in Names,
         \/ \E a \in Actors : Enter(a, n) \/ SemEnter(a, n) \/ CheckerRaises(a, n)
         \/ \E a \in Actors : HttpDone(a, n) /\ UNCHANGED states /\ ~Cached(n, snap[a][n].url)
         \/ BotCheck(n) \/ BotDelete(n)
         \/ DeleteSite(n) /\ ~Editable(n)
  PROVE  Same(n)
<1>. "bot" \in Actors
  BY DEF Actors
<1>1. ASSUME NEW a \in Actors,
             \/ Enter(a, n) \/ SemEnter(a, n) \/ CheckerRaises(a, n)
             \/ HttpDone(a, n) /\ UNCHANGED states /\ ~Cached(n, snap[a][n].url)
      PROVE  Same(n)
  <2>1. /\ pc[a][n] \notin Marks /\ \E step \in {"idle", "sem", "http", "load"} : Goto(a, n, step)
        /\ UNCHANGED <<sites, states, told, conn, disk>>
    BY <1>1 DEF Enter, SemEnter, CheckerRaises, HttpDone, Leave, At, Marks
  <2>. QED
    BY <2>1, IdleMove DEF Marks
<1>2. CASE BotCheck(n) \/ BotDelete(n) \/ (DeleteSite(n) /\ ~Editable(n))
  <2>1. /\ pc["bot"][n] \notin Marks /\ \E step \in {"idle", "lock", "rmlock"} : Goto("bot", n, step)
        /\ UNCHANGED <<sites, states, told, conn, disk>>
    BY <1>2 DEF BotCheck, BotDelete, DeleteSite, BotReady, Idle, Leave, At, Marks
  <2>. QED
    BY <2>1, IdleMove DEF Marks
<1>. QED
  BY <1>1, <1>2

(* A result is applied to what the store says of the site, whether or not  *)
(* it had to be read (service.py:153-160).                                 *)
LEMMA Judged ==
  ASSUME IInv, NEW a \in Actors, NEW n \in Names, MemoryAt(n),
         (HttpDone(a, n) /\ Cached(n, snap[a][n].url)) \/ LoadDone(a, n)
  PROVE  /\ Goto(a, n, "save") /\ pc[a][n] \in CheckSteps \ JudgedSteps
         /\ UNCHANGED <<sites, told, conn, disk>>
         /\ sites[n] # None /\ sites[n].url \in Urls
         /\ states[n] = Loaded(conn, n, sites[n].url) /\ states[n] \in StateRecords
         /\ \E o \in Outcome : states'[n] = ApplyCheck(states[n], o, 0, Threshold)
<1>1. /\ Goto(a, n, "save") /\ pc[a][n] \in CheckSteps \ JudgedSteps
      /\ UNCHANGED <<sites, told, conn, disk>>
  BY DEF HttpDone, LoadDone, At, CheckSteps, JudgedSteps
<1>2. sites[n] \in Sites /\ sites[n].url = snap[a][n].url /\ sites[n] # None
  BY <1>1, ParametersAssumption DEF IInv, TaskInv
<1>3. ~At("bot", n, "addload")
  BY <1>1, ParametersAssumption DEF HttpDone, LoadDone, Cached, IInv, BotInv
<1>4. ~Some(n, {"save", "save2", "delc"})
  BY <1>1, Alone DEF Some, CheckSteps, JudgedSteps, RemoveSteps
<1>5. states[n] = Loaded(conn, n, sites[n].url)
  BY <1>2, <1>3, <1>4 DEF MemoryAt
<1>6. sites[n].url \in Urls /\ states[n] \in StateRecords
  BY <1>2, <1>5, LoadedType DEF Sites, IInv, TypeOK
<1>7. \E o \in Outcome : states'[n] = ApplyCheck(states[n], o, 0, Threshold)
  <2>1. CASE HttpDone(a, n) /\ Cached(n, snap[a][n].url)
    BY <2>1, ClassifyType, ParametersAssumption DEF HttpDone, IInv, TypeOK
  <2>2. CASE LoadDone(a, n)
    <3>1. res[a][n] \in Outcome
      BY <2>2 DEF LoadDone, IInv, TaskInv
    <3>2. states'[n] = ApplyCheck(Loaded(conn, n, snap[a][n].url), res[a][n], 0, Threshold)
      BY <2>2 DEF LoadDone, IInv, TypeOK
    <3>. QED
      BY <1>2, <1>5, <3>1, <3>2
  <2>. QED
    BY <2>1, <2>2
<1>. QED
  BY <1>1, <1>2, <1>5, <1>6, <1>7

LEMMA StoreJudged ==
  ASSUME IInv, NEW a \in Actors, NEW n \in Names, StoreAt(n),
         (HttpDone(a, n) /\ Cached(n, snap[a][n].url)) \/ LoadDone(a, n)
  PROVE  StoreAt(n)'
<1>1. /\ Goto(a, n, "save") /\ pc[a][n] \in CheckSteps \ JudgedSteps
      /\ UNCHANGED <<sites, told, conn, disk>>
      /\ sites[n].url \in Urls
      /\ states[n] = Loaded(conn, n, sites[n].url)
      /\ \E o \in Outcome : states'[n] = ApplyCheck(states[n], o, 0, Threshold)
  BY Judged DEF StoreAt
<1>2. \A b \in Actors : pc'[b][n] = IF b = a THEN "save" ELSE pc[b][n]
  BY <1>1, MovesAlone DEF IInv
<1>3. /\ \A b \in Actors : b # a => pc[b][n] \notin CheckSteps \union RemoveSteps
      /\ pc[a][n] \notin {"save", "commit", "send", "sent", "save2", "commit2", "insc", "togc",
                          "del2", "delc"}
  BY <1>1, Alone DEF CheckSteps, JudgedSteps
<1>4. MemoryAt(n)'
  BY <1>2 DEF MemoryAt, Some
<1>5. RowAt(n)'
  BY <1>2, <1>3 DEF RowAt, Some, CheckSteps
<1>6. SyncAt(n)'
  BY <1>1, <1>2, <1>3 DEF StoreAt, SyncAt, Some
<1>7. StepAt(n)'
  <2>1. Checked(n, conn.state[n], states[n])'
    BY <1>1 DEF Checked, Loaded
  <2>2. ~Some(n, {"save2"})'
    BY <1>2, <1>3 DEF Some, CheckSteps
  <2>. QED
    BY <1>1, <2>1, <2>2 DEF StoreAt, StepAt, Checked, Notified
<1>. QED
  BY <1>4, <1>5, <1>6, <1>7 DEF StoreAt

LEMMA StoreSave ==
  ASSUME IInv, NEW a \in Actors, NEW n \in Names, StoreAt(n), Save(a, n)
  PROVE  StoreAt(n)'
<1>1. PICK step \in {"commit", "commit2"} : Goto(a, n, step)
  BY DEF Save
<1>2. /\ pc[a][n] \in JudgedSteps /\ pc[a][n] \in CheckSteps
      /\ conn'.state[n] = states[n] /\ conn'.managed = conn.managed
      /\ UNCHANGED <<sites, states, disk>>
  BY DEF Save, Upserted, CheckSteps, JudgedSteps, IInv, TypeOK, Stores
<1>3. states[n] \in StateRecords /\ states[n].url = sites[n].url /\ states[n] # None
  BY <1>2, ParametersAssumption DEF IInv, TaskInv
<1>4. \A b \in Actors : pc'[b][n] = IF b = a THEN step ELSE pc[b][n]
  BY <1>1, MovesAlone DEF IInv
<1>5. \A b \in Actors : b # a => pc[b][n] \notin CheckSteps \union RemoveSteps
  BY <1>2, Alone
<1>6. ~Some(n, {"commit", "commit2", "delc"})
  BY <1>5 DEF Save, Some, CheckSteps, RemoveSteps
<1>7. MemoryAt(n)'
  BY <1>2, <1>3 DEF MemoryAt, Loaded
<1>8. RowAt(n)'
  BY <1>2 DEF RowAt
<1>9. SyncAt(n)'
  <2>1. Some(n, {"commit", "commit2", "delc"})'
    BY <1>4 DEF Some
  <2>2. Some(n, {"insc", "togc", "del2", "delc"}) => Some(n, {"insc", "togc", "del2", "delc"})'
    BY <1>2, <1>4 DEF Some, CheckSteps
  <2>. QED
    BY <1>2, <2>1, <2>2 DEF StoreAt, SyncAt
<1>10. StepAt(n)'
  <2>1. conn.state[n] = disk.state[n]
    BY <1>6 DEF StoreAt, SyncAt
  <2>2. Checked(n, conn.state[n], states[n]) \/ Notified(conn.state[n], states[n])
    BY DEF Save, StoreAt, StepAt, Some
  <2>3. Checked(n, disk.state[n], conn.state[n])' \/ Notified(disk.state[n], conn.state[n])'
    BY <1>2, <2>1, <2>2 DEF Checked, Notified
  <2>4. ~Some(n, {"save"})' /\ ~Some(n, {"save2"})'
    BY <1>4, <1>5 DEF Some, CheckSteps
  <2>. QED
    BY <2>3, <2>4 DEF StepAt
<1>. QED
  BY <1>7, <1>8, <1>9, <1>10 DEF StoreAt

(* The steps of a task that leave memory and connection alone and either   *)
(* commit or send.                                                         *)
LEMMA StorePass ==
  ASSUME IInv, NEW a \in Actors, NEW n \in Names, StoreAt(n), NEW step, Goto(a, n, step),
         \/ Commit(a, n) /\ step \in {"idle", "send"}
         \/ Deliver(a, n) /\ step = "sent"
         \/ SendFail(a, n) /\ step = "idle"
         \/ AnswerLost(a, n) /\ step \in {"idle", "send"}
         \/ CommitNotified(a, n) /\ step = "idle"
  PROVE  StoreAt(n)'
<1>1. /\ pc[a][n] \in {"commit", "send", "sent", "commit2"} /\ step \in {"idle", "send", "sent"}
      /\ UNCHANGED <<sites, states, conn>>
      /\ disk' \in {disk, conn}
      /\ pc[a][n] \in {"commit", "commit2"} => disk' = conn
  BY DEF Commit, Deliver, SendFail, Unsent, AnswerLost, CommitNotified, At, IInv, TypeOK
<1>2. \A b \in Actors : pc'[b][n] = IF b = a THEN step ELSE pc[b][n]
  BY MovesAlone DEF IInv
<1>3. MemoryAt(n)'
  BY <1>1, <1>2 DEF StoreAt, MemoryAt, Some, At, Actors
<1>4. RowAt(n)'
  BY <1>1, <1>2 DEF StoreAt, RowAt, Some
<1>5. SyncAt(n)'
  BY <1>1, <1>2 DEF StoreAt, SyncAt, Some
<1>6. StepAt(n)'
  <2>1. /\ Some(n, {"save"})' => Some(n, {"save"})
        /\ Some(n, {"save2"})' => Some(n, {"save2"})
    BY <1>1, <1>2 DEF Some
  <2>2. /\ Checked(n, conn.state[n], states[n])' <=> Checked(n, conn.state[n], states[n])
        /\ Notified(conn.state[n], states[n])' <=> Notified(conn.state[n], states[n])
    BY <1>1 DEF Checked, Notified
  <2>3. CASE disk' = conn
    BY <1>1, <2>1, <2>2, <2>3 DEF StoreAt, StepAt
  <2>4. CASE disk' = disk
    BY <1>1, <2>1, <2>2, <2>4 DEF StoreAt, StepAt, Checked, Notified
  <2>. QED
    BY <1>1, <2>3, <2>4
<1>. QED
  BY <1>3, <1>4, <1>5, <1>6 DEF StoreAt

LEMMA StoreAck ==
  ASSUME IInv, NoticeInv, NEW a \in Actors, NEW n \in Names, StoreAt(n), Ack(a, n)
  PROVE  StoreAt(n)'
<1>1. /\ At(a, n, "sent") /\ pc[a][n] \in CheckSteps /\ pc[a][n] \in JudgedSteps
      /\ Goto(a, n, "save2")
      /\ states'[n] = MarkNotified(states[n], PendingAlert(states[n]))
      /\ UNCHANGED <<sites, conn, disk>>
  BY DEF Ack, At, CheckSteps, JudgedSteps, IInv, TypeOK
<1>2. PendingAlert(states[n]) \in Kind
  BY <1>1, PendingAlertType DEF NoticeInv, NoticeAt, At
<1>3. conn.state[n] = states[n] /\ conn.state[n] # None
  BY <1>1, ParametersAssumption DEF StoreAt, RowAt, Some, At, IInv, TaskInv
<1>4. \A b \in Actors : pc'[b][n] = IF b = a THEN "save2" ELSE pc[b][n]
  BY <1>1, MovesAlone DEF IInv
<1>5. \A b \in Actors : b # a => pc[b][n] \notin CheckSteps \union RemoveSteps
  BY <1>1, Alone
<1>6. MemoryAt(n)'
  BY <1>4 DEF MemoryAt, Some
<1>7. RowAt(n)'
  BY <1>4, <1>5 DEF RowAt, Some, CheckSteps
<1>8. SyncAt(n)'
  BY <1>1, <1>4 DEF StoreAt, SyncAt, Some, At
<1>9. StepAt(n)'
  <2>1. Notified(conn.state[n], states[n])'
    BY <1>1, <1>2, <1>3 DEF Notified
  <2>2. ~Some(n, {"save"})'
    BY <1>4, <1>5 DEF Some, CheckSteps
  <2>. QED
    BY <1>1, <2>1, <2>2 DEF StoreAt, StepAt, Checked, Notified
<1>. QED
  BY <1>6, <1>7, <1>8, <1>9 DEF StoreAt

LEMMA StoreBotWrite ==
  ASSUME IInv, NEW n \in Names, StoreAt(n),
         BotToggle(n) \/ (DeleteSite(n) /\ Editable(n)) \/ \E u \in Urls : BotAdd(n, u)
  PROVE  StoreAt(n)'
<1>0. "bot" \in Actors
  BY DEF Actors
<1>1. PICK step \in {"togc", "del2", "insc"} : Goto("bot", n, step)
  BY DEF BotToggle, BotAdd, DeleteSite
<1>2. /\ pc["bot"][n] \in {"idle", "rmlock"}
      /\ UNCHANGED <<sites, states, disk>>
      /\ conn'.state = conn.state
  BY DEF BotToggle, BotAdd, DeleteSite, BotReady, Idle, At, IInv, TypeOK, Stores
<1>3. \A b \in Actors : pc'[b][n] = IF b = "bot" THEN step ELSE pc[b][n]
  BY <1>0, <1>1, MovesAlone DEF IInv
<1>4. MemoryAt(n)'
  BY <1>0, <1>2, <1>3 DEF StoreAt, MemoryAt, Some, At, Loaded
<1>5. RowAt(n)'
  BY <1>2, <1>3 DEF StoreAt, RowAt, Some
<1>6. SyncAt(n)'
  BY <1>0, <1>2, <1>3 DEF StoreAt, SyncAt, Some
<1>7. StepAt(n)'
  <2>1. /\ Some(n, {"save"})' => Some(n, {"save"})
        /\ Some(n, {"save2"})' => Some(n, {"save2"})
    BY <1>3 DEF Some
  <2>. QED
    BY <1>2, <2>1 DEF StoreAt, StepAt, Checked, Notified
<1>. QED
  BY <1>4, <1>5, <1>6, <1>7 DEF StoreAt

LEMMA StoreBotCommit ==
  ASSUME IInv, NEW n \in Names, StoreAt(n), AddCommit(n) \/ ToggleCommit(n)
  PROVE  StoreAt(n)'
<1>0. "bot" \in Actors
  BY DEF Actors
<1>1. PICK step \in {"addload", "idle"} : Goto("bot", n, step)
  BY DEF AddCommit, ToggleCommit
<1>2. /\ pc["bot"][n] \in {"insc", "togc"}
      /\ UNCHANGED <<states, conn>> /\ disk' = conn
      /\ step = "idle" => sites[n] # None /\ sites'[n].url = sites[n].url
      /\ step # "idle" => step = "addload"
  BY <1>0, <1>1, MovesAlone, ParametersAssumption
     DEF AddCommit, ToggleCommit, At, IInv, BotInv, TypeOK, Sites, Goto
<1>3. \A b \in Actors : pc'[b][n] = IF b = "bot" THEN step ELSE pc[b][n]
  BY <1>0, <1>1, MovesAlone DEF IInv
<1>4. MemoryAt(n)'
  <2>1. CASE step = "addload"
    BY <1>0, <1>3, <2>1 DEF MemoryAt, At
  <2>2. CASE step = "idle"
    BY <1>0, <1>2, <1>3, <2>2 DEF StoreAt, MemoryAt, Some, At, Loaded
  <2>. QED
    BY <1>2, <2>1, <2>2
<1>5. RowAt(n)'
  BY <1>2, <1>3 DEF StoreAt, RowAt, Some
<1>6. SyncAt(n)'
  BY <1>2 DEF SyncAt
<1>7. StepAt(n)'
  <2>1. /\ Some(n, {"save"})' => Some(n, {"save"})
        /\ Some(n, {"save2"})' => Some(n, {"save2"})
    BY <1>3 DEF Some
  <2>. QED
    BY <1>2, <2>1 DEF StoreAt, StepAt, Checked, Notified
<1>. QED
  BY <1>4, <1>5, <1>6, <1>7 DEF StoreAt

(* The state of a new site is read while nobody works on it.               *)
LEMMA Loading ==
  ASSUME IInv, NEW n \in Names, AddLoad(n)
  PROVE  /\ Goto("bot", n, "lock") /\ At("bot", n, "addload")
         /\ states'[n] = Loaded(conn, n, sites[n].url)
         /\ states[n] = None /\ sites[n] # None
         /\ UNCHANGED <<sites, told, conn, disk>>
         /\ \A b \in Actors : pc[b][n] \notin JudgedSteps
         /\ \A b \in Actors : pc'[b][n] = IF b = "bot" THEN "lock" ELSE pc[b][n]
<1>0. "bot" \in Actors
  BY DEF Actors
<1>1. /\ Goto("bot", n, "lock") /\ At("bot", n, "addload")
      /\ states' = [states EXCEPT ![n] = Loaded(conn, n, snap["bot"][n].url)]
      /\ UNCHANGED <<sites, told, conn, disk>>
  BY DEF AddLoad
<1>2. states[n] = None /\ sites[n] \in Sites /\ sites[n].url = snap["bot"][n].url
  BY <1>1 DEF IInv, BotInv
<1>3. sites[n] # None /\ states'[n] = Loaded(conn, n, sites[n].url)
  BY <1>1, <1>2, ParametersAssumption DEF IInv, TypeOK
<1>4. \A b \in Actors : pc[b][n] \notin JudgedSteps
  BY <1>2, ParametersAssumption DEF IInv, TaskInv
<1>5. \A b \in Actors : pc'[b][n] = IF b = "bot" THEN "lock" ELSE pc[b][n]
  BY <1>0, <1>1, MovesAlone DEF IInv
<1>. QED
  BY <1>1, <1>2, <1>3, <1>4, <1>5

LEMMA StoreAddLoad ==
  ASSUME IInv, NEW n \in Names, StoreAt(n), AddLoad(n)
  PROVE  StoreAt(n)'
<1>1. /\ At("bot", n, "addload")
      /\ states'[n] = Loaded(conn, n, sites[n].url)
      /\ UNCHANGED <<sites, conn, disk>>
      /\ \A b \in Actors : pc[b][n] \notin JudgedSteps
      /\ \A b \in Actors : pc'[b][n] = IF b = "bot" THEN "lock" ELSE pc[b][n]
  BY Loading
<1>2. \A b \in Actors : pc'[b][n] \notin JudgedSteps
  BY <1>1 DEF JudgedSteps, CheckSteps
<1>3. MemoryAt(n)'
  BY <1>1 DEF MemoryAt, Loaded
<1>4. RowAt(n)'
  BY <1>2 DEF RowAt, Some, JudgedSteps, CheckSteps
<1>5. SyncAt(n)'
  BY <1>1 DEF StoreAt, SyncAt, Some, At
<1>6. StepAt(n)'
  <2>1. ~Some(n, {"save"})' /\ ~Some(n, {"save2"})'
    BY <1>2 DEF Some, JudgedSteps, CheckSteps
  <2>. QED
    BY <1>1, <2>1 DEF StoreAt, StepAt, Checked, Notified
<1>. QED
  BY <1>3, <1>4, <1>5, <1>6 DEF StoreAt

LEMMA StoreDelete ==
  ASSUME IInv, NEW n \in Names, StoreAt(n), DeleteState(n) \/ DeleteCommit(n)
  PROVE  StoreAt(n)'
<1>0. "bot" \in Actors /\ pc["bot"][n] \in RemoveSteps
  BY DEF DeleteState, DeleteCommit, At, RemoveSteps, Actors
<1>1. \A b \in Actors : b # "bot" => pc[b][n] \notin CheckSteps \union RemoveSteps
  BY <1>0, Alone
<1>2. CASE DeleteState(n)
  <2>1. /\ Goto("bot", n, "delc")
        /\ conn'.state[n] = None /\ conn'.managed = conn.managed
        /\ UNCHANGED <<sites, states, disk>>
    BY <1>2 DEF DeleteState, StateDeleted, IInv, TypeOK, Stores
  <2>2. \A b \in Actors : pc'[b][n] = IF b = "bot" THEN "delc" ELSE pc[b][n]
    BY <1>0, <2>1, MovesAlone DEF IInv
  <2>3. Some(n, {"delc"})' /\ MemoryAt(n)' /\ SyncAt(n)'
    BY <1>0, <2>2 DEF Some, MemoryAt, SyncAt
  <2>4. \A b \in Actors : pc'[b][n] \notin CheckSteps
    BY <1>1, <2>2 DEF CheckSteps
  <2>5. RowAt(n)' /\ StepAt(n)'
    BY <2>1, <2>4 DEF RowAt, StepAt, Some, CheckSteps
  <2>. QED
    BY <2>3, <2>5 DEF StoreAt
<1>3. CASE DeleteCommit(n)
  <2>1. /\ sites'[n] = None /\ disk' = conn /\ conn' = conn
        /\ \A b \in Actors : pc'[b][n] \in {"idle", "woken"} \/ (b # "bot" /\ pc'[b][n] = pc[b][n])
    BY <1>3 DEF DeleteCommit, IInv, TypeOK, Actors
  <2>2. \A b \in Actors : pc'[b][n] \notin CheckSteps
    BY <1>1, <2>1 DEF CheckSteps
  <2>3. MemoryAt(n)' /\ SyncAt(n)'
    BY <2>1 DEF MemoryAt, SyncAt
  <2>4. RowAt(n)' /\ StepAt(n)'
    BY <2>1, <2>2 DEF RowAt, StepAt, Some, CheckSteps
  <2>. QED
    BY <2>3, <2>4 DEF StoreAt
<1>. QED
  BY <1>2, <1>3

\* Everything a step may do, while no store operation fails.
SiteStep(n) ==
    \/ \E a \in Actors : CheckStep(a, n)
    \/ BotRequest(n)
    \/ BotStep(n)

LEMMA StoreSiteStep ==
  ASSUME IInv, NoticeInv, NEW n \in Names, StoreAt(n), SiteStep(n)
  PROVE  StoreAt(n)'
<1>1. ASSUME NEW a \in Actors, HttpDone(a, n)
      PROVE  \/ Cached(n, snap[a][n].url)
             \/ HttpDone(a, n) /\ UNCHANGED states /\ ~Cached(n, snap[a][n].url)
  BY <1>1 DEF HttpDone
<1>2. ASSUME NEW a \in Actors, CheckStep(a, n) PROVE StoreAt(n)'
  <2>1. CASE Enter(a, n) \/ SemEnter(a, n) \/ HttpDone(a, n) \/ CheckerRaises(a, n)
               \/ LoadDone(a, n)
    BY <1>1, <2>1, QuietSteps, SameStore, StoreJudged
  <2>2. CASE Save(a, n) \/ Ack(a, n)
    BY <2>2, StoreSave, StoreAck
  <2>3. CASE Commit(a, n) \/ Deliver(a, n) \/ SendFail(a, n) \/ AnswerLost(a, n)
               \/ CommitNotified(a, n)
    BY <2>3, StorePass DEF Commit, Deliver, SendFail, AnswerLost, CommitNotified, Leave
  <2>. QED
    BY <1>2, <2>1, <2>2, <2>3 DEF CheckStep
<1>3. CASE BotRequest(n)
  BY <1>3, QuietSteps, SameStore, StoreBotWrite DEF BotRequest
<1>4. CASE BotStep(n)
  BY <1>4, QuietSteps, SameStore, StoreBotWrite, StoreBotCommit, StoreAddLoad, StoreDelete
     DEF BotStep
<1>. QED
  BY <1>2, <1>3, <1>4 DEF SiteStep

(* A cycle that starts changes nothing yet (service.py:115).               *)
LEMMA CycleSame ==
  ASSUME IInv, NEW a \in Actors, RunCycle(a), NEW n \in Names PROVE Same(n)
<1>1. /\ pc[a][n] = "idle" /\ pc'[a][n] \in {"idle", "lock"}
      /\ \A b \in Actors : b # a => pc'[b][n] = pc[b][n]
      /\ UNCHANGED <<sites, states, told, conn, disk>>
  BY DEF RunCycle, Idle, At, IInv, TypeOK
<1>. QED
  BY <1>1 DEF Same, Marks

LEMMA StoreRestart == ASSUME IInv, Restart, NEW n \in Names PROVE StoreAt(n)'
<1>1. /\ \A a \in Actors : pc'[a][n] = "idle"
      /\ conn' = disk /\ disk' = disk
      /\ states'[n] = IF sites'[n] = None THEN None ELSE Loaded(disk, n, sites'[n].url)
  BY DEF Restart
<1>. QED
  BY <1>1 DEF StoreAt, MemoryAt, RowAt, SyncAt, StepAt, Some, Loaded

(* While no store operation fails, every step preserves StoreInv.          *)
LEMMA NextStore ==
  ASSUME ~StoreFails, IInv, NoticeInv, StoreInv, [Next]_vars
  PROVE  StoreInv'
<1>1. ASSUME NEW a \in Actors, RunCycle(a) PROVE StoreInv'
  BY <1>1, CycleSame, SameStore DEF StoreInv
<1>2. ASSUME NEW n \in Names, SiteStep(n) PROVE StoreInv'
  <2>1. ASSUME NEW m \in Names PROVE StoreAt(m)'
    <3>1. CASE m = n
      BY <1>2, <3>1, StoreSiteStep DEF StoreInv
    <3>2. CASE m # n
      BY <1>2, <3>2, OthersSame, SameStore DEF StoreInv, SiteStep
    <3>. QED
      BY <3>1, <3>2
  <2>. QED
    BY <2>1 DEF StoreInv
<1>3. CASE Restart
  BY <1>3, StoreRestart DEF StoreInv
<1>4. CASE UNCHANGED vars
  BY <1>4, SameStore DEF vars, Same, StoreInv
<1>. QED
  BY <1>1, <1>2, <1>3, <1>4 DEF Next, SiteStep, StoreError

LEMMA StoreAlways == ASSUME ~StoreFails PROVE Spec => []StoreInv
<1>1. Init => StoreInv
  BY ParametersAssumption
     DEF Init, StoreInv, StoreAt, MemoryAt, RowAt, SyncAt, StepAt, Some, Loaded
<1>2. IInv /\ NoticeInv /\ StoreInv /\ [Next]_vars => StoreInv'
  BY NextStore
<1>. QED
  BY <1>1, <1>2, Inductive, NoticeAlways, PTL DEF Spec

(* While no store operation fails, between checks the committed row of a   *)
(* site is what memory holds, over any crashes and edits of config.yaml    *)
(* (service.py:162, 237).                                                  *)
THEOREM RestartDecidesAlike == ASSUME ~StoreFails PROVE Spec => []MemoryIsDurable
<1>1. StoreInv => MemoryIsDurable
  <2>. SUFFICES ASSUME StoreInv, NEW n \in Names, Quiet(n), sites[n] # None
                PROVE  states[n] = Loaded(disk, n, sites[n].url)
    BY DEF MemoryIsDurable
  <2>1. \A S \in SUBSET Marks : ~Some(n, S)
    BY DEF Quiet, Some, Marks
  <2>2. ~At("bot", n, "addload")
    BY DEF Quiet, At, Actors
  <2>3. states[n] = Loaded(conn, n, sites[n].url) /\ disk.state[n] = conn.state[n]
    BY <2>1, <2>2 DEF StoreInv, StoreAt, MemoryAt, SyncAt, Marks
  <2>. QED
    BY <2>3 DEF Loaded
<1>. QED
  BY <1>1, StoreAlways, PTL

(* While no store operation fails, a commit moves the committed state of a *)
(* site by one check or one notification, although any task may commit     *)
(* what another has executed (sqlite.py:152-158, 184-188).                 *)
THEOREM CommitsAreSteps == ASSUME ~StoreFails PROVE Spec => OneStepAtATime
<1> DEFINE Step ==
      \A n \in Names :
         Durable(n)' # Durable(n) =>
            \/ Durable(n)' = None
            \/ \E o \in Outcome, u \in Urls :
                 Durable(n)' = ApplyCheck(Loaded(disk, n, u), o, 0, Threshold)
            \/ /\ Durable(n) # None
               /\ \E k \in Kind : Durable(n)' = MarkNotified(Durable(n), k)
<1>1. ASSUME StoreInv, [Next]_vars PROVE [Step]_vars
  <2>1. disk' \in {disk, conn}
    BY <1>1 DEF Next, RunCycle, CheckStep, StoreError, BotRequest, BotStep, Restart, Enter,
       SemEnter, HttpDone, CheckerRaises, LoadDone, Save, Commit, Deliver, SendFail, AnswerLost,
       Ack, CommitNotified, BotCheck, BotAdd, BotToggle, BotDelete, AddCommit, AddLoad,
       ToggleCommit, DeleteSite, DeleteState, DeleteCommit, vars
  <2>2. SUFFICES ASSUME NEW n \in Names, disk'.state[n] # disk.state[n]
                 PROVE  \/ disk'.state[n] = None
                        \/ \E o \in Outcome, u \in Urls :
                             disk'.state[n] = ApplyCheck(Loaded(disk, n, u), o, 0, Threshold)
                        \/ /\ disk.state[n] # None
                           /\ \E k \in Kind : disk'.state[n] = MarkNotified(disk.state[n], k)
    BY DEF Durable
  <2>3. disk'.state[n] = conn.state[n]
    BY <2>1, <2>2
  <2>4. \/ conn.state[n] = None
        \/ Checked(n, disk.state[n], conn.state[n])
        \/ Notified(disk.state[n], conn.state[n])
    BY <1>1, <2>2, <2>3 DEF StoreInv, StoreAt, StepAt
  <2>. QED
    BY <2>3, <2>4 DEF Checked, Notified, Loaded
<1>2. StoreInv /\ [Next]_vars => [Step]_vars
  BY <1>1
<1>3. [][Step]_vars <=> OneStepAtATime
  BY DEF OneStepAtATime
<1>. QED
  BY <1>2, <1>3, StoreAlways, PTL DEF Spec

-----------------------------------------------------------------------------
(* A site that is not there, while no store operation fails and the        *)
(* process does not stop.                                                  *)

\* Nothing is stored or told about a site that is not there.
GoneAt(n) ==
    /\ sites[n] = None \/ At("bot", n, "addload") =>
          conn.state[n] = None /\ told[n] = None
    /\ sites[n] = None /\ ~At("bot", n, "insc") => conn.managed[n] = None
    /\ pc["bot"][n] \in RemoveSteps => conn.managed[n] = None
    /\ At("bot", n, "delc") => conn.state[n] = None

GoneInv == \A n \in Names : GoneAt(n)

LEMMA SameGone == ASSUME NEW n \in Names, GoneAt(n), Same(n) PROVE GoneAt(n)'
<1>1. \A s \in Marks : pc'["bot"][n] = s <=> pc["bot"][n] = s
  BY DEF Same, Actors
<1>. QED
  BY <1>1 DEF Same, GoneAt, At, RemoveSteps, Marks

(* A check past its lock works on a site that is there.                    *)
LEMMA GoneCheck ==
  ASSUME IInv, NEW a \in Actors, NEW n \in Names, GoneAt(n), StoreAt(n), CheckStep(a, n)
  PROVE  GoneAt(n)'
<1>1. CASE Enter(a, n) \/ SemEnter(a, n) \/ CheckerRaises(a, n)
             \/ (HttpDone(a, n) /\ UNCHANGED states /\ ~Cached(n, snap[a][n].url))
  BY <1>1, QuietSteps, SameGone
<1>2. CASE (HttpDone(a, n) /\ Cached(n, snap[a][n].url)) \/ pc[a][n] \in JudgedSteps
             \/ LoadDone(a, n)
  <2>1. pc[a][n] \in CheckSteps /\ UNCHANGED sites
    BY <1>2 DEF HttpDone, CheckerRaises, LoadDone, At, CheckStep, Enter, SemEnter, Save, Commit,
       Deliver, SendFail, AnswerLost, Ack, CommitNotified, CheckSteps, JudgedSteps
  <2>2. sites[n] # None
    BY <2>1, ParametersAssumption DEF IInv, TaskInv
  <2>3. ~At("bot", n, "addload")
    BY <1>2, ParametersAssumption DEF HttpDone, LoadDone, Cached, IInv, BotInv,
       TaskInv
  <2>4. \A b \in Actors : pc[b][n] \notin RemoveSteps
    BY <2>1, Alone DEF CheckSteps, RemoveSteps
  <2>5. \E step : Goto(a, n, step) /\ step \notin RemoveSteps \union {"addload"}
    BY <1>2 DEF CheckStep, Enter, SemEnter, HttpDone, CheckerRaises, LoadDone, Save, Commit,
       Deliver, SendFail, AnswerLost, Ack, CommitNotified, Leave, RemoveSteps
  <2>6. \A b \in Actors : pc'[b][n] = pc[b][n] \/ pc'[b][n] \notin RemoveSteps \union {"addload"}
    BY <2>5, MovesAlone DEF IInv
  <2>. QED
    BY <2>1, <2>2, <2>3, <2>4, <2>6 DEF GoneAt, At, RemoveSteps, Actors
<1>3. HttpDone(a, n) => Cached(n, snap[a][n].url) \/ UNCHANGED states
  BY DEF HttpDone
<1>4. \/ Enter(a, n) \/ SemEnter(a, n) \/ HttpDone(a, n) \/ LoadDone(a, n)
      \/ CheckerRaises(a, n) \/ pc[a][n] \in JudgedSteps
  BY DEF CheckStep, Save, Commit, Deliver, SendFail, AnswerLost, Ack, CommitNotified,
     At, JudgedSteps, CheckSteps
<1>. QED
  BY <1>1, <1>2, <1>3, <1>4

LEMMA GoneBot ==
  ASSUME IInv, NEW n \in Names, GoneAt(n), BotRequest(n) \/ BotStep(n)
  PROVE  GoneAt(n)'
<1>0. "bot" \in Actors /\ TypeOK
  BY DEF Actors, IInv
<1>1. ASSUME NEW step, Goto("bot", n, step) PROVE pc'["bot"][n] = step
  BY <1>0, <1>1, MovesAlone
<1>2. CASE BotCheck(n) \/ BotDelete(n) \/ (DeleteSite(n) /\ ~Editable(n))
  BY <1>2, QuietSteps, SameGone
<1>3. ASSUME NEW u \in Urls, BotAdd(n, u) PROVE GoneAt(n)'
  <2>1. /\ pc'["bot"][n] = "insc" /\ pc["bot"][n] = "idle" /\ sites[n] = None
        /\ UNCHANGED <<sites, told>> /\ conn'.state = conn.state
    BY <1>1, <1>3 DEF BotAdd, BotReady, Idle, At, TypeOK, Stores
  <2>. QED
    BY <2>1 DEF GoneAt, At, RemoveSteps
<1>4. CASE AddCommit(n)
  <2>1. /\ pc'["bot"][n] = "addload" /\ sites[n] = None /\ snap["bot"][n] \in Sites
        /\ sites'[n] = snap["bot"][n] /\ UNCHANGED <<told, conn>>
    BY <1>1, <1>4 DEF AddCommit, IInv, BotInv, TypeOK
  <2>. QED
    BY <2>1, ParametersAssumption DEF GoneAt, At, RemoveSteps
<1>5. CASE AddLoad(n)
  <2>1. pc'["bot"][n] = "lock" /\ sites'[n] # None
    BY <1>1, <1>5, Loading
  <2>. QED
    BY <2>1 DEF GoneAt, At, RemoveSteps
<1>6. CASE BotToggle(n)
  <2>1. pc'["bot"][n] = "togc" /\ sites'[n] # None
    BY <1>1, <1>6 DEF BotToggle, Editable
  <2>. QED
    BY <2>1 DEF GoneAt, At, RemoveSteps
<1>7. CASE ToggleCommit(n)
  <2>1. /\ pc'["bot"][n] = "idle" /\ sites[n] \in Sites
        /\ sites'[n] = [sites[n] EXCEPT !.enabled = ~@]
    BY <1>1, <1>7 DEF ToggleCommit, IInv, BotInv, TypeOK
  <2>2. sites'[n] # None
    BY <2>1, ParametersAssumption DEF Sites
  <2>. QED
    BY <2>1, <2>2 DEF GoneAt, At, RemoveSteps
<1>8. CASE DeleteSite(n) /\ Editable(n)
  <2>1. pc'["bot"][n] = "del2" /\ sites'[n] # None
    BY <1>1, <1>8 DEF DeleteSite, Editable
  <2>2. conn'.managed[n] = None
    BY <1>0, <1>8 DEF DeleteSite, TypeOK, Stores
  <2>. QED
    BY <2>1, <2>2 DEF GoneAt, At, RemoveSteps
<1>9. CASE DeleteState(n)
  <2>1. pc["bot"][n] = "del2" /\ pc'["bot"][n] = "delc" /\ UNCHANGED <<sites, told>>
    BY <1>1, <1>9 DEF DeleteState, At
  <2>2. conn'.managed = conn.managed /\ conn'.state[n] = None
    BY <1>0, <1>9 DEF DeleteState, StateDeleted, TypeOK, Stores
  <2>. QED
    BY <2>1, <2>2 DEF GoneAt, At, RemoveSteps
<1>10. CASE DeleteCommit(n)
  <2>1. pc["bot"][n] = "delc" /\ UNCHANGED conn
    BY <1>10 DEF DeleteCommit, At
  <2>2. pc'["bot"][n] = "idle"
    BY <1>0, <1>10 DEF DeleteCommit, TypeOK, Actors
  <2>3. told'[n] = IF conn.state[n] = None THEN None ELSE told[n]
    BY <1>0, <1>10 DEF DeleteCommit, TypeOK
  <2>. QED
    BY <2>1, <2>2, <2>3 DEF GoneAt, At, RemoveSteps
<1>. QED
  BY <1>2, <1>3, <1>4, <1>5, <1>6, <1>7, <1>8, <1>9, <1>10 DEF BotRequest, BotStep

(* While nothing fails, every step preserves GoneInv.                      *)
LEMMA NextGone ==
  ASSUME ~StoreFails, MaxCrashes = 0, IInv, StoreInv, GoneInv, [Next]_vars
  PROVE  GoneInv'
<1>1. ASSUME NEW a \in Actors, RunCycle(a) PROVE GoneInv'
  BY <1>1, CycleSame, SameGone DEF GoneInv
<1>2. ASSUME NEW n \in Names, SiteStep(n) PROVE GoneInv'
  <2>1. ASSUME NEW m \in Names PROVE GoneAt(m)'
    <3>1. CASE m = n
      BY <1>2, <3>1, GoneCheck, GoneBot DEF GoneInv, StoreInv, SiteStep
    <3>2. CASE m # n
      BY <1>2, <3>2, OthersSame, SameGone DEF GoneInv, SiteStep
    <3>. QED
      BY <3>1, <3>2
  <2>. QED
    BY <2>1 DEF GoneInv
<1>3. ~Restart
  BY DEF Restart, IInv, TypeOK
<1>4. CASE UNCHANGED vars
  BY <1>4, SameGone DEF vars, Same, GoneInv
<1>. QED
  BY <1>1, <1>2, <1>3, <1>4 DEF Next, SiteStep, StoreError

LEMMA GoneAlways == ASSUME ~StoreFails, MaxCrashes = 0 PROVE Spec => []GoneInv
<1>1. Init => GoneInv
  BY DEF Init, GoneInv, GoneAt, At, Actors, RemoveSteps
<1>2. IInv /\ StoreInv /\ GoneInv /\ [Next]_vars => GoneInv'
  BY NextGone
<1>. QED
  BY <1>1, <1>2, Inductive, StoreAlways, PTL DEF Spec

(* While nothing fails and the process goes on, a deleted site leaves no   *)
(* row and no state, however many checks of it ran or waited               *)
(* (service.py:96-102).                                                    *)
THEOREM DeletionIsComplete ==
  ASSUME ~StoreFails, MaxCrashes = 0 PROVE Spec => []DeletedMeansGone
<1>1. IInv /\ StoreInv /\ GoneInv => DeletedMeansGone
  <2>. SUFFICES ASSUME IInv, StoreInv, GoneInv, NEW n \in Names, Quiet(n), sites[n] = None
                PROVE  states[n] = None /\ disk.state[n] = None /\ disk.managed[n] = None
    BY DEF DeletedMeansGone
  <2>1. ~Some(n, {"commit", "commit2", "delc"}) /\ ~Some(n, {"insc", "togc", "del2", "delc"})
        /\ ~At("bot", n, "insc")
    BY DEF Quiet, Some, At, Actors
  <2>. QED
    BY <2>1 DEF IInv, BotInv, StoreInv, StoreAt, SyncAt, GoneInv, GoneAt
<1>. QED
  BY <1>1, Inductive, StoreAlways, GoneAlways, PTL

-----------------------------------------------------------------------------
(* What was told and what is recorded, while nothing fails but sending.    *)

\* They agree, except between the delivery and its answer.
LedgerAt(n) ==
    /\ states[n] # None /\ ~Some(n, {"sent"}) =>
          (states[n].notified_status = "DOWN" <=> told[n] = "DOWN")
    /\ Some(n, {"sent"}) => told[n] = PendingAlert(states[n])

LedgerInv == \A n \in Names : LedgerAt(n)

(* A step that neither decides nor delivers.                               *)
LEMMA LedgerKept ==
  ASSUME NEW n \in Names, LedgerAt(n), states'[n] = states[n], told'[n] = told[n],
         \A a \in Actors : pc'[a][n] = "sent" <=> pc[a][n] = "sent"
  PROVE  LedgerAt(n)'
  BY DEF LedgerAt, Some

LEMMA SameLedger == ASSUME NEW n \in Names, LedgerAt(n), Same(n) PROVE LedgerAt(n)'
  BY LedgerKept DEF Same, Marks

(* What a delivered alert leaves in the state is what was told.            *)
LEMMA LedgerCheck ==
  ASSUME ~AmbiguousSend, IInv, NoticeInv, NEW a \in Actors, NEW n \in Names,
         StoreAt(n), LedgerAt(n), CheckStep(a, n)
  PROVE  LedgerAt(n)'
<1>. TypeOK
  BY DEF IInv
<1>1. CASE Enter(a, n) \/ SemEnter(a, n) \/ CheckerRaises(a, n)
             \/ (HttpDone(a, n) /\ UNCHANGED states /\ ~Cached(n, snap[a][n].url))
  BY <1>1, QuietSteps, SameLedger
<1>2. CASE (HttpDone(a, n) /\ Cached(n, snap[a][n].url)) \/ LoadDone(a, n)
  <2>1. /\ Goto(a, n, "save") /\ pc[a][n] \in CheckSteps \ JudgedSteps
        /\ UNCHANGED told /\ states[n] \in StateRecords
        /\ \E o \in Outcome : states'[n] = ApplyCheck(states[n], o, 0, Threshold)
    BY <1>2, Judged DEF StoreAt
  <2>2. states'[n].notified_status = states[n].notified_status /\ states[n] # None
    BY <2>1, ApplyCheckKeeps, ParametersAssumption
  <2>3. ~Some(n, {"sent"})
    BY <2>1, Alone DEF Some, CheckSteps, JudgedSteps
  <2>4. ~Some(n, {"sent"})'
    BY <2>1, <2>3, MovesAlone DEF Some
  <2>. QED
    BY <2>1, <2>2, <2>3, <2>4 DEF LedgerAt
<1>3. CASE Save(a, n) \/ Commit(a, n) \/ SendFail(a, n) \/ CommitNotified(a, n)
  <2>1. /\ UNCHANGED <<states, told>> /\ pc[a][n] # "sent"
        /\ \E step \in {"commit", "commit2", "send", "idle"} : Goto(a, n, step)
    BY <1>3 DEF Save, Commit, SendFail, Unsent, CommitNotified, Leave, At, TypeOK
  <2>2. \A b \in Actors : pc'[b][n] = "sent" <=> pc[b][n] = "sent"
    BY <2>1, MovesAlone
  <2>. QED
    BY <2>1, <2>2, LedgerKept
<1>4. CASE Deliver(a, n)
  <2>1. Goto(a, n, "sent") /\ UNCHANGED states /\ told'[n] = PendingAlert(states[n])
    BY <1>4 DEF Deliver, TypeOK
  <2>2. Some(n, {"sent"})'
    BY <2>1, MovesAlone DEF Some
  <2>. QED
    BY <2>1, <2>2 DEF LedgerAt
<1>5. CASE Ack(a, n)
  <2>1. /\ Goto(a, n, "save2") /\ At(a, n, "sent") /\ pc[a][n] \in JudgedSteps
        /\ pc[a][n] \in CheckSteps /\ UNCHANGED told
        /\ states'[n] = MarkNotified(states[n], PendingAlert(states[n]))
    BY <1>5 DEF Ack, At, JudgedSteps, CheckSteps, TypeOK
  <2>2. states[n] \in StateRecords
    BY <2>1 DEF IInv, TaskInv
  <2>3. told[n] = PendingAlert(states[n])
    BY <2>1 DEF LedgerAt, Some, At
  <2>4. states'[n].notified_status = "DOWN" <=> told[n] = "DOWN"
    BY <2>1, <2>2, <2>3, MarkNotifiedSets
  <2>5. ~Some(n, {"sent"})'
    BY <2>1, MovesAlone, Alone DEF Some, CheckSteps
  <2>. QED
    BY <2>1, <2>4, <2>5 DEF LedgerAt
<1>6. ~AnswerLost(a, n)
  BY DEF AnswerLost
<1>7. HttpDone(a, n) => Cached(n, snap[a][n].url) \/ UNCHANGED states
  BY DEF HttpDone
<1>. QED
  BY <1>1, <1>2, <1>3, <1>4, <1>5, <1>6, <1>7 DEF CheckStep

LEMMA LedgerBot ==
  ASSUME IInv, NEW n \in Names, GoneAt(n), LedgerAt(n), BotRequest(n) \/ BotStep(n)
  PROVE  LedgerAt(n)'
<1>0. "bot" \in Actors /\ TypeOK
  BY DEF Actors, IInv
<1>1. CASE AddLoad(n)
  <2>1. /\ At("bot", n, "addload") /\ states'[n] = Loaded(conn, n, sites[n].url)
        /\ UNCHANGED told
        /\ \A b \in Actors : pc[b][n] \notin JudgedSteps
        /\ \A b \in Actors : pc'[b][n] = IF b = "bot" THEN "lock" ELSE pc[b][n]
    BY <1>1, Loading
  <2>2. conn.state[n] = None /\ told[n] = None
    BY <2>1 DEF GoneAt
  <2>3. states'[n].notified_status = None
    BY <2>1, <2>2 DEF Loaded, Fresh
  <2>4. ~Some(n, {"sent"})'
    BY <2>1 DEF Some, JudgedSteps, CheckSteps
  <2>. QED
    BY <2>1, <2>2, <2>3, <2>4 DEF LedgerAt
<1>2. CASE DeleteCommit(n)
  <2>1. pc["bot"][n] \in RemoveSteps
    BY <1>2 DEF DeleteCommit, At, RemoveSteps
  <2>2. states'[n] = None /\ \A b \in Actors : pc'[b][n] # "sent"
    BY <1>0, <1>2, <2>1, Alone DEF DeleteCommit, TypeOK, Actors, CheckSteps
  <2>. QED
    BY <2>2 DEF LedgerAt, Some
<1>3. CASE BotRequest(n) \/ AddCommit(n) \/ ToggleCommit(n) \/ DeleteSite(n) \/ DeleteState(n)
  <2>1. /\ UNCHANGED <<states, told>> /\ pc["bot"][n] # "sent"
        /\ \E step \in {"lock", "insc", "togc", "rmlock", "addload", "idle", "del2", "delc"} :
              Goto("bot", n, step)
    BY <1>3 DEF BotRequest, BotCheck, BotToggle, BotDelete, BotAdd, AddCommit, ToggleCommit,
       DeleteSite, DeleteState, BotReady, Idle, Leave, At
  <2>2. \A b \in Actors : pc'[b][n] = "sent" <=> pc[b][n] = "sent"
    BY <1>0, <2>1, MovesAlone
  <2>. QED
    BY <2>1, <2>2, LedgerKept
<1>. QED
  BY <1>1, <1>2, <1>3 DEF BotStep

LEMMA NextLedger ==
  ASSUME ~StoreFails, MaxCrashes = 0, ~AmbiguousSend,
         IInv, NoticeInv, StoreInv, GoneInv, LedgerInv, [Next]_vars
  PROVE  LedgerInv'
<1>1. ASSUME NEW a \in Actors, RunCycle(a) PROVE LedgerInv'
  BY <1>1, CycleSame, SameLedger DEF LedgerInv
<1>2. ASSUME NEW n \in Names, SiteStep(n) PROVE LedgerInv'
  <2>1. ASSUME NEW m \in Names PROVE LedgerAt(m)'
    <3>1. CASE m = n
      BY <1>2, <3>1, LedgerCheck, LedgerBot DEF LedgerInv, GoneInv, StoreInv, SiteStep
    <3>2. CASE m # n
      BY <1>2, <3>2, OthersSame, SameLedger DEF LedgerInv, SiteStep
    <3>. QED
      BY <3>1, <3>2
  <2>. QED
    BY <2>1 DEF LedgerInv
<1>3. ~Restart
  BY DEF Restart, IInv, TypeOK
<1>4. CASE UNCHANGED vars
  BY <1>4, SameLedger DEF vars, Same, LedgerInv
<1>. QED
  BY <1>1, <1>2, <1>3, <1>4 DEF Next, SiteStep, StoreError

LEMMA LedgerAlways ==
  ASSUME ~StoreFails, MaxCrashes = 0, ~AmbiguousSend PROVE Spec => []LedgerInv
<1>1. Init => LedgerInv
  BY DEF Init, LedgerInv, LedgerAt, Some, Fresh
<1>2. IInv /\ NoticeInv /\ StoreInv /\ GoneInv /\ LedgerInv /\ [Next]_vars => LedgerInv'
  BY NextLedger
<1>. QED
  BY <1>1, <1>2, Inductive, NoticeAlways, StoreAlways, GoneAlways, PTL DEF Spec

(* While nothing but sending fails, notified_status says whether the last  *)
(* thing the user heard is that the site is down (models/state.py:36-37).  *)
THEOREM LedgerIsTrue ==
  ASSUME ~StoreFails, MaxCrashes = 0, ~AmbiguousSend PROVE Spec => []LedgerAgrees
<1>1. LedgerInv => LedgerAgrees
  BY DEF LedgerInv, LedgerAt, LedgerAgrees, Some, At
<1>. QED
  BY <1>1, LedgerAlways, PTL

(* While nothing but sending fails, an attempt to send is always news: no  *)
(* DOWN follows a DOWN, no RECOVERED comes without one (README.md:70-73).  *)
THEOREM NoRepeatedAlert ==
  ASSUME ~StoreFails, MaxCrashes = 0, ~AmbiguousSend PROVE Spec => []EveryAlertIsNews
<1>1. IInv /\ NoticeInv /\ LedgerInv => EveryAlertIsNews
  <2>. SUFFICES ASSUME IInv, NoticeInv, LedgerInv,
                       NEW a \in Actors, NEW n \in Names, At(a, n, "send")
                PROVE  IF PendingAlert(states[n]) = "DOWN"
                       THEN told[n] # "DOWN" ELSE told[n] = "DOWN"
    BY DEF EveryAlertIsNews
  <2>1. pc[a][n] \in CheckSteps /\ pc[a][n] \in JudgedSteps
    BY DEF At, CheckSteps, JudgedSteps
  <2>2. states[n] # None
    BY <2>1, ParametersAssumption DEF IInv, TaskInv
  <2>3. ~Some(n, {"sent"})
    BY <2>1, Alone DEF Some, At, CheckSteps
  <2>4. PendingAlert(states[n]) \in Kind
    BY PendingAlertType DEF NoticeInv, NoticeAt, At
  <2>. QED
    BY <2>2, <2>3, <2>4, PendingAlertMeans DEF LedgerInv, LedgerAt, Kind
<1>. QED
  BY <1>1, Inductive, NoticeAlways, LedgerAlways, PTL

(* While nothing but sending fails, a site that is down and owes no alert  *)
(* was announced as down (README.md:15).                                   *)
THEOREM OutageIsTold ==
  ASSUME ~StoreFails, MaxCrashes = 0, ~AmbiguousSend PROVE Spec => []NoSilentOutage
<1>1. LedgerInv => NoSilentOutage
  <2>. SUFFICES ASSUME LedgerInv, NEW n \in Names, Quiet(n), states[n] # None,
                       states[n].status = "DOWN", PendingAlert(states[n]) = None
                PROVE  told[n] = "DOWN"
    BY DEF NoSilentOutage
  <2>1. ~Some(n, {"sent"})
    BY DEF Quiet, Some
  <2>. QED
    BY <2>1, PendingAlertMeans DEF LedgerInv, LedgerAt
<1>. QED
  BY <1>1, LedgerAlways, PTL

-----------------------------------------------------------------------------
(* MonitorService implements AlertStream.                                  *)

\* What AlertStream may see of a step about one site.
SeenAt(n) ==
    \/ told'[n] = told[n] /\ Posting'[n] = Posting[n]
    \/ Posting[n] = None /\ Posting'[n] = Alerts!News(n) /\ told'[n] = told[n]
    \/ Posting[n] # None /\ Posting'[n] = None /\ told'[n] = Posting[n]
    \/ Posting[n] # None /\ Posting'[n] = None /\ told'[n] = told[n]
    \/ Posting[n] = None /\ Posting'[n] = None /\ told'[n] = None

(* Nothing is being sent about a site nobody sends about.                  *)
LEMMA NoPosting ==
  ASSUME NEW n \in Names, \A a \in Actors : pc[a][n] # "send" PROVE Posting[n] = None
  BY DEF Posting, At

LEMMA NoPostingNext ==
  ASSUME NEW n \in Names, \A a \in Actors : pc'[a][n] # "send" PROVE Posting'[n] = None
  BY DEF Posting, At

(* The alert of a site is the one its state owes.                          *)
LEMMA PostingIs ==
  ASSUME NEW n \in Names, NEW a \in Actors, pc[a][n] = "send"
  PROVE  Posting[n] = PendingAlert(states[n])
  BY DEF Posting, At

LEMMA PostingIsNext ==
  ASSUME NEW n \in Names, NEW a \in Actors, pc'[a][n] = "send"
  PROVE  Posting'[n] = PendingAlert(states'[n])
  BY DEF Posting, At

(* What is sent changes only with a task that starts or stops sending.     *)
LEMMA PostingKept ==
  ASSUME NEW n \in Names, states'[n] = states[n], told'[n] = told[n],
         \A a \in Actors : pc'[a][n] = "send" <=> pc[a][n] = "send"
  PROVE  SeenAt(n)
  BY DEF SeenAt, Posting, At

LEMMA SameSeen == ASSUME NEW n \in Names, Same(n) PROVE SeenAt(n)
  BY PostingKept DEF Same, Marks

LEMMA SeenCheck ==
  ASSUME ~AmbiguousSend, IInv, NoticeInv, NEW a \in Actors, NEW n \in Names,
         StoreAt(n), LedgerAt(n), CheckStep(a, n)
  PROVE  SeenAt(n)
<1>. TypeOK
  BY DEF IInv
<1>1. CASE Enter(a, n) \/ SemEnter(a, n) \/ CheckerRaises(a, n)
             \/ (HttpDone(a, n) /\ UNCHANGED states /\ ~Cached(n, snap[a][n].url))
  BY <1>1, QuietSteps, SameSeen
<1>2. CASE (HttpDone(a, n) /\ Cached(n, snap[a][n].url)) \/ LoadDone(a, n) \/ Ack(a, n)
  <2>1. /\ \E step \in {"save", "save2"} : Goto(a, n, step)
        /\ pc[a][n] \in CheckSteps /\ pc[a][n] # "send" /\ UNCHANGED told
    BY <1>2 DEF HttpDone, LoadDone, Ack, At, CheckSteps
  <2>2. \A b \in Actors : pc[b][n] # "send" /\ pc'[b][n] # "send"
    BY <2>1, Alone, MovesAlone DEF CheckSteps
  <2>. QED
    BY <2>1, <2>2, NoPosting, NoPostingNext DEF SeenAt
<1>3. CASE Save(a, n) \/ CommitNotified(a, n) \/ (Commit(a, n) /\ Alert(a, n) = None)
  <2>1. /\ \E step \in {"commit", "commit2", "idle"} : Goto(a, n, step)
        /\ pc[a][n] # "send" /\ UNCHANGED <<states, told>>
    BY <1>3 DEF Save, CommitNotified, Commit, Leave, At
  <2>2. \A b \in Actors : pc'[b][n] = "send" <=> pc[b][n] = "send"
    BY <2>1, MovesAlone
  <2>. QED
    BY <2>1, <2>2, PostingKept
<1>4. CASE Commit(a, n) /\ Alert(a, n) # None
  <2>1. /\ Goto(a, n, "send") /\ pc[a][n] \in CheckSteps /\ pc[a][n] \in JudgedSteps
        /\ pc[a][n] \notin {"send", "sent"}
        /\ UNCHANGED <<states, told>> /\ PendingAlert(states[n]) # None
    BY <1>4 DEF Commit, Alert, At, CheckSteps, JudgedSteps
  <2>2. \A b \in Actors : pc[b][n] \notin {"send", "sent"}
    BY <2>1, Alone DEF CheckSteps
  <2>3. Posting[n] = None
    BY <2>2, NoPosting
  <2>4. Posting'[n] = PendingAlert(states[n])
    BY <2>1, MovesAlone, PostingIsNext
  <2>5. states[n] # None /\ PendingAlert(states[n]) \in Kind
    BY <2>1, PendingAlertType, ParametersAssumption DEF IInv, TaskInv
  <2>6. PendingAlert(states[n]) = IF told[n] = "DOWN" THEN "RECOVERED" ELSE "DOWN"
    BY <2>2, <2>5, PendingAlertMeans DEF LedgerAt, Some, Kind
  <2>. QED
    BY <2>1, <2>3, <2>4, <2>6 DEF SeenAt, Alerts!News
<1>5. CASE Deliver(a, n) \/ SendFail(a, n)
  <2>1. /\ \E step \in {"sent", "idle"} : Goto(a, n, step)
        /\ pc[a][n] = "send" /\ pc[a][n] \in CheckSteps
        /\ told'[n] \in {told[n], PendingAlert(states[n])}
    BY <1>5 DEF Deliver, SendFail, Leave, At, CheckSteps, TypeOK
  <2>2. Posting[n] = PendingAlert(states[n]) /\ Posting[n] # None
    BY <2>1, PostingIs DEF NoticeInv, NoticeAt
  <2>3. \A b \in Actors : pc'[b][n] # "send"
    BY <2>1, Alone, MovesAlone DEF CheckSteps
  <2>. QED
    BY <2>1, <2>2, <2>3, NoPostingNext DEF SeenAt
<1>6. ~AnswerLost(a, n)
  BY DEF AnswerLost
<1>7. HttpDone(a, n) => Cached(n, snap[a][n].url) \/ UNCHANGED states
  BY DEF HttpDone
<1>. QED
  BY <1>1, <1>2, <1>3, <1>4, <1>5, <1>6, <1>7 DEF CheckStep

LEMMA SeenBot ==
  ASSUME IInv, NEW n \in Names, GoneAt(n), BotRequest(n) \/ BotStep(n)
  PROVE  SeenAt(n)
<1>0. "bot" \in Actors /\ TypeOK
  BY DEF Actors, IInv
<1>1. CASE AddLoad(n)
  <2>1. /\ UNCHANGED told
        /\ \A b \in Actors : pc[b][n] \notin JudgedSteps
        /\ \A b \in Actors : pc'[b][n] = IF b = "bot" THEN "lock" ELSE pc[b][n]
    BY <1>1, Loading
  <2>2. \A b \in Actors : pc[b][n] # "send" /\ pc'[b][n] # "send"
    BY <2>1 DEF JudgedSteps, CheckSteps
  <2>. QED
    BY <2>1, <2>2, NoPosting, NoPostingNext DEF SeenAt
<1>2. CASE DeleteCommit(n)
  <2>1. At("bot", n, "delc") /\ pc["bot"][n] \in RemoveSteps
    BY <1>2 DEF DeleteCommit, At, RemoveSteps
  <2>2. \A b \in Actors : pc[b][n] # "send"
    BY <1>0, <2>1, Alone DEF CheckSteps, RemoveSteps
  <2>3. \A b \in Actors : pc'[b][n] # "send"
    BY <1>0, <1>2, <2>2 DEF DeleteCommit, TypeOK, Actors
  <2>4. told'[n] = None
    BY <1>0, <1>2, <2>1 DEF DeleteCommit, TypeOK, GoneAt
  <2>. QED
    BY <2>2, <2>3, <2>4, NoPosting, NoPostingNext DEF SeenAt
<1>3. CASE BotRequest(n) \/ AddCommit(n) \/ ToggleCommit(n) \/ DeleteSite(n) \/ DeleteState(n)
  <2>1. /\ UNCHANGED <<states, told>> /\ pc["bot"][n] # "send"
        /\ \E step \in {"lock", "insc", "togc", "rmlock", "addload", "idle", "del2", "delc"} :
              Goto("bot", n, step)
    BY <1>3 DEF BotRequest, BotCheck, BotToggle, BotDelete, BotAdd, AddCommit, ToggleCommit,
       DeleteSite, DeleteState, BotReady, Idle, Leave, At
  <2>2. \A b \in Actors : pc'[b][n] = "send" <=> pc[b][n] = "send"
    BY <1>0, <2>1, MovesAlone
  <2>. QED
    BY <2>1, <2>2, PostingKept
<1>. QED
  BY <1>1, <1>2, <1>3 DEF BotStep

(* What is seen about one site, and nothing about the others, is a step of *)
(* AlertStream or no step.                                                 *)
LEMMA SeenIsStep ==
  ASSUME IInv, TypeOK', NEW n \in Names, SeenAt(n),
         \A m \in Names : m # n => told'[m] = told[m] /\ Posting'[m] = Posting[m]
  PROVE  [Alerts!Next]_<<told, Posting>>
<1>1. /\ told \in [Names -> Kind \union {None}] /\ told' \in [Names -> Kind \union {None}]
  BY DEF IInv, TypeOK
<1>2. /\ told' = [told EXCEPT ![n] = told'[n]]
      /\ told'[n] = told[n] => told' = told
  BY <1>1
<1>3. Posting = [m \in Names |-> Posting[m]] /\ Posting' = [m \in Names |-> Posting'[m]]
  BY DEF Posting
<1>4. /\ Posting' = [Posting EXCEPT ![n] = Posting'[n]]
      /\ Posting'[n] = Posting[n] => Posting' = Posting
  BY <1>3
<1>5. CASE told'[n] = told[n] /\ Posting'[n] = Posting[n]
  BY <1>2, <1>4, <1>5
<1>6. CASE Posting[n] = None /\ Posting'[n] = Alerts!News(n) /\ told'[n] = told[n]
  BY <1>2, <1>4, <1>6 DEF Alerts!Next, Alerts!Post
<1>7. CASE Posting[n] # None /\ Posting'[n] = None /\ told'[n] = Posting[n]
  BY <1>2, <1>4, <1>7 DEF Alerts!Next, Alerts!Reach
<1>8. CASE Posting[n] # None /\ Posting'[n] = None /\ told'[n] = told[n]
  BY <1>2, <1>4, <1>8 DEF Alerts!Next, Alerts!GiveUp
<1>9. CASE Posting[n] = None /\ Posting'[n] = None /\ told'[n] = None
  BY <1>2, <1>4, <1>9 DEF Alerts!Next, Alerts!Forget
<1>. QED
  BY <1>5, <1>6, <1>7, <1>8, <1>9 DEF SeenAt

LEMMA NextSeen ==
  ASSUME ~StoreFails, MaxCrashes = 0, ~AmbiguousSend,
         IInv, NoticeInv, StoreInv, GoneInv, LedgerInv, [Next]_vars
  PROVE  [Alerts!Next]_<<told, Posting>>
<1>0. TypeOK /\ TypeOK'
  BY NextInv DEF IInv
<1>1. ASSUME NEW n \in Names, Same(n) PROVE told'[n] = told[n] /\ Posting'[n] = Posting[n]
  <2>1. /\ states'[n] = states[n] /\ told'[n] = told[n]
        /\ \A a \in Actors : pc'[a][n] = "send" <=> pc[a][n] = "send"
    BY <1>1 DEF Same, Marks
  <2>. QED
    BY <2>1 DEF Posting, At
<1>2. CASE \A n \in Names : Same(n)
  <2>1. \A n \in Names : told'[n] = told[n] /\ Posting'[n] = Posting[n]
    BY <1>1, <1>2
  <2>2. told' = told
    BY <1>0, <2>1 DEF TypeOK
  <2>3. Posting = [m \in Names |-> Posting[m]] /\ Posting' = [m \in Names |-> Posting'[m]]
    BY DEF Posting
  <2>4. Posting' = Posting
    BY <2>1, <2>3
  <2>. QED
    BY <2>2, <2>4
<1>3. ASSUME NEW n \in Names, SiteStep(n) PROVE [Alerts!Next]_<<told, Posting>>
  <2>1. SeenAt(n)
    BY <1>3, SeenCheck, SeenBot DEF SiteStep, StoreInv, GoneInv, LedgerInv
  <2>2. \A m \in Names : m # n => told'[m] = told[m] /\ Posting'[m] = Posting[m]
    BY <1>1, <1>3, OthersSame DEF SiteStep
  <2>. QED
    BY <1>0, <2>1, <2>2, SeenIsStep
<1>4. ~Restart
  BY DEF Restart, IInv, TypeOK
<1>5. ASSUME UNCHANGED vars PROVE \A n \in Names : Same(n)
  BY <1>5 DEF vars, Same
<1>. QED
  BY <1>2, <1>3, <1>4, <1>5, CycleSame DEF Next, SiteStep, StoreError

(* While nothing but sending fails, the user sees exactly the stream of    *)
(* AlertStream: DOWN and RECOVERED in turn for every site, whatever checks,*)
(* pauses, additions and deletions interleave (service.py:129-237).        *)
THEOREM ServiceImplementsAlertStream ==
  ASSUME ~StoreFails, MaxCrashes = 0, ~AmbiguousSend PROVE Spec => ImplementsAlertStream
<1>1. Init => Alerts!Init
  <2>. SUFFICES ASSUME Init PROVE Alerts!Init
    OBVIOUS
  <2>1. told = [n \in Names |-> None] /\ \A a \in Actors, n \in Names : pc[a][n] = "idle"
    BY DEF Init
  <2>2. Posting = [n \in Names |-> None]
    BY <2>1 DEF Posting, At
  <2>. QED
    BY <2>1, <2>2 DEF Alerts!Init
<1>2. IInv /\ NoticeInv /\ StoreInv /\ GoneInv /\ LedgerInv /\ [Next]_vars
         => [Alerts!Next]_(Alerts!vars)
  BY NextSeen DEF Alerts!vars
<1>. QED
  BY <1>1, <1>2, Inductive, NoticeAlways, StoreAlways, GoneAlways, LedgerAlways, PTL
     DEF Spec, ImplementsAlertStream, Alerts!Spec
==============================================================================
