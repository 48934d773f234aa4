------------------------ MODULE MonitorServiceProofs ------------------------
(***************************************************************************)
(* Proofs about MonitorService, for any sites, addresses, thresholds,      *)
(* replies and number of restarts: type correctness, the lock discipline   *)
(* and what it buys.  Everything follows from the inductive invariant IInv *)
(* of MonitorService.                                                      *)
(***************************************************************************)
EXTENDS MonitorService, FiniteSetTheorems, TLAPS

-----------------------------------------------------------------------------
(* The operators of StateMachine.                                          *)

(* Every reply is a success, a failure or ignored (checker/http.py).       *)
LEMMA ClassifyType == ASSUME NEW code \in Nat PROVE Classify(code) \in Outcome
  BY DEF Classify, Outcome, NoReply

(* A counter stays within its bound (state_machine.py:41, 47).             *)
LEMMA BumpType == ASSUME NEW c \in 0..CountCap PROVE Bump(c) \in 0..CountCap
  BY CountCapAssumption DEF Bump

(* A check leaves a state a state, of the same address                     *)
(* (state_machine.py:26-60).                                               *)
LEMMA ApplyCheckType ==
  ASSUME NEW s \in StateRecords, NEW o \in Outcome
  PROVE  /\ ApplyCheck(s, o, 0, Threshold) \in StateRecords
         /\ ApplyCheck(s, o, 0, Threshold).url = s.url
<1>1. Bump(s.failure_count) \in 0..CountCap /\ Bump(s.recovery_count) \in 0..CountCap
  BY BumpType DEF StateRecords
<1>0. 0 \in 0..CountCap
  BY CountCapAssumption
<1>2. ASSUME NEW t \in StateRecords, NEW st \in Status
      PROVE  /\ [t EXCEPT !.status = st, !.status_since = 0] \in StateRecords
             /\ [t EXCEPT !.status = st, !.status_since = 0].url = t.url
  BY DEF StateRecords
<1>3. /\ OnSuccess(s, 0, Threshold) \in StateRecords
      /\ OnSuccess(s, 0, Threshold).url = s.url
  <2> DEFINE t == [s EXCEPT !.failure_count = Cleared(@),
                            !.failing_since = None,
                            !.recovery_count = Bump(@)]
  <2>1. t \in StateRecords /\ t.url = s.url
    BY <1>0, <1>1 DEF StateRecords, Cleared
  <2>2. OnSuccess(s, 0, Threshold) =
          IF Recovers(t, Threshold) THEN [t EXCEPT !.status = "UP", !.status_since = 0] ELSE t
    BY DEF OnSuccess
  <2> HIDE DEF t
  <2>. QED
    BY <1>2, <2>1, <2>2 DEF Status
<1>4. /\ OnFailure(s, 0, Threshold) \in StateRecords
      /\ OnFailure(s, 0, Threshold).url = s.url
  <2> DEFINE since == StreakStart(s, 0)
             t == [s EXCEPT !.recovery_count = 0,
                            !.failure_count = Bump(@),
                            !.failing_since = since]
  <2>1. since \in {None, 0}
    BY DEF StateRecords, StreakStart
  <2>2. t \in StateRecords /\ t.url = s.url
    BY <1>0, <1>1, <2>1 DEF StateRecords
  <2>3. OnFailure(s, 0, Threshold) =
          IF s.status # "DOWN" /\ t.failure_count >= Threshold.failure
          THEN [t EXCEPT !.status = "DOWN", !.status_since = 0, !.down_since = since]
          ELSE t
    BY DEF OnFailure
  <2> HIDE DEF t, since
  <2>4. /\ [t EXCEPT !.status = "DOWN", !.status_since = 0, !.down_since = since] \in StateRecords
        /\ [t EXCEPT !.status = "DOWN", !.status_since = 0, !.down_since = since].url = t.url
    BY <2>1, <2>2 DEF StateRecords, Status
  <2>. QED
    BY <2>2, <2>3, <2>4
<1>. QED
  BY <1>3, <1>4 DEF ApplyCheck, Outcome

(* A notification leaves a state a state, of the same address              *)
(* (state_machine.py:72-77).                                               *)
LEMMA MarkNotifiedType ==
  ASSUME NEW s \in StateRecords, NEW k
  PROVE  MarkNotified(s, k) \in StateRecords /\ MarkNotified(s, k).url = s.url
  BY DEF MarkNotified, StateRecords

(* The alert that is owed is DOWN, RECOVERED or none.                      *)
LEMMA PendingAlertType == ASSUME NEW s PROVE PendingAlert(s) \in Kind \union {None}
  BY DEF PendingAlert, Kind

(* What is loaded is a state of the address asked for (sqlite.py:135-150). *)
LEMMA LoadedType ==
  ASSUME NEW db \in Stores, NEW n \in Names, NEW u \in Urls
  PROVE  Loaded(db, n, u) \in StateRecords /\ Loaded(db, n, u).url = u
<1>1. Fresh(u) \in StateRecords /\ Fresh(u).url = u
  BY CountCapAssumption DEF Fresh, StateRecords, Status
<1>2. db.state[n] \in StateRecords \union {None}
  BY DEF Stores
<1>. QED
  BY <1>1, <1>2 DEF Loaded

-----------------------------------------------------------------------------
(* Steps that only move one task.                                          *)

(* A task that ends is idle, and its lock goes to a task that waits        *)
(* (the end of async with in service.py:100, 137).                         *)
LEMMA LeaveType ==
  ASSUME NEW a \in Actors, NEW n \in Names, TypeOK, Leave(a, n)
  PROVE  /\ pc' \in [Actors -> [Names -> Steps]]
         /\ snap' \in [Actors -> [Names -> Sites \union {None}]]
         /\ res' \in [Actors -> [Names -> Outcome \union {None}]]
         /\ holder' \in [Names -> Actors \union {None}]
<1>1. HandedOver(a, n) \in Actors \union {None} /\ "idle" \in Steps
  BY DEF HandedOver, Other, Actors, TypeOK, Steps
<1>. QED
  BY <1>1 DEF Leave, Goto, TypeOK

(* A task that ends disturbs no other task.                                *)
LEMMA LeaveInv ==
  ASSUME NEW a \in Actors, NEW n \in Names, IInv, Leave(a, n),
         UNCHANGED <<sites, states>>
  PROVE  LockInv' /\ TaskInv' /\ BotInv' /\ WokenInv'
<1>. /\ \A b \in Actors, m \in Names :
            pc'[b][m] = IF b = a /\ m = n THEN "idle" ELSE pc[b][m]
     /\ \A b \in Actors, m \in Names :
            ~(b = a /\ m = n) => snap'[b][m] = snap[b][m] /\ res'[b][m] = res[b][m]
     /\ \A m \in Names : m # n \/ holder[m] # a => holder'[m] = holder[m]
  BY DEF Leave, Goto, HandedOver, IInv, TypeOK
<1>1. LockInv'
  BY DEF IInv, LockInv, Working, CheckSteps, RemoveSteps
<1>2. TaskInv'
  BY DEF IInv, TaskInv, At, CheckSteps, JudgedSteps
<1>3. BotInv'
  BY DEF IInv, BotInv, At, SoloSteps, Actors
<1>4. WokenInv'
  BY DEF IInv, WokenInv, At, Idle, Actors
<1>. QED
  BY <1>1, <1>2, <1>3, <1>4

(* A task that goes on inside its check disturbs no other task, if it      *)
(* leaves its site alone (the awaits of check_service).                    *)
LEMMA MoveInv ==
  ASSUME NEW a \in Actors, NEW n \in Names, IInv,
         NEW step \in CheckSteps, pc[a][n] \in CheckSteps, Goto(a, n, step),
         UNCHANGED <<sites, snap, holder>>,
         \A m \in Names \ {n} : states'[m] = states[m],
         \A b \in Actors, m \in Names : ~(b = a /\ m = n) => res'[b][m] = res[b][m],
         states[n] # None => states'[n] # None,
         pc[a][n] \notin JudgedSteps /\ states'[n] # states[n] => ~At("bot", n, "addload"),
         step = "load" => res'[a][n] \in Outcome,
         step \in JudgedSteps =>
            states'[n] \in StateRecords /\ states'[n].url = snap[a][n].url
  PROVE  LockInv' /\ TaskInv' /\ BotInv' /\ WokenInv'
<1>. \A b \in Actors, m \in Names :
        pc'[b][m] = IF b = a /\ m = n THEN step ELSE pc[b][m]
  BY DEF Goto, IInv, TypeOK
<1>1. LockInv'
  BY DEF IInv, LockInv, Working
<1>2. TaskInv'
  <2>1. ASSUME NEW b \in Actors, b # a PROVE pc[b][n] \notin CheckSteps
    BY <2>1 DEF IInv, LockInv, Working
  <2>. QED
    BY <2>1 DEF IInv, TaskInv, At, CheckSteps, JudgedSteps
<1>3. BotInv'
  <2>1. pc[a][n] \in JudgedSteps => ~At("bot", n, "addload")
    BY ParametersAssumption DEF IInv, TaskInv, BotInv, At
  <2>. QED
    BY <2>1, ParametersAssumption DEF IInv, TaskInv, BotInv, At, SoloSteps, CheckSteps, Actors
<1>4. WokenInv'
  BY DEF IInv, WokenInv, At, Idle, Actors, CheckSteps
<1>. QED
  BY <1>1, <1>2, <1>3, <1>4

(* Going to a step of the program leaves pc well-typed.                    *)
LEMMA GotoType ==
  ASSUME NEW a \in Actors, NEW n \in Names, NEW step \in Steps, TypeOK, Goto(a, n, step)
  PROVE  pc' \in [Actors -> [Names -> Steps]]
  BY DEF Goto, TypeOK

-----------------------------------------------------------------------------
(* The steps of check_service preserve the invariant.                      *)

LEMMA EnterStep ==
  ASSUME NEW a \in Actors, NEW n \in Names, IInv, Enter(a, n)
  PROVE  IInv'
<1>1. CASE sites[n] = None
  <2>1. Leave(a, n) /\ UNCHANGED <<config, sites, states, conn, disk, told, crashes>>
    BY <1>1 DEF Enter
  <2>2. TypeOK'
    BY <2>1, LeaveType DEF IInv, TypeOK
  <2>. QED
    BY <2>1, <2>2, LeaveInv DEF IInv
<1>2. CASE sites[n] # None
  <2>1. Goto(a, n, "sem") /\ "sem" \in Steps
    BY <1>2 DEF Enter, Steps, CheckSteps
  <2>2. TypeOK'
    BY <1>2, <2>1, GotoType DEF Enter, IInv, TypeOK
  <2>3. At(a, n, "lock") /\ Owns(a, n)
    BY <1>2 DEF Enter, IInv, WokenInv, At, Actors
  <2>4. \A b \in Actors, m \in Names :
          pc'[b][m] = IF b = a /\ m = n THEN "sem" ELSE pc[b][m]
    BY <2>1 DEF Goto, IInv, TypeOK
  <2>5. UNCHANGED <<config, sites, states, snap, res, holder>>
    BY <1>2 DEF Enter
  <2>6. LockInv'
    BY <2>3, <2>4, <2>5 DEF IInv, LockInv, Working, Owns
  <2>7. TaskInv'
    BY <2>3, <2>4, <2>5 DEF IInv, TaskInv, At, CheckSteps, JudgedSteps
  <2>8. BotInv'
    BY <2>3, <2>4, <2>5 DEF IInv, BotInv, At, SoloSteps, Actors
  <2>9. WokenInv'
    BY <2>3, <2>4, <2>5 DEF IInv, WokenInv, At, Idle, Actors
  <2>. QED
    BY <2>2, <2>6, <2>7, <2>8, <2>9 DEF IInv
<1>. QED
  BY <1>1, <1>2

LEMMA SemEnterStep ==
  ASSUME NEW a \in Actors, NEW n \in Names, IInv, SemEnter(a, n)
  PROVE  IInv'
<1>1. /\ Goto(a, n, "http") /\ pc[a][n] \in CheckSteps /\ pc[a][n] \notin JudgedSteps
      /\ "http" \in Steps /\ "http" \in CheckSteps \ JudgedSteps
  BY DEF SemEnter, At, Steps, CheckSteps, JudgedSteps
<1>2. TypeOK'
  BY <1>1, GotoType DEF SemEnter, IInv, TypeOK
<1>3. LockInv' /\ TaskInv' /\ BotInv' /\ WokenInv'
  BY <1>1, MoveInv DEF SemEnter
<1>. QED
  BY <1>2, <1>3 DEF IInv

LEMMA HttpDoneStep ==
  ASSUME NEW a \in Actors, NEW n \in Names, IInv, HttpDone(a, n)
  PROVE  IInv'
<1>1. PICK code \in ReplyCodes :
         IF Cached(n, snap[a][n].url)
         THEN /\ states' = [states EXCEPT ![n] = ApplyCheck(@, Classify(code), 0, Threshold)]
              /\ Goto(a, n, "save")
              /\ UNCHANGED res
         ELSE /\ res' = [res EXCEPT ![a][n] = Classify(code)]
              /\ Goto(a, n, "load")
              /\ UNCHANGED states
  BY DEF HttpDone
<1>2. /\ pc[a][n] \in CheckSteps /\ pc[a][n] \notin JudgedSteps
      /\ UNCHANGED <<config, sites, holder, snap, conn, disk, told, crashes>>
  BY DEF HttpDone, At, CheckSteps, JudgedSteps
<1>3. Classify(code) \in Outcome
  BY ClassifyType, ParametersAssumption
<1>4. CASE Cached(n, snap[a][n].url)
  <2>1. states[n] \in StateRecords /\ states[n].url = snap[a][n].url
    BY <1>4 DEF Cached, IInv, TypeOK
  <2> DEFINE s == ApplyCheck(states[n], Classify(code), 0, Threshold)
  <2>2. s \in StateRecords /\ s.url = snap[a][n].url
    BY <1>3, <2>1, ApplyCheckType
  <2>3. states' = [states EXCEPT ![n] = s] /\ Goto(a, n, "save") /\ UNCHANGED res
    BY <1>1, <1>4
  <2> HIDE DEF s
  <2>4. states' \in [Names -> StateRecords \union {None}] /\ states'[n] = s
    BY <2>2, <2>3 DEF IInv, TypeOK
  <2>5. TypeOK'
    BY <1>2, <2>3, <2>4, GotoType DEF IInv, TypeOK, Steps, CheckSteps
  <2>6. ~At("bot", n, "addload")
    BY <2>1, ParametersAssumption DEF IInv, BotInv
  <2>7. s # None /\ \A m \in Names \ {n} : states'[m] = states[m]
    BY <2>2, <2>3, ParametersAssumption DEF IInv, TypeOK
  <2>8. LockInv' /\ TaskInv' /\ BotInv' /\ WokenInv'
    BY <1>2, <2>2, <2>3, <2>4, <2>6, <2>7, MoveInv DEF CheckSteps
  <2>. QED
    BY <2>5, <2>8 DEF IInv
<1>5. CASE ~Cached(n, snap[a][n].url)
  <2>1. /\ res' = [res EXCEPT ![a][n] = Classify(code)]
        /\ Goto(a, n, "load") /\ UNCHANGED states
    BY <1>1, <1>5
  <2>2. /\ res' \in [Actors -> [Names -> Outcome \union {None}]]
        /\ res'[a][n] \in Outcome
        /\ \A b \in Actors, m \in Names : ~(b = a /\ m = n) => res'[b][m] = res[b][m]
    BY <1>3, <2>1 DEF IInv, TypeOK
  <2>3. TypeOK'
    BY <1>2, <2>1, <2>2, GotoType DEF IInv, TypeOK, Steps, CheckSteps
  <2>4. LockInv' /\ TaskInv' /\ BotInv' /\ WokenInv'
    BY <1>2, <2>1, <2>2, MoveInv DEF CheckSteps, JudgedSteps
  <2>. QED
    BY <2>3, <2>4 DEF IInv
<1>. QED
  BY <1>4, <1>5

LEMMA LoadDoneStep ==
  ASSUME NEW a \in Actors, NEW n \in Names, IInv, LoadDone(a, n)
  PROVE  IInv'
<1> DEFINE s == ApplyCheck(Loaded(conn, n, snap[a][n].url), res[a][n], 0, Threshold)
<1>1. /\ pc[a][n] \in CheckSteps /\ pc[a][n] \notin JudgedSteps /\ Goto(a, n, "save")
      /\ states' = [states EXCEPT ![n] = s]
      /\ res' = [res EXCEPT ![a][n] = None]
      /\ ~At("bot", n, "addload")
      /\ UNCHANGED <<config, sites, holder, snap, conn, disk, told, crashes>>
  BY DEF LoadDone, At, CheckSteps, JudgedSteps
<1>2. s \in StateRecords /\ s.url = snap[a][n].url
  <2>1. snap[a][n].url \in Urls /\ res[a][n] \in Outcome
    BY DEF LoadDone, IInv, TaskInv, At, CheckSteps, Sites
  <2>2. /\ Loaded(conn, n, snap[a][n].url) \in StateRecords
        /\ Loaded(conn, n, snap[a][n].url).url = snap[a][n].url
    BY <2>1, LoadedType DEF IInv, TypeOK
  <2>. QED
    BY <2>1, <2>2, ApplyCheckType
<1> HIDE DEF s
<1>3. states' \in [Names -> StateRecords \union {None}] /\ states'[n] = s
  BY <1>1, <1>2 DEF IInv, TypeOK
<1>4. /\ res' \in [Actors -> [Names -> Outcome \union {None}]]
      /\ \A b \in Actors, m \in Names : ~(b = a /\ m = n) => res'[b][m] = res[b][m]
  BY <1>1 DEF IInv, TypeOK
<1>5. TypeOK'
  BY <1>1, <1>3, <1>4, GotoType DEF IInv, TypeOK, Steps, CheckSteps
<1>6. s # None /\ \A m \in Names \ {n} : states'[m] = states[m]
  BY <1>1, <1>2, ParametersAssumption DEF IInv, TypeOK
<1>7. LockInv' /\ TaskInv' /\ BotInv' /\ WokenInv'
  BY <1>1, <1>2, <1>3, <1>4, <1>6, MoveInv DEF CheckSteps
<1>. QED
  BY <1>5, <1>7 DEF IInv

LEMMA SaveStep ==
  ASSUME NEW a \in Actors, NEW n \in Names, IInv, Save(a, n)
  PROVE  IInv'
<1>1. PICK step \in {"commit", "commit2"} : Goto(a, n, step)
  BY DEF Save
<1>2. /\ pc[a][n] \in JudgedSteps /\ pc[a][n] \in CheckSteps
      /\ step \in Steps /\ step \in CheckSteps /\ step # "load"
  BY DEF Save, Steps, CheckSteps, JudgedSteps
<1>3. /\ conn' = [conn EXCEPT !.state[n] = states[n]]
      /\ UNCHANGED <<config, sites, states, holder, snap, res, disk, told, crashes>>
  BY DEF Save, Upserted
<1>4. conn' \in Stores
  BY <1>3 DEF IInv, TypeOK, Stores
<1>5. TypeOK'
  BY <1>1, <1>2, <1>3, <1>4, GotoType DEF IInv, TypeOK
<1>6. states[n] \in StateRecords /\ states[n].url = snap[a][n].url
  BY <1>2 DEF IInv, TaskInv
<1>7. LockInv' /\ TaskInv' /\ BotInv' /\ WokenInv'
  BY <1>1, <1>2, <1>3, <1>6, MoveInv
<1>. QED
  BY <1>5, <1>7 DEF IInv

LEMMA CommitStep ==
  ASSUME NEW a \in Actors, NEW n \in Names, IInv, Commit(a, n)
  PROVE  IInv'
<1>1. UNCHANGED <<config, sites, states, conn, told, crashes>> /\ disk' = conn
  BY DEF Commit
<1>2. CASE Alert(a, n) = None
  <2>1. Leave(a, n)
    BY <1>2 DEF Commit
  <2>2. TypeOK'
    BY <1>1, <2>1, LeaveType DEF IInv, TypeOK
  <2>. QED
    BY <1>1, <2>1, <2>2, LeaveInv DEF IInv
<1>3. CASE Alert(a, n) # None
  <2>1. Goto(a, n, "send") /\ UNCHANGED <<snap, res, holder>>
    BY <1>3 DEF Commit
  <2>2. /\ pc[a][n] \in JudgedSteps /\ pc[a][n] \in CheckSteps
        /\ "send" \in Steps /\ "send" \in CheckSteps
    BY DEF Commit, At, Steps, CheckSteps, JudgedSteps
  <2>3. TypeOK'
    BY <1>1, <2>1, <2>2, GotoType DEF IInv, TypeOK
  <2>4. states[n] \in StateRecords /\ states[n].url = snap[a][n].url
    BY <2>2 DEF IInv, TaskInv
  <2>5. LockInv' /\ TaskInv' /\ BotInv' /\ WokenInv'
    BY <1>1, <2>1, <2>2, <2>4, MoveInv
  <2>. QED
    BY <2>3, <2>5 DEF IInv
<1>. QED
  BY <1>2, <1>3

LEMMA DeliverStep ==
  ASSUME NEW a \in Actors, NEW n \in Names, IInv, Deliver(a, n)
  PROVE  IInv'
<1>1. /\ Goto(a, n, "sent") /\ told' = [told EXCEPT ![n] = PendingAlert(states[n])]
      /\ UNCHANGED <<config, sites, states, holder, snap, res, conn, disk, crashes>>
  BY DEF Deliver
<1>2. /\ pc[a][n] \in JudgedSteps /\ pc[a][n] \in CheckSteps
      /\ "sent" \in Steps /\ "sent" \in CheckSteps
  BY DEF Deliver, At, Steps, CheckSteps, JudgedSteps
<1>3. TypeOK'
  BY <1>1, <1>2, GotoType, PendingAlertType DEF IInv, TypeOK
<1>4. states[n] \in StateRecords /\ states[n].url = snap[a][n].url
  BY <1>2 DEF IInv, TaskInv
<1>5. LockInv' /\ TaskInv' /\ BotInv' /\ WokenInv'
  BY <1>1, <1>2, <1>4, MoveInv
<1>. QED
  BY <1>3, <1>5 DEF IInv

LEMMA SendFailStep ==
  ASSUME NEW a \in Actors, NEW n \in Names, IInv, SendFail(a, n)
  PROVE  IInv'
<1>1. Leave(a, n) /\ UNCHANGED <<config, sites, states, conn, disk, told, crashes>>
  BY DEF SendFail, Unsent, IInv, TypeOK
<1>2. TypeOK'
  BY <1>1, LeaveType DEF IInv, TypeOK
<1>. QED
  BY <1>1, <1>2, LeaveInv DEF IInv

LEMMA CheckerRaisesStep ==
  ASSUME NEW a \in Actors, NEW n \in Names, IInv, CheckerRaises(a, n)
  PROVE  IInv'
<1>1. Leave(a, n) /\ UNCHANGED <<config, sites, states, conn, disk, told, crashes>>
  BY DEF CheckerRaises
<1>2. TypeOK'
  BY <1>1, LeaveType DEF IInv, TypeOK
<1>. QED
  BY <1>1, <1>2, LeaveInv DEF IInv

LEMMA AnswerLostStep ==
  ASSUME NEW a \in Actors, NEW n \in Names, IInv, AnswerLost(a, n)
  PROVE  IInv'
<1>1. UNCHANGED <<config, sites, states, conn, disk, told, crashes>>
  BY DEF AnswerLost
<1>2. CASE Leave(a, n)
  <2>1. TypeOK'
    BY <1>1, <1>2, LeaveType DEF IInv, TypeOK
  <2>. QED
    BY <1>1, <1>2, <2>1, LeaveInv DEF IInv
<1>3. CASE Goto(a, n, "send") /\ UNCHANGED <<snap, res, holder>>
  <2>1. /\ pc[a][n] \in JudgedSteps /\ pc[a][n] \in CheckSteps
        /\ "send" \in Steps /\ "send" \in CheckSteps
    BY DEF AnswerLost, At, Steps, CheckSteps, JudgedSteps
  <2>2. TypeOK'
    BY <1>1, <1>3, <2>1, GotoType DEF IInv, TypeOK
  <2>3. states[n] \in StateRecords /\ states[n].url = snap[a][n].url
    BY <2>1 DEF IInv, TaskInv
  <2>4. LockInv' /\ TaskInv' /\ BotInv' /\ WokenInv'
    BY <1>1, <1>3, <2>1, <2>3, MoveInv
  <2>. QED
    BY <2>2, <2>4 DEF IInv
<1>. QED
  BY <1>2, <1>3 DEF AnswerLost

LEMMA AckStep ==
  ASSUME NEW a \in Actors, NEW n \in Names, IInv, Ack(a, n)
  PROVE  IInv'
<1> DEFINE s == MarkNotified(states[n], PendingAlert(states[n]))
<1>1. /\ Goto(a, n, "save2") /\ states' = [states EXCEPT ![n] = s]
      /\ UNCHANGED <<config, sites, holder, snap, res, conn, disk, told, crashes>>
  BY DEF Ack
<1>2. /\ pc[a][n] \in JudgedSteps /\ pc[a][n] \in CheckSteps
      /\ "save2" \in Steps /\ "save2" \in CheckSteps
  BY DEF Ack, At, Steps, CheckSteps, JudgedSteps
<1>3. states[n] \in StateRecords /\ states[n].url = snap[a][n].url
  BY <1>2 DEF IInv, TaskInv
<1>4. s \in StateRecords /\ s.url = snap[a][n].url
  BY <1>3, MarkNotifiedType
<1> HIDE DEF s
<1>5. /\ states' \in [Names -> StateRecords \union {None}] /\ states'[n] = s /\ s # None
      /\ \A m \in Names \ {n} : states'[m] = states[m]
  BY <1>1, <1>4, ParametersAssumption DEF IInv, TypeOK
<1>6. TypeOK'
  BY <1>1, <1>2, <1>5, GotoType DEF IInv, TypeOK
<1>7. LockInv' /\ TaskInv' /\ BotInv' /\ WokenInv'
  BY <1>1, <1>2, <1>4, <1>5, MoveInv
<1>. QED
  BY <1>6, <1>7 DEF IInv

LEMMA CommitNotifiedStep ==
  ASSUME NEW a \in Actors, NEW n \in Names, IInv, CommitNotified(a, n)
  PROVE  IInv'
<1>1. Leave(a, n) /\ UNCHANGED <<config, sites, states, conn, told, crashes>> /\ disk' = conn
  BY DEF CommitNotified
<1>2. TypeOK'
  BY <1>1, LeaveType DEF IInv, TypeOK
<1>. QED
  BY <1>1, <1>2, LeaveInv DEF IInv

LEMMA StoreErrorStep ==
  ASSUME NEW a \in Actors, NEW n \in Names, IInv, StoreError(a, n)
  PROVE  IInv'
<1>1. /\ Leave(a, n) /\ conn' \in {conn, disk}
      /\ UNCHANGED <<config, sites, states, disk, told, crashes>>
  BY DEF StoreError
<1>2. TypeOK'
  BY <1>1, LeaveType DEF IInv, TypeOK
<1>. QED
  BY <1>1, <1>2, LeaveInv DEF IInv

-----------------------------------------------------------------------------
(* Starting tasks preserves the invariant.                                 *)

(* The lock is granted to somebody, to whoever asks only if it was free    *)
(* (asyncio.Lock.acquire).                                                 *)
LEMMA GrantedType ==
  ASSUME NEW a \in Actors, NEW n \in Names, TypeOK
  PROVE  Granted(a, n) \in Actors /\ (holder[n] # None => Granted(a, n) = holder[n])
  BY DEF Granted, TypeOK

LEMMA RunCycleStep ==
  ASSUME NEW a \in Actors, IInv, RunCycle(a)
  PROVE  IInv'
<1>1. /\ Idle(a)
      /\ UNCHANGED <<config, sites, states, res, conn, disk, told, crashes>>
      /\ pc' = [pc EXCEPT ![a] = [n \in Names |-> IF n \in Due THEN "lock" ELSE "idle"]]
      /\ snap' = [snap EXCEPT ![a] = [n \in Names |-> IF n \in Due THEN sites[n] ELSE None]]
      /\ holder' = [n \in Names |-> IF n \in Due THEN Granted(a, n) ELSE holder[n]]
  BY DEF RunCycle
<1>2. \A n \in Due : sites[n] \in Sites
  BY DEF Due, IInv, TypeOK
<1>3. TypeOK'
  <2>1. pc' \in [Actors -> [Names -> Steps]]
    BY <1>1 DEF IInv, TypeOK, Steps
  <2>2. snap' \in [Actors -> [Names -> Sites \union {None}]]
    BY <1>1, <1>2 DEF IInv, TypeOK
  <2>3. holder' \in [Names -> Actors \union {None}]
    BY <1>1, GrantedType DEF IInv, TypeOK
  <2>. QED
    BY <1>1, <2>1, <2>2, <2>3 DEF IInv, TypeOK
<1>4. /\ \A n \in Names : pc'[a][n] \in {"lock", "idle"}
      /\ \A n \in Names : pc'[a][n] = "lock" =>
            snap'[a][n] = sites[n] /\ sites[n] \in Sites
      /\ \A b \in Actors \ {a}, n \in Names : pc'[b][n] = pc[b][n] /\ snap'[b][n] = snap[b][n]
      /\ \A n \in Names : holder[n] # None => holder'[n] = holder[n]
  BY <1>1, <1>2, GrantedType DEF IInv, TypeOK
<1>5. LockInv'
  BY <1>4, ParametersAssumption DEF IInv, LockInv, Working, CheckSteps, RemoveSteps, Actors
<1>6. TaskInv'
  BY <1>1, <1>4 DEF IInv, TaskInv, At, CheckSteps, JudgedSteps
<1>7. BotInv'
  BY <1>1, <1>4 DEF IInv, BotInv, At, SoloSteps, Actors
<1>8. WokenInv'
  <2>1. CASE a = "cycle"
    BY <1>1, <1>4, <2>1 DEF IInv, WokenInv, At, Idle, Actors
  <2>2. CASE a = "bot"
    <3>1. \A n \in Names : ~At("cycle", n, "woken")
      BY <2>2 DEF RunCycle, BotReady
    <3>. QED
      BY <1>1, <1>4, <2>2, <3>1 DEF WokenInv, At, Actors
  <2>. QED
    BY <2>1, <2>2 DEF Actors
<1>. QED
  BY <1>3, <1>5, <1>6, <1>7, <1>8 DEF IInv

(* A request of the bot finds its own tasks idle and no check resumed; it  *)
(* may take the lock if that is free, and leaves sites and states alone.   *)
LEMMA BotRequestInv ==
  ASSUME NEW n \in Names, NEW step \in {"lock", "insc", "togc", "rmlock"},
         IInv, BotReady, Goto("bot", n, step),
         UNCHANGED <<sites, states, res>>,
         \A m \in Names : holder[m] # None => holder'[m] = holder[m],
         \A b \in Actors, m \in Names : ~(b = "bot" /\ m = n) => snap'[b][m] = snap[b][m],
         step = "lock" => sites[n] \in Sites /\ snap'["bot"][n] = sites[n],
         step = "insc" => sites[n] = None /\ snap'["bot"][n] \in Sites,
         step = "togc" => sites[n] \in Sites
  PROVE  LockInv' /\ TaskInv' /\ BotInv' /\ WokenInv'
<1>. \A b \in Actors, m \in Names :
        pc'[b][m] = IF b = "bot" /\ m = n THEN step ELSE pc[b][m]
  BY DEF Goto, IInv, TypeOK, Actors
<1>1. LockInv'
  BY ParametersAssumption DEF IInv, LockInv, Working, CheckSteps, RemoveSteps, Actors
<1>2. TaskInv'
  BY DEF IInv, TaskInv, At, CheckSteps, JudgedSteps
<1>3. BotInv'
  BY DEF IInv, BotInv, BotReady, Idle, At, SoloSteps, Actors
<1>4. WokenInv'
  BY DEF IInv, WokenInv, BotReady, At, Actors
<1>. QED
  BY <1>1, <1>2, <1>3, <1>4

LEMMA BotCheckStep ==
  ASSUME NEW n \in Names, IInv, BotCheck(n)
  PROVE  IInv'
<1>1. /\ BotReady /\ sites[n] \in Sites /\ Goto("bot", n, "lock") /\ "bot" \in Actors
      /\ snap' = [snap EXCEPT !["bot"][n] = sites[n]]
      /\ holder' = [holder EXCEPT ![n] = Granted("bot", n)]
      /\ UNCHANGED <<config, sites, states, res, conn, disk, told, crashes>>
  BY DEF BotCheck, IInv, TypeOK, Actors
<1>2. /\ snap' \in [Actors -> [Names -> Sites \union {None}]] /\ snap'["bot"][n] = sites[n]
      /\ \A b \in Actors, m \in Names : ~(b = "bot" /\ m = n) => snap'[b][m] = snap[b][m]
  BY <1>1 DEF IInv, TypeOK
<1>3. /\ holder' \in [Names -> Actors \union {None}]
      /\ \A m \in Names : holder[m] # None => holder'[m] = holder[m]
  BY <1>1, GrantedType DEF IInv, TypeOK
<1>4. TypeOK'
  BY <1>1, <1>2, <1>3, GotoType DEF IInv, TypeOK, Steps
<1>. QED
  BY <1>1, <1>2, <1>3, <1>4, BotRequestInv DEF IInv

LEMMA BotAddStep ==
  ASSUME NEW n \in Names, NEW u \in Urls, IInv, BotAdd(n, u)
  PROVE  IInv'
<1> DEFINE site == [url |-> u, enabled |-> TRUE]
<1>1. /\ BotReady /\ sites[n] = None /\ Goto("bot", n, "insc") /\ "bot" \in Actors
      /\ conn' = [conn EXCEPT !.managed[n] = site]
      /\ snap' = [snap EXCEPT !["bot"][n] = site]
      /\ UNCHANGED <<config, sites, states, holder, res, disk, told, crashes>>
  BY DEF BotAdd, Actors
<1>2. site \in Sites
  BY DEF Sites
<1> HIDE DEF site
<1>3. /\ snap' \in [Actors -> [Names -> Sites \union {None}]] /\ snap'["bot"][n] = site
      /\ \A b \in Actors, m \in Names : ~(b = "bot" /\ m = n) => snap'[b][m] = snap[b][m]
  BY <1>1, <1>2 DEF IInv, TypeOK
<1>4. conn' \in Stores
  BY <1>1, <1>2 DEF IInv, TypeOK, Stores
<1>5. TypeOK'
  BY <1>1, <1>3, <1>4, GotoType DEF IInv, TypeOK, Steps, StoreSteps
<1>. QED
  BY <1>1, <1>2, <1>3, <1>5, BotRequestInv DEF IInv

LEMMA BotToggleStep ==
  ASSUME NEW n \in Names, IInv, BotToggle(n)
  PROVE  IInv'
<1>1. /\ BotReady /\ sites[n] \in Sites /\ Goto("bot", n, "togc") /\ "bot" \in Actors
      /\ conn' = IF conn.managed[n] = None THEN conn
                 ELSE [conn EXCEPT !.managed[n] =
                          [url |-> @.url, enabled |-> ~sites[n].enabled]]
      /\ UNCHANGED <<config, sites, states, holder, snap, res, disk, told, crashes>>
  BY DEF BotToggle, Editable, IInv, TypeOK, Actors
<1>2. conn' \in Stores
  <2>1. CASE conn.managed[n] = None
    BY <1>1, <2>1 DEF IInv, TypeOK
  <2>2. CASE conn.managed[n] # None
    <3> DEFINE site == [url |-> conn.managed[n].url, enabled |-> ~sites[n].enabled]
    <3>1. conn.managed[n] \in Sites
      BY <2>2 DEF IInv, TypeOK, Stores
    <3>2. site \in Sites
      BY <1>1, <3>1 DEF Sites
    <3>3. conn' = [conn EXCEPT !.managed[n] = site]
      BY <1>1, <2>2
    <3> HIDE DEF site
    <3>. QED
      BY <3>2, <3>3 DEF IInv, TypeOK, Stores
  <2>. QED
    BY <2>1, <2>2
<1>3. TypeOK'
  BY <1>1, <1>2, GotoType DEF IInv, TypeOK, Steps, StoreSteps
<1>. QED
  BY <1>1, <1>3, BotRequestInv DEF IInv

LEMMA BotDeleteStep ==
  ASSUME NEW n \in Names, IInv, BotDelete(n)
  PROVE  IInv'
<1>1. /\ BotReady /\ Goto("bot", n, "rmlock") /\ "bot" \in Actors
      /\ holder' = [holder EXCEPT ![n] = Granted("bot", n)]
      /\ UNCHANGED <<config, sites, states, snap, res, conn, disk, told, crashes>>
  BY DEF BotDelete, Actors
<1>2. /\ holder' \in [Names -> Actors \union {None}]
      /\ \A m \in Names : holder[m] # None => holder'[m] = holder[m]
  BY <1>1, GrantedType DEF IInv, TypeOK
<1>3. TypeOK'
  BY <1>1, <1>2, GotoType DEF IInv, TypeOK, Steps, StoreSteps
<1>. QED
  BY <1>1, <1>2, <1>3, BotRequestInv DEF IInv

-----------------------------------------------------------------------------
(* The later steps of the bot preserve the invariant.                      *)

(* A move of the bot shows in pc at one place.                             *)
LEMMA BotMove ==
  ASSUME NEW n \in Names, NEW step, TypeOK, Goto("bot", n, step)
  PROVE  \A b \in Actors, m \in Names :
            pc'[b][m] = IF b = "bot" /\ m = n THEN step ELSE pc[b][m]
  BY DEF Goto, TypeOK, Actors

LEMMA AddCommitStep ==
  ASSUME NEW n \in Names, IInv, AddCommit(n)
  PROVE  IInv'
<1>1. /\ At("bot", n, "insc") /\ Goto("bot", n, "addload") /\ "bot" \in Actors
      /\ disk' = conn
      /\ sites' = [sites EXCEPT ![n] = snap["bot"][n]]
      /\ UNCHANGED <<config, states, holder, snap, res, conn, told, crashes>>
  BY DEF AddCommit, Actors
<1>2. /\ snap["bot"][n] \in Sites /\ sites[n] = None /\ states[n] = None
      /\ \A m \in Names \ {n} : At("bot", m, "idle")
  BY <1>1 DEF IInv, BotInv, At, SoloSteps
<1>3. /\ sites' \in [Names -> Sites \union {None}] /\ sites'[n] = snap["bot"][n]
      /\ \A m \in Names \ {n} : sites'[m] = sites[m]
  BY <1>1, <1>2 DEF IInv, TypeOK
<1>4. \A b \in Actors, m \in Names :
        pc'[b][m] = IF b = "bot" /\ m = n THEN "addload" ELSE pc[b][m]
  BY <1>1, BotMove DEF IInv
<1>5. TypeOK'
  BY <1>1, <1>3, GotoType DEF IInv, TypeOK, Steps, StoreSteps
<1>6. LockInv'
  BY <1>1, <1>4 DEF IInv, LockInv, Working, CheckSteps, RemoveSteps
<1>7. TaskInv'
  <2>1. \A b \in Actors : pc[b][n] \notin CheckSteps \union {"lock"}
    BY <1>2, ParametersAssumption DEF IInv, TaskInv
  <2>2. ASSUME NEW b \in Actors, NEW m \in Names,
               pc'[b][m] \in CheckSteps \union {"lock"}
        PROVE  m # n /\ pc'[b][m] = pc[b][m]
    BY <1>4, <2>1, <2>2 DEF CheckSteps
  <2>. QED
    BY <1>1, <1>3, <1>4, <2>1, <2>2 DEF IInv, TaskInv, At, CheckSteps, JudgedSteps
<1>8. BotInv'
  BY <1>1, <1>2, <1>3, <1>4 DEF IInv, BotInv, At, SoloSteps, Actors
<1>9. WokenInv'
  <2>1. \A m \in Names : ~At("cycle", m, "woken")
    BY <1>1 DEF IInv, WokenInv, Idle, At
  <2>. QED
    BY <1>4, <2>1 DEF IInv, WokenInv, At, Actors
<1>. QED
  BY <1>5, <1>6, <1>7, <1>8, <1>9 DEF IInv

LEMMA AddLoadStep ==
  ASSUME NEW n \in Names, IInv, AddLoad(n)
  PROVE  IInv'
<1> DEFINE s == Loaded(conn, n, snap["bot"][n].url)
<1>1. /\ At("bot", n, "addload") /\ Goto("bot", n, "lock") /\ "bot" \in Actors
      /\ states' = [states EXCEPT ![n] = s]
      /\ holder' = [holder EXCEPT ![n] = Granted("bot", n)]
      /\ UNCHANGED <<config, sites, snap, res, conn, disk, told, crashes>>
  BY DEF AddLoad, Actors
<1>2. /\ snap["bot"][n] \in Sites /\ sites[n] \in Sites
      /\ sites[n].url = snap["bot"][n].url /\ states[n] = None
      /\ \A m \in Names \ {n} : At("bot", m, "idle")
  BY <1>1 DEF IInv, BotInv, At, SoloSteps
<1>3. s \in StateRecords /\ s.url = snap["bot"][n].url
  BY <1>2, LoadedType DEF IInv, TypeOK, Sites
<1> HIDE DEF s
<1>4. /\ states' \in [Names -> StateRecords \union {None}] /\ states'[n] = s
      /\ \A m \in Names \ {n} : states'[m] = states[m]
  BY <1>1, <1>3 DEF IInv, TypeOK
<1>5. /\ holder' \in [Names -> Actors \union {None}]
      /\ \A m \in Names : holder[m] # None => holder'[m] = holder[m]
  BY <1>1, GrantedType DEF IInv, TypeOK
<1>6. \A b \in Actors, m \in Names :
        pc'[b][m] = IF b = "bot" /\ m = n THEN "lock" ELSE pc[b][m]
  BY <1>1, BotMove DEF IInv
<1>7. TypeOK'
  BY <1>1, <1>4, <1>5, GotoType DEF IInv, TypeOK, Steps
<1>8. LockInv'
  BY <1>5, <1>6, ParametersAssumption
     DEF IInv, LockInv, Working, CheckSteps, RemoveSteps, Actors
<1>9. TaskInv'
  <2>1. \A b \in Actors : pc[b][n] \notin JudgedSteps
    BY <1>2, ParametersAssumption DEF IInv, TaskInv
  <2>2. ASSUME NEW b \in Actors, NEW m \in Names, pc'[b][m] \in JudgedSteps
        PROVE  m # n /\ pc[b][m] \in JudgedSteps
    BY <1>6, <2>1, <2>2 DEF JudgedSteps, CheckSteps
  <2>. QED
    BY <1>1, <1>2, <1>4, <1>6, <2>2 DEF IInv, TaskInv, At, CheckSteps
<1>10. BotInv'
  BY <1>1, <1>2, <1>4, <1>6, ParametersAssumption DEF IInv, BotInv, At, SoloSteps, Actors
<1>11. WokenInv'
  <2>1. \A m \in Names : ~At("cycle", m, "woken")
    BY <1>1 DEF IInv, WokenInv, Idle, At
  <2>. QED
    BY <1>6, <2>1 DEF IInv, WokenInv, At, Actors
<1>. QED
  BY <1>7, <1>8, <1>9, <1>10, <1>11 DEF IInv

LEMMA ToggleCommitStep ==
  ASSUME NEW n \in Names, IInv, ToggleCommit(n)
  PROVE  IInv'
<1>1. /\ At("bot", n, "togc") /\ Goto("bot", n, "idle") /\ "bot" \in Actors
      /\ disk' = conn
      /\ sites' = [sites EXCEPT ![n].enabled = ~@]
      /\ UNCHANGED <<config, states, holder, snap, res, conn, told, crashes>>
  BY DEF ToggleCommit, Actors
<1>2. sites[n] \in Sites
  BY <1>1 DEF IInv, BotInv
<1> DEFINE site == [sites[n] EXCEPT !.enabled = ~@]
<1>3. site \in Sites /\ site.url = sites[n].url
  BY <1>2 DEF Sites
<1>4. sites' = [sites EXCEPT ![n] = site]
  BY <1>1
<1> HIDE DEF site
<1>5. /\ sites' \in [Names -> Sites \union {None}] /\ sites'[n] = site /\ site # None
      /\ \A m \in Names \ {n} : sites'[m] = sites[m]
  BY <1>3, <1>4, ParametersAssumption DEF IInv, TypeOK
<1>6. \A b \in Actors, m \in Names :
        pc'[b][m] = IF b = "bot" /\ m = n THEN "idle" ELSE pc[b][m]
  BY <1>1, BotMove DEF IInv
<1>7. TypeOK'
  BY <1>1, <1>5, GotoType DEF IInv, TypeOK, Steps
<1>8. LockInv'
  BY <1>1, <1>6 DEF IInv, LockInv, Working, CheckSteps, RemoveSteps
<1>9. TaskInv'
  BY <1>1, <1>3, <1>5, <1>6 DEF IInv, TaskInv, At, CheckSteps, JudgedSteps
<1>10. BotInv'
  BY <1>1, <1>3, <1>5, <1>6 DEF IInv, BotInv, At, SoloSteps, Actors
<1>11. WokenInv'
  <2>1. \A m \in Names : ~At("cycle", m, "woken")
    BY <1>1 DEF IInv, WokenInv, Idle, At
  <2>. QED
    BY <1>6, <2>1 DEF IInv, WokenInv, At, Actors
<1>. QED
  BY <1>7, <1>8, <1>9, <1>10, <1>11 DEF IInv

LEMMA DeleteSiteStep ==
  ASSUME NEW n \in Names, IInv, DeleteSite(n)
  PROVE  IInv'
<1>1. /\ At("bot", n, "rmlock") /\ holder[n] = "bot" /\ "bot" \in Actors
      /\ UNCHANGED <<config, sites, states, disk, told, crashes>>
  BY DEF DeleteSite, MayDelete, Owns, Actors
<1>2. CASE Editable(n)
  <2>1. /\ conn' = [conn EXCEPT !.managed[n] = None]
        /\ Goto("bot", n, "del2") /\ UNCHANGED <<snap, res, holder>>
    BY <1>2 DEF DeleteSite
  <2>2. conn' \in Stores
    BY <2>1 DEF IInv, TypeOK, Stores
  <2>3. TypeOK'
    BY <1>1, <2>1, <2>2, GotoType DEF IInv, TypeOK, Steps, RemoveSteps
  <2>4. \A b \in Actors, m \in Names :
          pc'[b][m] = IF b = "bot" /\ m = n THEN "del2" ELSE pc[b][m]
    BY <2>1, BotMove DEF IInv
  <2>5. LockInv'
    BY <1>1, <2>1, <2>4 DEF IInv, LockInv, Working
  <2>6. TaskInv'
    BY <1>1, <2>1, <2>4 DEF IInv, TaskInv, At, CheckSteps, JudgedSteps
  <2>7. BotInv'
    BY <1>1, <2>1, <2>4 DEF IInv, BotInv, At, SoloSteps, Actors
  <2>8. WokenInv'
    BY <1>1, <2>4 DEF IInv, WokenInv, At, Idle, Actors
  <2>. QED
    BY <2>3, <2>5, <2>6, <2>7, <2>8 DEF IInv
<1>3. CASE ~Editable(n)
  <2>1. Leave("bot", n) /\ UNCHANGED conn
    BY <1>3 DEF DeleteSite
  <2>2. TypeOK'
    BY <1>1, <2>1, LeaveType DEF IInv, TypeOK
  <2>. QED
    BY <1>1, <2>1, <2>2, LeaveInv DEF IInv
<1>. QED
  BY <1>2, <1>3

LEMMA DeleteStateStep ==
  ASSUME NEW n \in Names, IInv, DeleteState(n)
  PROVE  IInv'
<1>1. /\ At("bot", n, "del2") /\ Goto("bot", n, "delc") /\ "bot" \in Actors
      /\ conn' = [conn EXCEPT !.state[n] = None]
      /\ UNCHANGED <<config, sites, states, holder, snap, res, disk, told, crashes>>
  BY DEF DeleteState, StateDeleted, Actors
<1>2. conn' \in Stores
  BY <1>1 DEF IInv, TypeOK, Stores
<1>3. TypeOK'
  BY <1>1, <1>2, GotoType DEF IInv, TypeOK, Steps, RemoveSteps
<1>4. \A b \in Actors, m \in Names :
        pc'[b][m] = IF b = "bot" /\ m = n THEN "delc" ELSE pc[b][m]
  BY <1>1, BotMove DEF IInv
<1>5. LockInv'
  BY <1>1, <1>4 DEF IInv, LockInv, Working, At, RemoveSteps
<1>6. TaskInv'
  BY <1>1, <1>4 DEF IInv, TaskInv, At, CheckSteps, JudgedSteps
<1>7. BotInv'
  BY <1>1, <1>4 DEF IInv, BotInv, At, SoloSteps, Actors
<1>8. WokenInv'
  BY <1>1, <1>4 DEF IInv, WokenInv, At, Idle, Actors
<1>. QED
  BY <1>3, <1>5, <1>6, <1>7, <1>8 DEF IInv

LEMMA DeleteCommitStep ==
  ASSUME NEW n \in Names, IInv, DeleteCommit(n)
  PROVE  IInv'
<1>1. /\ At("bot", n, "delc") /\ disk' = conn
      /\ sites' = [sites EXCEPT ![n] = None]
      /\ states' = [states EXCEPT ![n] = None]
      /\ holder' = [holder EXCEPT ![n] = None]
      /\ told' = [told EXCEPT ![n] = IF conn.state[n] = None THEN None ELSE @]
      /\ pc' = [pc EXCEPT !["bot"][n] = "idle",
                          !["cycle"][n] = IF @ = "lock" THEN "woken" ELSE @]
      /\ UNCHANGED <<config, snap, res, conn, crashes>>
  BY DEF DeleteCommit
<1>2. holder[n] = "bot" /\ \A m \in Names \ {n} : At("bot", m, "idle")
  BY <1>1 DEF IInv, LockInv, BotInv, Working, At, RemoveSteps, SoloSteps, Actors
<1>3. pc["cycle"][n] \notin CheckSteps \union RemoveSteps
  BY <1>2 DEF IInv, LockInv, Working, Actors
<1>4. /\ pc'["bot"][n] = "idle"
      /\ pc'["cycle"][n] = IF pc["cycle"][n] = "lock" THEN "woken" ELSE pc["cycle"][n]
      /\ \A b \in Actors, m \in Names \ {n} : pc'[b][m] = pc[b][m]
      /\ pc' \in [Actors -> [Names -> Steps]]
  <2>1. {"idle", "woken"} \subseteq Steps
    BY DEF Steps
  <2>. QED
    BY <1>1, <2>1 DEF IInv, TypeOK, Actors
<1>5. /\ sites' \in [Names -> Sites \union {None}] /\ sites'[n] = None
      /\ states' \in [Names -> StateRecords \union {None}] /\ states'[n] = None
      /\ holder' \in [Names -> Actors \union {None}]
      /\ told' \in [Names -> Kind \union {None}]
      /\ \A m \in Names \ {n} : /\ sites'[m] = sites[m] /\ states'[m] = states[m]
                               /\ holder'[m] = holder[m]
  BY <1>1 DEF IInv, TypeOK
<1>6. TypeOK'
  BY <1>1, <1>4, <1>5 DEF IInv, TypeOK
<1>7. \A b \in Actors : pc'[b][n] \notin CheckSteps \union RemoveSteps \union {"lock"}
  BY <1>3, <1>4 DEF Actors, CheckSteps, RemoveSteps
<1>8. LockInv'
  BY <1>4, <1>5, <1>7 DEF IInv, LockInv, Working
<1>9. TaskInv'
  BY <1>1, <1>4, <1>5, <1>7 DEF IInv, TaskInv, At, CheckSteps, JudgedSteps
<1>10. BotInv'
  BY <1>1, <1>2, <1>4, <1>5 DEF IInv, BotInv, At, SoloSteps, Actors
<1>11. WokenInv'
  <2>1. Idle("bot")'
    BY <1>2, <1>4 DEF Idle, At, Actors
  <2>2. \A m \in Names : ~At("bot", m, "woken")'
    BY <2>1 DEF Idle, At
  <2>3. \A m \in Names \ {n} : At("cycle", m, "woken")' => sites'[m] = None
    BY <1>4, <1>5 DEF IInv, WokenInv, At, Actors
  <2>. QED
    BY <1>5, <2>1, <2>2, <2>3 DEF WokenInv
<1>. QED
  BY <1>6, <1>8, <1>9, <1>10, <1>11 DEF IInv

-----------------------------------------------------------------------------
(* Starting and restarting the process.                                    *)

LEMMA InitInv == Init => IInv
<1>. SUFFICES ASSUME Init PROVE IInv
  OBVIOUS
<1>1. config \in [Names -> Sites \union {None}]
  BY ParametersAssumption DEF Init
<1>2. \A n \in Names : config[n] # None => Fresh(config[n].url) \in StateRecords
  <2>. SUFFICES ASSUME NEW n \in Names, config[n] # None
                PROVE  Fresh(config[n].url) \in StateRecords
    OBVIOUS
  <2>1. config[n].url \in Urls /\ 0 \in 0..CountCap
    BY <1>1, CountCapAssumption DEF Sites
  <2>. QED
    BY <2>1 DEF Fresh, StateRecords, Status
<1>3. states \in [Names -> StateRecords \union {None}]
  BY <1>2 DEF Init
<1>4. conn \in Stores
  BY DEF Init, Stores
<1>5. crashes \in 0..MaxCrashes
  BY ParametersAssumption DEF Init
<1>6. TypeOK
  BY <1>1, <1>3, <1>4, <1>5 DEF Init, TypeOK, Steps
<1>7. \A a \in Actors, n \in Names : pc[a][n] = "idle"
  BY DEF Init
<1>8. LockInv /\ TaskInv
  BY <1>7 DEF LockInv, TaskInv, Working, At, CheckSteps, RemoveSteps, JudgedSteps
<1>9. BotInv
  BY <1>7 DEF BotInv, At, SoloSteps, Actors, Init
<1>10. WokenInv
  BY <1>7 DEF WokenInv, At, Actors
<1>. QED
  BY <1>6, <1>8, <1>9, <1>10 DEF IInv

LEMMA RestartStep == ASSUME IInv, Restart PROVE IInv'
<1>1. /\ crashes < MaxCrashes /\ crashes' = crashes + 1
      /\ config' \in Configs
      /\ sites' = Registered(config', disk)
      /\ states' = [n \in Names |->
                      IF sites'[n] = None THEN None ELSE Loaded(disk, n, sites'[n].url)]
      /\ holder' = [n \in Names |-> None]
      /\ pc' = [a \in Actors |-> [n \in Names |-> "idle"]]
      /\ snap' = [a \in Actors |-> [n \in Names |-> None]]
      /\ res' = [a \in Actors |-> [n \in Names |-> None]]
      /\ conn' = disk /\ UNCHANGED <<disk, told>>
  BY DEF Restart
<1>2. config' \in [Names -> Sites \union {None}]
  BY <1>1, ParametersAssumption
<1>3. sites' \in [Names -> Sites \union {None}]
  BY <1>1, <1>2 DEF Registered, IInv, TypeOK, Stores
<1>4. \A n \in Names : sites'[n] # None => Loaded(disk, n, sites'[n].url) \in StateRecords
  <2>. SUFFICES ASSUME NEW n \in Names, sites'[n] # None
                PROVE  Loaded(disk, n, sites'[n].url) \in StateRecords
    OBVIOUS
  <2>1. sites'[n].url \in Urls
    BY <1>3 DEF Sites
  <2>. QED
    BY <2>1, LoadedType DEF IInv, TypeOK
<1>5. states' \in [Names -> StateRecords \union {None}]
  BY <1>1, <1>4
<1>6. crashes' \in 0..MaxCrashes
  BY <1>1, ParametersAssumption DEF IInv, TypeOK
<1>7. TypeOK'
  BY <1>1, <1>2, <1>3, <1>5, <1>6 DEF IInv, TypeOK, Steps
<1>8. \A a \in Actors, n \in Names : pc'[a][n] = "idle"
  BY <1>1
<1>9. LockInv' /\ TaskInv'
  BY <1>8 DEF LockInv, TaskInv, Working, At, CheckSteps, RemoveSteps, JudgedSteps
<1>10. BotInv'
  BY <1>1, <1>8 DEF BotInv, At, SoloSteps, Actors
<1>11. WokenInv'
  BY <1>8 DEF WokenInv, At, Actors
<1>. QED
  BY <1>7, <1>9, <1>10, <1>11 DEF IInv

LEMMA StutterStep == ASSUME IInv, UNCHANGED vars PROVE IInv'
  BY DEF vars, IInv, TypeOK, LockInv, TaskInv, BotInv, WokenInv, Working, At, Idle

-----------------------------------------------------------------------------

(* Every step of the program, with or without faults, preserves IInv.      *)
LEMMA NextInv == ASSUME IInv, [Next]_vars PROVE IInv'
<1>1. ASSUME NEW a \in Actors, RunCycle(a) PROVE IInv'
  BY <1>1, RunCycleStep
<1>2. ASSUME NEW a \in Actors, NEW n \in Names, CheckStep(a, n) PROVE IInv'
  BY <1>2, EnterStep, SemEnterStep, HttpDoneStep, CheckerRaisesStep, LoadDoneStep, SaveStep,
     CommitStep, DeliverStep, SendFailStep, AnswerLostStep, AckStep,
     CommitNotifiedStep DEF CheckStep
<1>3. ASSUME NEW a \in Actors, NEW n \in Names, StoreError(a, n) PROVE IInv'
  BY <1>3, StoreErrorStep
<1>4. ASSUME NEW n \in Names, BotRequest(n) PROVE IInv'
  BY <1>4, BotCheckStep, BotToggleStep, BotDeleteStep, BotAddStep DEF BotRequest
<1>5. ASSUME NEW n \in Names, BotStep(n) PROVE IInv'
  BY <1>5, AddCommitStep, AddLoadStep, ToggleCommitStep, DeleteSiteStep,
     DeleteStateStep, DeleteCommitStep DEF BotStep
<1>6. CASE Restart
  BY <1>6, RestartStep
<1>7. CASE UNCHANGED vars
  BY <1>7, StutterStep
<1>. QED
  BY <1>1, <1>2, <1>3, <1>4, <1>5, <1>6, <1>7 DEF Next

(* The inductive invariant holds always, over crashes, store errors and    *)
(* lost answers (service.py:93-165).                                       *)
THEOREM Inductive == Spec => []IInv
  BY InitInv, NextInv, PTL DEF Spec

(* Every variable always has a value of its kind: no task ever reads a     *)
(* state, a site or an outcome that is not there (service.py:129-165).     *)
THEOREM TypeCorrect == Spec => []TypeOK
<1>1. IInv => TypeOK
  BY DEF IInv
<1>. QED
  BY <1>1, Inductive, PTL

(* Two checks, or a check and a deletion, of one site never overlap        *)
(* (service.py:100, 137; README.md:65-66).                                 *)
THEOREM MutualExclusion == Spec => []OneTaskPerSite
<1>1. IInv => OneTaskPerSite
  BY DEF IInv, LockInv, OneTaskPerSite, Actors
<1>. QED
  BY <1>1, Inductive, PTL

(* A check past its lock works on a registered site at its present address *)
(* (service.py:96-102, 138).                                               *)
THEOREM NoCheckOfDeletedSite == Spec => []ChecksRegisteredSite
<1>1. IInv => ChecksRegisteredSite
  BY ParametersAssumption DEF IInv, TaskInv, ChecksRegisteredSite
<1>. QED
  BY <1>1, Inductive, PTL

(* A result is only ever applied to a state of the address that was        *)
(* checked (service.py:81-86, sqlite.py:142-149).                          *)
THEOREM NoStateOfAnotherAddress == Spec => []JudgedAtItsUrl
<1>1. IInv => JudgedAtItsUrl
  BY DEF IInv, TaskInv, JudgedAtItsUrl
<1>. QED
  BY <1>1, Inductive, PTL

-----------------------------------------------------------------------------
(* Locks.                                                                  *)

(* A task that ends hands its lock to the next in line (service.py:100).   *)
LEMMA LeaveLock ==
  ASSUME NEW a \in Actors, NEW n \in Names, TypeOK, LockIsNotLeft, Leave(a, n)
  PROVE  LockIsNotLeft'
<1>1. /\ \A b \in Actors, m \in Names :
            pc'[b][m] = IF b = a /\ m = n THEN "idle" ELSE pc[b][m]
      /\ \A m \in Names : holder'[m] = IF m = n THEN HandedOver(a, n) ELSE holder[m]
  BY DEF Leave, Goto, TypeOK
<1>2. ASSUME NEW m \in Names, m # n, holder'[m] # None
      PROVE  (Working(holder[m], m) \/ Waiting(holder[m], m))'
  BY <1>1, <1>2 DEF LockIsNotLeft, Working, Waiting, TypeOK
<1>3. ASSUME holder'[n] # None
      PROVE  (Working(holder[n], n) \/ Waiting(holder[n], n))'
  <2>1. CASE holder[n] # a
    BY <1>1, <1>3, <2>1 DEF HandedOver, LockIsNotLeft, Working, Waiting, TypeOK
  <2>2. CASE holder[n] = a
    <3>1. Waiting(Other(a), n) /\ holder'[n] = Other(a) /\ Other(a) \in Actors /\ Other(a) # a
      BY <1>1, <1>3, <2>2 DEF HandedOver, Other, Actors
    <3>. QED
      BY <1>1, <3>1 DEF Waiting
  <2>. QED
    BY <2>1, <2>2
<1>. QED
  BY <1>2, <1>3 DEF LockIsNotLeft

(* A task keeps its lock while it goes on, and whoever has none may go     *)
(* anywhere.                                                               *)
LEMMA KeepLock ==
  ASSUME NEW a \in Actors, NEW n \in Names, TypeOK, LockIsNotLeft,
         NEW step, Goto(a, n, step), UNCHANGED holder,
         holder[n] = a => step \in CheckSteps \union RemoveSteps \union {"lock", "rmlock"}
  PROVE  LockIsNotLeft'
<1>1. \A b \in Actors, m \in Names :
        pc'[b][m] = IF b = a /\ m = n THEN step ELSE pc[b][m]
  BY DEF Goto, TypeOK
<1>2. ASSUME NEW m \in Names, holder'[m] # None
      PROVE  (Working(holder[m], m) \/ Waiting(holder[m], m))'
  BY <1>1, <1>2 DEF LockIsNotLeft, Working, Waiting, TypeOK
<1>. QED
  BY <1>2 DEF LockIsNotLeft

(* Whoever asks for a lock waits for it or has it (asyncio.Lock.acquire).  *)
LEMMA AskLock ==
  ASSUME NEW a \in Actors, NEW n \in Names, TypeOK, LockIsNotLeft,
         NEW step \in {"lock", "rmlock"}, Goto(a, n, step),
         holder' = [holder EXCEPT ![n] = Granted(a, n)],
         ~Working(a, n)
  PROVE  LockIsNotLeft'
<1>1. /\ \A b \in Actors, m \in Names :
            pc'[b][m] = IF b = a /\ m = n THEN step ELSE pc[b][m]
      /\ \A m \in Names : holder'[m] = IF m = n THEN Granted(a, n) ELSE holder[m]
  BY DEF Goto, TypeOK
<1>2. ASSUME NEW m \in Names, holder'[m] # None
      PROVE  (Working(holder[m], m) \/ Waiting(holder[m], m))'
  <2>1. CASE m # n
    BY <1>1, <1>2, <2>1 DEF LockIsNotLeft, Working, Waiting, TypeOK
  <2>2. CASE m = n /\ holder[n] = None
    BY <1>1, <2>2 DEF Granted, Waiting
  <2>3. CASE m = n /\ holder[n] # None
    BY <1>1, <2>3 DEF Granted, LockIsNotLeft, Working, Waiting, TypeOK
  <2>. QED
    BY <2>1, <2>2, <2>3
<1>. QED
  BY <1>2 DEF LockIsNotLeft

(* However a task of the program goes on or ends, no lock stays behind.    *)
LEMMA NextLock == ASSUME IInv, LockIsNotLeft, [Next]_vars PROVE LockIsNotLeft'
<1>. TypeOK
  BY DEF IInv
<1>. \A n \in Names : holder[n] # None =>
        pc[holder[n]][n] \in CheckSteps \union RemoveSteps \union {"lock", "rmlock"}
  BY DEF LockIsNotLeft, Working, Waiting
<1>1. ASSUME NEW a \in Actors, RunCycle(a) PROVE LockIsNotLeft'
  <2>1. /\ \A n \in Names : At(a, n, "idle")
        /\ \A b \in Actors, n \in Names :
              pc'[b][n] = IF b = a THEN IF n \in Due THEN "lock" ELSE "idle" ELSE pc[b][n]
        /\ \A n \in Names : holder'[n] = IF n \in Due THEN Granted(a, n) ELSE holder[n]
    BY <1>1 DEF RunCycle, Idle, TypeOK
  <2>2. \A n \in Names : holder[n] # a
    BY <2>1, ParametersAssumption DEF At, Actors, CheckSteps, RemoveSteps
  <2>3. ASSUME NEW n \in Names, holder'[n] # None
        PROVE  (Working(holder[n], n) \/ Waiting(holder[n], n))'
    <3>1. CASE holder[n] # None
      BY <2>1, <2>2, <3>1 DEF Granted, LockIsNotLeft, Working, Waiting, TypeOK
    <3>2. CASE holder[n] = None
      BY <2>1, <2>3, <3>2 DEF Granted, Waiting
    <3>. QED
      BY <3>1, <3>2
  <2>. QED
    BY <2>3 DEF LockIsNotLeft
<1>2. ASSUME NEW a \in Actors, NEW n \in Names, CheckStep(a, n) \/ StoreError(a, n)
      PROVE  LockIsNotLeft'
  <2>1. CASE Leave(a, n)
    BY <2>1, LeaveLock
  <2>2. CASE ~Leave(a, n)
    <3>1. PICK step \in CheckSteps : Goto(a, n, step)
      BY <1>2, <2>2 DEF CheckStep, StoreError, Enter, SemEnter, HttpDone, CheckerRaises,
         LoadDone, Save, Commit, Deliver, SendFail, AnswerLost, Ack, CommitNotified, CheckSteps
    <3>2. UNCHANGED holder
      BY <1>2, <2>2 DEF CheckStep, StoreError, Enter, SemEnter, HttpDone, CheckerRaises,
         LoadDone, Save, Commit, Deliver, SendFail, AnswerLost, Ack, CommitNotified
    <3>. QED
      BY <3>1, <3>2, KeepLock
  <2>. QED
    BY <2>1, <2>2
<1>3. ASSUME NEW n \in Names, BotCheck(n) \/ BotDelete(n) \/ AddLoad(n) PROVE LockIsNotLeft'
  <2>1. /\ "bot" \in Actors
        /\ \E step \in {"lock", "rmlock"} : Goto("bot", n, step)
        /\ holder' = [holder EXCEPT ![n] = Granted("bot", n)]
        /\ pc["bot"][n] \in {"idle", "addload"}
    BY <1>3 DEF BotCheck, BotDelete, AddLoad, BotReady, Idle, At, Actors
  <2>. QED
    BY <2>1, AskLock DEF Working, CheckSteps, RemoveSteps
<1>4. ASSUME NEW n \in Names,
             \/ \E u \in Urls : BotAdd(n, u)
             \/ BotToggle(n) \/ AddCommit(n) \/ ToggleCommit(n)
      PROVE  LockIsNotLeft'
  <2>1. /\ "bot" \in Actors /\ UNCHANGED holder
        /\ \E step \in {"insc", "togc", "addload", "idle"} : Goto("bot", n, step)
        /\ pc["bot"][n] \in {"idle", "insc", "togc"}
    BY <1>4 DEF BotAdd, BotToggle, AddCommit, ToggleCommit, BotReady, Idle, At, Actors
  <2>2. holder[n] # "bot"
    BY <2>1, ParametersAssumption DEF CheckSteps, RemoveSteps
  <2>. QED
    BY <2>1, <2>2, KeepLock
<1>5. ASSUME NEW n \in Names, DeleteSite(n) \/ DeleteState(n) PROVE LockIsNotLeft'
  <2>1. CASE Leave("bot", n)
    BY <2>1, LeaveLock DEF Actors
  <2>2. CASE ~Leave("bot", n)
    <3>1. /\ "bot" \in Actors /\ UNCHANGED holder
          /\ \E step \in RemoveSteps : Goto("bot", n, step)
      BY <1>5, <2>2 DEF DeleteSite, DeleteState, Actors, RemoveSteps
    <3>. QED
      BY <3>1, KeepLock
  <2>. QED
    BY <2>1, <2>2
<1>6. ASSUME NEW n \in Names, DeleteCommit(n) PROVE LockIsNotLeft'
  <2>1. /\ holder' = [holder EXCEPT ![n] = None]
        /\ \A b \in Actors, m \in Names \ {n} : pc'[b][m] = pc[b][m]
    BY <1>6 DEF DeleteCommit, TypeOK
  <2>2. ASSUME NEW m \in Names, holder'[m] # None
        PROVE  (Working(holder[m], m) \/ Waiting(holder[m], m))'
    BY <2>1, <2>2 DEF LockIsNotLeft, Working, Waiting, TypeOK
  <2>. QED
    BY <2>2 DEF LockIsNotLeft
<1>7. CASE Restart
  BY <1>7 DEF Restart, LockIsNotLeft
<1>8. CASE UNCHANGED vars
  BY <1>8 DEF vars, LockIsNotLeft, Working, Waiting
<1>. QED
  BY <1>1, <1>2, <1>3, <1>4, <1>5, <1>6, <1>7, <1>8 DEF Next, BotRequest, BotStep

(* No lock is ever left behind: whoever owns one still works on the site   *)
(* or has just been given it, whatever fails (service.py:98-101, 137).     *)
THEOREM NoLockLeftBehind == Spec => []LockIsNotLeft
<1>1. Init => LockIsNotLeft
  BY DEF Init, LockIsNotLeft
<1>. QED
  BY <1>1, NextLock, Inductive, PTL DEF Spec

-----------------------------------------------------------------------------
(* Nobody is stuck.                                                        *)

\* The requests of the bot are the bot's, and nobody waits for a free lock.
WaitInv ==
  \A n \in Names :
    /\ pc["cycle"][n] \notin SoloSteps
    /\ \A a \in Actors : Waiting(a, n) => holder[n] # None

LEMMA ActorsAre ==
  /\ "bot" \in Actors /\ "cycle" \in Actors /\ None \notin Actors
  /\ \A a \in Actors : /\ Other(a) \in Actors /\ Other(a) # a
                       /\ \A b \in Actors : b = a \/ b = Other(a)
BY ParametersAssumption DEF Actors, Other

(* A task that ends leaves the lock to the one who waits for it.           *)
LEMMA LeaveWait ==
  ASSUME NEW a \in Actors, NEW n \in Names, TypeOK, WaitInv, Leave(a, n)
  PROVE  WaitInv'
<1>1. /\ \A b \in Actors, m \in Names :
            pc'[b][m] = IF b = a /\ m = n THEN "idle" ELSE pc[b][m]
      /\ \A m \in Names : holder'[m] = IF m = n THEN HandedOver(a, n) ELSE holder[m]
  BY DEF Leave, Goto, TypeOK
<1>2. ASSUME NEW m \in Names, NEW b \in Actors, Waiting(b, m)' PROVE holder'[m] # None
  <2>1. CASE m # n
    BY <1>1, <1>2, <2>1 DEF WaitInv, Waiting
  <2>2. CASE m = n
    <3>1. b = Other(a) /\ Waiting(b, n)
      BY <1>1, <1>2, <2>2, ActorsAre DEF Waiting
    <3>2. holder[n] # None
      BY <3>1 DEF WaitInv
    <3>. QED
      BY <1>1, <2>2, <3>1, <3>2, ActorsAre DEF HandedOver
  <2>. QED
    BY <2>1, <2>2
<1>3. ASSUME NEW m \in Names PROVE pc'["cycle"][m] \notin SoloSteps
  BY <1>1, ActorsAre DEF WaitInv, SoloSteps
<1>. QED
  BY <1>2, <1>3 DEF WaitInv

(* A task that goes on without the lock changing hands.                    *)
LEMMA MoveWait ==
  ASSUME NEW a \in Actors, NEW n \in Names, TypeOK, WaitInv,
         NEW step, Goto(a, n, step), UNCHANGED holder, step \notin {"lock", "rmlock"},
         a = "cycle" => step \notin SoloSteps
  PROVE  WaitInv'
<1>1. \A b \in Actors, m \in Names :
        pc'[b][m] = IF b = a /\ m = n THEN step ELSE pc[b][m]
  BY DEF Goto, TypeOK
<1>. QED
  BY <1>1, ActorsAre DEF WaitInv, Waiting

(* The bot asks for a lock: it gets it or somebody else has it.            *)
LEMMA AskWait ==
  ASSUME NEW n \in Names, TypeOK, WaitInv,
         NEW step, Goto("bot", n, step), holder' = [holder EXCEPT ![n] = Granted("bot", n)]
  PROVE  WaitInv'
<1>1. /\ \A b \in Actors, m \in Names :
            pc'[b][m] = IF b = "bot" /\ m = n THEN step ELSE pc[b][m]
      /\ \A m \in Names : holder'[m] = IF m = n THEN Granted("bot", n) ELSE holder[m]
  BY ActorsAre DEF Goto, TypeOK
<1>2. Granted("bot", n) # None
  BY ActorsAre DEF Granted
<1>. QED
  BY <1>1, <1>2, ActorsAre DEF WaitInv, Waiting

LEMMA NextWait == ASSUME IInv, WaitInv, [Next]_vars PROVE WaitInv'
<1>. TypeOK
  BY DEF IInv
<1>1. ASSUME NEW a \in Actors, RunCycle(a) PROVE WaitInv'
  <2>1. /\ \A b \in Actors, n \in Names :
              pc'[b][n] = IF b = a THEN IF n \in Due THEN "lock" ELSE "idle" ELSE pc[b][n]
        /\ \A n \in Names : holder'[n] = IF n \in Due THEN Granted(a, n) ELSE holder[n]
    BY <1>1 DEF RunCycle, TypeOK
  <2>2. \A n \in Names : Granted(a, n) # None
    BY ActorsAre DEF Granted
  <2>3. {"lock", "idle"} \cap SoloSteps = {}
    BY DEF SoloSteps
  <2>4. ASSUME NEW n \in Names, NEW b \in Actors, Waiting(b, n)' PROVE holder'[n] # None
    BY <2>1, <2>2, <2>4 DEF WaitInv, Waiting
  <2>5. ASSUME NEW n \in Names PROVE pc'["cycle"][n] \notin SoloSteps
    BY <2>1, <2>3, ActorsAre DEF WaitInv
  <2>. QED
    BY <2>4, <2>5 DEF WaitInv
<1>2. ASSUME NEW a \in Actors, NEW n \in Names, CheckStep(a, n) \/ StoreError(a, n)
      PROVE  WaitInv'
  <2>1. CASE Leave(a, n)
    BY <2>1, LeaveWait
  <2>2. CASE ~Leave(a, n)
    <3>1. PICK step \in CheckSteps : Goto(a, n, step)
      BY <1>2, <2>2 DEF CheckStep, StoreError, Enter, SemEnter, HttpDone, CheckerRaises,
         LoadDone, Save, Commit, Deliver, SendFail, AnswerLost, Ack, CommitNotified, CheckSteps
    <3>2. UNCHANGED holder
      BY <1>2, <2>2 DEF CheckStep, StoreError, Enter, SemEnter, HttpDone, CheckerRaises,
         LoadDone, Save, Commit, Deliver, SendFail, AnswerLost, Ack, CommitNotified
    <3>3. step \notin {"lock", "rmlock"} /\ step \notin SoloSteps
      BY <3>1 DEF CheckSteps, SoloSteps
    <3>. QED
      BY <3>1, <3>2, <3>3, MoveWait
  <2>. QED
    BY <2>1, <2>2
<1>3. ASSUME NEW n \in Names, BotCheck(n) \/ BotDelete(n) \/ AddLoad(n) PROVE WaitInv'
  BY <1>3, AskWait DEF BotCheck, BotDelete, AddLoad
<1>4. ASSUME NEW n \in Names,
             \/ \E u \in Urls : BotAdd(n, u)
             \/ BotToggle(n) \/ AddCommit(n) \/ ToggleCommit(n)
      PROVE  WaitInv'
  <2>1. /\ UNCHANGED holder
        /\ \E step \in {"insc", "togc", "addload", "idle"} : Goto("bot", n, step)
    BY <1>4 DEF BotAdd, BotToggle, AddCommit, ToggleCommit
  <2>. QED
    BY <2>1, MoveWait, ActorsAre
<1>5. ASSUME NEW n \in Names, DeleteSite(n) \/ DeleteState(n) PROVE WaitInv'
  <2>1. CASE Leave("bot", n)
    BY <2>1, LeaveWait, ActorsAre
  <2>2. CASE ~Leave("bot", n)
    <3>1. UNCHANGED holder /\ \E step \in {"del2", "delc"} : Goto("bot", n, step)
      BY <1>5, <2>2 DEF DeleteSite, DeleteState
    <3>. QED
      BY <3>1, MoveWait, ActorsAre
  <2>. QED
    BY <2>1, <2>2
<1>6. ASSUME NEW n \in Names, DeleteCommit(n) PROVE WaitInv'
  <2>1. /\ \A m \in Names : holder'[m] = IF m = n THEN None ELSE holder[m]
        /\ \A b \in Actors, m \in Names \ {n} : pc'[b][m] = pc[b][m]
        /\ pc'["bot"][n] = "idle"
        /\ pc'["cycle"][n] = IF pc["cycle"][n] = "lock" THEN "woken" ELSE pc["cycle"][n]
    BY <1>6, ActorsAre DEF DeleteCommit, TypeOK
  <2>2. pc["cycle"][n] \notin SoloSteps
    BY DEF WaitInv
  <2>3. \A b \in Actors : ~Waiting(b, n)'
    BY <2>1, <2>2 DEF Waiting, Actors, SoloSteps
  <2>4. ASSUME NEW m \in Names, NEW b \in Actors, Waiting(b, m)' PROVE holder'[m] # None
    BY <2>1, <2>3, <2>4 DEF WaitInv, Waiting
  <2>5. ASSUME NEW m \in Names PROVE pc'["cycle"][m] \notin SoloSteps
    BY <2>1, <2>2, ActorsAre DEF WaitInv, SoloSteps
  <2>. QED
    BY <2>4, <2>5 DEF WaitInv
<1>7. CASE Restart
  <2>1. \A b \in Actors, m \in Names : pc'[b][m] = "idle"
    BY <1>7 DEF Restart
  <2>. QED
    BY <2>1, ActorsAre DEF WaitInv, Waiting, SoloSteps
<1>8. CASE UNCHANGED vars
  BY <1>8 DEF vars, WaitInv, Waiting
<1>. QED
  BY <1>1, <1>2, <1>3, <1>4, <1>5, <1>6, <1>7, <1>8 DEF Next, BotRequest, BotStep

LEMMA InvNobodyIsStuck ==
  ASSUME IInv, LockIsNotLeft, WaitInv
  PROVE  NobodyIsStuck
<1>. SUFFICES ASSUME NEW a \in Actors, NEW n \in Names, ~At(a, n, "idle"), Requesting = {}
              PROVE  CanStep(a, n) \/ CanStep(Other(a), n)
  BY DEF NobodyIsStuck
<1>0. pc[a][n] \in Steps /\ pc["cycle"][n] \notin SoloSteps /\ a \in {"cycle", "bot"}
  BY ActorsAre DEF IInv, TypeOK, WaitInv, Actors
<1>1. SlotFree(MaxConcurrency)
  BY FS_EmptySet, ParametersAssumption DEF SlotFree
<1>2. ASSUME NEW b \in Actors, Working(b, n) PROVE CanStep(b, n) \/ CanStep(Other(b), n)
  <2>1. pc["cycle"][n] \notin SoloSteps
    BY <1>0
  <2>2. CASE pc[b][n] \in CheckSteps
    BY <2>2, <1>1 DEF CheckSteps, CanStep, At, Other, Actors
  <2>3. CASE pc[b][n] \in RemoveSteps
    BY <2>1, <2>3 DEF RemoveSteps, SoloSteps, CanStep, Actors
  <2>. QED
    BY <1>2, <2>2, <2>3 DEF Working
<1>3. ASSUME NEW b \in Actors, Waiting(b, n), holder[n] = b PROVE CanStep(b, n)
  BY <1>0, <1>3 DEF Waiting, CanStep, At, Owns, MayDelete, SoloSteps, Actors
<1>4. CASE Waiting(a, n)
  <2>1. holder[n] \in Actors
    BY <1>4 DEF WaitInv, IInv, TypeOK
  <2>2. Working(holder[n], n) \/ Waiting(holder[n], n)
    BY <2>1, ActorsAre DEF LockIsNotLeft
  <2>3. CanStep(holder[n], n) \/ CanStep(Other(holder[n]), n)
    BY <2>1, <2>2, <1>2, <1>3
  <2>4. holder[n] = a \/ holder[n] = Other(a)
    BY <2>1, ActorsAre
  <2>5. Other(Other(a)) = a
    BY DEF Other, Actors
  <2>. QED
    BY <2>3, <2>4, <2>5
<1>5. CASE Working(a, n)
  BY <1>2, <1>5
<1>6. CASE ~Waiting(a, n) /\ ~Working(a, n)
  BY <1>0, <1>6 DEF Steps, At, CanStep, Waiting, Working, CheckSteps, RemoveSteps, StoreSteps,
     SoloSteps
<1>. QED
  BY <1>4, <1>5, <1>6

(* Whatever waits for a lock or for the semaphore waits for something that *)
(* moves, for any number of sites and any limit (service.py:137-141).      *)
THEOREM WaitingEnds == Spec => []NobodyIsStuck
<1>1. Init => WaitInv
  BY ActorsAre DEF Init, WaitInv, Waiting, SoloSteps
<1>2. Spec => []WaitInv
  BY <1>1, NextWait, Inductive, PTL DEF Spec
<1>. QED
  BY <1>2, InvNobodyIsStuck, NoLockLeftBehind, Inductive, PTL

-----------------------------------------------------------------------------
(* Paused sites.                                                           *)

\* The bot's task knows whether its site is paused, and alerts only if it is not.
SnapInv ==
  \A n \in Names :
    /\ pc["bot"][n] \in CheckSteps \union {"lock", "addload"} =>
          snap["bot"][n].enabled = sites[n].enabled
    /\ pc["bot"][n] \in {"send", "sent"} => snap["bot"][n].enabled

(* A step of the scheduled cycle is none of the bot's.                     *)
LEMMA CycleKeepsSnap ==
  ASSUME SnapInv, UNCHANGED sites, pc'["bot"] = pc["bot"], snap'["bot"] = snap["bot"]
  PROVE  SnapInv'
BY DEF SnapInv

(* A task of the bot that ends knows nothing.                              *)
LEMMA BotIdleSnap ==
  ASSUME NEW n \in Names, SnapInv, pc'["bot"][n] \notin CheckSteps \union {"lock", "addload"},
         \A m \in Names \ {n} : pc'["bot"][m] = pc["bot"][m] /\ snap'["bot"][m] = snap["bot"][m],
         \A m \in Names \ {n} : sites'[m] = sites[m]
  PROVE  SnapInv'
<1>1. {"send", "sent"} \subseteq CheckSteps
  BY DEF CheckSteps
<1>. QED
  BY <1>1 DEF SnapInv

LEMMA SnapCheckStep ==
  ASSUME IInv, SnapInv, NEW a \in Actors, NEW n \in Names, CheckStep(a, n) \/ StoreError(a, n)
  PROVE  SnapInv'
<1>. TypeOK /\ UNCHANGED sites
  BY DEF IInv, CheckStep, StoreError, Enter, SemEnter, HttpDone, CheckerRaises, LoadDone, Save,
     Commit, Deliver, SendFail, AnswerLost, Ack, CommitNotified
<1>1. CASE Leave(a, n)
  <2>1. /\ \A b \in Actors, m \in Names :
              /\ pc'[b][m] = IF b = a /\ m = n THEN "idle" ELSE pc[b][m]
              /\ snap'[b][m] = IF b = a /\ m = n THEN None ELSE snap[b][m]
    BY <1>1 DEF Leave, Goto, TypeOK
  <2>. QED
    BY <2>1, ActorsAre DEF SnapInv, CheckSteps
<1>2. CASE ~Leave(a, n)
  <2>1. PICK step \in CheckSteps : Goto(a, n, step)
    BY <1>2 DEF CheckStep, StoreError, Enter, SemEnter, HttpDone, CheckerRaises, LoadDone, Save,
       Commit, Deliver, SendFail, AnswerLost, Ack, CommitNotified, CheckSteps
  <2>2. UNCHANGED snap
    BY <1>2 DEF CheckStep, StoreError, Enter, SemEnter, HttpDone, CheckerRaises, LoadDone, Save,
       Commit, Deliver, SendFail, AnswerLost, Ack, CommitNotified
  <2>3. \A b \in Actors, m \in Names : pc'[b][m] = IF b = a /\ m = n THEN step ELSE pc[b][m]
    BY <2>1 DEF Goto, TypeOK
  <2>4. CASE a = "cycle"
    <3>1. \A m \in Names : pc'["bot"][m] = pc["bot"][m]
      BY <2>3, <2>4, ActorsAre
    <3>. QED
      BY <2>2, <3>1 DEF SnapInv
  <2>5. CASE a = "bot"
    <3>1. ~At("bot", n, "woken")
      BY DEF IInv, WokenInv
    <3>2. pc["bot"][n] \in CheckSteps \union {"lock"}
      BY <1>2, <2>5, <3>1 DEF CheckStep, StoreError, Enter, SemEnter, HttpDone, CheckerRaises,
         LoadDone, Save, Commit, Deliver, SendFail, AnswerLost, Ack, CommitNotified, CheckSteps,
         At
    <3>3. snap["bot"][n].enabled = sites[n].enabled
      BY <3>2 DEF SnapInv
    <3>4. step \in {"send", "sent"} => snap["bot"][n].enabled
      <4>1. CASE Commit("bot", n)
        <5>1. Alert("bot", n) # None
          BY <4>1, <1>2, <2>5 DEF Commit
        <5>. QED
          BY <5>1 DEF Alert
      <4>2. CASE Deliver("bot", n) \/ AnswerLost("bot", n)
        BY <4>2 DEF Deliver, AnswerLost, At, SnapInv
      <4>3. CASE ~Commit("bot", n) /\ ~Deliver("bot", n) /\ ~AnswerLost("bot", n)
        <5>1. pc'["bot"][n] \notin {"send", "sent"}
          <6>1. pc'["bot"][n] \in {"sem", "http", "load", "save", "commit", "save2", "commit2"}
            BY <4>3, <1>2, <2>5, <2>3, ActorsAre DEF CheckStep, StoreError, Enter, SemEnter,
               HttpDone, CheckerRaises, LoadDone, Save, SendFail, Ack, CommitNotified, Goto,
               TypeOK
          <6>. QED
            BY <6>1
        <5>. QED
          BY <5>1, <2>3, <2>5, ActorsAre
      <4>. QED
        BY <4>1, <4>2, <4>3
    <3>5. \A m \in Names : pc'["bot"][m] = IF m = n THEN step ELSE pc["bot"][m]
      BY <2>3, <2>5, ActorsAre
    <3>. QED
      BY <2>2, <3>3, <3>4, <3>5 DEF SnapInv
  <2>. QED
    BY <2>4, <2>5 DEF Actors
<1>. QED
  BY <1>1, <1>2

LEMMA NextSnap == ASSUME IInv, SnapInv, [Next]_vars PROVE SnapInv'
<1>. TypeOK /\ BotInv
  BY DEF IInv
<1>1. ASSUME NEW a \in Actors, RunCycle(a) PROVE SnapInv'
  <2>1. /\ UNCHANGED sites
        /\ \A b \in Actors, n \in Names :
              /\ pc'[b][n] = IF b = a THEN IF n \in Due THEN "lock" ELSE "idle" ELSE pc[b][n]
              /\ snap'[b][n] = IF b = a THEN IF n \in Due THEN sites[n] ELSE None ELSE snap[b][n]
    BY <1>1 DEF RunCycle, TypeOK
  <2>. QED
    BY <2>1, ActorsAre DEF SnapInv, CheckSteps
<1>2. ASSUME NEW a \in Actors, NEW n \in Names, CheckStep(a, n) \/ StoreError(a, n)
      PROVE  SnapInv'
  BY <1>2, SnapCheckStep
<1>3. ASSUME NEW n \in Names, BotCheck(n) PROVE SnapInv'
  <2>1. /\ UNCHANGED sites
        /\ \A m \in Names : /\ pc'["bot"][m] = IF m = n THEN "lock" ELSE pc["bot"][m]
                            /\ snap'["bot"][m] = IF m = n THEN sites[n] ELSE snap["bot"][m]
    BY <1>3, ActorsAre DEF BotCheck, Goto, TypeOK
  <2>. QED
    BY <2>1 DEF SnapInv, CheckSteps
<1>4. ASSUME NEW n \in Names, AddCommit(n) \/ AddLoad(n) PROVE SnapInv'
  <2>1. CASE AddCommit(n)
    <3>1. /\ \A m \in Names : sites'[m] = IF m = n THEN snap["bot"][n] ELSE sites[m]
          /\ \A m \in Names : pc'["bot"][m] = IF m = n THEN "addload" ELSE pc["bot"][m]
          /\ UNCHANGED snap
      BY <2>1, ActorsAre DEF AddCommit, Goto, TypeOK
    <3>. QED
      BY <3>1 DEF SnapInv
  <2>2. CASE AddLoad(n)
    <3>1. /\ \A m \in Names : pc'["bot"][m] = IF m = n THEN "lock" ELSE pc["bot"][m]
          /\ UNCHANGED <<snap, sites>> /\ pc["bot"][n] = "addload"
      BY <2>2, ActorsAre DEF AddLoad, Goto, TypeOK, At
    <3>. QED
      BY <3>1 DEF SnapInv
  <2>. QED
    BY <1>4, <2>1, <2>2
<1>5. ASSUME NEW n \in Names,
             \/ \E u \in Urls : BotAdd(n, u)
             \/ BotToggle(n) \/ BotDelete(n) \/ ToggleCommit(n)
             \/ DeleteSite(n) \/ DeleteState(n) \/ DeleteCommit(n)
      PROVE  SnapInv'
  <2>1. pc'["bot"][n] \in {"insc", "togc", "rmlock", "idle", "del2", "delc"}
    BY <1>5, ActorsAre DEF BotAdd, BotToggle, BotDelete, ToggleCommit, DeleteSite, DeleteState,
       DeleteCommit, Goto, Leave, TypeOK
  <2>2. \A m \in Names \ {n} : pc'["bot"][m] = pc["bot"][m] /\ snap'["bot"][m] = snap["bot"][m]
    BY <1>5, ActorsAre DEF BotAdd, BotToggle, BotDelete, ToggleCommit, DeleteSite, DeleteState,
       DeleteCommit, Goto, Leave, TypeOK
  <2>3. \A m \in Names \ {n} : sites'[m] = sites[m]
    BY <1>5 DEF BotAdd, BotToggle, BotDelete, ToggleCommit, DeleteSite, DeleteState,
       DeleteCommit, TypeOK
  <2>4. pc'["bot"][n] \notin CheckSteps \union {"lock", "addload"}
    BY <2>1 DEF CheckSteps
  <2>. QED
    BY <2>2, <2>3, <2>4, BotIdleSnap
<1>6. CASE Restart
  <2>1. \A m \in Names : pc'["bot"][m] = "idle"
    BY <1>6, ActorsAre DEF Restart
  <2>. QED
    BY <2>1 DEF SnapInv, CheckSteps
<1>7. CASE UNCHANGED vars
  BY <1>7 DEF vars, SnapInv
<1>. QED
  BY <1>1, <1>2, <1>3, <1>4, <1>5, <1>6, <1>7 DEF Next, BotRequest, BotStep

(* A paused site that the user checks by hand never alerts, whatever else  *)
(* runs (service.py:132).                                                  *)
THEOREM OnDemandIsSilent == Spec => []PausedOnDemandIsSilent
<1>1. Init => SnapInv
  BY ActorsAre DEF Init, SnapInv, CheckSteps
<1>2. IInv /\ SnapInv => PausedOnDemandIsSilent
  <2>. SUFFICES ASSUME IInv, SnapInv, NEW n \in Names, At("bot", n, "send")
                PROVE  sites[n] # None /\ sites[n].enabled
    BY DEF PausedOnDemandIsSilent
  <2>1. sites[n] \in Sites
    BY ActorsAre DEF IInv, TaskInv, At, CheckSteps
  <2>2. sites[n].enabled
    BY DEF SnapInv, At, CheckSteps
  <2>. QED
    BY <2>1, <2>2, ParametersAssumption
<1>3. Spec => []SnapInv
  BY <1>1, NextSnap, Inductive, PTL DEF Spec
<1>. QED
  BY <1>2, <1>3, Inductive, PTL
=============================================================================
