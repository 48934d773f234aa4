------------------------- MODULE UpdatePollingProofs -------------------------
(* Proofs about UpdatePolling: for any number of updates, batch size and   *)
(* number of starts.                                                       *)
EXTENDS UpdatePolling, Integers, FiniteSetTheorems, SequenceTheorems, TLAPS

-----------------------------------------------------------------------------
(* Batches are intervals.                                                  *)

LEMMA Ends ==
    ASSUME NEW a \in Nat, NEW b \in Nat, a <= b
    PROVE  First(a..b) = a /\ Newest(a..b) = b /\ Rest(a..b) = a + 1..b
<1>1. First(a..b) = a
    <2>1. a \in a..b /\ \A v \in a..b : a <= v
        OBVIOUS
    <2>2. \A u \in a..b : (\A v \in a..b : u <= v) => u = a
        OBVIOUS
    <2> QED
        BY <2>1, <2>2 DEF First
<1>2. Newest(a..b) = b
    <2>1. b \in a..b /\ \A v \in a..b : v <= b
        OBVIOUS
    <2>2. \A u \in a..b : (\A v \in a..b : v <= u) => u = b
        OBVIOUS
    <2> QED
        BY <2>1, <2>2 DEF Newest
<1>3. Rest(a..b) = a + 1..b
    BY <1>1 DEF Rest
<1> QED
    BY <1>1, <1>2, <1>3

LEMMA PendingIsInterval ==
    ASSUME sent \in 0..MaxUpdates, NEW c \in 0..sent
    PROVE  Pending(c) = c + 1..sent
BY PollingAssumption DEF Pending, Updates

LEMMA OldestIsInterval ==
    ASSUME sent \in 0..MaxUpdates, NEW c \in 0..sent
    PROVE  \E b \in c..sent : Oldest(Pending(c)) = c + 1..b
<1> DEFINE b == IF sent - c <= BatchLimit THEN sent ELSE c + BatchLimit
<1> USE PollingAssumption
<1>1. \A u \in c + 1..sent : Cardinality({v \in c + 1..sent : v < u}) = u - (c + 1)
    <2> TAKE u \in c + 1..sent
    <2>1. {v \in c + 1..sent : v < u} = c + 1..u - 1
        OBVIOUS
    <2>2. Cardinality(c + 1..u - 1) = IF c + 1 > u - 1 THEN 0 ELSE (u - 1) - (c + 1) + 1
        BY FS_Interval
    <2>3. Cardinality(c + 1..u - 1) = u - (c + 1)
        BY <2>2
    <2> QED
        BY <2>1, <2>3, Zenon
<1>2. Oldest(Pending(c)) = {u \in c + 1..sent : u - (c + 1) < BatchLimit}
    BY <1>1, PendingIsInterval DEF Oldest
<1>3. b \in c..sent /\ {u \in c + 1..sent : u - (c + 1) < BatchLimit} = c + 1..b
    OBVIOUS
<1> QED
    BY <1>2, <1>3

-----------------------------------------------------------------------------
(* The inductive invariant.                                                *)

\* What is under way from Telegram: the last update, or the oldest ones.
AnswerInv ==
    /\ confirmed <= sent
    /\ at \notin {"skipping", "polling"} => answer = {}
    /\ at = "skipping" => answer = {} \/ \E s \in confirmed + 1..sent : answer = {s}
    /\ at = "polling" => \E b \in confirmed..sent : answer = confirmed + 1..b

\* What the bot has received ends below its offset, which no poll forgets.
BatchInv ==
    /\ at \notin {"loop", "handle"} => batch = {}
    /\ at = "handle" => batch # {}
    /\ at \in {"off", "commands", "skip", "skipping"} => offset = None
    /\ offset # None => offset \in 1..sent + 1
    /\ at = "polling" /\ offset # None => offset <= confirmed + 1
    /\ batch # {} => offset # None /\ \E a \in 1..offset : batch = a..(offset - 1)

\* Below the offset nothing is forgotten, unless the bot is about to stop.
HandledInv ==
    offset # None /\ ~stop => 1..(offset - 1) \subseteq finished \union dropped \union batch

\* A run has only handled what is below its offset and before its batch.
LogInv ==
    \A i \in 1..Len(log) :
        /\ log[i].run <= starts /\ log[i].update <= sent
        /\ at # "off" /\ log[i].run = starts =>
              /\ offset # None /\ log[i].update < offset
              /\ at = "loop" => \A u \in batch : log[i].update < u
              /\ at = "handle" => \A u \in batch : log[i].update <= u

\* What is from before this run.
Past == old \union {log[i].update : i \in {j \in 1..Len(log) : log[j].run # starts}}

PastInv ==
    /\ \A u \in old : u <= sent
    /\ at = "skipping" => \A u \in Past : u <= confirmed \/ \E v \in answer : u <= v
    /\ skipped /\ at # "off" =>
          /\ at \notin {"commands", "skip", "skipping"}
          /\ \A u \in Past : u <= confirmed \/ (offset # None /\ u < offset)
          /\ \A u \in batch : u \notin Past

PollInv ==
    /\ TypeOK /\ AnswerInv /\ BatchInv /\ HandledInv /\ LogInv /\ PastInv
    /\ ConfirmedWasHandled /\ InOrderOncePerRun /\ FreshAfterSkip

LEMMA InitPoll == Init => PollInv
<1> SUFFICES ASSUME Init PROVE PollInv
    OBVIOUS
<1> USE PollingAssumption DEF Init
<1>1. TypeOK
    <2>1. log \in Seq([run : Nat, update : Updates])
        BY EmptySeq
    <2>2. stop \in BOOLEAN /\ skipped \in BOOLEAN
        BY Zenon
    <2>3. /\ sent \in 0..MaxUpdates /\ confirmed \in 0..MaxUpdates /\ starts \in 0..MaxStarts
          /\ at \in Phases
        BY DEF Phases
    <2> QED
        BY <2>1, <2>2, <2>3, Zenon DEF TypeOK
<1>2. AnswerInv /\ BatchInv /\ HandledInv /\ LogInv /\ PastInv
    BY DEF AnswerInv, BatchInv, HandledInv, LogInv, PastInv
<1>3. ConfirmedWasHandled /\ InOrderOncePerRun /\ FreshAfterSkip
    BY DEF ConfirmedWasHandled, InOrderOncePerRun, FreshAfterSkip
<1> QED
    BY <1>1, <1>2, <1>3 DEF PollInv

(* The types as the provers need them.                                     *)
LEMMA PollTypes ==
    ASSUME PollInv
    PROVE  /\ sent \in 0..MaxUpdates /\ confirmed \in 0..sent /\ starts \in 0..MaxStarts
           /\ offset \in Nat \union {None} /\ None \notin Nat
           /\ answer \subseteq Updates /\ batch \subseteq Updates
           /\ dropped \subseteq Updates /\ old \subseteq Updates /\ finished \subseteq Updates
           /\ log \in Seq([run : Nat, update : Updates])
           /\ Len(log) \in Nat /\ DOMAIN log = 1..Len(log)
           /\ \A i \in 1..Len(log) : log[i].run \in Nat /\ log[i].update \in Updates
           /\ \A u \in Updates : u \in Nat
<1>1. \A i \in 1..Len(log) : log[i] \in [run : Nat, update : Updates]
    BY ElementOfSeq DEF PollInv, TypeOK
<1> QED
    BY <1>1, LenProperties, PollingAssumption DEF PollInv, TypeOK, AnswerInv, Updates

(* The sent, the confirmed and the log of a step that handles nothing.     *)
LEMMA LogKept ==
    ASSUME PollInv, UNCHANGED <<log, starts, old>>
    PROVE  /\ Past' = Past
           /\ InOrderOncePerRun'
           /\ skipped' = skipped => FreshAfterSkip'
BY DEF PollInv, Past, InOrderOncePerRun, FreshAfterSkip

-----------------------------------------------------------------------------
(* One step for each action.                                               *)

LEMMA SendKeeps ==
    ASSUME PollInv, Send
    PROVE  PollInv'
<1> USE DEF Send
<1>1. sent' = sent + 1 /\ sent' \in 1..MaxUpdates
    BY PollTypes, PollingAssumption
<1>2. TypeOK'
    BY <1>1, PollTypes DEF PollInv, TypeOK, Updates
<1>3. AnswerInv'
    BY <1>1, PollTypes DEF PollInv, AnswerInv
<1>4. BatchInv' /\ HandledInv' /\ ConfirmedWasHandled'
    BY <1>1, PollTypes DEF PollInv, BatchInv, HandledInv, ConfirmedWasHandled
<1>5. LogInv' /\ InOrderOncePerRun'
    BY <1>1, PollTypes DEF PollInv, LogInv, InOrderOncePerRun
<1>6. PastInv'
    <2>1. at # "off" => Past' = Past
        BY DEF Past
    <2> QED
        BY <1>1, <2>1, PollTypes DEF PollInv, PastInv
<1>7. FreshAfterSkip'
    <2>1. \A i \in DOMAIN log : log[i].update # sent'
        <3> TAKE i \in DOMAIN log
        <3>1. i \in 1..Len(log) /\ sent \in Nat
            BY PollTypes
        <3>2. log[i].update <= sent /\ log[i].update \in Nat
            BY <3>1, PollTypes DEF PollInv, LogInv
        <3> QED
            BY <3>1, <3>2, <1>1
    <2> QED
        BY <2>1 DEF PollInv, FreshAfterSkip
<1> QED
    BY <1>2, <1>3, <1>4, <1>5, <1>6, <1>7 DEF PollInv

LEMMA StartKeeps ==
    ASSUME PollInv, Start
    PROVE  PollInv'
<1> USE DEF Start, server
<1>1. starts' = starts + 1 /\ starts' \in 0..MaxStarts
    BY PollTypes, PollingAssumption
<1>2. TypeOK'
    BY <1>1, PollTypes DEF PollInv, TypeOK, Phases
<1>3. AnswerInv' /\ BatchInv' /\ HandledInv' /\ ConfirmedWasHandled'
    BY PollTypes DEF PollInv, AnswerInv, BatchInv, HandledInv, ConfirmedWasHandled
<1>4. LogInv' /\ InOrderOncePerRun'
    BY <1>1, PollTypes DEF PollInv, LogInv, InOrderOncePerRun
<1>5. PastInv' /\ FreshAfterSkip'
    BY DEF PollInv, PastInv, FreshAfterSkip
<1> QED
    BY <1>2, <1>3, <1>4, <1>5 DEF PollInv

LEMMA QuietKeeps ==
    ASSUME PollInv, CommandsSet \/ SkipFailed \/ PollFailed \/ WaitOver \/ BatchOver \/ StopSignal
    PROVE  PollInv'
<1> USE DEF CommandsSet, SkipFailed, PollFailed, WaitOver, BatchOver, StopSignal, server, ghosts
<1>1. /\ UNCHANGED <<sent, confirmed, offset, log, starts, old, skipped, dropped, finished>>
      /\ answer' \in {answer, {}} /\ batch' \in {batch, {}} /\ stop' \in {stop, TRUE}
    OBVIOUS
<1>2. TypeOK'
    BY PollTypes DEF PollInv, TypeOK, Phases
<1>3. AnswerInv'
    BY DEF PollInv, AnswerInv
<1>4. BatchInv'
    BY DEF PollInv, BatchInv
<1>5. HandledInv' /\ ConfirmedWasHandled'
    BY DEF PollInv, HandledInv, ConfirmedWasHandled
<1>6. LogInv'
    BY DEF PollInv, LogInv
<1>7. PastInv'
    BY LogKept DEF PollInv, PastInv
<1>8. InOrderOncePerRun' /\ FreshAfterSkip'
    BY LogKept
<1> QED
    BY <1>2, <1>3, <1>4, <1>5, <1>6, <1>7, <1>8 DEF PollInv

LEMMA ExitKeeps ==
    ASSUME PollInv, StopSeen \/ Crash
    PROVE  PollInv'
<1> USE DEF StopSeen, Crash, Exit, server, ghosts
<1>1. TypeOK'
    BY PollTypes DEF PollInv, TypeOK, Phases
<1>2. AnswerInv' /\ BatchInv' /\ HandledInv' /\ ConfirmedWasHandled'
    BY DEF PollInv, AnswerInv, BatchInv, HandledInv, ConfirmedWasHandled
<1>3. LogInv' /\ PastInv' /\ InOrderOncePerRun' /\ FreshAfterSkip'
    BY LogKept DEF PollInv, LogInv, PastInv
<1> QED
    BY <1>1, <1>2, <1>3 DEF PollInv

LEMMA SkipServedKeeps ==
    ASSUME PollInv, SkipServed
    PROVE  PollInv'
<1> USE DEF SkipServed
<1>1. Pending(confirmed) = confirmed + 1..sent
    BY PollTypes, PendingIsInterval
<1>2. answer' = IF confirmed < sent THEN {sent} ELSE {}
    BY <1>1, PollTypes
<1>3. /\ confirmed' \in confirmed..sent /\ sent' = sent
      /\ confirmed' = confirmed \/ (confirmed < sent /\ confirmed' = sent - 1)
    BY <1>2, PollTypes
<1>4. dropped' = dropped \union (confirmed + 1..confirmed')
    <2>1. Pending(confirmed') = confirmed' + 1..sent
        BY <1>3, PollTypes, PendingIsInterval
    <2>2. Pending(confirmed)' = Pending(confirmed')
        BY DEF Pending
    <2>3. (confirmed + 1..sent) \ (confirmed' + 1..sent) = confirmed + 1..confirmed'
        BY <1>3, PollTypes
    <2> QED
        BY <1>1, <2>1, <2>2, <2>3
<1>5. TypeOK'
    <2>1. answer' \subseteq Updates /\ dropped' \subseteq Updates
        BY <1>2, <1>3, <1>4, PollTypes, PollingAssumption DEF Updates
    <2>2. confirmed' \in 0..MaxUpdates
        BY <1>3, PollTypes, PollingAssumption
    <2> QED
        BY <2>1, <2>2 DEF PollInv, TypeOK, Phases
<1>6. AnswerInv'
    <2>1. answer' # {} => sent \in confirmed' + 1..sent' /\ answer' = {sent}
        BY <1>2, <1>3, PollTypes
    <2>2. confirmed' <= sent'
        BY <1>3, PollTypes
    <2> QED
        BY <2>1, <2>2 DEF AnswerInv
<1>7. BatchInv' /\ HandledInv'
    BY DEF PollInv, BatchInv, HandledInv
<1>8. ConfirmedWasHandled'
    BY <1>3, <1>4, PollTypes DEF PollInv, ConfirmedWasHandled
<1>9. LogInv'
    BY <1>3 DEF PollInv, LogInv
<1>10. PastInv'
    <2>1. \A u \in Past : u <= sent /\ u \in Nat
        BY PollTypes DEF Past, PollInv, PastInv, LogInv
    <2>2. \A u \in old : u <= sent
        BY DEF PollInv, PastInv
    <2>3. ~skipped
        BY DEF PollInv, PastInv
    <2>4. \A u \in Past : u <= confirmed' \/ \E v \in answer' : u <= v
        BY <1>2, <1>3, <2>1, PollTypes
    <2>5. Past' = Past
        BY LogKept
    <2> QED
        BY <1>3, <2>2, <2>3, <2>4, <2>5 DEF PastInv
<1>11. InOrderOncePerRun' /\ FreshAfterSkip'
    BY LogKept
<1> QED
    BY <1>5, <1>6, <1>7, <1>8, <1>9, <1>10, <1>11 DEF PollInv

LEMMA SkipDoneKeeps ==
    ASSUME PollInv, SkipDone
    PROVE  PollInv'
<1> USE DEF SkipDone, server
<1>1. Pending(confirmed) = confirmed + 1..sent
    BY PollTypes, PendingIsInterval
<1>2. /\ offset = None /\ batch = {} /\ confirmed \in Nat /\ sent \in Nat
      /\ \A i \in 1..Len(log) : log[i].run # starts
    BY PollTypes DEF PollInv, BatchInv, LogInv
<1>3. CASE answer = {}
    <2>1. offset' = None /\ dropped' = dropped
        BY <1>2, <1>3 DEF NextOffset
    <2>2. \A u \in Past : u <= confirmed
        BY <1>3 DEF PollInv, PastInv
    <2>3. TypeOK'
        BY <2>1, PollTypes DEF PollInv, TypeOK, Phases
    <2>4. AnswerInv' /\ BatchInv' /\ HandledInv' /\ LogInv' /\ ConfirmedWasHandled'
        BY <1>2, <2>1 DEF PollInv, AnswerInv, BatchInv, HandledInv, LogInv, ConfirmedWasHandled
    <2>5. PastInv' /\ InOrderOncePerRun'
        BY <1>2, <2>2, LogKept DEF PollInv, PastInv
    <2>6. FreshAfterSkip'
        BY <1>2, PollTypes DEF FreshAfterSkip
    <2> QED
        BY <2>3, <2>4, <2>5, <2>6 DEF PollInv
<1>4. CASE answer # {}
    <2>1. PICK s \in confirmed + 1..sent : answer = {s}
        BY <1>4 DEF PollInv, AnswerInv
    <2>2. Newest(answer) = s
        <3>1. s \in Nat /\ s <= s
            BY <1>2
        <3>2. Newest(s..s) = s
            BY <3>1, Ends, Zenon
        <3>3. s..s = {s}
            BY <3>1
        <3> QED
            BY <2>1, <3>2, <3>3, Zenon
    <2>3. offset' = s + 1
        BY <1>4, <2>2 DEF NextOffset
    <2>4. dropped' = dropped \union (confirmed + 1..s)
        <3>1. {u \in Pending(confirmed) : \E v \in answer : u <= v} = confirmed + 1..s
            BY <1>1, <1>2, <2>1
        <3> QED
            BY <3>1
    <2>5. s \in Nat /\ confirmed < s /\ s <= sent
        BY <1>2
    <2>6. TypeOK'
        <3>1. dropped' \subseteq Updates
            BY <2>4, <2>5, PollTypes, PollingAssumption DEF Updates
        <3> QED
            BY <2>3, <2>5, <3>1, PollTypes DEF PollInv, TypeOK, Phases
    <2>7. AnswerInv' /\ BatchInv'
        BY <1>2, <2>3, <2>5 DEF PollInv, AnswerInv, BatchInv
    <2>8. HandledInv' /\ ConfirmedWasHandled'
        BY <1>2, <2>3, <2>4, <2>5 DEF PollInv, HandledInv, ConfirmedWasHandled
    <2>9. LogInv'
        BY <1>2 DEF PollInv, LogInv
    <2>10. PastInv'
        <3>1. \A u \in Past : u \in Nat /\ (u <= confirmed \/ u <= s)
            BY <2>1, PollTypes DEF PollInv, PastInv, Past
        <3>2. Past' = Past
            BY LogKept
        <3>3. \A u \in Past : u < offset'
            BY <1>2, <2>3, <2>5, <3>1
        <3>4. offset' # None
            BY <2>3, <2>5, PollTypes
        <3>5. \A u \in old : u <= sent
            BY DEF PollInv, PastInv
        <3> QED
            BY <1>2, <3>2, <3>3, <3>4, <3>5 DEF PastInv
    <2>11. InOrderOncePerRun' /\ FreshAfterSkip'
        BY <1>2, LogKept, PollTypes DEF FreshAfterSkip
    <2> QED
        BY <2>6, <2>7, <2>8, <2>9, <2>10, <2>11 DEF PollInv
<1> QED
    BY <1>3, <1>4

LEMMA PollServedKeeps ==
    ASSUME PollInv, PollServed
    PROVE  PollInv'
<1> USE DEF PollServed, ghosts
<1>1. at = "poll" /\ batch = {} /\ sent' = sent
    BY DEF MayPoll, PollInv, BatchInv
<1>2. /\ confirmed' \in confirmed..sent
      /\ offset # None => offset <= confirmed' + 1
      /\ confirmed' = confirmed \/ (offset # None /\ confirmed' = offset - 1)
    BY PollTypes DEF PollInv, BatchInv
<1>3. PICK b \in confirmed'..sent : answer' = confirmed' + 1..b
    <2>1. PICK c \in 0..sent : c = confirmed'
        BY <1>2, PollTypes
    <2>2. \E b \in c..sent : Oldest(Pending(c)) = c + 1..b
        BY OldestIsInterval, PollTypes
    <2> QED
        BY <2>1, <2>2
<1>4. TypeOK'
    <2>1. answer' \subseteq Updates /\ confirmed' \in 0..MaxUpdates
        BY <1>2, <1>3, PollTypes, PollingAssumption DEF Updates
    <2> QED
        BY <2>1 DEF PollInv, TypeOK, Phases
<1>5. AnswerInv' /\ BatchInv'
    BY <1>1, <1>2, <1>3, PollTypes DEF PollInv, AnswerInv, BatchInv
<1>6. HandledInv' /\ ConfirmedWasHandled'
    BY <1>1, <1>2, PollTypes DEF PollInv, HandledInv, ConfirmedWasHandled
<1>7. LogInv'
    BY <1>1 DEF PollInv, LogInv
<1>8. PastInv'
    BY <1>1, <1>2, LogKept, PollTypes DEF PollInv, PastInv, Past
<1>9. InOrderOncePerRun' /\ FreshAfterSkip'
    BY LogKept
<1> QED
    BY <1>4, <1>5, <1>6, <1>7, <1>8, <1>9 DEF PollInv

LEMMA PollFilledKeeps ==
    ASSUME PollInv, PollFilled
    PROVE  PollInv'
<1> USE DEF PollFilled, server, ghosts
<1>1. PICK b \in confirmed..sent : answer' = confirmed + 1..b
    BY OldestIsInterval, PollTypes
<1>2. TypeOK'
    <2>1. answer' \subseteq Updates
        BY <1>1, PollTypes, PollingAssumption DEF Updates
    <2> QED
        BY <2>1 DEF PollInv, TypeOK
<1>3. AnswerInv'
    BY <1>1 DEF PollInv, AnswerInv
<1>4. BatchInv' /\ HandledInv' /\ ConfirmedWasHandled' /\ LogInv'
    BY DEF PollInv, BatchInv, HandledInv, ConfirmedWasHandled, LogInv
<1>5. PastInv' /\ InOrderOncePerRun' /\ FreshAfterSkip'
    BY LogKept DEF PollInv, PastInv
<1> QED
    BY <1>2, <1>3, <1>4, <1>5 DEF PollInv

LEMMA PollDoneKeeps ==
    ASSUME PollInv, PollDone
    PROVE  PollInv'
<1> USE DEF PollDone, server, ghosts
<1>1. PICK b \in confirmed..sent : answer = confirmed + 1..b
    BY DEF PollInv, AnswerInv
<1>2. /\ confirmed \in Nat /\ sent \in Nat /\ b \in Nat /\ confirmed <= b /\ b <= sent
      /\ batch = {} /\ answer \subseteq Updates
      /\ offset # None => offset \in Nat /\ 1 <= offset /\ offset <= confirmed + 1
      /\ None \notin Nat
    BY PollTypes DEF PollInv, BatchInv
<1>3. IF answer = {} THEN offset' = offset /\ b = confirmed
      ELSE confirmed < b /\ offset' = b + 1
    <2>1. CASE answer = {}
        BY <1>1, <1>2, <2>1 DEF NextOffset
    <2>2. CASE answer # {}
        <3>1. confirmed + 1 <= b
            BY <1>1, <1>2, <2>2
        <3>2. Newest(confirmed + 1..b) = b
            BY <1>2, <3>1, Ends
        <3> QED
            BY <1>1, <1>2, <2>2, <3>1, <3>2 DEF NextOffset
    <2> QED
        BY <2>1, <2>2
<1>4. offset # None => offset' # None /\ offset <= offset'
    BY <1>2, <1>3
<1>5. TypeOK'
    BY <1>2, <1>3 DEF PollInv, TypeOK, Phases
<1>6. AnswerInv'
    BY DEF PollInv, AnswerInv
<1>7. BatchInv'
    <2>1. CASE answer = {}
        BY <1>2, <1>3, <2>1 DEF PollInv, BatchInv
    <2>2. CASE answer # {}
        <3>1. batch' = confirmed + 1..offset' - 1 /\ confirmed + 1 \in 1..offset'
            BY <1>1, <1>2, <1>3, <2>2
        <3>2. offset' \in 1..sent' + 1 /\ offset' # None
            BY <1>2, <1>3, <2>2
        <3> QED
            BY <3>1, <3>2 DEF BatchInv
    <2> QED
        BY <2>1, <2>2
<1>8. HandledInv' /\ ConfirmedWasHandled'
    BY <1>1, <1>2, <1>3 DEF PollInv, HandledInv, ConfirmedWasHandled
<1>9. LogInv'
    <2>1. \A i \in 1..Len(log) : log[i].run = starts =>
              /\ offset' # None /\ log[i].update < offset'
              /\ \A u \in batch' : log[i].update < u
        <3> TAKE i \in 1..Len(log)
        <3> HAVE log[i].run = starts
        <3>1. offset # None /\ log[i].update < offset /\ log[i].update \in Nat
            BY PollTypes DEF PollInv, LogInv
        <3> QED
            BY <1>1, <1>2, <1>3, <1>4, <3>1
    <2> QED
        BY <2>1 DEF PollInv, LogInv
<1>10. PastInv'
    <2>1. Past' = Past
        BY LogKept
    <2>2. \A u \in old : u <= sent
        BY DEF PollInv, PastInv
    <2>3. ASSUME skipped, NEW u \in Past
          PROVE  u <= confirmed /\ u \notin batch'
        <3>1. u \in Nat /\ (u <= confirmed \/ (offset # None /\ u < offset))
            BY <2>3, PollTypes DEF PollInv, PastInv, Past
        <3>2. u <= confirmed
            BY <1>2, <3>1
        <3> QED
            BY <1>1, <1>2, <3>1, <3>2
    <2> QED
        BY <2>1, <2>2, <2>3 DEF PastInv
<1>11. InOrderOncePerRun' /\ FreshAfterSkip'
    BY LogKept
<1> QED
    BY <1>5, <1>6, <1>7, <1>8, <1>9, <1>10, <1>11 DEF PollInv

LEMMA BeginKeeps ==
    ASSUME PollInv, Begin
    PROVE  PollInv'
<1> USE DEF Begin, server
<1>1. PICK a \in 1..offset : batch = a..(offset - 1)
    BY DEF PollInv, BatchInv
<1>2. /\ offset \in Nat /\ a \in Nat /\ a <= offset - 1 /\ sent \in Nat /\ starts \in Nat
      /\ offset <= sent + 1 /\ offset # None
    BY <1>1, PollTypes DEF PollInv, BatchInv
<1>3. First(batch) = a /\ a \in Updates /\ a \in batch
    <2>1. offset - 1 \in Nat
        BY <1>2
    <2>2. First(a..offset - 1) = a
        BY <1>2, <2>1, Ends
    <2>3. a \in a..offset - 1
        BY <1>2
    <2> QED
        BY <1>1, <2>2, <2>3, PollTypes
<1> DEFINE e == [run |-> starts, update |-> a]
<1>4. e \in [run : Nat, update : Updates]
    BY <1>2, <1>3
<1>5. /\ log' \in Seq([run : Nat, update : Updates]) /\ Len(log') = Len(log) + 1
      /\ \A i \in 1..Len(log) : log'[i] = log[i]
      /\ log'[Len(log) + 1] = e
    BY <1>3, <1>4, PollTypes, AppendProperties
<1>6. DOMAIN log' = 1..Len(log) + 1
    BY <1>5, LenProperties
<1>7. TypeOK'
    BY <1>5 DEF PollInv, TypeOK, Phases
<1>8. AnswerInv' /\ BatchInv' /\ HandledInv' /\ ConfirmedWasHandled'
    BY DEF PollInv, AnswerInv, BatchInv, HandledInv, ConfirmedWasHandled
<1>9. \A i \in 1..Len(log) :
         /\ log[i].run \in Nat /\ log[i].run <= starts
         /\ log[i].run = starts => log[i].update < a
         /\ log[i].update <= sent
    BY <1>3, PollTypes DEF PollInv, LogInv
<1>10. \A u \in batch : u \in Nat /\ a <= u /\ u < offset
    BY <1>1, <1>2
<1>11. \A i \in 1..Len(log') : i \in 1..Len(log) \/ i = Len(log) + 1
    BY <1>5, PollTypes
<1>12. LogInv'
    <2>1. ASSUME NEW i \in 1..Len(log)
          PROVE  /\ log'[i].run <= starts /\ log'[i].update <= sent
                 /\ log'[i].run = starts =>
                       log'[i].update < offset /\ \A u \in batch : log'[i].update <= u
        <3>1. log'[i] = log[i] /\ log[i].update \in Nat
            BY <1>5, PollTypes
        <3>2. log[i].run = starts => \A u \in batch : log[i].update <= u
            BY <1>2, <1>9, <1>10, <3>1
        <3> QED
            BY <1>2, <1>9, <3>1, <3>2
    <2>2. /\ e.run <= starts /\ e.update <= sent
          /\ e.update < offset /\ \A u \in batch : e.update <= u
        BY <1>2, <1>10
    <2> QED
        BY <1>2, <1>5, <1>11, <2>1, <2>2 DEF LogInv
<1>13. InOrderOncePerRun'
    <2>1. ASSUME NEW i \in 1..Len(log) + 1, NEW j \in 1..Len(log) + 1,
                 i < j, log'[i].run = log'[j].run
          PROVE  log'[i].update < log'[j].update
        <3>1. Len(log) \in Nat
            BY PollTypes
        <3>2. i \in 1..Len(log) /\ log'[i] = log[i]
            BY <1>5, <2>1, <3>1
        <3>3. CASE j \in 1..Len(log)
            BY <1>5, <2>1, <3>2, <3>3, PollTypes DEF PollInv, InOrderOncePerRun
        <3>4. CASE j = Len(log) + 1
            BY <1>5, <1>9, <2>1, <3>2, <3>4
        <3> QED
            BY <3>1, <3>3, <3>4
    <2> QED
        BY <1>6, <2>1 DEF InOrderOncePerRun
<1>14. Past' = Past
    <2>1. {j \in 1..Len(log') : log'[j].run # starts} = {j \in 1..Len(log) : log[j].run # starts}
        BY <1>5, <1>11, PollTypes
    <2>2. \A j \in 1..Len(log) : log'[j].update = log[j].update
        BY <1>5
    <2>3. {log'[i].update : i \in {j \in 1..Len(log') : log'[j].run # starts}}
          = {log[i].update : i \in {j \in 1..Len(log) : log[j].run # starts}}
        BY <2>1, <2>2
    <2> QED
        BY <2>3 DEF Past
<1>15. PastInv'
    BY <1>14 DEF PollInv, PastInv
<1>16. FreshAfterSkip'
    <2>1. skipped => a \notin old /\ \A j \in 1..Len(log) : log[j].run # starts => log[j].update # a
        BY <1>3 DEF PollInv, PastInv, Past
    <2>2. skipped => \A j \in 1..Len(log) : log[j].update # a
        <3>1. \A j \in 1..Len(log) : log[j].run = starts => log[j].update # a
            <4> TAKE j \in 1..Len(log)
            <4>1. log[j].update \in Nat
                BY PollTypes
            <4> QED
                BY <1>2, <1>9, <4>1
        <3> QED
            BY <2>1, <3>1
    <2>3. ASSUME skipped, NEW i \in 1..Len(log) + 1, log'[i].run = starts
          PROVE  /\ log'[i].update \notin old
                 /\ \A j \in 1..(i - 1) : log'[j].update # log'[i].update
        <3>1. Len(log) \in Nat
            BY PollTypes
        <3>2. CASE i \in 1..Len(log)
            <4>1. log'[i] = log[i] /\ \A j \in 1..(i - 1) : j \in 1..Len(log) /\ log'[j] = log[j]
                BY <1>5, <3>1, <3>2
            <4> QED
                BY <2>3, <3>2, <4>1, PollTypes DEF PollInv, FreshAfterSkip
        <3>3. CASE i = Len(log) + 1
            <4>1. log'[i] = e /\ \A j \in 1..(i - 1) : j \in 1..Len(log) /\ log'[j] = log[j]
                BY <1>5, <3>1, <3>3
            <4> QED
                BY <2>1, <2>2, <2>3, <4>1
        <3> QED
            BY <3>1, <3>2, <3>3
    <2> QED
        BY <1>6, <2>3 DEF FreshAfterSkip
<1> QED
    BY <1>7, <1>8, <1>12, <1>13, <1>15, <1>16 DEF PollInv

LEMMA EndKeeps ==
    ASSUME PollInv, End
    PROVE  PollInv'
<1> USE DEF End, server
<1>1. PICK a \in 1..offset : batch = a..(offset - 1)
    BY DEF PollInv, BatchInv
<1>2. /\ offset \in Nat /\ a \in Nat /\ a <= offset - 1 /\ offset # None
    BY <1>1, PollTypes DEF PollInv, BatchInv
<1>3. First(batch) = a /\ batch' = a + 1..offset - 1 /\ a \in batch
    <2>1. offset - 1 \in Nat
        BY <1>2
    <2>2. First(a..offset - 1) = a /\ Rest(a..offset - 1) = a + 1..offset - 1
        BY <1>2, <2>1, Ends
    <2>3. a \in a..offset - 1
        BY <1>2
    <2> QED
        BY <1>1, <2>2, <2>3
<1>4. batch = batch' \union {a} /\ batch' \subseteq batch /\ finished' = finished \union {a}
    BY <1>1, <1>2, <1>3
<1>5. TypeOK'
    BY <1>3, <1>4, PollTypes DEF PollInv, TypeOK, Phases
<1>6. AnswerInv'
    BY DEF PollInv, AnswerInv
<1>7. BatchInv'
    <2>1. a + 1 \in 1..offset /\ batch' = (a + 1)..(offset - 1)
        BY <1>2, <1>3
    <2> QED
        BY <1>2, <2>1 DEF PollInv, BatchInv
<1>8. HandledInv' /\ ConfirmedWasHandled'
    BY <1>4 DEF PollInv, HandledInv, ConfirmedWasHandled
<1>9. LogInv'
    <2>1. \A i \in 1..Len(log) : log[i].run = starts =>
              \A u \in batch' : log[i].update < u
        <3> TAKE i \in 1..Len(log)
        <3> HAVE log[i].run = starts
        <3>1. log[i].update <= a /\ log[i].update \in Nat
            BY <1>3, PollTypes DEF PollInv, LogInv
        <3> QED
            BY <1>2, <1>3, <3>1
    <2> QED
        BY <2>1 DEF PollInv, LogInv
<1>10. PastInv'
    BY <1>4, LogKept DEF PollInv, PastInv
<1>11. InOrderOncePerRun' /\ FreshAfterSkip'
    BY LogKept
<1> QED
    BY <1>5, <1>6, <1>7, <1>8, <1>9, <1>10, <1>11 DEF PollInv

-----------------------------------------------------------------------------
(* The results.                                                            *)

LEMMA PollInductive == Spec => []PollInv
<1>1. PollInv /\ [Next]_vars => PollInv'
    <2> SUFFICES ASSUME PollInv, [Next]_vars
                 PROVE  PollInv'
        OBVIOUS
    <2>1. CASE Send \/ Start
        BY <2>1, SendKeeps, StartKeeps
    <2>2. CASE CommandsSet \/ SkipFailed \/ PollFailed \/ WaitOver \/ BatchOver \/ StopSignal
        BY <2>2, QuietKeeps
    <2>3. CASE StopSeen \/ Crash
        BY <2>3, ExitKeeps
    <2>4. CASE SkipServed \/ SkipDone
        BY <2>4, SkipServedKeeps, SkipDoneKeeps
    <2>5. CASE PollServed \/ PollFilled \/ PollDone
        BY <2>5, PollServedKeeps, PollFilledKeeps, PollDoneKeeps
    <2>6. CASE Begin \/ End
        BY <2>6, BeginKeeps, EndKeeps
    <2>7. CASE UNCHANGED vars
        BY <2>7 DEF vars, PollInv, TypeOK, AnswerInv, BatchInv, HandledInv, LogInv, PastInv, Past,
                    ConfirmedWasHandled, InOrderOncePerRun, FreshAfterSkip, Pending
    <2> QED
        BY <2>1, <2>2, <2>3, <2>4, <2>5, <2>6, <2>7 DEF Next, BotStep
<1> QED
    BY <1>1, InitPoll, PTL DEF Spec

(* One run handles updates in the order they were sent, each at most once, *)
(* although polls fail after Telegram has answered them (bot.py:115-116).  *)
THEOREM HandledInOrder == Spec => []InOrderOncePerRun
<1>1. PollInv => InOrderOncePerRun
    BY DEF PollInv
<1> QED
    BY <1>1, PollInductive, PTL

(* If old updates could be skipped, the run handles nothing from before it *)
(* (README.md:153-155).                                                    *)
THEOREM SkippingIsEnough == Spec => []FreshAfterSkip
<1>1. PollInv => FreshAfterSkip
    BY DEF PollInv
<1> QED
    BY <1>1, PollInductive, PTL

(* Telegram is told to forget an update only after its handler has ended   *)
(* or after it was skipped at a start (bot.py:92-94, 115-116).             *)
THEOREM NothingConfirmedUnhandled == Spec => []ConfirmedWasHandled
<1>1. PollInv => ConfirmedWasHandled
    BY DEF PollInv
<1> QED
    BY <1>1, PollInductive, PTL
=============================================================================
