---------------------------- MODULE CheckHistory ----------------------------
(***************************************************************************)
(* The state machine of one site against its definition by the history of  *)
(* replies.  Check number i starts at instant i; after a check the alert   *)
(* that is owed is either delivered and recorded or not                    *)
(* (MonitorService._notify_if_needed).  The thresholds are any the         *)
(* configuration allows up to CountCap.                                    *)
(***************************************************************************)
EXTENDS StateMachine, Sequences, FiniteSets

CONSTANTS
    Url,
    Codes,      \* replies the site may give
    MaxChecks   \* length of the histories

ASSUME HistoryAssumption ==
    Codes \subseteq Nat /\ MaxChecks \in Nat /\ None \notin Nat \union Status

VARIABLES
    replies,    \* the reply of every check so far
    state,      \* the ServiceState the code keeps
    th,         \* the thresholds
    heard       \* was DOWN the last alert the user got?

vars == <<replies, state, th, heard>>

Init ==
    /\ replies = <<>>
    /\ state = Fresh(Url)
    /\ th \in Thresholds
    /\ heard = FALSE

\* check_service: the result is applied, then the alert may get through.
Check(code, delivered) ==
    LET i == Len(replies) + 1
        s == ApplyCheck(state, Classify(code), i, th)
        kind == PendingAlert(s)
    IN  /\ Len(replies) < MaxChecks
        /\ delivered => kind # None
        /\ replies' = Append(replies, code)
        /\ state' = IF delivered THEN MarkNotified(s, kind) ELSE s
        /\ heard' = IF delivered THEN kind = "DOWN" ELSE heard
        /\ UNCHANGED th

Next == \E code \in Codes, delivered \in BOOLEAN : Check(code, delivered)

Spec == Init /\ [][Next]_vars

-----------------------------------------------------------------------------
(* The definition.  Only successes and failures count (README.md:21-33);   *)
(* a status above 599, which no standard defines, counts like a 5xx        *)
(* (http.py:98).                                                           *)

Good(i) == replies[i] \in 200..299
Bad(i) == replies[i] = NoReply \/ replies[i] >= 500
Counted == {i \in DOMAIN replies : Good(i) \/ Bad(i)}

\* The counted checks of i..j are all failures, and they are at least k many.
FailRun(i, j, k) ==
    LET run == {x \in Counted : i <= x /\ x <= j}
    IN  i \in run /\ j \in run /\ Cardinality(run) >= k /\ \A x \in run : Bad(x)

GoodRun(i, j, k) ==
    LET run == {x \in Counted : i <= x /\ x <= j}
    IN  i \in run /\ j \in run /\ Cardinality(run) >= k /\ \A x \in run : Good(x)

\* An outage is declared at j and has not ended yet.
DownAt(j) ==
    /\ \E i \in Counted : FailRun(i, j, th.failure)
    /\ ~\E k \in Counted, l \in Counted : k > j /\ GoodRun(k, l, th.recovery)

IsDown == \E j \in Counted : DownAt(j)

TrueStatus ==
    IF IsDown THEN "DOWN"
    ELSE IF \E i \in Counted : Good(i) THEN "UP" ELSE "UNKNOWN"

\* First check of the failures that led to the present outage.
OutageStart ==
    LET declared == CHOOSE j \in Counted : DownAt(j) /\ \A k \in Counted : DownAt(k) => j <= k
    IN  CHOOSE i \in Counted :
            /\ FailRun(i, declared, 1)
            /\ \A k \in Counted : FailRun(k, declared, 1) => i <= k

(* The status is DOWN exactly if failure_threshold failures in a row were  *)
(* seen and recovery_threshold successes in a row have not followed, with  *)
(* 4xx and 3xx replies counting for nothing (state_machine.py:30-55).      *)
StatusFollowsHistory == state.status = TrueStatus

(* While a site is down, the outage is dated from the first failure of the *)
(* streak that brought it down, not from the check that declared it, and   *)
(* later failures do not move it (state_machine.py:48-51).                 *)
OutageDatedFromFirstFailure == IsDown => state.down_since = OutageStart

(* A site that is up after an outage the user heard of has a RECOVERED     *)
(* alert owed to it until it is delivered, and its downtime covers the     *)
(* time from the first failure to the recovery (state_machine.py:63-85).   *)
RecoveryIsReported ==
    state.status = "UP" /\ heard =>
        /\ PendingAlert(state) = "RECOVERED"
        /\ Downtime(state) # None
        /\ \E i \in Counted :
              /\ Bad(i) /\ Downtime(state) = state.status_since - i
              /\ i = 1 \/ \A x \in Counted : x < i => Good(x) \/ ~FailRun(x, i, 1)
=============================================================================
