---------------------------- MODULE StateMachine ----------------------------
(***************************************************************************)
(* The decisions of the monitor that do no I/O: how one HTTP reply is      *)
(* classified (checker/http.py), how a check result changes the state of a *)
(* service and which alert is owed to the user                             *)
(* (monitoring/state_machine.py, models/state.py).                         *)
(*                                                                         *)
(* A state record keeps the fields that a decision reads, plus the URL the *)
(* state belongs to; the fields that are only displayed (last_check,       *)
(* last_error, last_status_code, response_time, ...) are left out.         *)
(***************************************************************************)
EXTENDS Integers

CONSTANTS
    None,       \* Python's None
    CountCap    \* the counters saturate here; no threshold is larger

ASSUME CountCapAssumption == CountCap \in Nat \ {0}

Status  == {"UNKNOWN", "UP", "DOWN"}
Outcome == {"success", "ignored", "failure"}
Kind    == {"DOWN", "RECOVERED"}

(* The thresholds of a service: both are at least 1 (pydantic, ge=1).      *)
Thresholds == [failure : 1..CountCap, recovery : 1..CountCap]

(* The reply of one request: its final status code, or NoReply for a       *)
(* timeout, too many redirects or any network error.                       *)
NoReply == 0

\* Mutant: 500 itself is taken for a client error.
Classify_Above500(code) ==
    IF code = NoReply \/ code > 500 THEN "failure"
    ELSE IF 200 <= code /\ code < 300 THEN "success"
    ELSE "ignored"

Classify(code) ==
    IF code = NoReply \/ code >= 500 THEN "failure"
    ELSE IF 200 <= code /\ code < 300 THEN "success"
    ELSE "ignored"

-----------------------------------------------------------------------------
(* A service about which nothing is known yet, checked at url.             *)
Fresh(url) ==
    [url |-> url, status |-> "UNKNOWN", status_since |-> None,
     failure_count |-> 0, recovery_count |-> 0,
     failing_since |-> None, down_since |-> None, notified_status |-> None]

Bump(count) == IF count < CountCap THEN count + 1 ELSE count

\* Mutant: a success leaves the failure streak standing.
Cleared_Kept(count) == count

Cleared(count) == 0

\* Mutant: one success more than recovery_threshold is needed.
Recovers_Late(s, th) ==
    s.status = "UNKNOWN" \/ (s.status = "DOWN" /\ s.recovery_count > th.recovery)

Recovers(s, th) ==
    s.status = "UNKNOWN" \/ (s.status = "DOWN" /\ s.recovery_count >= th.recovery)

\* Mutant: the streak is dated from its last failure.
StreakStart_Last(s, at) == at

StreakStart(s, at) == IF s.failing_since = None THEN at ELSE s.failing_since

OnSuccess(s, at, th) ==
    LET t == [s EXCEPT !.failure_count = Cleared(@),
                       !.failing_since = None,
                       !.recovery_count = Bump(@)]
    IN  IF Recovers(t, th)
        THEN [t EXCEPT !.status = "UP", !.status_since = at]
        ELSE t

OnFailure(s, at, th) ==
    LET since == StreakStart(s, at)
        t == [s EXCEPT !.recovery_count = 0,
                       !.failure_count = Bump(@),
                       !.failing_since = since]
    IN  IF s.status # "DOWN" /\ t.failure_count >= th.failure
        THEN [t EXCEPT !.status = "DOWN", !.status_since = at, !.down_since = since]
        ELSE t

(* The state after a check that started at time `at`.                      *)
ApplyCheck(s, outcome, at, th) ==
    CASE outcome = "ignored" -> s
      [] outcome = "success" -> OnSuccess(s, at, th)
      [] outcome = "failure" -> OnFailure(s, at, th)

\* Mutant: every site that is up and not known to be is announced.
PendingAlert_OnAnyUp(s) ==
    CASE s.status = "DOWN" /\ s.notified_status # "DOWN" -> "DOWN"
      [] s.status = "UP" /\ s.notified_status # "UP" -> "RECOVERED"
      [] OTHER -> None

(* The alert the user has not received yet for the current status.         *)
PendingAlert(s) ==
    CASE s.status = "DOWN" /\ s.notified_status # "DOWN" -> "DOWN"
      [] s.status = "UP" /\ s.notified_status = "DOWN" -> "RECOVERED"
      [] OTHER -> None

\* Mutant: the start of the outage is forgotten when DOWN is delivered.
MarkNotified_ForgetsStart(s, kind) ==
    [s EXCEPT !.notified_status = IF kind = "DOWN" THEN "DOWN" ELSE "UP",
              !.down_since = None]

MarkNotified(s, kind) ==
    IF kind = "DOWN"
    THEN [s EXCEPT !.notified_status = "DOWN"]
    ELSE [s EXCEPT !.notified_status = "UP", !.down_since = None]

(* The outage length a RECOVERED alert reports.                            *)
Downtime(s) ==
    IF s.down_since = None \/ s.status_since = None THEN None
    ELSE IF s.status_since > s.down_since THEN s.status_since - s.down_since ELSE 0
=============================================================================
