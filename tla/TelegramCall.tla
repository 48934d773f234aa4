---------------------------- MODULE TelegramCall ----------------------------
(***************************************************************************)
(* TelegramClient._call (telegram/client.py): one call of the Bot API,     *)
(* with its retries.  The request may be executed by Telegram and its      *)
(* answer be lost, so an attempt ends with one of:                         *)
(*   "ok"        200 and ok: the call returns                              *)
(*   "error"     no answer, or a 5xx: the next attempt after a backoff     *)
(*   "limited"   429: the next attempt after the pause Telegram asks for   *)
(*   "rejected"  any other answer: TelegramError at once                   *)
(* The request may have been executed before an "error", and before a      *)
(* "rejected" that is a 200 which does not read as an answer.              *)
(***************************************************************************)
EXTENDS Naturals

CONSTANTS
    MaxAttempts,    \* 3 for sendMessage, 1 for edits, answers and polls
    Backoff,        \* seconds before the second attempt
    RetryAfters,    \* pauses a 429 may ask for
    MaxRetryAfter   \* the longest pause that is granted

ASSUME CallAssumption ==
    /\ MaxAttempts \in Nat \ {0}
    /\ Backoff \in Nat /\ MaxRetryAfter \in Nat
    /\ RetryAfters \subseteq Nat

VARIABLES
    at,         \* "post", "executed" (an answer is due), "returned", "raised"
    attempts,   \* max_attempts of this call
    attempt,
    slept,      \* seconds spent in pauses
    executed,   \* how often Telegram executed the request
    lost        \* how many of its answers did not arrive as such

vars == <<at, attempts, attempt, slept, executed, lost>>

Init ==
    /\ at = "post"
    /\ attempts \in 1..MaxAttempts
    /\ attempt = 1
    /\ slept = 0 /\ executed = 0 /\ lost = 0

-----------------------------------------------------------------------------
\* Mutant: after the last attempt the loop ends without an exception.
GivenUp_Returns == "returned"

GivenUp == "raised"

Delay(n) == Backoff * 2^(n - 1)

\* Mutant: the pause Telegram asks for is taken as it is.
Granted_Any(r) == r

Granted(r) == IF r < MaxRetryAfter THEN r ELSE MaxRetryAfter

\* The end of the loop's body: a pause and the next attempt, or TelegramError.
Again(pause) ==
    IF attempt < attempts
    THEN at' = "post" /\ attempt' = attempt + 1 /\ slept' = slept + pause
    ELSE at' = GivenUp /\ UNCHANGED <<attempt, slept>>

\* Telegram executes the request.
Execute ==
    /\ at = "post"
    /\ at' = "executed" /\ executed' = executed + 1
    /\ UNCHANGED <<attempts, attempt, slept, lost>>

\* Mutant: the answer is taken for an error if it has no result.
Answered_NoResult == Again(Delay(attempt))

Answered == at' = "returned" /\ UNCHANGED <<attempt, slept>>

\* 200 and ok.
Ok ==
    /\ at = "executed"
    /\ Answered
    /\ UNCHANGED <<attempts, executed, lost>>

\* If the request was executed, its answer is not the one that arrives.
NotAnswered ==
    /\ at \in {"post", "executed"}
    /\ lost' = IF at = "executed" THEN lost + 1 ELSE lost

\* httpx.HTTPError or a 5xx, before or after the request was executed.
Error ==
    /\ NotAnswered
    /\ Again(Delay(attempt))
    /\ UNCHANGED <<attempts, executed>>

\* 429, with or without retry_after.
Limited ==
    /\ at = "post"
    /\ \/ Again(Delay(attempt))
       \/ \E r \in RetryAfters : Again(Granted(r))
    /\ UNCHANGED <<attempts, executed, lost>>

\* Any other status, or 200 without ok.
Rejected ==
    /\ NotAnswered
    /\ at' = "raised"
    /\ UNCHANGED <<attempts, attempt, slept, executed>>

Next == Execute \/ Ok \/ Error \/ Limited \/ Rejected

Spec == Init /\ [][Next]_vars

-----------------------------------------------------------------------------
(* Every variable holds a value of its kind; no attempt beyond the last    *)
(* one is made (client.py:81, 105).                                        *)
TypeOK ==
    /\ at \in {"post", "executed", "returned", "raised"}
    /\ attempts \in 1..MaxAttempts /\ attempt \in 1..attempts
    /\ slept \in Nat /\ executed \in Nat /\ lost \in Nat

(* A message reaches the user twice only if an answer was lost in between, *)
(* and a call that raises with no answer lost delivered nothing, so that   *)
(* the caller may repeat it (client.py:80-114, service.py:228-235).        *)
ExecutedOnceUnlessLost ==
    executed = lost + (IF at \in {"executed", "returned"} THEN 1 ELSE 0)

\* The longest pause there is after an attempt that is not the last.
LongestPause ==
    IF Delay(attempts) < MaxRetryAfter THEN MaxRetryAfter ELSE Delay(attempts)

(* The pauses of one call are bounded whatever Telegram asks for: a check  *)
(* holds the lock of its site meanwhile (client.py:101, service.py:137).   *)
SleptBounded == slept <= (attempts - 1) * LongestPause

Delivery == INSTANCE AlertDelivery WITH
    phase <- CASE at = "post" -> "send" [] at = "executed" -> "sent"
               [] at = "returned" -> "done" [] OTHER -> "failed",
    copies <- executed

(* The call behaves as its caller may assume: it returns only if the last  *)
(* thing that happened is a delivery (client.py:88-89, 114).               *)
ImplementsDelivery == Delivery!Spec
=============================================================================
