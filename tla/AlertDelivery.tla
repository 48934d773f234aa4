---------------------------- MODULE AlertDelivery ----------------------------
(***************************************************************************)
(* One call of Notifier.send as its caller may picture it: what            *)
(* MonitorService's actions Deliver, SendFail, AnswerLost and Ack do.      *)
(* TelegramCall is shown to implement it.                                  *)
(***************************************************************************)
EXTENDS Naturals

VARIABLES
    phase,      \* "send": nothing on its way; "sent": delivered, not answered yet
    copies      \* how often the message was delivered

vars == <<phase, copies>>

Init == phase = "send" /\ copies = 0

Deliver == phase = "send" /\ phase' = "sent" /\ copies' = copies + 1

\* The answer is lost: the message is delivered again, or the caller gets an error.
AnswerLost == phase = "sent" /\ phase' \in {"send", "failed"} /\ UNCHANGED copies

SendFail == phase = "send" /\ phase' = "failed" /\ UNCHANGED copies

Ack == phase = "sent" /\ phase' = "done" /\ UNCHANGED copies

Next == Deliver \/ AnswerLost \/ SendFail \/ Ack

Spec == Init /\ [][Next]_vars
=============================================================================
