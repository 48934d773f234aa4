----------------------------- MODULE AlertStream -----------------------------
(***************************************************************************)
(* What the monitor promises the user about one run of the process         *)
(* (README.md:11-12, 68-73): about each site, alerts alternate between     *)
(* DOWN and RECOVERED, starting with DOWN; an alert that could not be      *)
(* delivered may be posted again later; one that was delivered is not.     *)
(* MonitorService is shown to implement this.                              *)
(***************************************************************************)
CONSTANTS Names, None

VARIABLES
    told,       \* site -> the last alert that reached the user
    posting     \* site -> the alert being sent

vars == <<told, posting>>

Init == told = [n \in Names |-> None] /\ posting = told

\* The next news about a site.
News(n) == IF told[n] = "DOWN" THEN "RECOVERED" ELSE "DOWN"

Post(n) ==
    /\ posting[n] = None
    /\ posting' = [posting EXCEPT ![n] = News(n)]
    /\ UNCHANGED told

Reach(n) ==
    /\ posting[n] # None
    /\ told' = [told EXCEPT ![n] = posting[n]]
    /\ posting' = [posting EXCEPT ![n] = None]

GiveUp(n) ==
    /\ posting[n] # None
    /\ posting' = [posting EXCEPT ![n] = None]
    /\ UNCHANGED told

\* The site is deleted; one of the same name starts anew.
Forget(n) ==
    /\ posting[n] = None
    /\ told' = [told EXCEPT ![n] = None]
    /\ UNCHANGED posting

Next == \E n \in Names : Post(n) \/ Reach(n) \/ GiveUp(n) \/ Forget(n)

Spec == Init /\ [][Next]_vars
=============================================================================
