--------------------------- MODULE MCSiteRegistry ---------------------------
(* Small instances of SiteRegistry for TLC.                                *)
EXTENDS SiteRegistry

\* All addresses but one are on the same host.
OneOther == CHOOSE u \in Urls : TRUE
Hosts ==
    LET t == CHOOSE t \in Titles : TRUE
    IN  [u \in Urls |-> IF u = OneOther THEN CHOOSE s \in Titles : s # t ELSE t]

Empty == [n \in Names |-> None]

\* config.yaml has at most one site.
OneConfig == {Empty} \union {[Empty EXCEPT ![n] = u] : n \in Names, u \in Urls}
=============================================================================
