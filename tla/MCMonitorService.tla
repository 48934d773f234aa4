-------------------------- MODULE MCMonitorService --------------------------
(* Small instances of MonitorService for TLC.                              *)
EXTENDS MonitorService, TLC

On(u) == [url |-> u, enabled |-> TRUE]

\* No site in config.yaml.
NoConfig == {[n \in Names |-> None]}

\* Any subset of the names is in config.yaml, each name at the first address,
\* and a restart may find another subset.
SomeUrl == CHOOSE u \in Urls : TRUE
AnyConfig == [Names -> {None, On(SomeUrl)}]

\* With no site in config.yaml, neither names nor addresses differ in anything.
Symmetry == Permutations(Names) \union Permutations(Urls)
=============================================================================
