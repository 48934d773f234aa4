---------------------------- MODULE MCBotDialogue ----------------------------
(* Small instances of BotDialogue for TLC.                                  *)
EXTENDS BotDialogue, TLC

\* config.yaml has at most one site, which is enabled.
OneConfig == {[Blank EXCEPT ![n] = r] : n \in Names, r \in {None} \union [url : Urls, enabled : {TRUE}]}

Symmetry == Permutations(Names) \union Permutations(Urls)
=============================================================================
