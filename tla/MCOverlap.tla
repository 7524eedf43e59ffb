----------------------------- MODULE MCOverlap ------------------------------
(* Requests and passes interleave at every access to the store. *)
EXTENDS MyWholeLife, TLC

Alterations == {"push", "repush", "remind", "pass"}
Requests == Alterations \union {"init"}
Nothing == {}
PushAlone == {"push"}
Pushing == {"push", "pass"}
Reminding == {"push", "remind", "pass"}
AllButReads == Operations \ {"remind", "init"}
TwoHandlers == Permutations(Handlers)
=============================================================================
