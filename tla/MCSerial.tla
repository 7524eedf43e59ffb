------------------------------ MODULE MCSerial ------------------------------
(* One operation at a time: a request, a pass or a scan. *)
EXTENDS MyWholeLife

AllOperations == Operations
Repushing == {"push", "repush", "pass"}
FirstPushes == {"push", "pass"}
Aging == {"push", "remind", "pass", "scan"}
=============================================================================
