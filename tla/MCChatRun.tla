----------------------------- MODULE MCChatRun -----------------------------
(* ChatRun with two activity events. *)
EXTENDS ChatRun

CONSTANTS e1, e2
=============================================================================
