------------------------------ MODULE MCMsgQueue ------------------------------
(* Three nodes, so that a push can find the list empty, with one and with two *)
(* nodes while a popper still owns a node; two messages; two poppers.         *)
EXTENDS MsgQueue, TLC

==============================================================================
