---------------------------- MODULE MCRequestBody ----------------------------
(* Four lines: a message before and after an answer with two calls and their *)
(* results.                                                                  *)
EXTENDS RequestBody, TLC

==============================================================================
