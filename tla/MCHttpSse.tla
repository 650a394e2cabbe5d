------------------------------ MODULE MCHttpSse ------------------------------
(* Two calls of two pieces, so that inputs can interleave, and one retry or  *)
(* two, so that an attempt can follow one that broke off anywhere.           *)
EXTENDS HttpSse, TLC

==============================================================================
