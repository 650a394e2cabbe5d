------------------------------ MODULE MCDisplay ------------------------------
(* Two turns are replayed, so that a third makes the ring of offsets wrap;   *)
(* a second process replays what the first left behind.                      *)
EXTENDS Display, TLC

==============================================================================
