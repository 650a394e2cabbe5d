------------------------------ MODULE MCSession ------------------------------
(* A compaction needs five lines; with six or seven, two of them can follow *)
(* each other and a crash can fall in between or inside.                    *)
EXTENDS Session, TLC

==============================================================================
