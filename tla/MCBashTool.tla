------------------------------ MODULE MCBashTool ------------------------------
(* One call, with bytes enough for a character that is cut off, for a text   *)
(* that must be shortened and for one whose last line alone is too long; two *)
(* calls, for what one inherits from the other.                              *)
EXTENDS BashTool

(* Memory that begins with a NUL, and memory that does not. *)
SomeGarbage == {<<>>, <<"bad">>}
==============================================================================
