------------------------------- MODULE ToolText -------------------------------
(***************************************************************************)
(* What happens to the text of a tool result on its way into the           *)
(* conversation: util_sanitize_utf8 (src/c/util.c) replaces bytes that are *)
(* not UTF-8, tool_format_result (src/c/tools.c) cuts the middle out of a  *)
(* long text.  A text is a sequence of classes of bytes.                   *)
(***************************************************************************)
EXTENDS Integers, Sequences, FiniteSets

CONSTANTS TailLines,  \* tail_lines (5)
          MarkerLen,  \* length of the marker between head and tail
          MaxResult,  \* max_bytes (default 100000)
          SizeRange,  \* 2^64, the range of size_t: any number above twice a length
          Garbage     \* texts that memory nobody has written to may hold

ASSUME TextAssumption ==
    TailLines \in Nat \ {0} /\ MarkerLen \in Nat /\ MaxResult \in Nat \ {0}
    /\ SizeRange \in Nat \ {0}

(* "x" and "nl" are ASCII; the leads begin a character of two (C2-DF), three *)
(* (E1-EC, EE and EF; E0; ED) or four bytes (F1-F3; F0; F4), "c8" (80-8F),   *)
(* "c9" (90-9F) and "ca" (A0-BF) continue one, "bad" is never part of one.   *)
Continuation == {"c8", "c9", "ca"}
ByteClass ==
    {"nul", "x", "nl", "l2", "l3", "e0", "ed", "l4", "f0", "f4", "bad"} \cup Continuation
Width(b) == CASE b \in {"nul", "x", "nl"} -> 1
              [] b = "l2" -> 2
              [] b \in {"l3", "e0", "ed"} -> 3
              [] b \in {"l4", "f0", "f4"} -> 4
              [] OTHER -> 0

ASSUME GarbageAssumption == Garbage # {} /\ Garbage \subseteq Seq(ByteClass)

(* strlen and sb_append stop at a NUL byte. *)
UpToNul(s) ==
    LET nuls == {i \in 1..Len(s) : s[i] = "nul"}
    IN  IF nuls = {} THEN s ELSE SubSeq(s, 1, (CHOOSE i \in nuls : \A j \in nuls : i <= j) - 1)

(* Defect: only the first continuation byte is looked at. *)
FirstContinuation(s, i) ==
    LET k == Width(s[i])
    IN  k > 0 /\ i + k - 1 <= Len(s) /\ (k > 1 => s[i + 1] \in Continuation)

(* The byte at i starts a character that is all there; the code takes any     *)
(* continuation after any lead.                                              *)
WholeCharacter(s, i) ==
    LET k == Width(s[i])
    IN  k > 0 /\ i + k - 1 <= Len(s) /\ \A j \in (i + 1)..(i + k - 1) : s[j] \in Continuation

(* The six characters \ufffd. *)
Replacement == <<"x", "x", "x", "x", "x", "x">>

Sanitized(s) ==
    LET from[i \in 1..(Len(s) + 1)] ==
            IF i > Len(s) THEN <<>>
            ELSE IF WholeCharacter(s, i)
                   THEN SubSeq(s, i, i + Width(s[i]) - 1) \o from[i + Width(s[i])]
                   ELSE Replacement \o from[i + 1]
    IN  from[1]

(* What a caller may find: for an empty text nothing is ever written to the  *)
(* buffer that is returned, not even a NUL.                                  *)
util_sanitize_utf8(s) == IF s = <<>> THEN Garbage ELSE {Sanitized(s)}

(* The last TailLines line breaks start the tail; with fewer, all of it is. *)
TailOf(s) ==
    LET breaks == {i \in 1..Len(s) : s[i] = "nl"}
    IN  IF Cardinality(breaks) < TailLines THEN s
        ELSE SubSeq(s, 1 + (CHOOSE i \in breaks :
                               Cardinality({j \in breaks : j >= i}) = TailLines), Len(s))

Marker == [i \in 1..MarkerLen |-> "x"]

(* size_t arithmetic: what does not fit wraps around and falls back to half. *)
HeadLen(s) ==
    LET h == (MaxResult - MarkerLen - Len(TailOf(s))) % SizeRange
    IN  IF h > Len(s) THEN Len(s) \div 2 ELSE h

tool_format_result(s) ==
    IF Len(s) <= MaxResult THEN s
    ELSE SubSeq(s, 1, HeadLen(s)) \o Marker \o TailOf(s)

------------------------------------------------------------------------------
(* Reference.  A text is framed if every lead byte is followed by as many     *)
(* continuation bytes as it asks for, and every one belongs to a lead byte.  *)
Followed(s, i) == \A j \in 1..(Width(s[i]) - 1) : i + j <= Len(s) /\ s[i + j] \in Continuation
Framed(s) ==
    \A i \in 1..Len(s) :
        /\ s[i] # "bad"
        /\ Followed(s, i)
        /\ s[i] \in Continuation => \E j \in 1..3 : i - j >= 1 /\ Width(s[i - j]) > j

(* It is UTF-8 if besides no character is an overlong form (E0 80, F0 80), a *)
(* surrogate (ED A0) or above U+10FFFF (F4 90): the second byte tells.       *)
Second(b) == CASE b = "e0" -> {"ca"}
               [] b = "ed" -> {"c8", "c9"}
               [] b = "f0" -> {"c9", "ca"}
               [] b = "f4" -> {"c8"}
               [] OTHER -> Continuation
Misfit(s, i) == Width(s[i]) > 1 /\ Followed(s, i) /\ s[i + 1] \notin Second(s[i])
Utf8(s) == Framed(s) /\ \A i \in 1..Len(s) : ~Misfit(s, i)
==============================================================================
