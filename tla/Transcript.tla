------------------------------ MODULE Transcript ------------------------------
(***************************************************************************)
(* What the files of a session promise: a conversation that is the end of  *)
(* what was said and is cut only in front of a user message, after a       *)
(* summary that accounts for what goes was written or missed and the       *)
(* archive was given it.  One step each, whatever store_conv_trim_tail     *)
(* does in between.  Session implements this specification.                *)
(***************************************************************************)
EXTENDS Integers, Sequences

CONSTANT Kind  \* the kinds of lines; "user", "call" and "results" are told apart

VARIABLES said,          \* every line, in order
          conversation,  \* the lines the model is sent
          summarised,    \* the serials of the lines the summary accounts for
          missed,        \* of those whose summary was not stored, or lost
          handed,        \* of those the archive was given, written or not
          lost           \* of those a broken write or a crash took away

tvars == <<said, conversation, summarised, missed, handed, lost>>

TInit ==
    /\ said = <<>> /\ conversation = <<>>
    /\ summarised = {} /\ missed = {} /\ handed = {} /\ lost = {}

(* The serials of the first n lines of the conversation. *)
First(n) == {conversation[i].n : i \in 1..n}

(* Of what was said no user message can open a conversation any more: it or *)
(* something behind it was lost.                                            *)
HeadLost ==
    \A i \in 1..Len(said) : said[i].kind = "user" => \E j \in lost : i <= j /\ j <= Len(said)

(* Results answer the calls directly before them.  A conversation begins with *)
(* a user message, unless that was lost.                                      *)
Say(kind) ==
    LET line == [kind |-> kind, n |-> Len(said) + 1]
    IN  /\ kind = "results" => said # <<>> /\ said[Len(said)].kind = "call"
        /\ conversation = <<>> => kind = "user" \/ HeadLost
        /\ said' = Append(said, line)
        /\ conversation' = Append(conversation, line)
        /\ UNCHANGED <<summarised, missed, handed, lost>>

(* A line that is said and lost leaves at most something illegible. *)
SayInVain(kind) ==
    LET n == Len(said) + 1
    IN  /\ kind = "results" => said # <<>> /\ said[Len(said)].kind = "call"
        /\ said' = Append(said, [kind |-> kind, n |-> n])
        /\ lost' = lost \cup {n}
        /\ conversation' \in {conversation, Append(conversation, [kind |-> "junk", n |-> n])}
        /\ UNCHANGED <<summarised, missed, handed>>

(* A cut behind n lines is in front of a user message; without one the whole *)
(* conversation goes.                                                        *)
Cut(n) ==
    IF n < Len(conversation)
      THEN conversation[n + 1].kind = "user"
      ELSE \A i \in 1..Len(conversation) : conversation[i].kind # "user"

(* A new summary adds the lines in front of a cut to the old one, or starts *)
(* anew.                                                                    *)
Summarise(n) ==
    /\ Cut(n)
    /\ \E old \in {summarised, {}} : summarised' = old \cup First(n)
    /\ missed' = (missed \cup summarised) \ summarised'
    /\ UNCHANGED <<said, conversation, handed, lost>>

(* They are not summarised. *)
Miss(n) ==
    /\ Cut(n)
    /\ missed' = missed \cup (First(n) \ summarised)
    /\ UNCHANGED <<said, conversation, summarised, handed, lost>>

(* The summary is lost. *)
LoseSummary ==
    /\ summarised' = {}
    /\ missed' = missed \cup summarised
    /\ UNCHANGED <<said, conversation, handed, lost>>

(* Lines go to the archive once their summary was tried. *)
HandOver(n) ==
    /\ First(n) \subseteq summarised \cup missed
    /\ handed' = handed \cup First(n)
    /\ UNCHANGED <<said, conversation, summarised, missed, lost>>

(* They leave the conversation at once, the next user message becomes its head. *)
Forget(n) ==
    /\ Cut(n)
    /\ First(n) \subseteq summarised \cup missed
    /\ First(n) \subseteq handed
    /\ conversation' = SubSeq(conversation, n + 1, Len(conversation))
    /\ UNCHANGED <<said, summarised, missed, handed, lost>>

(* A broken write takes the end of the conversation away, a crash all of it. *)
Lose(n) ==
    /\ conversation' = SubSeq(conversation, 1, n)
    /\ lost' = lost \cup {conversation[i].n : i \in (n + 1)..Len(conversation)}
    /\ UNCHANGED <<said, summarised, missed, handed>>

TNext ==
    \/ \E kind \in Kind : Say(kind) \/ SayInVain(kind)
    \/ LoseSummary
    \/ \E n \in 0..Len(conversation) : Summarise(n) \/ Miss(n) \/ HandOver(n) \/ Forget(n) \/ Lose(n)

TSpec == TInit /\ [][TNext]_tvars
==============================================================================
