----------------------------- MODULE TaskDelivery -----------------------------
(***************************************************************************)
(* What the runtime promises about background tasks: the result of each is *)
(* delivered to the agent that started it, once and in the order they      *)
(* came, before that agent is itself done; the process ends last, and      *)
(* leaves nothing that was sent to it.  AgentRuntime implements this       *)
(* specification with counters, wake-ups, drains and waits.                *)
(***************************************************************************)
EXTENDS Naturals, Sequences

CONSTANTS Task,    \* background commands and sub-agents
          Inject,  \* texts the user sends to a running agent
          Main     \* the main agent; a sub-agent is the task that runs it

VARIABLES started,    \* the tasks that were started
          owner,      \* owner[t]: the agent that started t
          mailbox,    \* mailbox[a]: results and texts for a, oldest first
          delivered,  \* what an agent has taken from its mailbox
          over        \* the process has ended

dvars == <<started, owner, mailbox, delivered, over>>

Agents == Task \cup {Main}

DInit ==
    /\ started = {}
    /\ owner \in [Task -> Agents]
    /\ mailbox = [a \in Agents |-> <<>>]
    /\ delivered = {}
    /\ over = FALSE

(* The result of t is there, or has been taken. *)
Finished(t) ==
    t \in delivered \/ \E i \in 1..Len(mailbox[owner[t]]) : mailbox[owner[t]][i] = t

(* An agent acts until it has handed in its result, the main agent until the *)
(* end of the process.                                                       *)
Active(a) == IF a = Main THEN ~over ELSE a \in started /\ ~Finished(a)

(* Every task a has started has been delivered to it. *)
AllIn(a) == \A t \in started : owner[t] = a => t \in delivered

DStart(a, t) ==
    /\ Active(a)
    /\ t \notin started
    /\ started' = started \cup {t}
    /\ owner' = [owner EXCEPT ![t] = a]
    /\ UNCHANGED <<mailbox, delivered, over>>

(* A task hands in its result, a sub-agent after those of its own tasks. *)
DFinish(t) ==
    /\ t \in started /\ ~Finished(t)
    /\ AllIn(t)
    /\ mailbox' = [mailbox EXCEPT ![owner[t]] = Append(@, t)]
    /\ UNCHANGED <<started, owner, delivered, over>>

DInject(x) ==
    /\ Active(Main)
    /\ mailbox' = [mailbox EXCEPT ![Main] = Append(@, x)]
    /\ UNCHANGED <<started, owner, delivered, over>>

DDeliver(a) ==
    /\ Active(a)
    /\ mailbox[a] # <<>>
    /\ delivered' = delivered \cup {Head(mailbox[a])}
    /\ mailbox' = [mailbox EXCEPT ![a] = Tail(@)]
    /\ UNCHANGED <<started, owner, over>>

DEnd ==
    /\ ~over
    /\ started \subseteq delivered /\ mailbox[Main] = <<>>
    /\ over' = TRUE
    /\ UNCHANGED <<started, owner, mailbox, delivered>>

DNext ==
    \/ \E a \in Agents, t \in Task : DStart(a, t)
    \/ \E t \in Task : DFinish(t)
    \/ \E x \in Inject : DInject(x)
    \/ \E a \in Agents : DDeliver(a)
    \/ DEnd

DSpec == DInit /\ [][DNext]_dvars
==============================================================================
