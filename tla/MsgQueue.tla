------------------------------- MODULE MsgQueue -------------------------------
(***************************************************************************)
(* The message queue of the C port (src/c/msgqueue.c): a singly linked     *)
(* list of malloc'ed nodes, a counter and a closed flag behind one mutex,  *)
(* and one condition variable its poppers wait on.                         *)
(*                                                                         *)
(* Grain.  A critical section is one action, since every access to the     *)
(* fields is under the mutex; pthread_cond_wait splits mq_pop in two, and  *)
(* reading node->data after the unlock is a step of its own.               *)
(***************************************************************************)
EXTENDS Naturals, Sequences, FiniteSets

CONSTANTS Node,     \* the addresses malloc can return for an MQNode
          Data,     \* the messages pushed
          Popper,   \* the threads that call mq_pop or mq_try_pop
          Null,     \* the null pointer
          NoData    \* no message (refinement only)

ASSUME NodeAssumption == IsFiniteSet(Node) /\ Null \notin Node
ASSUME DataAssumption == NoData \notin Data
ASSUME PopperAssumption == IsFiniteSet(Popper)

VARIABLES head, tail, count, closed,  \* the fields of MsgQueue
          next, data,                 \* the fields of every node
          pc,                         \* where each popper is
          held,                       \* the unlinked node a popper still owns
          linked                      \* history: the nodes linked, oldest first

vars == <<head, tail, count, closed, next, data, pc, held, linked>>

(* idle: between two calls; waiting: in pthread_cond_wait; woken: signalled, *)
(* about to take the mutex again; got: unlinked a node, not yet read it;    *)
(* done: mq_pop returned -1 and the thread left its loop.                   *)
Place == {"idle", "waiting", "woken", "got", "done"}

Waiting == {p \in Popper : pc[p] = "waiting"}
Woken   == {p \in Popper : pc[p] = "woken"}
LinkedNodes == {linked[i] : i \in DOMAIN linked}
(* Defect: a popper that frees its node before it reads the message. *)
FreeWhileRead(n) == n \notin LinkedNodes

(* malloc never returns a block that is in use. *)
Free(n) == n \notin LinkedNodes /\ \A p \in Popper : held[p] # n

mq_init ==
    /\ head = Null /\ tail = Null
    /\ count = 0
    /\ closed = FALSE
    /\ next = [n \in Node |-> Null]
    /\ data \in [Node -> Data]
    /\ pc = [p \in Popper |-> "idle"]
    /\ held = [p \in Popper |-> Null]
    /\ linked = <<>>

(* Defect: mq_push that forgets pthread_cond_signal. *)
SignalForgotten == pc' = pc

(* Defect: mq_push that signals only when the queue was empty. *)
SignalIfEmpty ==
    IF Waiting = {} \/ linked # <<>>
      THEN pc' = pc
      ELSE \E p \in Waiting : pc' = [pc EXCEPT ![p] = "woken"]

(* pthread_cond_signal: one waiting popper, if there is one, is woken. *)
Signal ==
    IF Waiting = {}
      THEN pc' = pc
      ELSE \E p \in Waiting : pc' = [pc EXCEPT ![p] = "woken"]

(* Defect: mq_close that signals instead of broadcasting. *)
BroadcastToOne == Signal

(* pthread_cond_broadcast *)
Broadcast ==
    pc' = [p \in Popper |-> IF pc[p] = "waiting" THEN "woken" ELSE pc[p]]

(* mq_push of an open queue, with a node that malloc returned. *)
mq_push(n, d) ==
    /\ Free(n)
    /\ ~closed
    /\ data' = [data EXCEPT ![n] = d]
    /\ next' = IF tail # Null THEN [next EXCEPT ![n] = Null, ![tail] = n]
                              ELSE [next EXCEPT ![n] = Null]
    /\ head' = IF tail # Null THEN head ELSE n
    /\ tail' = n
    /\ count' = count + 1
    /\ linked' = Append(linked, n)
    /\ Signal
    /\ UNCHANGED <<closed, held>>

(* Defect: the error path takes back a count++ that was not made. *)
RefusedUncounts(n, d) ==
    /\ Free(n)
    /\ closed
    /\ count' = count - 1
    /\ UNCHANGED <<head, tail, closed, next, data, pc, held, linked>>

(* mq_push of a closed queue writes its own node, frees it and returns -1. *)
mq_push_refused(n, d) ==
    /\ Free(n)
    /\ closed
    /\ data' = [data EXCEPT ![n] = d]
    /\ next' = [next EXCEPT ![n] = Null]
    /\ UNCHANGED <<head, tail, count, closed, pc, held, linked>>

(* Defect: mq_pop without "if (!q->head) q->tail = NULL". *)
UnlinkKeepsTail(p) ==
    /\ head # Null
    /\ held' = [held EXCEPT ![p] = head]
    /\ head' = next[head]
    /\ count' = count - 1
    /\ linked' = Tail(linked)
    /\ pc' = [pc EXCEPT ![p] = "got"]
    /\ UNCHANGED <<tail, closed, next, data>>

(* Taking the head off the list, in mq_pop and in mq_try_pop. *)
Unlink(p) ==
    /\ head # Null
    /\ held' = [held EXCEPT ![p] = head]
    /\ head' = next[head]
    /\ tail' = IF next[head] = Null THEN Null ELSE tail
    /\ count' = count - 1
    /\ linked' = Tail(linked)
    /\ pc' = [pc EXCEPT ![p] = "got"]
    /\ UNCHANGED <<closed, next, data>>

(* Defect: mq_pop that reports a closed queue before it is drained. *)
PopGivesUpWhenClosed(p) ==
    /\ pc[p] \in {"idle", "woken"}
    /\ \/ ~closed /\ Unlink(p)
       \/ /\ head = Null \/ closed
          /\ pc' = [pc EXCEPT ![p] = IF closed THEN "done" ELSE "waiting"]
          /\ UNCHANGED <<head, tail, count, closed, next, data, held, linked>>

(* mq_pop, from the lock or from the return of pthread_cond_wait up to the *)
(* unlock: it takes the head, or waits, or returns -1.                     *)
mq_pop(p) ==
    /\ pc[p] \in {"idle", "woken"}
    /\ \/ Unlink(p)
       \/ /\ head = Null
          /\ pc' = [pc EXCEPT ![p] = IF closed THEN "done" ELSE "waiting"]
          /\ UNCHANGED <<head, tail, count, closed, next, data, held, linked>>

(* mq_try_pop: as mq_pop, but an empty queue returns -1 at once. *)
mq_try_pop(p) == pc[p] = "idle" /\ Unlink(p)

(* After the unlock: *data_out = node->data; free(node). *)
ReadAndFree(p) ==
    /\ pc[p] = "got"
    /\ pc' = [pc EXCEPT ![p] = "idle"]
    /\ held' = [held EXCEPT ![p] = Null]
    /\ UNCHANGED <<head, tail, count, closed, next, data, linked>>

mq_close ==
    /\ closed' = TRUE
    /\ Broadcast
    /\ UNCHANGED <<head, tail, count, next, data, held, linked>>

(* POSIX lets pthread_cond_wait return without a signal. *)
SpuriousWakeup(p) ==
    /\ pc[p] = "waiting"
    /\ pc' = [pc EXCEPT ![p] = "woken"]
    /\ UNCHANGED <<head, tail, count, closed, next, data, held, linked>>

PopperStep(p) == mq_pop(p) \/ ReadAndFree(p)

Next ==
    \/ \E n \in Node, d \in Data : mq_push(n, d) \/ mq_push_refused(n, d)
    \/ \E p \in Popper : PopperStep(p) \/ mq_try_pop(p) \/ SpuriousWakeup(p)
    \/ mq_close

(* Threads that are inside mq_pop keep running; nobody has to push or close. *)
Fairness == \A p \in Popper : WF_vars(PopperStep(p))

Spec == mq_init /\ [][Next]_vars
FairSpec == Spec /\ Fairness

------------------------------------------------------------------------------
(* Type invariant. *)
TypeOK ==
    /\ head \in Node \cup {Null} /\ tail \in Node \cup {Null}
    /\ count \in Nat
    /\ closed \in BOOLEAN
    /\ next \in [Node -> Node \cup {Null}]
    /\ data \in [Node -> Data]
    /\ pc \in [Popper -> Place]
    /\ held \in [Popper -> Node \cup {Null}]
    /\ linked \in Seq(Node)

(* head, tail, count and the next pointers describe one duplicate-free list: *)
(* mq_push and mq_pop keep the special cases of an empty list and of a list  *)
(* of one node right (tail reset, head set).                                 *)
ListOK ==
    /\ count = Len(linked)
    /\ (head = Null) <=> (linked = <<>>)
    /\ (tail = Null) <=> (linked = <<>>)
    /\ linked # <<>> => head = linked[1] /\ tail = linked[Len(linked)]
    /\ \A i \in 1..Len(linked) :
          next[linked[i]] = IF i = Len(linked) THEN Null ELSE linked[i + 1]
    /\ \A i, j \in 1..Len(linked) : linked[i] = linked[j] => i = j

(* A node that mq_pop reads and frees after the unlock belongs to that popper *)
(* alone: no other popper holds it and it is out of the list, so malloc       *)
(* cannot hand it out and mq_push cannot overwrite it in between.             *)
NodeOwnedOnce ==
    \A p \in Popper :
        /\ (pc[p] = "got") <=> (held[p] # Null)
        /\ held[p] # Null =>
              /\ held[p] \notin LinkedNodes
              /\ \A q \in Popper : held[q] = held[p] => q = p

(* No wake-up is lost: as long as a popper sleeps, at least as many poppers *)
(* are on their way to the mutex as there are messages, so mq_push may      *)
(* signal one popper only; and nobody sleeps on a closed queue.             *)
NoLostWakeup ==
    Waiting # {} => ~closed /\ Cardinality(Woken) >= Len(linked)

(* The inductive invariant of the proofs. *)
IInv == TypeOK /\ ListOK /\ NodeOwnedOnce /\ NoLostWakeup

(* The queue is a closable FIFO. *)
Abstract == INSTANCE ClosableQueue WITH
    items    <- [i \in 1..Len(linked) |-> data[linked[i]]],
    hand     <- [p \in Popper |-> IF pc[p] = "got" THEN data[held[p]] ELSE NoData],
    finished <- {p \in Popper : pc[p] = "done"}

(* Refinement: every behaviour of the linked list under its mutex and *)
(* condition variable is a behaviour of the closable FIFO.            *)
ImplementsClosableQueue == Abstract!ASpec

(* Once the queue is closed every popper gets its -1: main and the display *)
(* thread, which loop on mq_pop, can be joined.                            *)
CloseReleasesPoppers == closed ~> \A p \in Popper : pc[p] = "done"

(* Every linked node is taken as long as its poppers keep calling: mq_push  *)
(* signals one popper only, and one that was overtaken waits again.        *)
MessagesTaken == \A n \in Node : (n \in LinkedNodes) ~> (n \notin LinkedNodes)
==============================================================================
