---------------------------- MODULE ClosableQueue ----------------------------
(***************************************************************************)
(* What a message queue of the C port promises its users (src/c/msgqueue.h)*)
(* : an unbounded FIFO that can be closed.  A closed queue refuses new     *)
(* messages but is drained before its poppers are told that it is closed.  *)
(* MsgQueue implements this specification.                                 *)
(***************************************************************************)
EXTENDS Sequences

CONSTANTS Data,     \* the messages (void *data) that can be pushed
          Popper,   \* the threads that take messages
          NoData    \* no message (not in Data)

VARIABLES items,    \* the messages in the queue, oldest first
          closed,   \* no message is accepted any more
          hand,     \* hand[p]: the message popper p has taken and not yet handled
          finished  \* the poppers that were told that the queue is closed

avars == <<items, closed, hand, finished>>

AInit ==
    /\ items = <<>>
    /\ closed = FALSE
    /\ hand = [p \in Popper |-> NoData]
    /\ finished = {}

(* A message accepted by an open queue goes behind all the others. *)
APush(d) ==
    /\ ~closed
    /\ items' = Append(items, d)
    /\ UNCHANGED <<closed, hand, finished>>

(* A popper takes the oldest message, of an open or of a closed queue. *)
ATake(p) ==
    /\ items # <<>>
    /\ hand[p] = NoData
    /\ p \notin finished
    /\ hand' = [hand EXCEPT ![p] = Head(items)]
    /\ items' = Tail(items)
    /\ UNCHANGED <<closed, finished>>

ARelease(p) ==
    /\ hand[p] # NoData
    /\ hand' = [hand EXCEPT ![p] = NoData]
    /\ UNCHANGED <<items, closed, finished>>

(* A popper is told that the queue is closed only when nothing is left. *)
AFinish(p) ==
    /\ closed
    /\ items = <<>>
    /\ hand[p] = NoData
    /\ finished' = finished \cup {p}
    /\ UNCHANGED <<items, closed, hand>>

AClose ==
    /\ closed' = TRUE
    /\ UNCHANGED <<items, hand, finished>>

ANext ==
    \/ \E d \in Data : APush(d)
    \/ \E p \in Popper : ATake(p) \/ ARelease(p) \/ AFinish(p)
    \/ AClose

ASpec == AInit /\ [][ANext]_avars
==============================================================================
