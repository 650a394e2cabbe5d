------------------------------- MODULE Display -------------------------------
(***************************************************************************)
(* The display thread (src/c/display.c), the event log it shows again when *)
(* a session is taken up (events.jsonl; agent_replay_events in agent.c) and*)
(* the main thread's side of both: an event is logged, then pushed to the  *)
(* display queue; display_flush waits until the display thread has caught  *)
(* up, with a mutex and a condition variable on the caller's stack.        *)
(*                                                                         *)
(* Output format is "human": with stream-json the log's writer prints and  *)
(* the queue stays empty.  A queue operation is one step (MsgQueue).       *)
(***************************************************************************)
EXTENDS Integers, Sequences, FiniteSets

CONSTANTS MaxTurns,   \* max_turns of agent_replay_events (10 in main)
          MaxEvents,  \* bound: events of a session
          MaxStarts   \* bound: processes that run the session

ASSUME ReplayAssumption == MaxTurns \in Nat \ {0}
ASSUME BoundAssumption == MaxEvents \in Nat /\ MaxStarts \in Nat \ {0}

VARIABLES
    events, torn,       \* events.jsonl, whether its last line has no newline
    queue, open,        \* display_queue, mq_close not yet called
    main, mode, local,  \* the main thread: place, interactive or not, its message
    todo,               \* lines agent_replay_events has still to read
    ret,                \* where display_flush returns to
    mutex, done,        \* the flush's mutex: destroyed, free or held; its flag
    display, current,   \* the display thread: place, message in hand
    screen,             \* what this process has shown
    pushed,             \* history: what this process has pushed to be shown
    used, starts,       \* events so far, processes so far
    merged              \* history: events appended to a torn line

log == <<events, torn, merged>>
handshake == <<mutex, done>>
bounds == <<used, starts>>
vars == <<events, torn, queue, open, main, mode, local, todo, ret, mutex, done, display,
          current, screen, pushed, used, starts, merged>>

(* user_input is logged and not shown, user_notify and context_update are   *)
(* shown and not logged, usage and stop are not replayed.                   *)
Kind == {"input", "output", "quiet", "notice"}
Logged == {"input", "output", "quiet"}
Replayed == {"input", "output"}
Message == [kind : Kind, n : Nat]
Newline == [kind |-> "newline", n |-> 0]
Flush == [kind |-> "flush", n |-> 0]
Item == Message \cup {Newline, Flush}

(* A line of the log: the event written last to it, whether it parses, and  *)
(* whether it contains the type "user_input".                               *)
Line == [event : Message, ok : BOOLEAN, input : BOOLEAN]

MainPlace == {"off", "replay", "ready", "idle", "log", "push", "turn", "flushPush",
              "flushCheck", "waiting", "woken", "flushDestroy", "join", "done"}
DisplayPlace == {"none", "idle", "render", "lock", "signal", "unlock", "ended"}

Init ==
    /\ events = <<>> /\ torn = FALSE
    /\ queue = <<>> /\ open = FALSE
    /\ main = "off" /\ mode = "print" /\ local = Newline
    /\ todo = <<>> /\ ret = "idle"
    /\ mutex = "destroyed" /\ done = FALSE
    /\ display = "none" /\ current = Newline
    /\ screen = <<>> /\ pushed = <<>>
    /\ used = 0 /\ starts = 0 /\ merged = {}

------------------------------------------------------------------------------
(* The event log. *)

(* jsonl_append; behind a line that a crash cut off the two become one line. *)
store_event_append(m) ==
    /\ events' = IF torn
                   THEN [events EXCEPT ![Len(events)] =
                            [event |-> m, ok |-> FALSE, input |-> @.input \/ m.kind = "input"]]
                   ELSE Append(events, [event |-> m, ok |-> TRUE, input |-> m.kind = "input"])
    /\ merged' = IF torn THEN merged \cup {m} ELSE merged
    /\ torn' = FALSE

(* The k-th smallest element of a set of line numbers. *)
Nth(S, k) == CHOOSE i \in S : Cardinality({j \in S : j <= i}) = k

(* The lines with a user_input. *)
Inputs == {i \in 1..Len(events) : events[i].input}

(* The ring of offsets: slot i holds the last of the inputs i, i + MaxTurns, ... *)
Slot(i) ==
    LET seen == Cardinality(Inputs)
    IN  Nth(Inputs, CHOOSE j \in 1..seen : (j - 1) % MaxTurns = i /\ j + MaxTurns > seen)

(* Defect: the slot written last is taken for the oldest. *)
NewestSlot ==
    LET seen == Cardinality(Inputs)
    IN  IF seen = 0 THEN 1
        ELSE IF seen >= MaxTurns THEN Slot((seen - 1) % MaxTurns) ELSE Slot(0)

find_recent_turn_start_offset ==
    LET seen == Cardinality(Inputs)
    IN  IF seen = 0 THEN 1
        ELSE IF seen >= MaxTurns THEN Slot(seen % MaxTurns) ELSE Slot(0)

------------------------------------------------------------------------------
(* The main thread. *)

(* main starts the display thread; an interactive process replays the log. *)
Start(m) ==
    /\ main \in {"off", "done"}
    /\ starts < MaxStarts
    /\ starts' = starts + 1
    /\ mode' = m
    /\ queue' = <<>> /\ open' = TRUE
    /\ display' = "idle" /\ current' = Newline
    /\ screen' = <<>> /\ pushed' = <<>>
    /\ local' = Newline /\ mutex' = "destroyed" /\ done' = FALSE
    /\ IF m = "interactive"
         THEN /\ main' = "replay"
              /\ todo' = SubSeq(events, find_recent_turn_start_offset, Len(events))
         ELSE main' = "idle" /\ todo' = <<>>
    /\ UNCHANGED <<log, ret, used>>

Push(x) == queue' = Append(queue, x) /\ pushed' = Append(pushed, x)

(* agent_replay_events: a line that does not parse or is of no type to show *)
(* is skipped.                                                              *)
agent_replay_events ==
    /\ main = "replay"
    /\ todo # <<>>
    /\ todo' = Tail(todo)
    /\ IF Head(todo).ok /\ Head(todo).event.kind \in Replayed
         THEN Push(Head(todo).event) ELSE UNCHANGED <<queue, pushed>>
    /\ UNCHANGED <<log, open, main, mode, local, ret, handshake, display, current, screen,
                   bounds>>

(* After the replay: a line break if it showed anything, then display_flush. *)
ReplayDone ==
    /\ main = "replay"
    /\ todo = <<>>
    /\ IF pushed = <<>> THEN UNCHANGED <<queue, pushed>> ELSE Push(Newline)
    /\ main' = "flushPush" /\ ret' = "ready"
    /\ mutex' = "main" /\ done' = FALSE
    /\ UNCHANGED <<log, open, mode, local, todo, display, current, screen, bounds>>

(* readline_thread_start: from here on the line editor owns the terminal. *)
readline_thread_start ==
    /\ main = "ready"
    /\ main' = "idle"
    /\ UNCHANGED <<log, queue, open, mode, local, todo, ret, handshake, display, current,
                   screen, pushed, bounds>>

(* A turn of the user, or one for a background result, which is not logged *)
(* as an input.                                                            *)
TurnStarts ==
    /\ main = "idle"
    /\ \/ /\ used < MaxEvents
          /\ used' = used + 1
          /\ local' = [kind |-> "input", n |-> used + 1]
          /\ main' = "log"
       \/ main' = "turn" /\ UNCHANGED <<used, local>>
    /\ UNCHANGED <<log, queue, open, mode, todo, ret, handshake, display, current, screen,
                   pushed, starts>>

(* Defect: what is to be shown is pushed before it is logged. *)
PushThenLog(k) ==
    /\ main = "turn"
    /\ used < MaxEvents
    /\ used' = used + 1
    /\ local' = [kind |-> k, n |-> used + 1]
    /\ Push([kind |-> k, n |-> used + 1])
    /\ main' = IF k \in Logged THEN "log" ELSE "turn"
    /\ UNCHANGED <<log, open, mode, todo, ret, handshake, display, current, screen, starts>>

(* Something to show comes up: text, a tool call, a result, usage, a notice. *)
Emit(k) ==
    /\ main = "turn"
    /\ used < MaxEvents
    /\ used' = used + 1
    /\ local' = [kind |-> k, n |-> used + 1]
    /\ main' = IF k \in Logged THEN "log" ELSE "push"
    /\ UNCHANGED <<log, queue, open, mode, todo, ret, handshake, display, current, screen,
                   pushed, starts>>

(* push_display_event writes the log first ... *)
LogEvent ==
    /\ main = "log"
    /\ store_event_append(local)
    /\ IF local.kind = "input" THEN main' = "turn" /\ local' = Newline
                               ELSE main' = "push" /\ local' = local
    /\ UNCHANGED <<queue, open, mode, todo, ret, handshake, display, current, screen,
                   pushed, bounds>>

(* ... and then pushes the message, which the display thread frees. *)
push_display_event ==
    /\ main = "push"
    /\ Push(local)
    /\ local' = Newline
    /\ main' = "turn"
    /\ UNCHANGED <<log, open, mode, todo, ret, handshake, display, current, screen,
                   bounds>>

(* The end of a turn: an interactive process flushes the display. *)
TurnEnds ==
    /\ main = "turn"
    /\ IF mode = "interactive"
         THEN /\ main' = "flushPush" /\ ret' = "idle"
              /\ mutex' = "main" /\ done' = FALSE
         ELSE main' = "idle" /\ UNCHANGED <<ret, handshake>>
    /\ UNCHANGED <<log, queue, open, mode, local, todo, display, current, screen, pushed,
                   bounds>>

(* display_flush, with its mutex locked: the message goes into the queue. *)
FlushPush ==
    /\ main = "flushPush"
    /\ queue' = Append(queue, Flush)
    /\ main' = "flushCheck"
    /\ UNCHANGED <<log, open, mode, local, todo, ret, handshake, display, current, screen,
                   pushed, bounds>>

(* Defect: the flag is looked at once; a wake-up without a signal passes. *)
FlushCheckOnce ==
    /\ main \in {"flushCheck", "woken"}
    /\ mutex' = "free"
    /\ main' = IF done \/ main = "woken" THEN "flushDestroy" ELSE "waiting"
    /\ UNCHANGED <<log, queue, open, mode, local, todo, ret, done, display, current, screen,
                   pushed, bounds>>

(* while (!done) pthread_cond_wait: the wait gives the mutex back. *)
FlushCheck ==
    /\ main = "flushCheck"
    /\ mutex' = "free"
    /\ main' = IF done THEN "flushDestroy" ELSE "waiting"
    /\ UNCHANGED <<log, queue, open, mode, local, todo, ret, done, display, current, screen,
                   pushed, bounds>>

(* pthread_cond_wait may return without a signal. *)
SpuriousWakeup ==
    /\ main = "waiting"
    /\ main' = "woken"
    /\ UNCHANGED <<log, queue, open, mode, local, todo, ret, handshake, display, current,
                   screen, pushed, bounds>>

(* pthread_cond_wait returns with the mutex. *)
FlushReacquire ==
    /\ main = "woken"
    /\ mutex = "free"
    /\ mutex' = "main"
    /\ main' = "flushCheck"
    /\ UNCHANGED <<log, queue, open, mode, local, todo, ret, done, display, current, screen,
                   pushed, bounds>>

(* The condition variable, the mutex and the flag go with the stack frame. *)
FlushDestroy ==
    /\ main = "flushDestroy"
    /\ mutex' = "destroyed"
    /\ main' = ret
    /\ UNCHANGED <<log, queue, open, mode, local, todo, ret, done, display, current, screen,
                   pushed, bounds>>

(* The end of main: display_thread_stop closes the queue, then join. *)
display_thread_stop ==
    /\ main = "idle"
    /\ open' = FALSE
    /\ main' = "join"
    /\ UNCHANGED <<log, queue, mode, local, todo, ret, handshake, display, current, screen,
                   pushed, bounds>>

Join ==
    /\ main = "join"
    /\ display = "ended"
    /\ main' = "done"
    /\ UNCHANGED <<log, queue, open, mode, local, todo, ret, handshake, display, current,
                   screen, pushed, bounds>>

------------------------------------------------------------------------------
(* The display thread. *)

display_thread_fn ==
    /\ display = "idle"
    /\ queue # <<>>
    /\ current' = Head(queue)
    /\ queue' = Tail(queue)
    /\ display' = IF Head(queue) = Flush THEN "lock" ELSE "render"
    /\ UNCHANGED <<log, open, main, mode, local, todo, ret, handshake, screen, pushed, bounds>>

render_message ==
    /\ display = "render"
    /\ screen' = Append(screen, current)
    /\ current' = Newline
    /\ display' = "idle"
    /\ UNCHANGED <<log, queue, open, main, mode, local, todo, ret, handshake, pushed, bounds>>

(* signal_flush: under the flush's mutex, set the flag and signal. *)
FlushLock ==
    /\ display = "lock"
    /\ mutex = "free"
    /\ mutex' = "display"
    /\ display' = "signal"
    /\ UNCHANGED <<log, queue, open, main, mode, local, todo, ret, done, current, screen,
                   pushed, bounds>>

(* Defect: the condition is signalled and the flag forgotten. *)
SignalOnly ==
    /\ display = "signal"
    /\ done' = done
    /\ main' = IF main = "waiting" THEN "woken" ELSE main
    /\ display' = "unlock"
    /\ UNCHANGED <<log, queue, open, mode, local, todo, ret, mutex, current, screen, pushed,
                   bounds>>

signal_flush ==
    /\ display = "signal"
    /\ done' = TRUE
    /\ main' = IF main = "waiting" THEN "woken" ELSE main
    /\ display' = "unlock"
    /\ UNCHANGED <<log, queue, open, mode, local, todo, ret, mutex, current, screen, pushed,
                   bounds>>

FlushUnlock ==
    /\ display = "unlock"
    /\ mutex' = "free"
    /\ current' = Newline
    /\ display' = "idle"
    /\ UNCHANGED <<log, queue, open, main, mode, local, todo, ret, done, screen, pushed,
                   bounds>>

(* Defect: a closed queue ends the thread although it still holds messages. *)
EndsAtOnce ==
    /\ display = "idle"
    /\ ~open
    /\ display' = "ended"
    /\ UNCHANGED <<log, queue, open, main, mode, local, todo, ret, handshake, current, screen,
                   pushed, bounds>>

(* mq_pop fails only once the queue is closed and empty. *)
DisplayEnds ==
    /\ display = "idle"
    /\ queue = <<>> /\ ~open
    /\ display' = "ended"
    /\ UNCHANGED <<log, queue, open, main, mode, local, todo, ret, handshake, current, screen,
                   pushed, bounds>>

------------------------------------------------------------------------------
(* The process dies; a line that was being appended may be cut off anywhere, *)
(* in front of its type too.                                                 *)
Crash ==
    /\ main \notin {"off", "done"}
    /\ main' = "off" /\ display' = "none"
    /\ queue' = <<>> /\ open' = FALSE /\ pushed' = <<>> /\ current' = Newline
    /\ local' = Newline /\ todo' = <<>> /\ mutex' = "destroyed" /\ done' = FALSE
    /\ \/ UNCHANGED <<events, torn>>
       \/ /\ main = "log" /\ ~torn
          /\ torn' = TRUE
          /\ \E i \in {FALSE, local.kind = "input"} :
                events' = Append(events, [event |-> local, ok |-> FALSE, input |-> i])
    /\ UNCHANGED <<mode, ret, screen, bounds, merged>>

(* The process has ended for good. *)
Exited == main \in {"off", "done"} /\ starts = MaxStarts /\ UNCHANGED vars

FlushStep == FlushPush \/ FlushCheck \/ FlushReacquire \/ FlushDestroy
MainStep ==
    \/ agent_replay_events \/ ReplayDone \/ readline_thread_start
    \/ LogEvent \/ push_display_event \/ FlushStep \/ Join
UserStep ==
    \/ \E m \in {"interactive", "print"} : Start(m)
    \/ TurnStarts \/ (\E k \in Kind \ {"input"} : Emit(k)) \/ TurnEnds \/ display_thread_stop
DisplayStep ==
    display_thread_fn \/ render_message \/ FlushLock \/ signal_flush \/ FlushUnlock \/ DisplayEnds

Next == MainStep \/ UserStep \/ DisplayStep \/ SpuriousWakeup \/ Crash \/ Exited

Spec == Init /\ [][Next]_vars

(* Both threads keep running, and spurious wake-ups do not keep the display *)
(* thread from a mutex that is free again and again; the user need not do   *)
(* anything.                                                                *)
FairSpec == Spec /\ WF_vars(MainStep) /\ WF_vars(DisplayStep) /\ SF_vars(FlushLock)

------------------------------------------------------------------------------
(* Type invariant; the mutex exists exactly as long as a flush is under way. *)
TypeOK ==
    /\ (mutex = "destroyed") = (main \notin {"flushPush", "flushCheck", "waiting", "woken", "flushDestroy"})
    /\ events \in Seq(Line) /\ torn \in BOOLEAN
    /\ queue \in Seq(Item) /\ open \in BOOLEAN
    /\ main \in MainPlace /\ mode \in {"interactive", "print"}
    /\ local \in Message \cup {Newline}
    /\ todo \in Seq(Line) /\ ret \in {"ready", "idle"}
    /\ mutex \in {"destroyed", "free", "main", "display"} /\ done \in BOOLEAN
    /\ display \in DisplayPlace /\ current \in Item
    /\ screen \in Seq(Item) /\ pushed \in Seq(Item)
    /\ used \in 0..MaxEvents /\ starts \in 0..MaxStarts
    /\ merged \subseteq Message

(* display_flush keeps its mutex and condition variable on its stack: the    *)
(* display thread is never in signal_flush after the flush has destroyed     *)
(* them, whatever wakes the waiter and whenever.                             *)
FlushSafe == display \in {"lock", "signal", "unlock"} => mutex # "destroyed"

(* When display_flush returns, when readline takes the terminal over and     *)
(* when the process has joined the display thread, everything pushed has     *)
(* been shown, in the order it was pushed.                                   *)
NothingUnshown ==
    main \in {"ready", "done"} \/ (main = "idle" /\ mode = "interactive") => screen = pushed

(* What is on the screen is in the log, and legible: a process that dies     *)
(* loses the line it was writing and the one appended to what is left of it, *)
(* nothing else that was shown.                                              *)
ShownIsLogged ==
    \A i \in 1..Len(screen) :
        screen[i].kind \in Logged /\ screen[i] \notin merged =>
            \E j \in 1..Len(events) : events[j].ok /\ events[j].event = screen[i]

(* The replay shows the last MaxTurns inputs and everything replayable after *)
(* the first of them, fewer only if there are fewer, and a line break if it  *)
(* shows anything: the ring of offsets points at the oldest of them.         *)
Recent == {i \in 1..Len(events) :
              /\ Cardinality({j \in Inputs : j > i}) < MaxTurns
              /\ Inputs = {} \/ \E j \in Inputs : j <= i}
Replayable(i) == events[i].ok /\ events[i].event.kind \in Replayed
ReplayIsRecent ==
    main = "ready" =>
        LET shown == {i \in Recent : Replayable(i)}
            lines == [k \in 1..Cardinality(shown) |-> events[Nth(shown, k)].event]
        IN  screen = IF shown = {} THEN <<>> ELSE Append(lines, Newline)

(* A flush returns and the display thread ends once the queue is closed:     *)
(* neither thread waits for the other, unless the process dies.              *)
FlushReturns ==
    /\ main \in {"flushPush", "flushCheck", "waiting", "woken"} ~> main \in {"ready", "idle", "off"}
    /\ main = "join" ~> main \in {"done", "off"}
==============================================================================
