----------------------------- MODULE AgentRuntime -----------------------------
(***************************************************************************)
(* The threads of one cagent process (src/c/cagent.c, agent.c, readline.c):*)
(* the main thread, which pops the input queue and runs the agent loop; the*)
(* readline thread, which feeds the input queue, injects text with Ctrl+O  *)
(* and interrupts with Ctrl+C; and one detached thread per background task:*)
(* a background Bash command or a sub-agent, which is itself an agent with *)
(* a result queue and background commands of its own.                      *)
(*                                                                         *)
(* A queue operation is one step (MsgQueue implements it).  What a turn    *)
(* does to the conversation is the business of Session; here a turn is its *)
(* queue operations, the tasks it starts and the interrupt flag.           *)
(***************************************************************************)
EXTENDS Naturals, Integers, Sequences, FiniteSets

CONSTANTS Task,        \* background tasks that may be started
          Inject,      \* texts the user may inject with Ctrl+O
          Main,        \* the main agent
          Mode,        \* ways the process may be started: "interactive", "print"
          Goal,        \* those in which --goal is given
          MaxTurns,    \* max_turns: LLM calls of one agent_loop
          MinInputs,   \* least number of inputs a non-interactive process is given
          MaxInputs    \* bound: ordinary inputs of a behaviour

ASSUME TaskAssumption == IsFiniteSet(Task) /\ Main \notin Task /\ Inject \cap Task = {}
ASSUME ModeAssumption == Mode \subseteq {"interactive", "print"} /\ Goal \subseteq Mode
ASSUME BoundAssumption == MaxTurns \in Nat \ {0} /\ MinInputs \in Nat /\ MaxInputs \in Nat

Agent == Task \cup {Main}

VARIABLES
    inputQ,      \* input_queue: "input" and "notify" messages
    inputOpen,   \* mq_close has not been called on it
    inputAlive,  \* mq_destroy has not been called on it
    subQ,        \* sub_result_queue of each agent: tasks and injected texts
    alive,       \* whether an agent's sub_result_queue exists
    count,       \* active_task_count of each agent
    task,        \* where the thread of each task is
    parent,      \* the agent that started each task
    pc,          \* where each agent is
    turn,        \* turn, a local of agent_loop (0 outside)
    ret,         \* where that agent_loop returns to
    drained,     \* whether a drain whose result is used consumed a message
    reply,       \* the goal judge's answer while it is looked at
    interrupted, running,  \* the flags of the main agent
    readline,    \* what the readline thread is doing ("none": there is none)
    inputs,      \* ordinary inputs pushed so far (for the bound)
    delivered,   \* history: tasks and texts that reached the conversation
    cancelled    \* history: Ctrl+C was accepted while a turn was under way

taskVars == <<task, parent>>
inputVars == <<inputQ, inputOpen, inputAlive, inputs>>
loopVars == <<turn, ret, drained, reply>>
flagVars == <<interrupted, running, cancelled>>
vars == <<inputQ, inputOpen, inputAlive, subQ, alive, count, task, parent, pc, turn,
          ret, drained, reply, interrupted, running, readline, inputs, delivered, cancelled>>

(* Threads of tasks: a command runs, a sub-agent is an agent of its own; both *)
(* push their result and then wake the main loop up.                          *)
TaskPlace == {"unused", "command", "agent", "pushed", "ended"}
Working(t) == task[t] \in {"command", "agent"}

AgentPlace == {"none", "create", "pop", "notify", "top", "drain", "llm", "tools", "endDrain",
               "finish", "judge", "verdict", "afterInput", "afterNotify", "wait", "exitCheck",
               "finalWait", "report", "close", "destroy", "done"}

(* Answers of the goal judge, as runs of letters and punctuation: none (the *)
(* request failed or gave no text), the token it is told to answer, the     *)
(* token with a full stop, and an instruction.                              *)
Token == <<"GOAL", "_", "DONE">>
Reply == {<<>>, Token, Append(Token, "."), <<"instruction">>}

ReturnPlace == {"afterInput", "afterNotify", "wait", "finalWait"}

(* The tasks an agent has started and whose results it has not consumed. *)
Outstanding(a) == {t \in Task : task[t] # "unused" /\ parent[t] = a /\ t \notin delivered}

(* Only an interactive process starts the readline thread. *)
Interactive == readline # "none"
GoalSet == (IF Interactive THEN "interactive" ELSE "print") \in Goal

Init ==
    /\ \/ "interactive" \in Mode /\ inputs = 0 /\ readline = "reading"
       \/ "print" \in Mode /\ inputs \in MinInputs..MaxInputs /\ readline = "none"
    /\ inputQ = [i \in 1..inputs |-> "input"]
    /\ inputOpen = TRUE /\ inputAlive = TRUE
    /\ subQ = [a \in Agent |-> <<>>]
    /\ alive = [a \in Agent |-> a = Main]
    /\ count = [a \in Agent |-> 0]
    /\ task = [t \in Task |-> "unused"]
    /\ parent = [t \in Task |-> Main]
    /\ pc = [a \in Agent |-> IF a = Main THEN "pop" ELSE "none"]
    /\ turn = [a \in Agent |-> 0]
    /\ ret = [a \in Agent |-> "wait"]
    /\ drained = [a \in Agent |-> FALSE]
    /\ reply = <<>>
    /\ interrupted = FALSE /\ running = FALSE
    /\ delivered = {} /\ cancelled = FALSE

Goto(a, place) == pc' = [pc EXCEPT ![a] = place]
------------------------------------------------------------------------------
(* The readline thread. *)

ReadLine ==
    /\ readline = "reading"
    /\ inputs < MaxInputs
    /\ inputs' = inputs + 1
    /\ inputQ' = Append(inputQ, "input")
    /\ UNCHANGED <<inputOpen, inputAlive, subQ, alive, count, taskVars, pc, loopVars,
                   flagVars, readline, delivered>>

(* Ctrl+O: the text goes to the result queue, then the main loop is woken. *)
inject_callback(x) ==
    /\ readline = "reading"
    /\ x \notin delivered
    /\ \A i \in 1..Len(subQ[Main]) : subQ[Main][i] # x
    /\ subQ' = [subQ EXCEPT ![Main] = Append(@, x)]
    /\ readline' = "injected"
    /\ UNCHANGED <<inputVars, alive, count, taskVars, pc, loopVars, flagVars, delivered>>

(* Defect: Ctrl+O queues the text but does not wake the main loop. *)
InjectSilently ==
    /\ readline = "injected"
    /\ readline' = "reading"
    /\ UNCHANGED <<inputVars, subQ, alive, count, taskVars, pc, loopVars, flagVars,
                   delivered>>

InjectWakeup ==
    /\ readline = "injected"
    /\ inputQ' = Append(inputQ, "notify")
    /\ readline' = "reading"
    /\ UNCHANGED <<inputOpen, inputAlive, inputs, subQ, alive, count, taskVars, pc,
                   loopVars, flagVars, delivered>>

(* Ctrl+C is honoured only while the main loop runs an agent loop. *)
CtrlC ==
    /\ readline = "reading"
    /\ running
    /\ interrupted' = TRUE
    /\ cancelled' = (cancelled \/ pc[Main] \in {"drain", "llm", "tools", "endDrain"})
    /\ UNCHANGED <<inputVars, subQ, alive, count, taskVars, pc, loopVars, running,
                   readline, delivered>>

(* Defect: the readline thread ends without closing the input queue. *)
ExitLeavesQueueOpen ==
    /\ readline = "reading"
    /\ readline' = "ended"
    /\ UNCHANGED <<inputVars, subQ, alive, count, taskVars, pc, loopVars, flagVars,
                   delivered>>

(* exit, quit or Ctrl+D: the thread closes the input queue and ends. *)
ReadlineExit ==
    /\ readline = "reading"
    /\ inputOpen' = FALSE
    /\ readline' = "ended"
    /\ UNCHANGED <<inputQ, inputAlive, inputs, subQ, alive, count, taskVars, pc, loopVars,
                   flagVars, delivered>>

------------------------------------------------------------------------------
(* agent_main_loop *)

(* An ordinary input starts an agent loop: the flag is cleared, the text *)
(* becomes a line of the conversation.                                   *)
PopInput ==
    /\ pc[Main] = "pop"
    /\ inputQ # <<>> /\ Head(inputQ) = "input"
    /\ inputQ' = Tail(inputQ)
    /\ interrupted' = FALSE /\ running' = TRUE
    /\ ret' = [ret EXCEPT ![Main] = "afterInput"]
    /\ Goto(Main, "top")
    /\ UNCHANGED <<inputOpen, inputAlive, inputs, subQ, alive, count, taskVars, turn,
                   drained, reply, readline, delivered, cancelled>>

PopNotify ==
    /\ pc[Main] = "pop"
    /\ inputQ # <<>> /\ Head(inputQ) = "notify"
    /\ inputQ' = Tail(inputQ)
    /\ interrupted' = FALSE /\ running' = TRUE
    /\ ret' = [ret EXCEPT ![Main] = "afterNotify"]
    /\ Goto(Main, "notify")
    /\ UNCHANGED <<inputOpen, inputAlive, inputs, subQ, alive, count, taskVars, turn,
                   drained, reply, readline, delivered, cancelled>>

(* mq_pop returns -1: the queue is closed and drained. *)
PopClosed ==
    /\ pc[Main] = "pop"
    /\ inputQ = <<>> /\ ~inputOpen
    /\ Goto(Main, "finalWait")
    /\ UNCHANGED <<inputVars, subQ, alive, count, taskVars, loopVars, flagVars, readline,
                   delivered>>

(* After an ordinary input a non-interactive process waits for its tasks. *)
AfterInput ==
    /\ pc[Main] = "afterInput"
    /\ running' = FALSE
    /\ Goto(Main, IF Interactive THEN "exitCheck" ELSE "wait")
    /\ UNCHANGED <<inputVars, subQ, alive, count, taskVars, loopVars, interrupted,
                   readline, delivered, cancelled>>

AfterNotify ==
    /\ pc[Main] = "afterNotify"
    /\ running' = FALSE
    /\ Goto(Main, "exitCheck")
    /\ UNCHANGED <<inputVars, subQ, alive, count, taskVars, loopVars, interrupted,
                   readline, delivered, cancelled>>

(* Defect: the main loop does not look at the input queue before it leaves. *)
ExitIgnoresInputs ==
    /\ pc[Main] = "exitCheck"
    /\ Goto(Main, IF ~Interactive /\ count[Main] <= 0 THEN "finalWait" ELSE "pop")
    /\ UNCHANGED <<inputVars, subQ, alive, count, taskVars, loopVars, flagVars, readline,
                   delivered>>

(* A non-interactive process leaves the main loop once nothing is left. *)
ExitCheck ==
    /\ pc[Main] = "exitCheck"
    /\ Goto(Main, IF ~Interactive /\ count[Main] <= 0 /\ inputQ = <<>>
                    THEN "finalWait" ELSE "pop")
    /\ UNCHANGED <<inputVars, subQ, alive, count, taskVars, loopVars, flagVars, readline,
                   delivered>>

------------------------------------------------------------------------------
(* agent_loop *)

(* Defect: every message is counted off, an injected text too. *)
CountEveryMessage(a) ==
    /\ subQ[a] # <<>>
    /\ subQ' = [subQ EXCEPT ![a] = Tail(@)]
    /\ delivered' = delivered \cup {Head(subQ[a])}
    /\ count' = [count EXCEPT ![a] = @ - 1]

(* Defect: a result is not counted off. *)
CountNothing(a) ==
    /\ subQ[a] # <<>>
    /\ subQ' = [subQ EXCEPT ![a] = Tail(@)]
    /\ delivered' = delivered \cup {Head(subQ[a])}
    /\ count' = count

(* Defect: the newest message is taken first. *)
ConsumeNewest(a) ==
    LET n == Len(subQ[a])
    IN  /\ n > 0
        /\ subQ' = [subQ EXCEPT ![a] = SubSeq(@, 1, n - 1)]
        /\ delivered' = delivered \cup {subQ[a][n]}
        /\ count' = IF subQ[a][n] \in Task /\ count[a] > 0
                      THEN [count EXCEPT ![a] = @ - 1] ELSE count

(* agent_process_sub_result: a task result is counted off, its text (or the *)
(* injected text) becomes a line of the conversation.                       *)
Consume(a) ==
    /\ subQ[a] # <<>>
    /\ subQ' = [subQ EXCEPT ![a] = Tail(@)]
    /\ delivered' = delivered \cup {Head(subQ[a])}
    /\ count' = IF Head(subQ[a]) \in Task /\ count[a] > 0
                  THEN [count EXCEPT ![a] = @ - 1] ELSE count

(* agent_drain_sub_results takes what is there, one message after another, *)
(* at the head of a turn, at its end and when the loop is woken up.        *)
agent_drain_sub_results(a) ==
    /\ pc[a] \in {"notify", "drain", "endDrain"}
    /\ Consume(a)
    /\ drained' = [drained EXCEPT ![a] = pc[a] # "drain"]
    /\ UNCHANGED <<inputVars, alive, taskVars, pc, turn, ret, flagVars, readline, reply>>

(* A wake-up that finds nothing is spurious: another drain came first. *)
NotifyDrained(a) ==
    /\ pc[a] = "notify"
    /\ subQ[a] = <<>>
    /\ Goto(a, IF drained[a] THEN "top" ELSE ret[a])
    /\ drained' = [drained EXCEPT ![a] = FALSE]
    /\ UNCHANGED <<inputVars, subQ, alive, count, taskVars, turn, ret, flagVars, readline,
                   delivered, reply>>

LoopTop(a) ==
    /\ pc[a] = "top"
    /\ IF turn[a] < MaxTurns
         THEN /\ turn' = [turn EXCEPT ![a] = @ + 1]
              /\ interrupted' = IF a = Main THEN FALSE ELSE interrupted
              /\ Goto(a, "drain")
         ELSE /\ Goto(a, "finish")
              /\ UNCHANGED <<turn, interrupted>>
    /\ UNCHANGED <<inputVars, subQ, alive, count, taskVars, ret, drained, reply, running,
                   cancelled, readline, delivered>>

TopDrained(a) ==
    /\ pc[a] = "drain"
    /\ subQ[a] = <<>>
    /\ Goto(a, "llm")
    /\ UNCHANGED <<inputVars, subQ, alive, count, taskVars, loopVars, flagVars, readline,
                   delivered>>

(* Leaving agent_loop: its local turn goes out of scope. *)
Return(a) ==
    /\ Goto(a, ret[a])
    /\ turn' = [turn EXCEPT ![a] = 0]
    /\ cancelled' = IF a = Main THEN FALSE ELSE cancelled

(* The request fails, is refused, truncated or aborted before it answers. *)
LlmFails(a) ==
    /\ pc[a] = "llm"
    /\ Return(a)
    /\ UNCHANGED <<inputVars, subQ, alive, count, taskVars, ret, drained, reply,
                   interrupted, running, readline, delivered>>

(* The answer asks for tools. *)
LlmCallsTools(a) ==
    /\ pc[a] = "llm"
    /\ Goto(a, "tools")
    /\ UNCHANGED <<inputVars, subQ, alive, count, taskVars, loopVars, flagVars, readline,
                   delivered>>

(* The answer ends the turn, or was interrupted. *)
LlmEnds(a) ==
    /\ pc[a] = "llm"
    /\ Goto(a, "endDrain")
    /\ UNCHANGED <<inputVars, subQ, alive, count, taskVars, loopVars, flagVars, readline,
                   delivered>>

(* Bash with background=true: count first, then start the thread. *)
StartAsyncBash(a, t) ==
    /\ pc[a] = "tools"
    /\ task[t] = "unused"
    /\ count' = [count EXCEPT ![a] = @ + 1]
    /\ task' = [task EXCEPT ![t] = "command"]
    /\ parent' = [parent EXCEPT ![t] = a]
    /\ UNCHANGED <<inputVars, subQ, alive, pc, loopVars, flagVars, readline, delivered>>

(* The SubAgent tool; only the main agent may use it (depth limit). *)
agent_handle_sub_agent(a, t) ==
    /\ pc[a] = "tools"
    /\ a = Main
    /\ task[t] = "unused"
    /\ count' = [count EXCEPT ![a] = @ + 1]
    /\ task' = [task EXCEPT ![t] = "agent"]
    /\ parent' = [parent EXCEPT ![t] = a]
    /\ Goto(t, "create")
    /\ UNCHANGED <<inputVars, subQ, alive, loopVars, flagVars, readline, delivered>>

(* Defect: the interrupt flag is not looked at after the tools. *)
ToolsIgnoreInterrupt(a) ==
    /\ pc[a] = "tools"
    /\ Goto(a, "top")
    /\ UNCHANGED <<inputVars, subQ, alive, count, taskVars, loopVars, flagVars, readline,
                   delivered>>

(* After the tools: an interrupt ends the loop, else the next turn starts. *)
ToolsDone(a) ==
    /\ pc[a] = "tools"
    /\ Goto(a, IF a = Main /\ interrupted THEN "finish" ELSE "top")
    /\ UNCHANGED <<inputVars, subQ, alive, count, taskVars, loopVars, flagVars, readline,
                   delivered>>

(* After the last answer: results that came in meanwhile get a turn. *)
EndDrained(a) ==
    /\ pc[a] = "endDrain"
    /\ subQ[a] = <<>>
    /\ Goto(a, IF drained[a] /\ ~(a = Main /\ interrupted) THEN "top" ELSE "finish")
    /\ drained' = [drained EXCEPT ![a] = FALSE]
    /\ UNCHANGED <<inputVars, subQ, alive, count, taskVars, turn, ret, flagVars, readline,
                   delivered, reply>>

(* The goal is judged after a loop of the main agent that was not interrupted *)
(* and did not use up its turns.                                             *)
Judged(a) == a = Main /\ GoalSet /\ ~interrupted /\ turn[a] < MaxTurns

LoopEnds(a) ==
    /\ pc[a] = "finish"
    /\ IF Judged(a) THEN Goto(a, "judge") /\ UNCHANGED <<turn, cancelled>> ELSE Return(a)
    /\ UNCHANGED <<inputVars, subQ, alive, count, taskVars, ret, drained, reply,
                   interrupted, running, readline, delivered>>

(* The judge's request returns, also because of Ctrl+C: http_post_sse then *)
(* reports success with what has arrived.                                  *)
JudgeAnswers(r) ==
    /\ pc[Main] = "judge"
    /\ reply' = r
    /\ Goto(Main, "verdict")
    /\ UNCHANGED <<inputVars, subQ, alive, count, taskVars, turn, ret, drained, flagVars,
                   readline, delivered>>

(* Spaces and punctuation are dropped, then the answer is compared. *)
Normalised(r) == SelectSeq(r, LAMBDA c : c \notin {"_", "."})
GoalReached(r) == Normalised(r) = Token

(* The judge failed or finds the goal reached. *)
GoalEnds ==
    /\ pc[Main] = "verdict"
    /\ reply = <<>> \/ GoalReached(reply)
    /\ reply' = <<>>
    /\ Return(Main)
    /\ UNCHANGED <<inputVars, subQ, alive, count, taskVars, ret, drained, interrupted,
                   running, readline, delivered>>

(* The judge's instruction becomes a new input, unless the queue is closed. *)
GoalContinues ==
    /\ pc[Main] = "verdict"
    /\ reply # <<>> /\ ~GoalReached(reply)
    /\ inputQ' = IF inputOpen THEN Append(inputQ, "input") ELSE inputQ
    /\ reply' = <<>>
    /\ Return(Main)
    /\ UNCHANGED <<inputOpen, inputAlive, inputs, subQ, alive, count, taskVars, ret,
                   drained, interrupted, running, readline, delivered>>

------------------------------------------------------------------------------
(* agent_wait_for_sub_agents: block for a result and run a loop for it,     *)
(* while tasks are outstanding.  agent_loop clears the interrupt flag.      *)
agent_wait_for_sub_agents(a) ==
    /\ pc[a] \in {"wait", "finalWait"}
    /\ count[a] > 0
    /\ Consume(a)
    /\ ret' = [ret EXCEPT ![a] = pc[a]]
    /\ Goto(a, "top")
    /\ interrupted' = IF a = Main THEN FALSE ELSE interrupted
    /\ UNCHANGED <<inputVars, alive, taskVars, turn, drained, reply, running, cancelled,
                   readline>>

(* Defect: an agent that does not wait for the tasks it has started. *)
WaitForNobody(a) ==
    /\ pc[a] \in {"wait", "finalWait"}
    /\ Goto(a, IF pc[a] = "finalWait" THEN "close"
               ELSE IF a = Main THEN "exitCheck" ELSE "report")
    /\ UNCHANGED <<inputVars, subQ, alive, count, taskVars, loopVars, flagVars, readline,
                   delivered>>

(* Nothing outstanding: main goes on, a sub-agent reports, the process ends. *)
WaitOver(a) ==
    /\ pc[a] \in {"wait", "finalWait"}
    /\ count[a] <= 0
    /\ Goto(a, IF pc[a] = "finalWait" THEN "close"
               ELSE IF a = Main THEN "exitCheck" ELSE "report")
    /\ UNCHANGED <<inputVars, subQ, alive, count, taskVars, loopVars, flagVars, readline,
                   delivered>>

------------------------------------------------------------------------------
(* Threads of background tasks. *)

(* async_bash_thread_fn has its output (or could not run the command). *)
AsyncBashResult(t) ==
    /\ task[t] = "command"
    /\ subQ' = [subQ EXCEPT ![parent[t]] = Append(@, t)]
    /\ task' = [task EXCEPT ![t] = "pushed"]
    /\ UNCHANGED <<inputVars, alive, count, parent, pc, loopVars, flagVars, readline,
                   delivered>>

(* sub_agent_thread_fn creates an agent with a result queue of its own and *)
(* runs its prompt, or reports that it could not.                          *)
SubAgentCreate(t) ==
    /\ task[t] = "agent" /\ pc[t] = "create"
    /\ \/ /\ Goto(t, "top")
          /\ alive' = [alive EXCEPT ![t] = TRUE]
       \/ /\ Goto(t, "report")
          /\ alive' = alive
    /\ UNCHANGED <<inputVars, subQ, count, taskVars, loopVars, flagVars, readline,
                   delivered>>

(* sub_agent_thread_fn has waited for its own tasks and reports. *)
SubAgentResult(t) ==
    /\ task[t] = "agent"
    /\ pc[t] = "report"
    /\ subQ' = [subQ EXCEPT ![parent[t]] = Append(@, t)]
    /\ task' = [task EXCEPT ![t] = "pushed"]
    /\ UNCHANGED <<inputVars, alive, count, parent, pc, loopVars, flagVars, readline,
                   delivered>>

(* Defect: a finished task does not wake the main loop. *)
EndSilently(t) ==
    /\ task[t] = "pushed"
    /\ task' = [task EXCEPT ![t] = "ended"]
    /\ alive' = [alive EXCEPT ![t] = FALSE]
    /\ pc' = [pc EXCEPT ![t] = IF pc[t] = "report" THEN "done" ELSE pc[t]]
    /\ UNCHANGED <<inputVars, subQ, count, parent, loopVars, flagVars, readline, delivered>>

(* agent_signal_notify after the push: a child of the interactive main agent *)
(* wakes the main loop up (mq_push fails on a closed queue), the others have *)
(* no input queue; then the thread frees what it owns and ends.              *)
agent_signal_notify(t) ==
    /\ task[t] = "pushed"
    /\ inputQ' = IF Interactive /\ parent[t] = Main /\ inputOpen
                   THEN Append(inputQ, "notify") ELSE inputQ
    /\ task' = [task EXCEPT ![t] = "ended"]
    /\ alive' = [alive EXCEPT ![t] = FALSE]
    /\ pc' = [pc EXCEPT ![t] = IF pc[t] = "report" THEN "done" ELSE pc[t]]
    /\ UNCHANGED <<inputOpen, inputAlive, inputs, subQ, count, parent, loopVars, flagVars,
                   readline, delivered>>

------------------------------------------------------------------------------
(* The end of main: close the input queue, join readline and the display *)
(* thread, destroy the agent and the queues.                             *)
Close ==
    /\ pc[Main] = "close"
    /\ inputOpen' = IF Interactive THEN FALSE ELSE inputOpen
    /\ Goto(Main, "destroy")
    /\ UNCHANGED <<inputQ, inputAlive, inputs, subQ, alive, count, taskVars, loopVars,
                   flagVars, readline, delivered>>

agent_destroy ==
    /\ pc[Main] = "destroy"
    /\ readline \in {"ended", "none"}
    /\ alive' = [alive EXCEPT ![Main] = FALSE]
    /\ inputAlive' = FALSE
    /\ Goto(Main, "done")
    /\ UNCHANGED <<inputQ, inputOpen, inputs, subQ, count, taskVars, loopVars, flagVars,
                   readline, delivered>>

------------------------------------------------------------------------------
ReadlineStep == ReadLine \/ (\E x \in Inject : inject_callback(x)) \/ InjectWakeup
                \/ CtrlC \/ ReadlineExit

MainStep == PopInput \/ PopNotify \/ PopClosed \/ AfterInput \/ AfterNotify \/ ExitCheck
            \/ (\E r \in Reply : JudgeAnswers(r)) \/ GoalEnds \/ GoalContinues
            \/ Close \/ agent_destroy

LoopStep(a) ==
    \/ agent_drain_sub_results(a) \/ NotifyDrained(a) \/ LoopTop(a) \/ TopDrained(a)
    \/ LlmFails(a) \/ LlmCallsTools(a) \/ LlmEnds(a) \/ ToolsDone(a) \/ EndDrained(a)
    \/ LoopEnds(a) \/ agent_wait_for_sub_agents(a) \/ WaitOver(a)
    \/ \E t \in Task : StartAsyncBash(a, t) \/ agent_handle_sub_agent(a, t)

TaskStep(t) ==
    AsyncBashResult(t) \/ SubAgentCreate(t) \/ SubAgentResult(t) \/ agent_signal_notify(t)

(* The process has returned from main. *)
Exited == pc[Main] = "done" /\ UNCHANGED vars

Next ==
    \/ ReadlineStep \/ MainStep
    \/ \E a \in Agent : LoopStep(a)
    \/ \E t \in Task : TaskStep(t)
    \/ Exited

(* Every thread keeps running, background commands and requests end (the  *)
(* latter have a timeout); the user need not type anything.               *)
Fairness ==
    /\ WF_vars(MainStep)
    /\ WF_vars(InjectWakeup)
    /\ \A a \in Agent : WF_vars(LoopStep(a))
    /\ \A t \in Task : WF_vars(TaskStep(t))

Spec == Init /\ [][Next]_vars
FairSpec == Spec /\ Fairness

------------------------------------------------------------------------------
Message == Task \cup Inject

(* Type invariant. *)
TypeOK ==
    /\ inputQ \in Seq({"input", "notify"})
    /\ inputOpen \in BOOLEAN /\ inputAlive \in BOOLEAN
    /\ subQ \in [Agent -> Seq(Message)]
    /\ alive \in [Agent -> BOOLEAN]
    /\ count \in [Agent -> Nat]
    /\ task \in [Task -> TaskPlace]
    /\ parent \in [Task -> Agent]
    /\ pc \in [Agent -> AgentPlace]
    /\ turn \in [Agent -> 0..MaxTurns]
    /\ ret \in [Agent -> ReturnPlace]
    /\ drained \in [Agent -> BOOLEAN]
    /\ reply \in Reply
    /\ interrupted \in BOOLEAN /\ running \in BOOLEAN
    /\ readline \in {"none", "reading", "injected", "ended"}
    /\ inputs \in 0..MaxInputs
    /\ delivered \subseteq Message
    /\ cancelled \in BOOLEAN

(* active_task_count is exactly the number of tasks an agent has started and *)
(* not yet taken the result of, whichever of the two kinds they are, which   *)
(* of the drains takes them and whatever else is in the queue: the loops     *)
(* that end at zero neither end early nor wait for a result already taken.   *)
TaskAccounting == \A a \in Agent : count[a] = Cardinality(Outstanding(a))

(* A thread that will still push its result finds the queue of the agent     *)
(* that started it: neither the main agent nor a sub-agent is destroyed      *)
(* while one of its tasks runs ("agent_destroy would free a queue that       *)
(* detached threads still use").                                             *)
QueueAliveWhileUsed == \A t \in Task : Working(t) => alive[parent[t]]

(* A finished task still pushes a wake-up to the input queue: the queue must *)
(* not have been destroyed.                                                  *)
NotifyQueueAlive ==
    \A t \in Task : task[t] = "pushed" /\ Interactive /\ parent[t] = Main => inputAlive

(* When the process ends the result of every task that was started has       *)
(* reached the conversation of the agent that started it: also of a command  *)
(* a sub-agent started, and of one that ended after the last drain.          *)
AllTasksDelivered ==
    pc[Main] = "done" => \A t \in Task : task[t] # "unused" => t \in delivered

(* When the process ends nothing it accepted is left in a queue: no injected *)
(* text (the last wait stops at zero tasks, so a text must have been drained *)
(* before), no line of stdin and no instruction of the goal judge.           *)
NothingLeftBehind ==
    pc[Main] = "done" =>
        subQ[Main] = <<>> /\ \A i \in 1..Len(inputQ) : inputQ[i] # "input"

(* A Ctrl+C accepted during a turn ends the agent loop: no further turn      *)
(* starts and clears the flag, whichever way the turn ends.                  *)
InterruptStops == cancelled => pc[Main] # "top"

(* The judge's GOAL_DONE ends the goal loop: no further input is queued.     *)
GoalDoneEnds ==
    [][pc[Main] = "verdict" /\ reply = Token /\ pc'[Main] # "verdict" => inputQ' = inputQ]_vars

(* A result or an injected text in the main agent's queue reaches the        *)
(* conversation although the user types nothing more: the wake-up of its     *)
(* sender, or a drain before it, takes it.                                   *)
ResultsDelivered ==
    \A m \in Message :
        (\E i \in 1..Len(subQ[Main]) : subQ[Main][i] = m) ~> m \in delivered

(* Once no input can come any more the process ends: nobody waits for a      *)
(* result that was taken by a drain, and the closed queue wakes the main     *)
(* loop.                                                                     *)
ProcessEnds == readline \in {"ended", "none"} ~> pc[Main] = "done"

(* The threads deliver the results of the tasks. *)
Delivery == INSTANCE TaskDelivery WITH
    started <- {t \in Task : task[t] # "unused"},
    owner   <- parent,
    mailbox <- subQ,
    over    <- pc[Main] = "done"

(* Refinement: the counter of active tasks, the wake-ups, the three drains    *)
(* and the two waits, of a main agent and of sub-agents with tasks of their   *)
(* own, deliver every result once, in order, to the agent that started the    *)
(* task and before that agent is done.                                        *)
ImplementsTaskDelivery == Delivery!DSpec
==============================================================================
