-------------------------- MODULE AgentRuntimeProofs --------------------------
(***************************************************************************)
(* Proofs about AgentRuntime, for any number of tasks, injected texts,     *)
(* inputs and turns, interactive or not: active_task_count is exact, no    *)
(* agent is destroyed while a thread still has a result for it, and no     *)
(* result is left behind.                                                  *)
(***************************************************************************)
EXTENDS AgentRuntime, FiniteSetTheorems, SequenceTheorems, TLAPS

(* A task in a queue is finished, belongs to the owner of the queue, has not *)
(* been consumed and is there once.                                          *)
Queued ==
    /\ \A a \in Agent : \A i \in 1..Len(subQ[a]) :
          subQ[a][i] \in Task =>
              /\ parent[subQ[a][i]] = a
              /\ task[subQ[a][i]] \in {"pushed", "ended"}
              /\ subQ[a][i] \notin delivered
    /\ \A a \in Agent : \A i, j \in 1..Len(subQ[a]) :
          subQ[a][i] \in Task /\ subQ[a][i] = subQ[a][j] => i = j
    /\ \A t \in Task : t \in delivered => task[t] \in {"pushed", "ended"}

(* Where an agent can be, and what its place says about its tasks. *)
SubPlace == {"none", "create", "top", "drain", "llm", "tools", "endDrain", "finish", "wait",
             "report", "done"}
MainPlaces ==
    /\ pc[Main] \notin {"none", "create", "report"}
    /\ pc[Main] \in {"close", "destroy", "done"} => count[Main] = 0
    /\ pc[Main] # "done" => alive[Main]
SubPlaces(t) ==
    /\ pc[t] \in SubPlace
    /\ ret[t] = "wait"
    /\ task[t] \in {"unused", "command"} => pc[t] = "none"
    /\ task[t] = "agent" => pc[t] \notin {"none", "done"} /\ parent[t] = Main
    /\ task[t] \in {"pushed", "ended"} => pc[t] \in {"none", "report", "done"}
    /\ pc[t] \in {"none", "create", "report", "done"} => count[t] = 0
    /\ task[t] = "agent" /\ pc[t] \notin {"create", "report"} => alive[t]
Places == MainPlaces /\ \A t \in Task : SubPlaces(t)

(* The inductive invariant. *)
IInv == TypeOK /\ Queued /\ Places /\ TaskAccounting

LEMMA InitIInv == Init => IInv
<1> SUFFICES ASSUME Init PROVE IInv
    OBVIOUS
<1> USE TaskAssumption, ModeAssumption, BoundAssumption
<1>1. TypeOK
    <2>1. inputs \in 0..MaxInputs
        BY DEF Init
    <2>2. inputQ = [i \in 1..inputs |-> "input"] /\ inputs \in Nat
        BY <2>1 DEF Init
    <2>3. inputQ \in [1..inputs -> {"input", "notify"}]
        BY <2>2
    <2>4. inputQ \in Seq({"input", "notify"})
        BY <2>2, <2>3, SeqDef
    <2>5. Main \in Agent /\ Task \subseteq Agent
        BY DEF Agent
    <2>6. /\ pc \in [Agent -> AgentPlace] /\ ret \in [Agent -> ReturnPlace]
          /\ task \in [Task -> TaskPlace] /\ parent \in [Task -> Agent]
        BY <2>5 DEF Init, TaskPlace, AgentPlace, ReturnPlace
    <2>7. /\ subQ \in [Agent -> Seq(Message)] /\ count \in [Agent -> Nat]
          /\ turn \in [Agent -> 0..MaxTurns]
        BY DEF Init
    <2>8. /\ alive \in [Agent -> BOOLEAN] /\ drained \in [Agent -> BOOLEAN]
          /\ readline \in {"none", "reading", "injected", "ended"} /\ reply \in Reply
        BY DEF Init, Reply
    <2> QED
        BY <2>1, <2>4, <2>6, <2>7, <2>8 DEF Init, TypeOK
<1>2. Queued
    BY DEF Init, Queued, Agent
<1>3. Places
    BY DEF Init, Places, MainPlaces, SubPlaces, Agent, SubPlace
<1>4. TaskAccounting
    <2>1. \A a \in Agent : Outstanding(a) = {}
        BY DEF Init, Outstanding
    <2> QED
        BY <2>1, FS_EmptySet DEF Init, TaskAccounting
<1> QED
    BY <1>1, <1>2, <1>3, <1>4 DEF IInv

------------------------------------------------------------------------------
(* Consume keeps the types of what it changes. *)
LEMMA ConsumeType ==
    ASSUME TypeOK, NEW a \in Agent, Consume(a)
    PROVE  /\ subQ' \in [Agent -> Seq(Message)]
           /\ count' \in [Agent -> Nat]
           /\ delivered' \subseteq Message
<1>1. subQ[a] \in Seq(Message) /\ subQ[a] # <<>>
    BY DEF TypeOK, Consume
<1>2. Head(subQ[a]) \in Message /\ Tail(subQ[a]) \in Seq(Message)
    BY <1>1
<1>3. count[a] \in Nat
    BY DEF TypeOK
<1> QED
    BY <1>2, <1>3 DEF TypeOK, Consume

(* So does the return from agent_loop. *)
LEMMA ReturnType ==
    ASSUME TypeOK, NEW a \in Agent, Return(a)
    PROVE  /\ pc' \in [Agent -> AgentPlace]
           /\ turn' \in [Agent -> 0..MaxTurns]
           /\ cancelled' \in BOOLEAN
<1>1. ret[a] \in AgentPlace
    BY DEF TypeOK, ReturnPlace, AgentPlace
<1>2. 0 \in 0..MaxTurns
    BY BoundAssumption
<1>3. cancelled' \in BOOLEAN
    <2>1. CASE a = Main
        BY <2>1 DEF Return
    <2>2. CASE a # Main
        BY <2>2 DEF Return, TypeOK
    <2> QED
        BY <2>1, <2>2
<1> QED
    BY <1>1, <1>2, <1>3 DEF Return, Goto, TypeOK

LEMMA ReadlineType == TypeOK /\ ReadlineStep => TypeOK'
<1> SUFFICES ASSUME TypeOK, ReadlineStep PROVE TypeOK'
    OBVIOUS
<1> USE TaskAssumption, ModeAssumption, BoundAssumption
    DEF TypeOK, flagVars, inputVars, taskVars, loopVars
<1>1. CASE ReadLine
    BY <1>1 DEF ReadLine
<1>2. ASSUME NEW x \in Inject, inject_callback(x) PROVE TypeOK'
    <2>1. Main \in Agent /\ x \in Message
        BY DEF Agent, Message
    <2>2. subQ' \in [Agent -> Seq(Message)]
        BY <1>2, <2>1 DEF inject_callback
    <2> QED
        BY <1>2, <2>2 DEF inject_callback
<1>3. CASE InjectWakeup
    BY <1>3 DEF InjectWakeup
<1>4. CASE CtrlC
    BY <1>4 DEF CtrlC
<1>5. CASE ReadlineExit
    BY <1>5 DEF ReadlineExit
<1> QED
    BY <1>1, <1>2, <1>3, <1>4, <1>5 DEF ReadlineStep

LEMMA MainType == TypeOK /\ MainStep => TypeOK'
<1> SUFFICES ASSUME TypeOK, MainStep PROVE TypeOK'
    OBVIOUS
<1>0. Main \in Agent
    BY DEF Agent
<1> USE <1>0, TaskAssumption, ModeAssumption, BoundAssumption
    DEF TypeOK, flagVars, inputVars, taskVars, loopVars, Goto, AgentPlace, ReturnPlace
<1>a. ASSUME inputQ # <<>> PROVE Tail(inputQ) \in Seq({"input", "notify"})
    BY <1>a
<1>1. CASE PopInput
    BY <1>1, <1>a DEF PopInput
<1>2. CASE PopNotify
    BY <1>2, <1>a DEF PopNotify
<1>3. CASE PopClosed
    BY <1>3 DEF PopClosed
<1>4. CASE AfterInput
    BY <1>4 DEF AfterInput
<1>5. CASE AfterNotify
    BY <1>5 DEF AfterNotify
<1>6. CASE ExitCheck
    BY <1>6 DEF ExitCheck
<1>7. CASE GoalEnds
    BY <1>7, ReturnType DEF GoalEnds, Reply
<1>8. CASE GoalContinues
    BY <1>8, ReturnType DEF GoalContinues, Reply
<1>9. CASE Close
    BY <1>9 DEF Close
<1>10. CASE agent_destroy
    BY <1>10 DEF agent_destroy
<1>11. ASSUME NEW r \in Reply, JudgeAnswers(r) PROVE TypeOK'
    BY <1>11 DEF JudgeAnswers
<1> QED
    BY <1>1, <1>2, <1>3, <1>4, <1>5, <1>6, <1>7, <1>8, <1>9, <1>10, <1>11 DEF MainStep

LEMMA LoopType == ASSUME TypeOK, NEW a \in Agent, LoopStep(a) PROVE TypeOK'
<1> USE TaskAssumption, ModeAssumption, BoundAssumption
    DEF TypeOK, flagVars, inputVars, taskVars, loopVars, Goto, AgentPlace, ReturnPlace
<1>1. CASE agent_drain_sub_results(a)
    BY <1>1, ConsumeType DEF agent_drain_sub_results
<1>2. CASE NotifyDrained(a)
    BY <1>2 DEF NotifyDrained
<1>3. CASE LoopTop(a)
    <2>1. CASE turn[a] < MaxTurns
        <3>1. turn[a] + 1 \in 0..MaxTurns
            BY <2>1
        <3>2. /\ turn' = [turn EXCEPT ![a] = turn[a] + 1]
              /\ interrupted' = IF a = Main THEN FALSE ELSE interrupted
              /\ pc' = [pc EXCEPT ![a] = "drain"]
            BY <1>3, <2>1 DEF LoopTop
        <3>3. turn' \in [Agent -> 0..MaxTurns] /\ pc' \in [Agent -> AgentPlace]
            BY <3>1, <3>2
        <3>4. CASE a = Main
            BY <1>3, <3>2, <3>3, <3>4 DEF LoopTop
        <3>5. CASE a # Main
            BY <1>3, <3>2, <3>3, <3>5 DEF LoopTop
        <3> QED
            BY <3>4, <3>5
    <2>2. CASE ~(turn[a] < MaxTurns)
        BY <1>3, <2>2 DEF LoopTop
    <2> QED
        BY <2>1, <2>2
<1>4. CASE TopDrained(a)
    BY <1>4 DEF TopDrained
<1>5. CASE LlmFails(a)
    BY <1>5, ReturnType DEF LlmFails
<1>6. CASE LlmCallsTools(a)
    BY <1>6 DEF LlmCallsTools
<1>7. CASE LlmEnds(a)
    BY <1>7 DEF LlmEnds
<1>8. CASE ToolsDone(a)
    BY <1>8 DEF ToolsDone
<1>9. CASE EndDrained(a)
    BY <1>9 DEF EndDrained
<1>10. CASE LoopEnds(a)
    <2>1. CASE Judged(a)
        BY <1>10, <2>1 DEF LoopEnds
    <2>2. CASE ~Judged(a)
        BY <1>10, <2>2, ReturnType DEF LoopEnds
    <2> QED
        BY <2>1, <2>2
<1>11. CASE agent_wait_for_sub_agents(a)
    BY <1>11, ConsumeType DEF agent_wait_for_sub_agents
<1>12. CASE WaitOver(a)
    BY <1>12 DEF WaitOver
<1>13. ASSUME NEW t \in Task, StartAsyncBash(a, t) PROVE TypeOK'
    BY <1>13 DEF StartAsyncBash, TaskPlace
<1>14. ASSUME NEW t \in Task, agent_handle_sub_agent(a, t) PROVE TypeOK'
    BY <1>14 DEF agent_handle_sub_agent, TaskPlace, Agent
<1> QED
    BY <1>1, <1>2, <1>3, <1>4, <1>5, <1>6, <1>7, <1>8, <1>9, <1>10, <1>11, <1>12, <1>13, <1>14
    DEF LoopStep

LEMMA TaskType == ASSUME TypeOK, NEW t \in Task, TaskStep(t) PROVE TypeOK'
<1>0. t \in Agent /\ t \in Message /\ parent[t] \in Agent
    BY DEF Agent, Message, TypeOK
<1>1. subQ \in [Agent -> Seq(Message)] => Append(subQ[parent[t]], t) \in Seq(Message)
    BY <1>0
<1> USE <1>0, <1>1, ModeAssumption
    DEF TypeOK, flagVars, inputVars, taskVars, loopVars, Goto, AgentPlace, TaskPlace
<1>2. CASE AsyncBashResult(t)
    BY <1>2 DEF AsyncBashResult
<1>3. CASE SubAgentCreate(t)
    BY <1>3 DEF SubAgentCreate
<1>4. CASE SubAgentResult(t)
    BY <1>4 DEF SubAgentResult
<1>5. CASE agent_signal_notify(t)
    BY <1>5 DEF agent_signal_notify
<1> QED
    BY <1>2, <1>3, <1>4, <1>5 DEF TaskStep

LEMMA NextType == TypeOK /\ [Next]_vars => TypeOK'
<1>1. TypeOK /\ UNCHANGED vars => TypeOK'
    BY DEF TypeOK, vars
<1> QED
    BY <1>1, ReadlineType, MainType, LoopType, TaskType DEF Next, Exited

------------------------------------------------------------------------------
(* Most steps leave the results and their accounting alone. *)
Quiet == UNCHANGED <<subQ, count, task, parent, delivered>>

LEMMA StepKinds ==
    ASSUME [Next]_vars
    PROVE  \/ Quiet
           \/ \E x \in Inject : inject_callback(x)
           \/ \E a \in Agent : Consume(a) /\ UNCHANGED <<task, parent>>
           \/ \E a \in Agent, t \in Task : StartAsyncBash(a, t) \/ agent_handle_sub_agent(a, t)
           \/ \E t \in Task : AsyncBashResult(t) \/ SubAgentResult(t) \/ agent_signal_notify(t)
<1> USE DEF Quiet, taskVars, loopVars
<1>1. UNCHANGED vars => Quiet
    BY DEF vars
<1>2. ReadlineStep => Quiet \/ \E x \in Inject : inject_callback(x)
    BY DEF ReadlineStep, ReadLine, InjectWakeup, CtrlC, ReadlineExit
<1>3. MainStep => Quiet
    BY DEF MainStep, PopInput, PopNotify, PopClosed, AfterInput, AfterNotify, ExitCheck,
           JudgeAnswers, GoalEnds, GoalContinues, Close, agent_destroy
<1>4. ASSUME NEW a \in Agent, LoopStep(a)
      PROVE  \/ Quiet
             \/ Consume(a) /\ UNCHANGED <<task, parent>>
             \/ \E t \in Task : StartAsyncBash(a, t) \/ agent_handle_sub_agent(a, t)
    BY <1>4 DEF LoopStep, agent_drain_sub_results, NotifyDrained, LoopTop, TopDrained,
           LlmFails, LlmCallsTools, LlmEnds, ToolsDone, EndDrained, LoopEnds,
           agent_wait_for_sub_agents, WaitOver
<1>5. ASSUME NEW t \in Task, TaskStep(t)
      PROVE  Quiet \/ AsyncBashResult(t) \/ SubAgentResult(t) \/ agent_signal_notify(t)
    BY <1>5 DEF TaskStep, SubAgentCreate
<1> QED
    BY <1>1, <1>2, <1>3, <1>4, <1>5 DEF Next, Exited

(* The head of a result queue that is a task is outstanding. *)
LEMMA HeadOutstanding ==
    ASSUME TypeOK, Queued, NEW a \in Agent, subQ[a] # <<>>, Head(subQ[a]) \in Task
    PROVE  Head(subQ[a]) \in Outstanding(a)
<1>1. subQ[a] \in Seq(Message)
    BY DEF TypeOK
<1>2. 1 \in 1..Len(subQ[a]) /\ Head(subQ[a]) = subQ[a][1]
    BY <1>1
<1> QED
    BY <1>2 DEF Queued, Outstanding

(* A result is added to the right queue, once, and leaves it for good. *)
LEMMA NextQueued == TypeOK /\ Queued /\ Places /\ [Next]_vars => Queued'
<1> SUFFICES ASSUME TypeOK, Queued, Places, [Next]_vars PROVE Queued'
    OBVIOUS
<1>0. \A a \in Agent : subQ[a] \in Seq(Message)
    BY DEF TypeOK
<1>1. CASE Quiet
    BY <1>1 DEF Quiet, Queued
<1>2. ASSUME NEW x \in Inject, inject_callback(x) PROVE Queued'
    <2>1. Main \in Agent /\ x \notin Task
        BY TaskAssumption DEF Agent
    <2>2. subQ' = [subQ EXCEPT ![Main] = Append(subQ[Main], x)]
        BY <1>2 DEF inject_callback
    <2>3. ASSUME NEW a \in Agent, NEW i \in 1..Len(subQ'[a]), subQ'[a][i] \in Task
          PROVE  i \in 1..Len(subQ[a]) /\ subQ'[a][i] = subQ[a][i]
        BY <1>0, <2>1, <2>2, <2>3 DEF TypeOK
    <2> QED
        BY <1>2, <2>3 DEF inject_callback, Queued, taskVars, loopVars
<1>3. ASSUME NEW b \in Agent, Consume(b), UNCHANGED <<task, parent>> PROVE Queued'
    <2> DEFINE h == Head(subQ[b])
    <2>1. /\ subQ[b] # <<>> /\ subQ' = [subQ EXCEPT ![b] = Tail(subQ[b])]
          /\ delivered' = delivered \cup {h}
        BY <1>3 DEF Consume
    <2>2. Len(subQ[b]) \in Nat /\ 1 \in 1..Len(subQ[b]) /\ h = subQ[b][1]
        BY <1>0, <2>1
    <2>3. ASSUME NEW a \in Agent, a # b PROVE subQ'[a] = subQ[a]
        BY <2>1, <2>3 DEF TypeOK
    <2>4. ASSUME NEW i \in 1..Len(subQ'[b])
          PROVE  i \in 1..Len(subQ[b]) /\ i + 1 \in 1..Len(subQ[b]) /\ subQ'[b][i] = subQ[b][i + 1]
        <3>1. subQ'[b] = Tail(subQ[b])
            BY <2>1 DEF TypeOK
        <3>2. /\ Len(Tail(subQ[b])) = Len(subQ[b]) - 1
              /\ \A k \in 1..Len(Tail(subQ[b])) : Tail(subQ[b])[k] = subQ[b][k + 1]
            BY <1>0, <2>1, HeadTailProperties
        <3> QED
            BY <2>2, <3>1, <3>2
    <2>5. ASSUME NEW a \in Agent, NEW i \in 1..Len(subQ'[a]), subQ'[a][i] \in Task
          PROVE  /\ parent[subQ'[a][i]] = a
                 /\ task[subQ'[a][i]] \in {"pushed", "ended"}
                 /\ subQ'[a][i] \notin delivered'
        <3>1. CASE a = b
            <4>1. /\ parent[subQ'[a][i]] = a
                  /\ task[subQ'[a][i]] \in {"pushed", "ended"}
                  /\ subQ'[a][i] \notin delivered
                BY <2>4, <2>5, <3>1 DEF Queued
            <4>2. subQ'[a][i] # h
                BY <2>2, <2>4, <2>5, <3>1 DEF Queued
            <4> QED
                BY <2>1, <4>1, <4>2
        <3>2. CASE a # b
            <4>1. /\ parent[subQ'[a][i]] = a
                  /\ task[subQ'[a][i]] \in {"pushed", "ended"}
                  /\ subQ'[a][i] \notin delivered
                BY <2>3, <2>5, <3>2 DEF Queued
            <4>2. h \in Task => parent[h] = b
                BY <2>2 DEF Queued
            <4> QED
                BY <2>1, <2>5, <3>2, <4>1, <4>2
        <3> QED
            BY <3>1, <3>2
    <2>6. ASSUME NEW a \in Agent, NEW i \in 1..Len(subQ'[a]), NEW j \in 1..Len(subQ'[a]),
                 subQ'[a][i] \in Task, subQ'[a][i] = subQ'[a][j]
          PROVE  i = j
        <3>1. CASE a = b
            <4>1. /\ i + 1 \in 1..Len(subQ[b]) /\ subQ'[a][i] = subQ[b][i + 1]
                  /\ j + 1 \in 1..Len(subQ[b]) /\ subQ'[a][j] = subQ[b][j + 1]
                BY <2>4, <3>1
            <4>2. i + 1 = j + 1
                BY <2>6, <4>1 DEF Queued
            <4>3. i \in Int /\ j \in Int
                BY DEF TypeOK
            <4> QED
                BY <4>2, <4>3
        <3>2. CASE a # b
            BY <2>3, <2>6, <3>2 DEF Queued
        <3> QED
            BY <3>1, <3>2
    <2>7. ASSUME NEW t \in Task, t \in delivered' PROVE task[t] \in {"pushed", "ended"}
        BY <2>1, <2>2, <2>7 DEF Queued
    <2> QED
        BY <1>3, <2>5, <2>6, <2>7 DEF Queued
<1>4. ASSUME NEW b \in Agent, NEW u \in Task, StartAsyncBash(b, u) \/ agent_handle_sub_agent(b, u)
      PROVE  Queued'
    <2>1. task[u] = "unused" /\ UNCHANGED <<subQ, delivered>>
        BY <1>4 DEF StartAsyncBash, agent_handle_sub_agent
    <2>2. ASSUME NEW t \in Task, t # u PROVE task'[t] = task[t] /\ parent'[t] = parent[t]
        BY <1>4, <2>2 DEF StartAsyncBash, agent_handle_sub_agent, TypeOK
    <2> QED
        BY <2>1, <2>2 DEF Queued
<1>5. ASSUME NEW u \in Task, AsyncBashResult(u) \/ SubAgentResult(u) PROVE Queued'
    <2> DEFINE p == parent[u]
    <2>1. /\ task[u] \in {"command", "agent"} /\ UNCHANGED <<parent, delivered>>
          /\ task' = [task EXCEPT ![u] = "pushed"]
          /\ subQ' = [subQ EXCEPT ![p] = Append(subQ[p], u)]
        BY <1>5 DEF AsyncBashResult, SubAgentResult
    <2>2. p \in Agent /\ u \notin delivered /\ Len(subQ[p]) \in Nat
        BY <1>0, <2>1 DEF TypeOK, Queued
    <2>3. ASSUME NEW a \in Agent, NEW i \in 1..Len(subQ'[a])
          PROVE  \/ i \in 1..Len(subQ[a]) /\ subQ'[a][i] = subQ[a][i]
                 \/ a = p /\ i = Len(subQ[a]) + 1 /\ subQ'[a][i] = u
        <3>1. CASE a = p
            <4>1. subQ'[a] = Append(subQ[a], u)
                BY <2>1, <3>1 DEF TypeOK
            <4>2. Len(Append(subQ[a], u)) = Len(subQ[a]) + 1
                BY <1>0
            <4> QED
                BY <1>0, <2>2, <3>1, <4>1, <4>2
        <3>2. CASE a # p
            BY <2>1, <3>2 DEF TypeOK
        <3> QED
            BY <3>1, <3>2
    <2>4. \A a \in Agent : \A i \in 1..Len(subQ[a]) : subQ[a][i] # u
        BY <2>1 DEF Queued
    <2>5. task'[u] = "pushed" /\ \A t \in Task : t # u => task'[t] = task[t]
        BY <2>1 DEF TypeOK
    <2>6. \A a \in Agent : \A i \in 1..Len(subQ'[a]) :
             subQ'[a][i] \in Task =>
                 /\ parent'[subQ'[a][i]] = a
                 /\ task'[subQ'[a][i]] \in {"pushed", "ended"}
                 /\ subQ'[a][i] \notin delivered'
        BY <2>1, <2>2, <2>3, <2>4, <2>5 DEF Queued
    <2>7. \A a \in Agent : \A i, j \in 1..Len(subQ'[a]) :
             subQ'[a][i] \in Task /\ subQ'[a][i] = subQ'[a][j] => i = j
        BY <2>3, <2>4 DEF Queued
    <2> QED
        BY <2>1, <2>5, <2>6, <2>7 DEF Queued
<1>6. ASSUME NEW u \in Task, agent_signal_notify(u) PROVE Queued'
    <2>1. task' = [task EXCEPT ![u] = "ended"] /\ UNCHANGED <<subQ, parent, delivered>>
        BY <1>6 DEF agent_signal_notify
    <2>2. task'[u] = "ended" /\ \A t \in Task : t # u => task'[t] = task[t]
        BY <2>1 DEF TypeOK
    <2> QED
        BY <2>1, <2>2 DEF Queued
<1> QED
    BY <1>1, <1>2, <1>3, <1>4, <1>5, <1>6, StepKinds

LEMMA OutstandingFinite ==
    ASSUME NEW a \in Agent
    PROVE  IsFiniteSet(Outstanding(a)) /\ Cardinality(Outstanding(a)) \in Nat
BY TaskAssumption, FS_Subset, FS_CardinalityType DEF Outstanding

(* Starting a task adds it to the outstanding ones of one agent, taking its *)
(* result removes it; nothing else changes them or the counter.             *)
LEMMA NextAccounting == TypeOK /\ Queued /\ TaskAccounting /\ [Next]_vars => TaskAccounting'
<1> SUFFICES ASSUME TypeOK, Queued, TaskAccounting, [Next]_vars PROVE TaskAccounting'
    OBVIOUS
<1>0. SUFFICES ASSUME NEW a \in Agent PROVE count'[a] = Cardinality(Outstanding(a)')
    BY DEF TaskAccounting
<1>a. count[a] = Cardinality(Outstanding(a)) /\ count[a] \in Nat
    BY DEF TaskAccounting, TypeOK
<1>1. CASE Quiet
    <2>1. Outstanding(a)' = Outstanding(a)
        BY <1>1 DEF Quiet, Outstanding
    <2> QED
        BY <1>1, <1>a, <2>1 DEF Quiet
<1>2. ASSUME NEW x \in Inject, inject_callback(x) PROVE count'[a] = Cardinality(Outstanding(a)')
    <2>1. Outstanding(a)' = Outstanding(a) /\ count' = count
        BY <1>2 DEF inject_callback, Outstanding, taskVars, loopVars
    <2> QED
        BY <1>a, <2>1
<1>3. ASSUME NEW b \in Agent, Consume(b), UNCHANGED <<task, parent>>
      PROVE  count'[a] = Cardinality(Outstanding(a)')
    <2> DEFINE h == Head(subQ[b])
    <2>1. subQ[b] # <<>> /\ delivered' = delivered \cup {h}
        BY <1>3 DEF Consume
    <2>2. Outstanding(a)' = Outstanding(a) \ {h}
        BY <1>3, <2>1 DEF Outstanding
    <2>3. h \in Task => h \in Outstanding(b)
        BY <2>1, HeadOutstanding
    <2>4. CASE h \in Task /\ a = b
        <3>1. Cardinality(Outstanding(a)') = Cardinality(Outstanding(a)) - 1
            BY <2>2, <2>3, <2>4, OutstandingFinite, FS_RemoveElement
        <3>2. Cardinality(Outstanding(a)) # 0
            BY <2>3, <2>4, OutstandingFinite, FS_EmptySet
        <3>3. count' = [count EXCEPT ![b] = count[b] - 1]
            BY <1>3, <1>a, <2>4, <3>2 DEF Consume
        <3> QED
            BY <1>a, <2>4, <3>1, <3>3 DEF TypeOK
    <2>5. CASE h \in Task /\ a # b
        <3>1. h \notin Outstanding(a)
            BY <2>3, <2>5 DEF Outstanding
        <3>2. Outstanding(a)' = Outstanding(a)
            BY <2>2, <3>1
        <3>3. count'[a] = count[a]
            BY <1>3, <2>5 DEF Consume, TypeOK
        <3> QED
            BY <1>a, <3>2, <3>3
    <2>6. CASE h \notin Task
        <3>1. Outstanding(a)' = Outstanding(a)
            BY <2>2, <2>6 DEF Outstanding
        <3>2. count' = count
            BY <1>3, <2>6 DEF Consume
        <3> QED
            BY <1>a, <3>1, <3>2
    <2> QED
        BY <2>4, <2>5, <2>6
<1>4. ASSUME NEW b \in Agent, NEW u \in Task, StartAsyncBash(b, u) \/ agent_handle_sub_agent(b, u)
      PROVE  count'[a] = Cardinality(Outstanding(a)')
    <2>1. /\ task[u] = "unused" /\ delivered' = delivered /\ parent' = [parent EXCEPT ![u] = b]
          /\ count' = [count EXCEPT ![b] = count[b] + 1]
        BY <1>4 DEF StartAsyncBash, agent_handle_sub_agent
    <2>2. /\ task'[u] # "unused" /\ parent'[u] = b
          /\ \A t \in Task : t # u => task'[t] = task[t] /\ parent'[t] = parent[t]
        BY <1>4 DEF StartAsyncBash, agent_handle_sub_agent, TypeOK
    <2>3. u \notin delivered /\ u \notin Outstanding(a)
        BY <2>1 DEF Queued, Outstanding
    <2>4. CASE a = b
        <3>1. Outstanding(a)' = Outstanding(a) \cup {u}
            BY <2>1, <2>2, <2>3, <2>4 DEF Outstanding
        <3>2. Cardinality(Outstanding(a)') = Cardinality(Outstanding(a)) + 1
            BY <2>3, <3>1, OutstandingFinite, FS_AddElement
        <3> QED
            BY <1>a, <2>1, <2>4, <3>2 DEF TypeOK
    <2>5. CASE a # b
        <3>1. Outstanding(a)' = Outstanding(a)
            BY <2>1, <2>2, <2>3, <2>5 DEF Outstanding
        <3>2. count'[a] = count[a]
            BY <2>1, <2>5 DEF TypeOK
        <3> QED
            BY <1>a, <3>1, <3>2
    <2> QED
        BY <2>4, <2>5
<1>5. ASSUME NEW u \in Task, AsyncBashResult(u) \/ SubAgentResult(u) \/ agent_signal_notify(u)
      PROVE  count'[a] = Cardinality(Outstanding(a)')
    <2>1. /\ UNCHANGED <<count, parent, delivered>>
          /\ \A t \in Task : task'[t] # "unused" <=> task[t] # "unused"
        BY <1>5 DEF AsyncBashResult, SubAgentResult, agent_signal_notify, TypeOK
    <2>2. Outstanding(a)' = Outstanding(a)
        BY <2>1 DEF Outstanding
    <2> QED
        BY <1>a, <2>1, <2>2
<1> QED
    BY <1>1, <1>2, <1>3, <1>4, <1>5, StepKinds

------------------------------------------------------------------------------
LEMMA ReadlinePlaces == TypeOK /\ Places /\ ReadlineStep => Places'
BY DEF ReadlineStep, ReadLine, inject_callback, InjectWakeup, CtrlC, ReadlineExit, Places,
       MainPlaces, SubPlaces, flagVars, inputVars, taskVars, loopVars

LEMMA MainPlacesKept == TypeOK /\ Places /\ MainStep => Places'
<1> SUFFICES ASSUME TypeOK, Places, MainStep PROVE Places'
    OBVIOUS
<1>1. Main \in Agent /\ Main \notin Task /\ Task \subseteq Agent
    BY TaskAssumption DEF Agent
<1>2. /\ UNCHANGED <<count, task, parent>>
      /\ \A t \in Task : pc'[t] = pc[t] /\ ret'[t] = ret[t] /\ alive'[t] = alive[t]
    BY <1>1 DEF MainStep, PopInput, PopNotify, PopClosed, AfterInput, AfterNotify, ExitCheck,
       JudgeAnswers, GoalEnds, GoalContinues, Close, agent_destroy, Return, Goto, taskVars, loopVars, TypeOK
<1>3. \A t \in Task : SubPlaces(t)'
    BY <1>2 DEF Places, SubPlaces
<1>4. MainPlaces'
    <2> USE <1>1 DEF Goto, TypeOK, Places, MainPlaces
    <2>1. CASE PopInput
        BY <2>1 DEF PopInput
    <2>2. CASE PopNotify
        BY <2>2 DEF PopNotify
    <2>3. CASE PopClosed
        BY <2>3 DEF PopClosed
    <2>4. CASE AfterInput
        BY <2>4 DEF AfterInput
    <2>5. CASE AfterNotify
        BY <2>5 DEF AfterNotify
    <2>6. CASE ExitCheck
        BY <2>6 DEF ExitCheck
    <2>7. CASE GoalEnds
        BY <2>7 DEF GoalEnds, Return, ReturnPlace
    <2>8. CASE GoalContinues
        BY <2>8 DEF GoalContinues, Return, ReturnPlace
    <2>9. CASE Close
        BY <2>9 DEF Close
    <2>10. CASE agent_destroy
        BY <2>10 DEF agent_destroy
    <2>11. ASSUME NEW r \in Reply, JudgeAnswers(r) PROVE MainPlaces'
        BY <2>11 DEF JudgeAnswers
    <2> QED
        BY <2>1, <2>2, <2>3, <2>4, <2>5, <2>6, <2>7, <2>8, <2>9, <2>10, <2>11 DEF MainStep
<1> QED
    BY <1>3, <1>4 DEF Places

LEMMA LoopPlaces == ASSUME TypeOK, Places, NEW a \in Agent, LoopStep(a) PROVE Places'
<1>0. Main \in Agent /\ Main \notin Task /\ Task \subseteq Agent
    BY TaskAssumption DEF Agent
<1>a. /\ pc[a] \in AgentPlace /\ ret[a] \in ReturnPlace /\ count[a] \in Nat
      /\ a # Main => a \in Task /\ SubPlaces(a)
    BY DEF TypeOK, Agent, Places
<1> DEFINE Own == /\ UNCHANGED <<alive, task, parent>>
                  /\ \A b \in Agent : b # a => /\ pc'[b] = pc[b] /\ ret'[b] = ret[b]
                                                /\ count'[b] = count[b]
           Kept == /\ a = Main => MainPlaces'
                   /\ a # Main => SubPlaces(a)'
<1>b. ASSUME Own, Kept PROVE Places'
    <2>1. MainPlaces'
        <3>1. CASE a = Main
            BY <1>b, <3>1
        <3>2. CASE a # Main
            BY <1>0, <1>b, <3>2 DEF Places, MainPlaces
        <3> QED
            BY <3>1, <3>2
    <2>2. ASSUME NEW t \in Task PROVE SubPlaces(t)'
        <3>1. CASE a = t
            BY <1>0, <1>b, <3>1
        <3>2. CASE a # t
            <4>1. pc'[t] = pc[t] /\ ret'[t] = ret[t] /\ count'[t] = count[t]
                BY <1>0, <1>b, <3>2
            <4> QED
                BY <1>b, <4>1 DEF Places, SubPlaces
        <3> QED
            BY <3>1, <3>2
    <2> QED
        BY <2>1, <2>2 DEF Places
<1> USE DEF Goto, taskVars, loopVars, TypeOK, Places, MainPlaces, SubPlaces, SubPlace, ReturnPlace
<1>1. CASE agent_drain_sub_results(a)
    <2>1. Own
        BY <1>1 DEF agent_drain_sub_results, Consume
    <2>2. pc[a] \in {"notify", "drain", "endDrain"} /\ pc' = pc /\ ret' = ret
        BY <1>1 DEF agent_drain_sub_results
    <2>3. Kept
        BY <1>0, <1>a, <2>1, <2>2
    <2> QED
        BY <1>b, <2>1, <2>3
<1>2. CASE NotifyDrained(a)
    <2>1. Own
        BY <1>2 DEF NotifyDrained
    <2>2. Kept
        BY <1>0, <1>a, <1>2, <2>1 DEF NotifyDrained
    <2> QED
        BY <1>b, <2>1, <2>2
<1>3. CASE LoopTop(a)
    <2>1. Own
        BY <1>3 DEF LoopTop
    <2>2. /\ pc[a] = "top" /\ pc'[a] \in {"drain", "finish"}
          /\ UNCHANGED <<count, ret>>
        BY <1>3 DEF LoopTop
    <2>3. Kept
        BY <1>0, <1>a, <2>1, <2>2
    <2> QED
        BY <1>b, <2>1, <2>3
<1>4. CASE TopDrained(a)
    <2>1. Own
        BY <1>4 DEF TopDrained
    <2>2. Kept
        BY <1>0, <1>a, <1>4, <2>1 DEF TopDrained
    <2> QED
        BY <1>b, <2>1, <2>2
<1>5. CASE LlmFails(a)
    <2>1. Own
        BY <1>5 DEF LlmFails, Return
    <2>2. Kept
        BY <1>0, <1>a, <1>5, <2>1 DEF LlmFails, Return
    <2> QED
        BY <1>b, <2>1, <2>2
<1>6. CASE LlmCallsTools(a)
    <2>1. Own
        BY <1>6 DEF LlmCallsTools
    <2>2. Kept
        BY <1>0, <1>a, <1>6, <2>1 DEF LlmCallsTools
    <2> QED
        BY <1>b, <2>1, <2>2
<1>7. CASE LlmEnds(a)
    <2>1. Own
        BY <1>7 DEF LlmEnds
    <2>2. Kept
        BY <1>0, <1>a, <1>7, <2>1 DEF LlmEnds
    <2> QED
        BY <1>b, <2>1, <2>2
<1>8. CASE ToolsDone(a)
    <2>1. Own
        BY <1>8 DEF ToolsDone
    <2>2. Kept
        BY <1>0, <1>a, <1>8, <2>1 DEF ToolsDone
    <2> QED
        BY <1>b, <2>1, <2>2
<1>9. CASE EndDrained(a)
    <2>1. Own
        BY <1>9 DEF EndDrained
    <2>2. Kept
        BY <1>0, <1>a, <1>9, <2>1 DEF EndDrained
    <2> QED
        BY <1>b, <2>1, <2>2
<1>10. CASE LoopEnds(a)
    <2>1. Own
        BY <1>10 DEF LoopEnds, Return
    <2>2. Kept
        <3>1. CASE Judged(a)
            BY <1>0, <1>10, <2>1, <3>1 DEF LoopEnds, Judged
        <3>2. CASE ~Judged(a)
            BY <1>0, <1>a, <1>10, <2>1, <3>2 DEF LoopEnds, Return
        <3> QED
            BY <3>1, <3>2
    <2> QED
        BY <1>b, <2>1, <2>2
<1>11. CASE agent_wait_for_sub_agents(a)
    <2>1. Own
        BY <1>11 DEF agent_wait_for_sub_agents, Consume
    <2>2. /\ pc[a] \in {"wait", "finalWait"} /\ pc'[a] = "top" /\ ret'[a] = pc[a]
          /\ UNCHANGED <<alive, task, parent>>
        BY <1>11 DEF agent_wait_for_sub_agents
    <2>3. ASSUME a = Main PROVE MainPlaces'
        BY <1>0, <2>2, <2>3
    <2>4. ASSUME a # Main PROVE SubPlaces(a)'
        <3>1. /\ a \in Task /\ task[a] = "agent" /\ pc[a] = "wait"
              /\ parent[a] = Main /\ alive[a]
            BY <1>a, <2>2, <2>4 DEF TaskPlace
        <3> QED
            BY <2>2, <2>4, <3>1
    <2>5. Kept
        BY <2>3, <2>4
    <2> QED
        BY <1>b, <2>1, <2>5
<1>12. CASE WaitOver(a)
    <2>1. Own
        BY <1>12 DEF WaitOver
    <2>2. Kept
        BY <1>0, <1>a, <1>12, <2>1 DEF WaitOver
    <2> QED
        BY <1>b, <2>1, <2>2
<1>13. ASSUME NEW u \in Task, StartAsyncBash(a, u) PROVE Places'
    <2>1. /\ a # u /\ UNCHANGED <<pc, ret, alive>> /\ pc[a] = "tools"
          /\ \A b \in Agent : b # a => count'[b] = count[b]
          /\ task'[u] = "command"
          /\ \A t \in Task : t # u => task'[t] = task[t] /\ parent'[t] = parent[t]
        BY <1>0, <1>13 DEF StartAsyncBash, TypeOK, Places, SubPlaces
    <2>2. task[u] = "unused"
        BY <1>13 DEF StartAsyncBash
    <2>3. MainPlaces'
        BY <1>0, <2>1 DEF Places, MainPlaces
    <2>4. ASSUME NEW t \in Task PROVE SubPlaces(t)'
        BY <1>0, <2>1, <2>2 DEF Places, SubPlaces
    <2> QED
        BY <2>3, <2>4 DEF Places
<1>14. ASSUME NEW u \in Task, agent_handle_sub_agent(a, u) PROVE Places'
    <2>1. /\ a = Main /\ UNCHANGED <<ret, alive>> /\ pc[a] = "tools" /\ task[u] = "unused"
          /\ \A b \in Agent : b # a => count'[b] = count[b]
          /\ pc'[u] = "create" /\ \A b \in Agent : b # u => pc'[b] = pc[b]
          /\ task'[u] = "agent" /\ parent'[u] = Main
          /\ \A t \in Task : t # u => task'[t] = task[t] /\ parent'[t] = parent[t]
        BY <1>0, <1>14 DEF agent_handle_sub_agent, Goto, TypeOK
    <2>2. MainPlaces'
        BY <1>0, <2>1 DEF Places, MainPlaces
    <2>3. ASSUME NEW t \in Task PROVE SubPlaces(t)'
        <3>1. CASE t = u
            BY <1>0, <2>1, <3>1 DEF Places, SubPlaces, SubPlace
        <3>2. CASE t # u
            <4>1. /\ t \in Agent /\ t # a
                  /\ pc'[t] = pc[t] /\ ret'[t] = ret[t] /\ count'[t] = count[t]
                  /\ task'[t] = task[t] /\ parent'[t] = parent[t] /\ alive'[t] = alive[t]
                BY <1>0, <2>1, <3>2
            <4>2. SubPlaces(t)
                OBVIOUS
            <4> QED
                BY ONLY <4>1, <4>2 DEF SubPlaces
        <3> QED
            BY <3>1, <3>2
    <2> QED
        BY <2>2, <2>3 DEF Places
<1> QED
    BY <1>1, <1>2, <1>3, <1>4, <1>5, <1>6, <1>7, <1>8, <1>9, <1>10, <1>11, <1>12, <1>13, <1>14
    DEF LoopStep

LEMMA TaskPlaces == ASSUME TypeOK, Places, NEW u \in Task, TaskStep(u) PROVE Places'
<1>0. Main \in Agent /\ Main \notin Task /\ Task \subseteq Agent /\ u # Main
    BY TaskAssumption DEF Agent
<1>1. /\ UNCHANGED <<count, parent, ret>>
      /\ \A b \in Agent : b # u => pc'[b] = pc[b] /\ alive'[b] = alive[b]
      /\ \A t \in Task : t # u => task'[t] = task[t]
    BY <1>0 DEF TaskStep, AsyncBashResult, SubAgentCreate, SubAgentResult, agent_signal_notify,
       Goto, taskVars, loopVars, TypeOK
<1>2. MainPlaces'
    BY <1>0, <1>1 DEF Places, MainPlaces
<1>3. SubPlaces(u)'
    <2> USE <1>0, <1>1 DEF TypeOK, Places, SubPlaces, SubPlace, Goto, taskVars, loopVars
    <2>1. CASE AsyncBashResult(u)
        BY <2>1 DEF AsyncBashResult
    <2>2. CASE SubAgentCreate(u)
        BY <2>2 DEF SubAgentCreate
    <2>3. CASE SubAgentResult(u)
        BY <2>3 DEF SubAgentResult
    <2>4. CASE agent_signal_notify(u)
        BY <2>4 DEF agent_signal_notify
    <2> QED
        BY <2>1, <2>2, <2>3, <2>4 DEF TaskStep
<1>4. ASSUME NEW t \in Task PROVE SubPlaces(t)'
    <2>1. CASE t = u
        BY <1>3, <2>1
    <2>2. CASE t # u
        BY <1>0, <1>1, <2>2 DEF Places, SubPlaces
    <2> QED
        BY <2>1, <2>2
<1> QED
    BY <1>2, <1>4 DEF Places

LEMMA NextPlaces == TypeOK /\ Places /\ [Next]_vars => Places'
<1>1. Places /\ UNCHANGED vars => Places'
    BY DEF Places, MainPlaces, SubPlaces, vars
<1> QED
    BY <1>1, ReadlinePlaces, MainPlacesKept, LoopPlaces, TaskPlaces DEF Next, Exited

------------------------------------------------------------------------------
LEMMA IInvAlways == Spec => []IInv
<1>1. IInv /\ [Next]_vars => IInv'
    BY NextType, NextQueued, NextPlaces, NextAccounting DEF IInv
<1> QED
    BY InitIInv, <1>1, PTL DEF Spec

(* What active_task_count says: zero means that every task the agent has    *)
(* started has been delivered.                                              *)
LEMMA ZeroMeansDelivered ==
    ASSUME IInv, NEW a \in Agent, count[a] = 0, NEW t \in Task, task[t] # "unused", parent[t] = a
    PROVE  t \in delivered
<1>1. Cardinality(Outstanding(a)) = 0
    BY DEF IInv, TaskAccounting
<1>2. Outstanding(a) = {}
    BY <1>1, OutstandingFinite, FS_EmptySet
<1> QED
    BY <1>2 DEF Outstanding

(* Every variable keeps its type and active_task_count is at all times the  *)
(* number of tasks started by the agent whose results it has not taken      *)
(* (agent.c: the increments in the Bash and SubAgent tools, the decrement   *)
(* in agent_process_sub_result), for any number of tasks and texts.         *)
THEOREM AccountingExact == Spec => [](TypeOK /\ TaskAccounting)
<1>1. IInv => TypeOK /\ TaskAccounting
    BY DEF IInv
<1> QED
    BY IInvAlways, <1>1, PTL

(* No thread pushes its result to a queue that agent_destroy has freed: the *)
(* waits before it (agent_wait_for_sub_agents in main and in                *)
(* sub_agent_thread_fn) outlast every task of the agent.                    *)
THEOREM NoPushAfterDestroy == Spec => []QueueAliveWhileUsed
<1>1. IInv => QueueAliveWhileUsed
    <2> SUFFICES ASSUME IInv, NEW t \in Task, Working(t) PROVE alive[parent[t]]
        BY DEF QueueAliveWhileUsed
    <2>1. task[t] \in {"command", "agent"} /\ parent[t] \in Agent /\ t \notin delivered
        BY DEF IInv, TypeOK, Queued, Working
    <2>2. count[parent[t]] # 0
        BY <2>1, ZeroMeansDelivered
    <2>3. CASE parent[t] = Main
        BY <2>2, <2>3 DEF IInv, Places, MainPlaces
    <2>4. CASE parent[t] # Main
        <3>1. parent[t] \in Task /\ SubPlaces(parent[t])
            BY <2>1, <2>4 DEF Agent, IInv, Places
        <3>2. task[parent[t]] \in TaskPlace
            BY <3>1 DEF IInv, TypeOK
        <3> QED
            BY <2>2, <3>1, <3>2 DEF SubPlaces, TaskPlace
    <2> QED
        BY <2>3, <2>4
<1> QED
    BY IInvAlways, <1>1, PTL

(* When main returns, every task any agent started has been delivered: a    *)
(* command of a sub-agent too, since the sub-agent waited for it before it  *)
(* reported and main waited for the sub-agent.                              *)
THEOREM NoResultLost == Spec => []AllTasksDelivered
<1>1. IInv => AllTasksDelivered
    <2> SUFFICES ASSUME IInv, pc[Main] = "done", NEW t \in Task, task[t] # "unused"
                 PROVE  t \in delivered
        BY DEF AllTasksDelivered
    <2>0. Main \in Agent /\ parent[t] \in Agent
        BY DEF Agent, IInv, TypeOK
    <2>1. count[Main] = 0
        BY DEF IInv, Places, MainPlaces
    <2>2. CASE parent[t] = Main
        BY <2>0, <2>1, <2>2, ZeroMeansDelivered
    <2>3. CASE parent[t] # Main
        <3>1. parent[t] \in Task /\ SubPlaces(parent[t]) /\ task[parent[t]] \in TaskPlace
            BY <2>0, <2>3 DEF Agent, IInv, Places, TypeOK
        <3>2. task[parent[t]] # "agent"
            <4>1. SUFFICES ASSUME task[parent[t]] = "agent" PROVE FALSE
                OBVIOUS
            <4>2. parent[parent[t]] = Main
                BY <3>1, <4>1 DEF SubPlaces
            <4>3. parent[t] \in delivered
                BY <2>0, <2>1, <3>1, <4>1, <4>2, ZeroMeansDelivered
            <4> QED
                BY <3>1, <4>1, <4>3 DEF IInv, Queued
        <3>3. count[parent[t]] = 0
            BY <3>1, <3>2 DEF SubPlaces, TaskPlace
        <3> QED
            BY <2>0, <3>3, ZeroMeansDelivered
    <2> QED
        BY <2>2, <2>3
<1> QED
    BY IInvAlways, <1>1, PTL

------------------------------------------------------------------------------
(* Interrupts: from the moment a Ctrl+C is accepted during a turn the flag   *)
(* stays set, and the main agent is in the rest of that turn.                *)
CancelInv ==
    cancelled => interrupted /\ pc[Main] \in {"drain", "llm", "tools", "endDrain", "finish"}

LEMMA CancelNext == TypeOK /\ Places /\ CancelInv /\ [Next]_vars => CancelInv'
<1> SUFFICES ASSUME TypeOK, Places, CancelInv, [Next]_vars PROVE CancelInv'
    OBVIOUS
<1>0. Main \in Agent /\ Main \notin Task /\ pc[Main] \in AgentPlace /\ ret[Main] \in ReturnPlace
    BY TaskAssumption DEF Agent, TypeOK
<1> USE <1>0 DEF CancelInv, TypeOK, flagVars, inputVars, taskVars, loopVars, Goto
<1>1. CASE UNCHANGED vars
    BY <1>1 DEF vars
<1>2. CASE ReadlineStep
    BY <1>2 DEF ReadlineStep, ReadLine, inject_callback, InjectWakeup, CtrlC, ReadlineExit
<1>3. CASE MainStep
    BY <1>3 DEF MainStep, PopInput, PopNotify, PopClosed, AfterInput, AfterNotify, ExitCheck,
       JudgeAnswers, GoalEnds, GoalContinues, Close, agent_destroy, Return
<1>4. ASSUME NEW a \in Agent, LoopStep(a) PROVE CancelInv'
    <2>1. ASSUME NEW t \in Task, StartAsyncBash(a, t) \/ agent_handle_sub_agent(a, t)
          PROVE  CancelInv'
        BY <2>1 DEF StartAsyncBash, agent_handle_sub_agent
    <2>2. CASE a # Main
        BY <1>4, <2>1, <2>2 DEF LoopStep, agent_drain_sub_results, NotifyDrained, LoopTop,
           TopDrained, LlmFails, LlmCallsTools, LlmEnds, ToolsDone, EndDrained, LoopEnds,
           agent_wait_for_sub_agents, WaitOver, Return, Judged
    <2>3. CASE a = Main
        <3>1. CASE cancelled
            BY <1>4, <2>1, <2>3, <3>1 DEF LoopStep, agent_drain_sub_results, NotifyDrained,
               LoopTop, TopDrained, LlmFails, LlmCallsTools, LlmEnds, ToolsDone, EndDrained,
               LoopEnds, agent_wait_for_sub_agents, WaitOver, Return, Judged
        <3>2. CASE ~cancelled
            <4>1. (\E t \in Task : StartAsyncBash(a, t) \/ agent_handle_sub_agent(a, t)) \/ ~cancelled'
                BY <1>4, <2>3, <3>2 DEF LoopStep, agent_drain_sub_results, NotifyDrained,
                   LoopTop, TopDrained, LlmFails, LlmCallsTools, LlmEnds, ToolsDone,
                   EndDrained, LoopEnds, agent_wait_for_sub_agents, WaitOver, Return
            <4> QED
                BY <2>1, <4>1
        <3> QED
            BY <3>1, <3>2
    <2> QED
        BY <2>2, <2>3
<1>5. ASSUME NEW t \in Task, TaskStep(t) PROVE CancelInv'
    BY <1>5 DEF TaskStep, AsyncBashResult, SubAgentCreate, SubAgentResult, agent_signal_notify
<1> QED
    BY <1>1, <1>2, <1>3, <1>4, <1>5 DEF Next, Exited

(* A Ctrl+C accepted while a turn is under way ends agent_loop: whether the  *)
(* turn is drained, asks for tools or has ended, the head of the loop, which *)
(* clears the flag, is not reached again.                                    *)
THEOREM InterruptHonoured == Spec => []InterruptStops
<1>1. Init => CancelInv
    BY DEF Init, CancelInv
<1>2. IInv /\ CancelInv /\ [Next]_vars => CancelInv'
    BY CancelNext DEF IInv
<1>3. CancelInv => InterruptStops
    BY DEF CancelInv, InterruptStops
<1> QED
    BY IInvAlways, <1>1, <1>2, <1>3, PTL DEF Spec

------------------------------------------------------------------------------
(* Leaving: after the main loop only agent_wait_for_sub_agents runs loops.   *)
LoopPlace == {"top", "drain", "llm", "tools", "endDrain", "finish", "judge", "verdict"}
LeavingLoop == ret[Main] = "finalWait" /\ pc[Main] \in LoopPlace
Leaving == pc[Main] \in {"finalWait", "close", "destroy", "done"} \/ LeavingLoop

(* The main loop is left with the input queue empty: closed, if there is a   *)
(* readline thread, else without tasks that could make a further loop.       *)
LeaveInv ==
    /\ ~inputOpen => readline = "ended"
    /\ pc[Main] = "notify" => ret[Main] = "afterNotify"
    /\ Leaving => /\ inputQ = <<>>
                  /\ Interactive => ~inputOpen
                  /\ ~Interactive => count[Main] = 0 /\ ~LeavingLoop

(* A text in the result queue is announced: its wake-up is about to be       *)
(* pushed, is in the input queue, or has just been popped.                   *)
Announced ==
    (\E i \in 1..Len(subQ[Main]) : subQ[Main][i] \in Inject) =>
        \/ readline = "injected"
        \/ pc[Main] = "notify"
        \/ \E i \in 1..Len(inputQ) : inputQ[i] = "notify"

LEMMA LeaveNext == TypeOK /\ Places /\ LeaveInv /\ [Next]_vars => LeaveInv'
<1> SUFFICES ASSUME TypeOK, Places, LeaveInv, [Next]_vars PROVE LeaveInv'
    OBVIOUS
<1>0. /\ Main \in Agent /\ Main \notin Task /\ pc[Main] \in AgentPlace
      /\ ret[Main] \in ReturnPlace /\ count[Main] \in Nat
    BY TaskAssumption DEF Agent, TypeOK
<1> USE <1>0 DEF LeaveInv, Leaving, LeavingLoop, LoopPlace, Interactive, TypeOK, flagVars,
            inputVars, taskVars, loopVars, Goto
<1>1. CASE UNCHANGED vars
    BY <1>1 DEF vars
<1>2. CASE ReadlineStep
    BY <1>2 DEF ReadlineStep, ReadLine, inject_callback, InjectWakeup, CtrlC, ReadlineExit
<1>3. CASE MainStep
    <2>1. CASE PopInput
        BY <1>3, <2>1 DEF PopInput
    <2>2. CASE PopNotify
        BY <1>3, <2>2 DEF PopNotify
    <2>3. CASE PopClosed
        BY <1>3, <2>3 DEF PopClosed
    <2>4. CASE AfterInput \/ AfterNotify
        BY <1>3, <2>4 DEF AfterInput, AfterNotify
    <2>5. CASE ExitCheck
        BY <1>3, <2>5 DEF ExitCheck
    <2>6. CASE \E r \in Reply : JudgeAnswers(r)
        BY <1>3, <2>6 DEF JudgeAnswers
    <2>7. CASE GoalEnds
        BY <1>3, <2>7 DEF GoalEnds, Return, ReturnPlace
    <2>8. CASE GoalContinues
        BY <1>3, <2>8 DEF GoalContinues, Return, ReturnPlace
    <2>9. CASE Close
        <3>1. Interactive => ~inputOpen
            BY <2>9 DEF Close
        <3>2. inputOpen' = inputOpen
            BY <2>9, <3>1 DEF Close
        <3> QED
            BY <2>9, <3>2 DEF Close
    <2>10. CASE agent_destroy
        BY <2>10 DEF agent_destroy
    <2> QED
        BY <1>3, <2>1, <2>2, <2>3, <2>4, <2>5, <2>6, <2>7, <2>8, <2>9, <2>10 DEF MainStep
<1>4. ASSUME NEW a \in Agent, LoopStep(a) PROVE LeaveInv'
    <2>1. UNCHANGED <<inputQ, inputOpen, readline>>
        BY <1>4 DEF LoopStep, agent_drain_sub_results, NotifyDrained, LoopTop, TopDrained,
           LlmFails, LlmCallsTools, LlmEnds, ToolsDone, EndDrained, LoopEnds,
           agent_wait_for_sub_agents, WaitOver, StartAsyncBash, agent_handle_sub_agent
    <2>2. CASE a # Main
        <3>1. pc'[Main] = pc[Main] /\ ret'[Main] = ret[Main] /\ count'[Main] = count[Main]
            BY <1>4, <2>2 DEF LoopStep, agent_drain_sub_results, NotifyDrained, LoopTop,
               TopDrained, LlmFails, LlmCallsTools, LlmEnds, ToolsDone, EndDrained, LoopEnds,
               agent_wait_for_sub_agents, WaitOver, StartAsyncBash, agent_handle_sub_agent,
               Consume, Return
        <3> QED
            BY <2>1, <3>1
    <2>3. CASE a = Main
        <3>1. CASE agent_drain_sub_results(a)
            BY <2>1, <2>3, <3>1 DEF agent_drain_sub_results, Consume
        <3>2. CASE agent_wait_for_sub_agents(a)
            BY <2>1, <2>3, <3>2 DEF agent_wait_for_sub_agents, Consume
        <3>3. CASE WaitOver(a)
            BY <2>1, <2>3, <3>3 DEF WaitOver
        <3>4. CASE NotifyDrained(a)
            <4>1. CASE drained[a]
                BY <2>1, <2>3, <3>4, <4>1 DEF NotifyDrained
            <4>2. CASE ~drained[a]
                BY <2>1, <2>3, <3>4, <4>2 DEF NotifyDrained
            <4> QED
                BY <4>1, <4>2
        <3>5. CASE LlmFails(a) \/ LoopEnds(a)
            BY <2>1, <2>3, <3>5 DEF LlmFails, LoopEnds, Return, ReturnPlace
        <3>6. CASE LoopTop(a) \/ TopDrained(a) \/ LlmCallsTools(a) \/ LlmEnds(a)
                   \/ ToolsDone(a) \/ EndDrained(a)
            BY <2>1, <2>3, <3>6 DEF LoopTop, TopDrained, LlmCallsTools, LlmEnds, ToolsDone,
               EndDrained
        <3>7. ASSUME NEW t \in Task, StartAsyncBash(a, t) \/ agent_handle_sub_agent(a, t)
              PROVE  LeaveInv'
            BY <2>1, <2>3, <3>7 DEF StartAsyncBash, agent_handle_sub_agent
        <3> QED
            BY <1>4, <3>1, <3>2, <3>3, <3>4, <3>5, <3>6, <3>7 DEF LoopStep
    <2> QED
        BY <2>2, <2>3
<1>5. ASSUME NEW t \in Task, TaskStep(t) PROVE LeaveInv'
    <2>1. /\ UNCHANGED <<inputOpen, readline, ret, count>> /\ pc'[Main] = pc[Main]
          /\ inputQ' = inputQ \/ (Interactive /\ inputOpen)
        BY <1>5 DEF TaskStep, AsyncBashResult, SubAgentCreate, SubAgentResult,
           agent_signal_notify
    <2> QED
        BY <2>1
<1> QED
    BY <1>1, <1>2, <1>3, <1>4, <1>5 DEF Next, Exited

(* A wake-up at position i stays in the input queue until it is popped. *)
LEMMA NotifyKept ==
    ASSUME TypeOK, NEW m \in {"input", "notify"},
           \/ inputQ' = inputQ \/ inputQ' = Append(inputQ, m)
           \/ inputQ # <<>> /\ Head(inputQ) = "input" /\ inputQ' = Tail(inputQ),
           \E i \in 1..Len(inputQ) : inputQ[i] = "notify"
    PROVE  \E i \in 1..Len(inputQ') : inputQ'[i] = "notify"
<1>0. PICK i \in 1..Len(inputQ) : inputQ[i] = "notify"
    OBVIOUS
<1>1. inputQ \in Seq({"input", "notify"}) /\ Len(inputQ) \in Nat
    BY DEF TypeOK
<1>2. CASE inputQ' = inputQ
    BY <1>0, <1>2
<1>3. CASE inputQ' = Append(inputQ, m)
    <2>1. i \in 1..Len(inputQ') /\ inputQ'[i] = inputQ[i]
        BY <1>1, <1>3
    <2> QED
        BY <1>0, <2>1
<1>4. CASE inputQ # <<>> /\ Head(inputQ) = "input" /\ inputQ' = Tail(inputQ)
    <2>1. i # 1
        BY <1>0, <1>1, <1>4
    <2>2. i - 1 \in 1..Len(inputQ') /\ inputQ'[i - 1] = inputQ[i]
        BY <1>1, <1>4, <2>1
    <2> QED
        BY <1>0, <2>2
<1> QED
    BY <1>2, <1>3, <1>4

LEMMA AnnouncedNext == TypeOK /\ Places /\ Announced /\ [Next]_vars => Announced'
<1> SUFFICES ASSUME TypeOK, Places, Announced, [Next]_vars PROVE Announced'
    OBVIOUS
<1> DEFINE Text == \E i \in 1..Len(subQ[Main]) : subQ[Main][i] \in Inject
           Notified == \E i \in 1..Len(inputQ) : inputQ[i] = "notify"
<1>0. /\ Main \in Agent /\ Main \notin Task /\ pc[Main] \in AgentPlace
      /\ subQ[Main] \in Seq(Message) /\ inputQ \in Seq({"input", "notify"})
    BY TaskAssumption DEF Agent, TypeOK
<1>a. ASSUME NEW a \in Agent, Consume(a), Text' PROVE Text
    <2>1. CASE a # Main
        BY <1>0, <1>a, <2>1 DEF Consume, TypeOK
    <2>2. CASE a = Main
        <3>1. PICK i \in 1..Len(subQ'[Main]) : subQ'[Main][i] \in Inject
            BY <1>a
        <3>2. subQ'[Main] = Tail(subQ[Main]) /\ subQ[Main] # <<>>
            BY <1>0, <1>a, <2>2 DEF Consume, TypeOK
        <3>3. i + 1 \in 1..Len(subQ[Main]) /\ subQ'[Main][i] = subQ[Main][i + 1]
            BY <1>0, <3>2
        <3> QED
            BY <3>1, <3>3
    <2> QED
        BY <2>1, <2>2
<1>b. ASSUME NEW t \in Task, subQ' = [subQ EXCEPT ![parent[t]] = Append(@, t)], Text'
      PROVE  Text
    <2>1. t \notin Inject
        BY TaskAssumption
    <2>2. CASE parent[t] # Main
        BY <1>0, <1>b, <2>2 DEF TypeOK
    <2>3. CASE parent[t] = Main
        <3>1. PICK i \in 1..Len(subQ'[Main]) : subQ'[Main][i] \in Inject
            BY <1>b
        <3>2. subQ'[Main] = Append(subQ[Main], t)
            BY <1>0, <1>b, <2>3 DEF TypeOK
        <3>3. Len(subQ'[Main]) = Len(subQ[Main]) + 1 /\ Len(subQ[Main]) \in Nat
            BY <1>0, <3>2
        <3>4. i # Len(subQ[Main]) + 1
            BY <1>0, <2>1, <3>1, <3>2
        <3>5. i \in 1..Len(subQ[Main])
            BY <3>1, <3>3, <3>4
        <3>6. subQ'[Main][i] = subQ[Main][i]
            BY <1>0, <3>2, <3>5
        <3> QED
            BY <3>1, <3>5, <3>6
    <2> QED
        BY <2>2, <2>3
<1>c. ASSUME Text' => Text, readline' = readline \/ readline # "injected",
             pc'[Main] = pc[Main] \/ pc[Main] # "notify", Notified => Notified'
      PROVE  Announced'
    BY <1>c DEF Announced
<1>d. ASSUME NEW m \in {"input", "notify"}, inputQ' = inputQ \/ inputQ' = Append(inputQ, m)
      PROVE  Notified => Notified'
    BY <1>d, NotifyKept
<1>e. UNCHANGED <<subQ>> => (Text' => Text)
    OBVIOUS
<1>f. inputQ' = inputQ => (Notified => Notified')
    OBVIOUS
<1>g. Text => readline = "injected" \/ pc[Main] = "notify" \/ Notified
    BY DEF Announced
<1>h. (Text' => readline' = "injected" \/ pc'[Main] = "notify" \/ Notified') => Announced'
    BY DEF Announced
<1> HIDE DEF Text, Notified
<1> USE <1>0 DEF flagVars, inputVars, taskVars, loopVars, Goto
<1>1. CASE UNCHANGED vars
    BY <1>1, <1>c, <1>e, <1>f DEF vars
<1>2. CASE ReadlineStep
    <2>1. CASE ReadLine
        BY <2>1, <1>c, <1>d, <1>e DEF ReadLine
    <2>2. CASE \E x \in Inject : inject_callback(x)
        BY <2>2, <1>h DEF inject_callback
    <2>3. CASE InjectWakeup
        <3>1. inputQ' = Append(inputQ, "notify")
            BY <2>3 DEF InjectWakeup
        <3>2. Len(inputQ) + 1 \in 1..Len(inputQ') /\ inputQ'[Len(inputQ) + 1] = "notify"
            BY <3>1
        <3> QED
            BY <3>2 DEF Announced
    <2>4. CASE CtrlC \/ ReadlineExit
        BY <2>4, <1>c, <1>e, <1>f DEF CtrlC, ReadlineExit
    <2> QED
        BY <1>2, <2>1, <2>2, <2>3, <2>4 DEF ReadlineStep
<1>3. CASE MainStep
    <2>1. CASE PopInput
        <3>1. inputQ # <<>> /\ Head(inputQ) = "input" /\ inputQ' = Tail(inputQ)
            BY <2>1 DEF PopInput
        <3>2. Notified => Notified'
            BY <3>1, NotifyKept DEF Notified
        <3> QED
            BY <2>1, <3>2, <1>c, <1>e DEF PopInput
    <2>2. CASE PopNotify
        <3>1. pc'[Main] = "notify"
            BY <2>2 DEF PopNotify, TypeOK
        <3> QED
            BY <3>1 DEF Announced
    <2>3. CASE GoalContinues
        BY <2>3, <1>c, <1>d, <1>e, <1>f DEF GoalContinues
    <2>4. CASE PopClosed \/ AfterInput \/ AfterNotify \/ ExitCheck
               \/ (\E r \in Reply : JudgeAnswers(r)) \/ GoalEnds \/ Close \/ agent_destroy
        BY <2>4, <1>c, <1>e, <1>f DEF PopClosed, AfterInput, AfterNotify, ExitCheck,
           JudgeAnswers, GoalEnds, Close, agent_destroy
    <2> QED
        BY <1>3, <2>1, <2>2, <2>3, <2>4 DEF MainStep
<1>4. ASSUME NEW a \in Agent, LoopStep(a) PROVE Announced'
    <2>1. /\ UNCHANGED <<inputQ, readline>>
          /\ Consume(a) \/ UNCHANGED subQ
        BY <1>4 DEF LoopStep, agent_drain_sub_results, NotifyDrained, LoopTop, TopDrained,
           LlmFails, LlmCallsTools, LlmEnds, ToolsDone, EndDrained, LoopEnds,
           agent_wait_for_sub_agents, WaitOver, StartAsyncBash, agent_handle_sub_agent
    <2>2. CASE NotifyDrained(a) /\ a = Main
        <3>1. subQ'[Main] = <<>>
            BY <2>2 DEF NotifyDrained
        <3> QED
            BY <3>1 DEF Announced
    <2>3. CASE ~(NotifyDrained(a) /\ a = Main)
        <3>1. pc'[Main] = pc[Main] \/ pc[Main] # "notify"
            BY <1>4, <2>3 DEF LoopStep, agent_drain_sub_results, NotifyDrained, LoopTop,
               TopDrained, LlmFails, LlmCallsTools, LlmEnds, ToolsDone, EndDrained, LoopEnds,
               agent_wait_for_sub_agents, WaitOver, StartAsyncBash, agent_handle_sub_agent,
               Return, TypeOK
        <3> QED
            BY <2>1, <3>1, <1>a, <1>c, <1>e, <1>f
    <2> QED
        BY <2>2, <2>3
<1>5. ASSUME NEW t \in Task, TaskStep(t) PROVE Announced'
    <2>1. readline' = readline /\ pc'[Main] = pc[Main]
        BY <1>5 DEF TaskStep, AsyncBashResult, SubAgentCreate, SubAgentResult,
           agent_signal_notify, TypeOK
    <2>2. Text' => Text
        BY <1>5, <1>b, <1>e DEF TaskStep, AsyncBashResult, SubAgentCreate, SubAgentResult,
           agent_signal_notify
    <2>3. inputQ' = inputQ \/ inputQ' = Append(inputQ, "notify")
        BY <1>5 DEF TaskStep, AsyncBashResult, SubAgentCreate, SubAgentResult,
           agent_signal_notify
    <2> QED
        BY <2>1, <2>2, <2>3, <1>c, <1>d
<1> QED
    BY <1>1, <1>2, <1>3, <1>4, <1>5 DEF Next, Exited

LEMMA LeaveInit == Init => LeaveInv /\ Announced
<1> SUFFICES ASSUME Init PROVE LeaveInv /\ Announced
    OBVIOUS
<1>1. subQ[Main] = <<>> /\ pc[Main] = "pop"
    BY DEF Init, Agent
<1> QED
    BY <1>1 DEF Init, LeaveInv, Leaving, LeavingLoop, LoopPlace, Announced

(* When main returns, no injected text, no line of stdin and no instruction  *)
(* of the goal judge is left in a queue: the wake-up that follows an         *)
(* injected text makes the main loop drain it, the main loop is left only    *)
(* with an empty input queue, and the last wait takes every task.            *)
THEOREM QueuesEmptyAtExit == Spec => []NothingLeftBehind
<1>1. Init => LeaveInv /\ Announced
    BY LeaveInit
<1>2. IInv /\ (LeaveInv /\ Announced) /\ [Next]_vars => (LeaveInv /\ Announced)'
    BY LeaveNext, AnnouncedNext DEF IInv
<1>3. IInv /\ (LeaveInv /\ Announced) => NothingLeftBehind
    <2> SUFFICES ASSUME IInv, LeaveInv, Announced, pc[Main] = "done"
                 PROVE  subQ[Main] = <<>> /\ \A i \in 1..Len(inputQ) : inputQ[i] # "input"
        BY DEF NothingLeftBehind
    <2>1. /\ Main \in Agent /\ subQ[Main] \in Seq(Message) /\ Len(subQ[Main]) \in Nat
          /\ readline \in {"none", "reading", "injected", "ended"}
        BY DEF IInv, TypeOK, Agent
    <2>2. inputQ = <<>> /\ readline # "injected"
        BY <2>1 DEF LeaveInv, Leaving, Interactive
    <2>3. \A i \in 1..Len(subQ[Main]) : subQ[Main][i] \notin Inject
        BY <2>2 DEF Announced
    <2>4. count[Main] = 0
        BY DEF IInv, Places, MainPlaces
    <2>5. ASSUME NEW i \in 1..Len(subQ[Main]) PROVE FALSE
        <3>1. subQ[Main][i] \in Task
            BY <2>1, <2>3 DEF Message
        <3>2. /\ parent[subQ[Main][i]] = Main /\ subQ[Main][i] \notin delivered
              /\ task[subQ[Main][i]] # "unused"
            BY <2>1, <3>1 DEF IInv, Queued
        <3> QED
            BY <2>1, <2>4, <3>1, <3>2, ZeroMeansDelivered
    <2> QED
        BY <2>1, <2>2, <2>5
<1> QED
    BY IInvAlways, <1>1, <1>2, <1>3, PTL DEF Spec
------------------------------------------------------------------------------
(* The delivery of results. *)

Over == pc[Main] = "done"
Started == {t \in Task : task[t] # "unused"}

(* The steps by what they do to the tasks and their results; the end of the *)
(* process is one of them.                                                  *)
LEMMA DeliveryKinds ==
    ASSUME TypeOK, [Next]_vars
    PROVE  \/ Quiet /\ Over' = Over
           \/ agent_destroy
           \/ \E x \in Inject : inject_callback(x)
           \/ \E a \in Agent : agent_drain_sub_results(a) \/ agent_wait_for_sub_agents(a)
           \/ \E a \in Agent, t \in Task : StartAsyncBash(a, t) \/ agent_handle_sub_agent(a, t)
           \/ \E t \in Task : AsyncBashResult(t) \/ SubAgentResult(t) \/ agent_signal_notify(t)
<1>0. /\ Main \in Agent /\ Main \notin Task /\ Task \subseteq Agent
      /\ pc \in [Agent -> AgentPlace] /\ ret \in [Agent -> ReturnPlace]
    BY TaskAssumption DEF Agent, TypeOK
<1> USE DEF Quiet, taskVars, loopVars, flagVars, inputVars, Over, Goto
<1>1. CASE UNCHANGED vars
    BY <1>1 DEF vars
<1>2. CASE ReadlineStep
    BY <1>2 DEF ReadlineStep, ReadLine, inject_callback, InjectWakeup, CtrlC, ReadlineExit
<1>3. CASE MainStep
    <2>1. CASE GoalEnds \/ GoalContinues
        BY <1>0, <2>1 DEF GoalEnds, GoalContinues, Return, ReturnPlace
    <2>2. CASE PopInput \/ PopNotify \/ PopClosed \/ AfterInput \/ AfterNotify
        BY <1>0, <2>2 DEF PopInput, PopNotify, PopClosed, AfterInput, AfterNotify
    <2>3. CASE ExitCheck \/ (\E r \in Reply : JudgeAnswers(r)) \/ Close
        BY <1>0, <2>3 DEF ExitCheck, JudgeAnswers, Close
    <2> QED
        BY <1>3, <2>1, <2>2, <2>3 DEF MainStep
<1>4. ASSUME NEW a \in Agent, LoopStep(a)
      PROVE  \/ Quiet /\ Over' = Over
             \/ agent_drain_sub_results(a) \/ agent_wait_for_sub_agents(a)
             \/ \E t \in Task : StartAsyncBash(a, t) \/ agent_handle_sub_agent(a, t)
    <2>1. CASE LlmFails(a) \/ LoopEnds(a)
        BY <1>0, <2>1 DEF LlmFails, LoopEnds, Return, ReturnPlace
    <2>2. CASE NotifyDrained(a)
        BY <1>0, <2>2 DEF NotifyDrained, ReturnPlace
    <2>3. CASE LoopTop(a) \/ TopDrained(a) \/ LlmCallsTools(a) \/ LlmEnds(a)
        BY <1>0, <2>3 DEF LoopTop, TopDrained, LlmCallsTools, LlmEnds
    <2>4. CASE ToolsDone(a) \/ EndDrained(a) \/ WaitOver(a)
        BY <1>0, <2>4 DEF ToolsDone, EndDrained, WaitOver
    <2> QED
        BY <1>4, <2>1, <2>2, <2>3, <2>4 DEF LoopStep
<1>5. ASSUME NEW t \in Task, TaskStep(t)
      PROVE  \/ Quiet /\ Over' = Over
             \/ AsyncBashResult(t) \/ SubAgentResult(t) \/ agent_signal_notify(t)
    BY <1>0, <1>5 DEF TaskStep, SubAgentCreate
<1>6. CASE Exited
    BY <1>6 DEF Exited, vars
<1> QED
    BY <1>1, <1>2, <1>3, <1>4, <1>5, <1>6 DEF Next

LEMMA DeliveryInit == Init => Delivery!DInit
<1> SUFFICES ASSUME Init PROVE Delivery!DInit
    OBVIOUS
<1>1. {t \in Task : task[t] # "unused"} = {} /\ pc[Main] # "done"
    BY DEF Init, Agent
<1>2. parent \in [Task -> Agent]
    BY DEF Init, Agent
<1> QED
    BY <1>1, <1>2 DEF Init, Delivery!DInit, Delivery!Agents, Agent

(* A working task has not handed in its result, an agent that acts is not done. *)
LEMMA NotFinished ==
    ASSUME IInv, NEW t \in Task, Working(t)
    PROVE  t \in Started /\ ~Delivery!Finished(t)
<1>1. t \notin delivered
    BY DEF IInv, Queued, Working
<1>2. parent[t] \in Agent
    BY DEF IInv, TypeOK
<1>3. ASSUME NEW i \in 1..Len(subQ[parent[t]]) PROVE subQ[parent[t]][i] # t
    BY <1>2 DEF IInv, Queued, Working
<1> QED
    BY <1>1, <1>3 DEF Delivery!Finished, Started, Working

LEMMA ActiveAgent ==
    ASSUME IInv, NEW a \in Agent,
           pc[a] \in {"notify", "drain", "tools", "endDrain", "wait", "finalWait"}
    PROVE  Delivery!Active(a)
<1>1. CASE a = Main
    BY <1>1 DEF Delivery!Active
<1>2. CASE a # Main
    <2>1. a \in Task /\ SubPlaces(a) /\ task[a] \in TaskPlace
        BY <1>2 DEF Agent, IInv, Places, TypeOK
    <2>2. Working(a)
        BY <2>1 DEF SubPlaces, SubPlace, TaskPlace, Working
    <2>3. a \in Started /\ ~Delivery!Finished(a)
        BY <2>1, <2>2, NotFinished
    <2> QED
        BY <1>2, <2>3 DEF Delivery!Active, Started
<1> QED
    BY <1>1, <1>2

(* Every step of the threads is a step of the delivery, or none. *)
LEMMA DeliveryNext ==
    IInv /\ LeaveInv /\ (AllTasksDelivered /\ NothingLeftBehind)' /\ [Next]_vars
        => [Delivery!DNext]_(Delivery!dvars)
<1> SUFFICES ASSUME IInv, LeaveInv, AllTasksDelivered', NothingLeftBehind', [Next]_vars
             PROVE  Delivery!DNext \/ UNCHANGED Delivery!dvars
    OBVIOUS
<1>t. /\ Main \in Agent /\ Main \notin Task /\ Task \subseteq Agent /\ Delivery!Agents = Agent
      /\ pc \in [Agent -> AgentPlace] /\ task \in [Task -> TaskPlace]
      /\ parent \in [Task -> Agent] /\ subQ \in [Agent -> Seq(Message)]
    BY TaskAssumption DEF Agent, Delivery!Agents, IInv, TypeOK
<1>u. ASSUME Quiet, Over' = Over PROVE UNCHANGED Delivery!dvars
    BY <1>u DEF Quiet, Over, Delivery!dvars
<1>1. CASE agent_destroy
    <2>1. /\ pc[Main] # "done" /\ pc'[Main] = "done"
          /\ UNCHANGED <<subQ, task, parent, delivered>>
        BY <1>1, <1>t DEF agent_destroy, Goto, taskVars
    <2>2. Started \subseteq delivered /\ subQ[Main] = <<>>
        BY <2>1 DEF AllTasksDelivered, NothingLeftBehind, Started
    <2>3. Delivery!DEnd
        BY <2>1, <2>2 DEF Delivery!DEnd, Started
    <2> QED
        BY <2>3 DEF Delivery!DNext
<1>2. ASSUME NEW x \in Inject, inject_callback(x) PROVE Delivery!DNext
    <2>1. readline = "reading" /\ subQ' = [subQ EXCEPT ![Main] = Append(@, x)]
          /\ UNCHANGED <<task, parent, delivered, pc>>
        BY <1>2 DEF inject_callback, taskVars
    <2>2. pc[Main] # "done"
        BY <2>1 DEF LeaveInv, Leaving, Interactive
    <2>3. Delivery!DInject(x)
        BY <2>1, <2>2 DEF Delivery!DInject, Delivery!Active
    <2> QED
        BY <2>3 DEF Delivery!DNext
<1>3. ASSUME NEW a \in Agent, agent_drain_sub_results(a) \/ agent_wait_for_sub_agents(a)
      PROVE  Delivery!DNext
    <2>1. /\ pc[a] \in {"notify", "drain", "endDrain", "wait", "finalWait"}
          /\ Consume(a) /\ UNCHANGED <<task, parent>>
        BY <1>3 DEF agent_drain_sub_results, agent_wait_for_sub_agents, taskVars
    <2>2. (pc'[Main] = "done") = (pc[Main] = "done")
        <3>1. CASE agent_drain_sub_results(a)
            BY <3>1 DEF agent_drain_sub_results
        <3>2. CASE agent_wait_for_sub_agents(a)
            BY <3>2, <1>t DEF agent_wait_for_sub_agents, Goto
        <3> QED
            BY <1>3, <3>1, <3>2
    <2>3. Delivery!Active(a)
        BY <2>1, ActiveAgent
    <2>4. Delivery!DDeliver(a)
        BY <2>1, <2>2, <2>3 DEF Delivery!DDeliver, Consume
    <2> QED
        BY <2>4, <1>t DEF Delivery!DNext
<1>4. ASSUME NEW a \in Agent, NEW t \in Task, StartAsyncBash(a, t) \/ agent_handle_sub_agent(a, t)
      PROVE  Delivery!DNext
    <2>1. /\ pc[a] = "tools" /\ task[t] = "unused"
          /\ \E kind \in {"command", "agent"} : task' = [task EXCEPT ![t] = kind]
          /\ parent' = [parent EXCEPT ![t] = a]
          /\ UNCHANGED <<subQ, delivered>>
        BY <1>4 DEF StartAsyncBash, agent_handle_sub_agent
    <2>2. (pc'[Main] = "done") = (pc[Main] = "done")
        <3>1. CASE StartAsyncBash(a, t)
            BY <3>1 DEF StartAsyncBash
        <3>2. CASE agent_handle_sub_agent(a, t)
            BY <3>2, <1>t DEF agent_handle_sub_agent, Goto
        <3> QED
            BY <1>4, <3>1, <3>2
    <2>3. {u \in Task : task'[u] # "unused"} = {u \in Task : task[u] # "unused"} \cup {t}
        BY <2>1, <1>t
    <2>4. Delivery!Active(a)
        BY <2>1, ActiveAgent
    <2>5. Delivery!DStart(a, t)
        BY <2>1, <2>2, <2>3, <2>4 DEF Delivery!DStart
    <2> QED
        BY <2>5, <1>t DEF Delivery!DNext
<1>5. ASSUME NEW t \in Task, AsyncBashResult(t) \/ SubAgentResult(t) PROVE Delivery!DNext
    <2>1. /\ Working(t)
          /\ subQ' = [subQ EXCEPT ![parent[t]] = Append(@, t)]
          /\ task' = [task EXCEPT ![t] = "pushed"]
          /\ UNCHANGED <<parent, delivered, pc>>
        BY <1>5 DEF AsyncBashResult, SubAgentResult, Working
    <2>2. {u \in Task : task'[u] # "unused"} = {u \in Task : task[u] # "unused"}
        BY <2>1, <1>t DEF Working
    <2>3. t \in Started /\ ~Delivery!Finished(t)
        BY <2>1, NotFinished
    <2>4. count[t] = 0
        <3>1. SubPlaces(t)
            BY DEF IInv, Places
        <3>2. pc[t] \in {"none", "report"}
            BY <1>5, <3>1 DEF AsyncBashResult, SubAgentResult, SubPlaces
        <3> QED
            BY <3>1, <3>2 DEF SubPlaces
    <2>5. ASSUME NEW u \in Task, task[u] # "unused", parent[u] = t PROVE u \in delivered
        BY <2>4, <2>5, <1>t, ZeroMeansDelivered
    <2>6. Delivery!AllIn(t)
        BY <2>5 DEF Delivery!AllIn
    <2>7. Delivery!DFinish(t)
        BY <2>1, <2>2, <2>3, <2>6 DEF Delivery!DFinish, Started
    <2> QED
        BY <2>7 DEF Delivery!DNext
<1>6. ASSUME NEW t \in Task, agent_signal_notify(t) PROVE UNCHANGED Delivery!dvars
    <2>1. /\ task[t] = "pushed" /\ task' = [task EXCEPT ![t] = "ended"]
          /\ UNCHANGED <<subQ, parent, delivered>> /\ pc'[Main] = pc[Main]
        BY <1>6, <1>t DEF agent_signal_notify
    <2>2. {u \in Task : task'[u] # "unused"} = {u \in Task : task[u] # "unused"}
        BY <2>1, <1>t
    <2> QED
        BY <2>1, <2>2 DEF Delivery!dvars
<1> QED
    BY <1>u, <1>1, <1>2, <1>3, <1>4, <1>5, <1>6, DeliveryKinds DEF IInv

(* The counter of active tasks, the wake-ups, the drains at three places and *)
(* the two waits deliver the result of every task once, in the order of      *)
(* their ends, to the agent that started it and before that agent is done;   *)
(* the process ends with nothing started or sent left behind.                *)
THEOREM RuntimeDeliversTasks == Spec => ImplementsTaskDelivery
<1>1. Spec => [](IInv /\ LeaveInv)
    <2>1. IInv /\ LeaveInv /\ [Next]_vars => LeaveInv'
        BY LeaveNext DEF IInv
    <2> QED
        BY IInvAlways, LeaveInit, <2>1, PTL DEF Spec
<1> QED
    BY <1>1, NoResultLost, QueuesEmptyAtExit, DeliveryInit, DeliveryNext, PTL
       DEF Spec, ImplementsTaskDelivery, Delivery!DSpec
==============================================================================
