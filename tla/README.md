# Formal models of bash-agent (C port)

bash-agent is a command-line coding agent: it reads instructions, sends the
conversation to a model provider, executes the tool calls in the answer and
repeats. The repository holds the original Bash program and ports of it. These
models are of the C port, `src/c`, where the Bash version's processes and FIFOs
are threads and queues.

Contents: [inventory](#inventory), [modules](#modules), [runs](#runs),
[fairness](#fairness), [proofs](#proofs), [findings](#findings),
[not modelled](#not-modelled), [plan](#plan), [how to run](#how-to-run).

## Inventory

| Component | State | Operations | Hard behaviour | What makes it correct |
|---|---|---|---|---|
| Message queue (`msgqueue.c`) | linked list, `count`, `closed`, mutex, condition variable | `mq_push`, `mq_pop`, `mq_try_pop`, `mq_close`, `mq_destroy` | several poppers, one signal per push, a close while poppers sleep, use of a node after the unlock | it is a FIFO; no wake-up is lost; a close releases everybody |
| Process runtime (`cagent.c`, `agent.c`, `readline.c`) | `input_queue`, a `sub_result_queue` and an `active_task_count` per agent, `interrupted`, `running` | `agent_main_loop`, `agent_loop`, the drains, `async_bash_thread_fn`, `sub_agent_thread_fn`, the goal judge, Ctrl+C, Ctrl+O, exit | detached threads that hold pointers to queues, sub-agents with tasks of their own, results that arrive while the agent is idle, exit while tasks run | the counter is exact; no result is lost or pushed into freed memory; an interrupt stops the loop; the process ends |
| Session (`agent.c`, `store.c`) | `conversation.jsonl`, its archive, `summary.txt`, `plan.md`, `plan.draft` | appending user, assistant and result lines; compaction; `PlanConfirm`, `PlanClear`; trim | a compaction in the middle of a batch of tools, failing requests, writes that fail or end early and that nobody checks, a crash between two file operations | the conversation is the end of what was said, it starts with a user, results stay with their calls, nothing is dropped without a summary, and what a failure takes is only what it must |
| Transport (`transport.c`, callback in `agent.c`) | `StreamCtx` of an attempt, the accumulator, the interrupt flag | `http_post_sse`, three stream parsers, `process_residual_json`, `stream_display_callback` | retries after part of a stream, interleaved inputs of calls, streams that end early, Ctrl+C at any point | what is executed is exactly what the last attempt called; the request returns |
| Request body (`transport.c`) | the list under construction and its counter | `build_claude_request`, `expand_vision_line`, `convert_to_openai`, `convert_to_responses` | one message becomes none, one or several items; separators written by hand; unreadable and empty attachments; lines that are no JSON | every line, call and result once and in order; the body is JSON |
| Fork (`agent.c`, `store.c`) | the files of the new session | `store_session_fork` | the copy is made in the middle of a batch whose calls and results are not yet in the file, and no file's copy is checked | the copy is a conversation of its own right |
| Display (`display.c`) | display queue; a mutex, a condition variable and a flag on the stack of `display_flush` | the display thread, `display_flush`, start, stop, join | the display thread locks what another thread destroys; wake-ups without a signal; a queue closed with messages in it | a flush returns, and with everything shown |
| Event log, replay (`agent.c`, `json.c`) | `events.jsonl` | append, `find_recent_turn_start_offset`, `agent_replay_events` | lines a crash cut off and what is appended to them; a ring of offsets | what was shown is in the log; the replay shows the last turns |
| Bash tool (`tools.c`, `agent.c`) | child processes, their group, a pipe, a deadline | `tool_bash`, the command of `async_bash_thread_fn`, `util_sanitize_utf8`, `tool_format_result` | commands that leave jobs behind, close their output or outlive the deadline; forks in several threads | output is complete; a timeout kills the group; the call returns; the result is text of the allowed size |
| Other tools (`tools.c`) | files | Read, Write, Edit, Grep, Glob, plan tools | two threads that edit at once | a change is not lost |
| Session list, statistics, prompt, JSON and utilities | files, counters | lookup, formatting and parsing | none beyond their input | tested by unit tests |
| Bash version, Go and Rust ports, web agent | as above | as above | as above | as above |

How the parts interact. The readline thread pushes lines to `input_queue`; the
main thread pops them, or a *notify* message, and runs `agent_loop`. Each turn of
`agent_loop` drains `sub_result_queue` into the conversation, compacts it if it has
grown, builds a request body from its lines, calls `http_post_sse`, whose callback
fills the accumulator, saves the answer, runs its tools and saves their results.
A background command or a sub-agent runs in a detached thread that pushes its
result to the queue of the agent that started it and then a notify message to
`input_queue`. Ctrl+O pushes a text into the same result queue; Ctrl+C sets a
flag that the transfer and the loop look at. Everything to be seen is appended to
`events.jsonl` and pushed to the display queue; an interactive process waits after
each turn until the display thread has shown it. A tool runs in the thread of the
agent that calls it, so commands of main, of sub-agents and of background tasks are
forked from one process.

The hazards that follow from this, with their lines, are in `PROJECT.json`.

## Modules

| Module | Models | Lines of code it stands for |
|---|---|---|
| `ClosableQueue` | what a queue promises: a FIFO that can be closed | abstract |
| `MsgQueue` | the linked list under its mutex and condition variable; implements `ClosableQueue` | `msgqueue.c` |
| `TaskDelivery` | what the runtime promises about tasks: each result once, in order, to the agent that started it, before that agent is done | abstract |
| `AgentRuntime` | the threads of a process; a queue operation is one step; implements `TaskDelivery` | `agent.c`, `readline.c`, `cagent.c` |
| `Transcript` | what the files of a session promise: a conversation that forgets whole turns in one step, after their summary was written or missed, or loses lines to a broken write or a crash | abstract |
| `Session` | the files of a session, a step per file operation; implements `Transcript` | `agent.c`, `store.c` |
| `HttpSse` | one streamed request with its retries | `transport.c`, `agent.c` |
| `RequestBody` | the list of messages of a request | `transport.c` |
| `Display` | the display thread, its flush handshake, the event log and the replay | `display.c`, `agent.c`, `cagent.c`, `json.c` |
| `ToolText` | the text of a tool's result over classes of bytes | `tools.c`, `util.c` |
| `BashTool` | calls of the Bash tool and their processes | `tools.c`, `agent.c` |
| `MsgQueueProofs`, `AgentRuntimeProofs`, `SessionProofs`, `SessionHistoryProofs`, `HttpSseProofs`, `RequestBodyProofs`, `DisplayProofs`, `BashToolProofs` | theorems about them | |
| `MC*` | instances for TLC | |

The modules meet at narrow interfaces. `AgentRuntime` takes a queue operation for
one atomic step: that is what `ClosableQueue` says and `MsgQueue` is proved to
implement. `AgentRuntime` leaves out what a turn does to the conversation, and
`Session` leaves out who called `agent_loop` and when it stops: it may stop after
any turn. `Session` takes the outcome of a request to be any answer; `HttpSse`
says which answers there are. `RequestBody` starts from the conversations that
`Session` allows. `Display`, like `AgentRuntime`, takes a queue operation for one step;
what becomes of a turn's outcome is to it a choice of events to show. `BashTool` is what
`RunTools` of `Session` and `StartAsyncBash` of `AgentRuntime` leave out of a command.

### MsgQueue

`head`, `tail`, `count`, `closed`, and per node `next` and `data`, are the fields of
the code. `linked` is the list as a sequence, a history variable that `ListOK` ties
to the pointers. A node that is neither linked nor held by a popper is free for
`malloc`, so nodes are reused. A popper is outside a call, asleep in
`pthread_cond_wait`, woken and on its way to the mutex, or holding a node it has
unlinked and not yet freed. A critical section is one action: `mq_push`,
`mq_push_refused` (closed), `mq_pop`, `mq_try_pop`, `mq_close`; `ReadAndFree` is what
`mq_pop` does after the unlock. `SpuriousWakeup` is the liberty POSIX takes.

### AgentRuntime

One agent per task and the main one: a task is a background command or a
sub-agent, and a sub-agent has a result queue, a counter and tasks of its own.
`pc` says where an agent is in `agent_main_loop` or `agent_loop`, `ret` which call of
`agent_loop` returns. The actions are the stretches between two queue operations
or flag accesses: `PopInput`, `PopNotify`, `PopClosed`, `AfterInput`, `AfterNotify` and
`ExitCheck` are `agent_main_loop`; `LoopTop`, `TopDrained`, `LlmFails`, `LlmEnds`,
`LlmCallsTools`, `StartAsyncBash`, `agent_handle_sub_agent`, `ToolsDone`, `EndDrained`,
`LoopEnds`, `Judged`, `GoalEnds`, `GoalContinues` and `Return` are `agent_loop`;
`agent_drain_sub_results` takes one message per step. `ReadLine`, `inject_callback`,
`InjectWakeup`, `CtrlC` and `ReadlineExit` are the readline thread. `Mode` and `Goal`
say which kinds of process an instance has and which of them have a goal: an
interactive one reads lines until the user leaves, a printing one ends with its
input. The answer of the goal judge is a sequence of letters and punctuation, because what
`agent_judge_goal` does to punctuation matters.

### Session

A line is its kind and its serial number. `conv`, `archive`, `covered` (the summary,
as the serials of the lines it accounts for), `plan` and `draft` are the files and survive
a crash; the other variables are locals and do not, or history. `Place` follows
`agent_loop` and `agent_compact_context`. Where `compact_dp_decision` weighs costs, the
model takes any cut that it could align to a user line; the limits on it
(`compact_turn_keep` with `MinKeepPercent`, and the least number of lines a conversation
must have) are kept. An assistant line is a "call" if its tool calls are run and a "text"
otherwise, also if it has calls that are not run, because the answer was interrupted or ran
into the token limit. `store_session_fork` copies the files during a batch, in the
main thread, before the batch's lines are written; `child` is the last copy.

The C port checks hardly any of its writes, and the model has what follows from that:

- `AddLine` is `jsonl_append`: the line is appended, or is missing, or leaves a piece
  without a newline (`torn`); the next append then makes one illegible ("junk") line of the
  two. The callers go on in each case.
- `store_summary_set` opens `summary.txt`, which empties it, or fails to;
  `SummaryWrite` writes the text, or part of it. A crash can fall between them.
  `agent_compact_context` ignores what the call returns (`agent.c:3118`), so the trim follows
  either way. A text the summary was updated with counts only if the old one
  could be read for the prompt.
- The trim is `TrimFails` (the file cannot be read), `TrimArchive` (the archive takes all of
  the dropped lines, some of them, or none), `TrimTruncate` and `TrimWrite`, which writes the kept
  tail, or a prefix of it, possibly torn (`store.c:523`).
- `CopyFiles` copies each file, or a prefix of it, or not at all (`store.c:190-205`).
- `StorePlan` writes the plan and then empties the draft, and either may fail.

`Fault` counts these failures; together with the crashes a run has at most
`MaxTroubles` of them, a theorem any number. The history variables `lost`, `unsummarised` and
`unarchived` record, line by line, what a failure or crash took; the properties
name them as exceptions, and nothing else may be missing. That they do not grow without
a failure is how they are assigned: under `Fault`, in `Crash`, or for a line that is appended to
or archived behind a piece that an earlier failure left.

Abstractions: a file that cannot be read counts as missing, and a read does not end in
the middle; a line cut exactly before its newline counts as illegible, although a reader
that does not ask for the newline would make sense of it; a summary that was written
short accounts for nothing; a process that dies inside a write is a short write followed by
a crash.

### HttpSse

`server` is the environment: it announces calls, sends pieces of their inputs in any
interleaving (where the provider's format allows one), a stop reason and a terminal
event, and may break off anywhere, cleanly or with an error. `ctx` is the `StreamCtx`
that `http_post_sse` creates per attempt, `acc` the accumulator of
`stream_display_callback`. Every piece of text or input carries the attempt it came
from, so that properties can tell attempts apart. Actions are events of the stream;
after the transfer, `Retry`, `Exhausted`, `Interrupted` and `Complete` are what
`http_post_sse` decides.

### RequestBody

A body is a sequence of items and commas, because the code writes the commas
itself. An item knows the line it stems from and the calls and results it carries.
`AddLine` is the loop of `build_claude_request`, `openai_convert_messages` and
`responses_convert_messages` are the loops of the two conversions; each is one step
per message. Between the two the Claude body is parsed again: `Elements` takes the items
of a list out of its text, which works because that list alternates items and commas.
That a list of parts has the conversation's ids "each once and in order" is
`InOrderOnce`: the ids found, from left to right, are those expected and increase, and
since no id precedes itself, none is there twice. `expand_vision_line` is reduced to what becomes of a user line: text,
text and image, image alone, or a failure of the whole request.
An image whose file is empty is a block of the Claude body that both conversions leave out
(`transport.c:1520`, `1724`): in the OpenAI message its content is shorter, in Responses a
message that is nothing else becomes no item. A body with a line that is no JSON (`IsJson`) is
sent as it is to any provider (`transport.c:1580`, `1745`); such are a torn line, and an
answer whose malformed arguments `store_conv_add_assistant` has saved as they were. That
such a text may by chance leave the whole body parseable is abstracted away, and so are
conversations with results whose answer could not be appended.

### Display

A message is its kind and serial number; the kinds tell apart what is logged, shown
and replayed. The main thread logs an event and then pushes it, two steps between
which it can die; a line that is being written may be cut off anywhere, and what is
appended to it later becomes part of it (`torn`, `merged`). `display_flush` is a step per
access to the mutex: `FlushPush`, `FlushCheck`, the wait, `FlushReacquire`, `FlushDestroy`; the
display thread answers with `FlushLock`, `signal_flush` and `FlushUnlock`. `Start` takes a
session up again; an interactive process replays the log from
`find_recent_turn_start_offset` before the line editor gets the terminal.
The format is "human": with stream-json the log's writer prints and the queue stays
empty.

### ToolText and BashTool

Bytes are of classes: a line break, a NUL, other ASCII, the first byte of a character of
two, three or four bytes, a continuation byte, a byte that no character has. What UTF-8
restricts has classes of its own: the leads E0, ED, F0 and F4, and three ranges of continuation
bytes. `util_sanitize_utf8` and `tool_format_result` are functions on sequences of them; lengths
wrap at `SizeRange` as `size_t` does. The reference (`Framed`, `Utf8`) is written without
them. `Sanitized` takes any continuation after any lead, as `util.c:153-167` does, so
the overlong E0 80 80 passes; `Misfit` is a character the code takes and UTF-8 does not have.
For an empty text `util_sanitize_utf8` returns a buffer into which nothing was written
(`util.c:131-177`): `Garbage` is what it may hold. `tool_bash` has no buffer then and
returns the empty text; a background command does reach it (`agent.c:1801`).

A call is a thread; its command is a shell and a job the shell may leave in the
background. `writers` says who holds the write end of each pipe: a fork inherits all
that are open, whichever thread opened them. `Read` takes part of what is in the pipe,
`ReadNothing` is an empty pipe or its end, `CheckDeadline` follows each read, `Waitpid` makes
the result. Commands do what they like: `Write`, `CloseOutput`, `Spawn`, `Leave` (the
group), `Exit`, or nothing for ever. Writing to a pipe nobody reads does not end a
command, since main ignores SIGPIPE and its children inherit that.

## Runs

| Run | Instance | Shows |
|---|---|---|
| `msgqueue` | 2 poppers, 3 nodes, 2 messages, any number of pushes | the pointers form a list, a node belongs to one popper, no wake-up is lost, the queue implements `ClosableQueue`, messages are taken, a close releases every popper |
| `runtime` | interactive and printing, both with a goal; 2 tasks, 1 injected text, 1 or 2 inputs, 2 turns | the counter is exact, result queues outlive the threads that use them, all results are delivered, no text and no input stays behind, an interrupt during a turn stops the loop; it implements `TaskDelivery` |
| `runtime_live` | both modes, a goal in the interactive one; 1 task, 1 text, 2 inputs | results and texts reach the conversation although nothing more is typed; the process ends once the user has left or the input is used up |
| `session` | 6 lines, 1 trouble (a crash, or a failed or short write, or a failed read), 1 plan | the conversation is the end of what was said and starts with a user; results stay with their calls and calls with their results; executed batches are recorded; dropped lines are archived and summarised; each but for what the failure took; a plan's compaction sees the old plan; the copy of a fork is a conversation; it implements `Transcript` |
| `request` | 3 providers, 2 calls of 2 pieces, 3 attempts | nothing of a failed attempt survives it; the executed calls are the ones made; an aborted request runs nothing; an unfinished stream is not taken for a finished one; the request returns |
| `request_body` | 3 providers, conversations of up to 4 lines, vision on and off | every line, call and result is sent once and in order, also in a body that is sent unconverted; nothing is sent when an attachment cannot be read; commas separate |
| `display` | 2 processes one after the other, 4 events, a replay of 2 turns | a flush never touches a destroyed mutex and returns; what was pushed is shown in order when it returns and when the process ends; what was shown is in the log; the replay starts at the right turn |
| `bash_tool` | 1 call, 3 bytes of 6 classes, results of up to 7 bytes | the whole output is in the result; a timeout kills the group; the result has whole characters, is UTF-8 where the command wrote no overlong forms, and is of the allowed size; a call with a deadline returns |
| `notify_after_destroy`, `goal_done`, `openai_body`, `shared_pipe` | the smallest instance that shows it | see [findings](#findings) |

Why the bounds are enough.

- `msgqueue`: with two poppers one can be overtaken by the other; with three nodes
  the list can be empty, hold one node or more while another node is held, and a
  freed node is used again. The number of pushes is not bounded.
- `runtime`: two tasks give two tasks of main, or a sub-agent and its command, in every
  order; two turns give a loop that continues and one that hits its limit. One
  injected text meets every drain. The proofs lift the bounds on tasks, texts, inputs
  and turns for the safety properties. `runtime_live` gives no goal to the printing
  process: `GOAL_DONE` never matches (see findings), so that its end would depend on
  how often the judge answers with another instruction.
- `session`: a compaction needs more lines than it keeps; six lines hold three user
  turns, or a user, a call, its results and what follows, and leave room for lines
  after a compaction. One crash can fall between any two file operations, one
  failure meet any of them, at any length of what is written; both leave files that
  the loop goes on with. What two troubles do together is left to the proofs, which
  lift all bounds.
- `request`: two pieces of two calls interleave in every order; three attempts let a
  completed attempt be followed by an incomplete one, twice. The proofs lift all three
  bounds.
- `request_body`: the conversions keep only a counter between messages, so what a
  message becomes depends on whether something was written before it; four lines
  hold a user, an answer with calls, its results and a line after them, one of which
  may be no JSON. The proofs lift
  the bound on lines; that an answer has at most two calls is part of the model.
- `display`: four events are two turns with something to show and leave room for an
  input behind a replay; with two turns to replay the ring of offsets has a free slot,
  is full, and wraps. Two processes let one end or die and the next take its log up. The
  proofs lift the bounds on events, processes and turns to replay.
- `bash_tool`: three bytes make and break a character of two or three bytes, well-formed or
  overlong (E0 with 80-8F), and split its bytes over two reads; the other leads differ
  in `Width` and `Second` only, and the proof has them; results can be below, at and above the limit. Several
  calls share only descriptors, which is `shared_pipe`: two calls and no output.

`msgqueue`, `session`, `bash_tool` and `shared_pipe` switch the deadlock check off: a queue
that was closed, a session that has used up its lines and calls that have returned
have nothing left to do.
`InterruptStops` covers a Ctrl+C during a turn; one between the last check of a turn
and the reset at the head of the next is forgotten by the code.

The inputs left out: the runs of `AgentRuntime` start a printing process with at least one line of
input, since with none `agent_main_loop` blocks in its first `mq_pop` (`src/c/agent.c:1663`);
`request` leaves out a Claude answer that comes as one JSON document, whose calls get the
input `{}` (`src/c/transport.c:522`). `MinInputs` and `JsonProvider` bring them back.

## Fairness

- `MsgQueue`: weak fairness of each popper's steps. A thread that is runnable runs;
  a popper that has its node frees it and calls again, as the loops of main and of
  the display thread do. Nothing is assumed of pushers or of the closer.
- `AgentRuntime`: weak fairness of main's steps, of every agent loop, of every task
  and of the wake-up that follows an injection. The code justifies it for the loops:
  a request returns, which is `RequestReturns` of `HttpSse`. Of background commands it
  is an assumption: `async_bash_thread_fn` waits for its child without a timeout, so a
  command that never ends keeps the process from ending. None of the user: nothing
  says that another line, Ctrl+C or an exit comes.
- `HttpSse`: weak fairness of the end of a transfer (`CURLOPT_TIMEOUT`, 300 s, ends every
  one) and of the code after it. None of the server.
- `Display`: weak fairness of the main thread inside a flush, a replay and the final
  join, and of the display thread; strong fairness of the display thread's lock of the
  flush's mutex, which spurious wake-ups of the waiter take away again and again but
  never for good. None of the user.
- `BashTool`: weak fairness of the calling threads and of time. None of commands, which
  need not end.
- `Session` and `RequestBody` have safety properties only.

## Proofs

All proofs are of the specifications the runs check, for every value of the
constants that the named assumptions allow. Each safety property of a passing run has
its theorem, the three refinements included.

| Theorem | States | Assumptions |
|---|---|---|
| `QueueSafety`, `ListStaysChained`, `NoNodeShared` | `TypeOK`, `ListOK`, `NodeOwnedOnce`, `NoLostWakeup` | finitely many poppers; the null values are no nodes and no messages |
| `QueueRefines` | `Spec` implies the abstract specification | the same |
| `AccountingExact` | `TypeOK` and `TaskAccounting` | finitely many tasks; main is no task and texts are no tasks |
| `NoPushAfterDestroy`, `NoResultLost` | `QueueAliveWhileUsed`, `AllTasksDelivered` | the same |
| `InterruptHonoured`, `QueuesEmptyAtExit` | `InterruptStops`, `NothingLeftBehind` | the same |
| `RuntimeDeliversTasks` | `Spec` implies `TaskDelivery` | the same |
| `ConversationSafety`, `CutsBeforeUser` | `TypeOK`, `ConvIsSuffix`, `ConvStartsWithUser`, with any number of failures; every cut that can be chosen is in front of a user line | the share of turns to keep is a percentage |
| `NoOrphanResults` | `ResultsFollowCall` | the same |
| `NothingForgotten`, `LinesKept`, `LinesSummarised` | `HistoryKept`, `SummaryCovers` | the same |
| `SummaryUsesCachedPrompt`, `BatchesRecorded`, `CallsAnsweredAlways`, `ForkedSessionSound` | `PlanPrefixKept`, `RunsRecorded`, `CallsAnswered`, `ForkSound` | the same |
| `SessionIsTranscript` | `Spec` implies `Transcript` | the same |
| `StreamTypeOK`, `RetriesDoNotMix`, `InterruptedRunsNothing`, `CompleteOnlyIfEnded` | `TypeOK`, `AttemptPure`, `AbortedNotRun`, `CompleteMeansEnded` | an input has at least one piece; retries are a number |
| `CallsRunWhole` | `ToolsRunAsCalled` | the same, and: Claude does not answer with one JSON document (its calls would get the input `{}`) |
| `NothingDropped`, `CommasInPlace` | `BodyComplete`, `CommasSeparate` | the known providers |
| `DisplayTypeOK`, `FlushNeverDangles`, `EverythingShown` | `TypeOK`, `FlushSafe`, `NothingUnshown` | at least one turn is replayed |
| `ShownSurvives`, `ReplayShowsLastTurns` | `ShownIsLogged`, `ReplayIsRecent` | the same |
| `TimeoutKillsAll`, `NoOutputLost` | `TimeoutKillsGroup`, `OutputKept` | bytes are of the classes |
| `ResultIsSound` | `ResultSound` | the same, and: `size_t` has at least one value; what memory may hold is a text of these bytes |

**MsgQueue.** The four invariants are inductive together. `ListOK` needs
`NodeOwnedOnce`: a node that `malloc` hands out must not be in anyone's hands.
`NoLostWakeup` counts: while a popper sleeps, at least as many poppers are on their
way as there are messages. A push adds one of each; a pop takes one of each or finds
no sleeper. The refinement maps the list to the sequence of its data and a held node
to a message in a popper's hand.

**AgentRuntime.** `TaskAccounting` is not inductive: that a consumed message lowers
the counter by exactly one needs to know that a task is in at most one queue, once,
namely its parent's, exactly while it has pushed and is not delivered (`Queued`). That
queues outlive threads needs to know where an agent can be with a non-zero counter
(`Places`): an agent is destroyed only after its last wait, which ends at zero. The
invariant is `TypeOK /\ Queued /\ Places /\ TaskAccounting`. `StepKinds` reduces the
next-state relation to six kinds of steps, which keeps the proof of `Queued` short.
An interrupt is followed by `CancelInv`: once Ctrl+C is accepted the flag stays set
while main is in the rest of that turn, because only the head of the loop clears it.
That nothing is left behind has two halves. `LeaveInv` says that main leaves its loop
only with an empty input queue, closed if there is a readline thread, and without
tasks if there is none; `Announced` says that a text in the result queue has a wake-up
that is still to be pushed, in the input queue, or just popped. At the exit none of
these can be, so there is no text.

The refinement maps what was started, the parents and the result queues to
`started`, `owner` and `mailbox` of `TaskDelivery`; the counter, the input queue with its
wake-ups, the flags and the places of the agents have no counterpart, so the abstract
guards say what they are for. That a sub-agent hands in its result only after those of
its own tasks (`AllIn`) is `ZeroMeansDelivered`, the counter at zero after its last wait;
that only an agent that is not done takes or starts anything (`Active`) is `Places` with
`Queued`; that the process ends with nothing started or sent left (`DEnd`) is
`NoResultLost` and `QueuesEmptyAtExit`, read in the state after the step; and that nothing
is sent after the end comes from `LeaveInv`. That a result is delivered once needs no
guard: it is handed in once, and the mailbox is a queue.

**Session.** `ConvIsSuffix` alone does not survive a trim, whose data is in a local
variable while the file is empty. `IInv` is `TypeOK` and:

- `Good` of the conversation, and of the data a trim holds: it is the end of the log but for
  lost lines (`GoodTail`), and it starts with a user line, not with results (`GoodHead`), unless
  what it would have started with is lost (`Headless`: each user line up to there, or
  one behind it, is lost);
- `LogOK`: in the log, serials are places and results follow calls;
- `EmptyOK`: where the loop may append a line that is no user's, an empty conversation has
  lost its head. This is what a broken write costs: the trim's write may leave nothing, and the
  next line is then an answer;
- `ResultsOK`: when results are to be saved, their call is the last line of the log;
- `CutOK`: a cut under way is in front of a user line, or there is none, from the decision
  over the two steps of the summary to the write of the tail.

A fork changes only `child`. `KeepsAreCuts` shows that each way to compute a cut ends at a
user line; `GoodSuffix` and `GoodPrefix` that a cut and a short write leave a good
conversation.

What a session remembers (`SessionHistoryProofs`) rests on `DropInv`: each line of the log is in
the conversation or what a trim holds, or lost, or else in the archive or unarchived and
under the summary, the text being written, or unsummarised; and, between the summary and the
truncation, how far the lines about to be dropped have got. `RunInv` places the batch of
calls that ran: wherever `agent_loop` goes before it saves the results, through a compaction
or not, it has still to save them. `AnswerInv` counts the batches without results (`Open`)
of the conversation and of the data of a trim: one per crash and one while they are being
saved; a suffix or a prefix has no more, but for a batch whose results a broken write took,
which is not counted. `ForkInv` holds of the copy when it is made, in the middle of
a batch, and stays since what it relies on only grows.

The refinement maps the conversation to what a trim holds while the file is empty, and the
summary to the text being written. So a compaction is steps of `Transcript`, each with the
guard it owes to the ones before it: `Summarise` or `Miss` (in front of a user line, by
`CutOK`), possibly `LoseSummary`, what is given to the archive (`HandOver`, only lines whose
summary was written or missed), and `Forget`, where the code empties the file; writing the
tail back is a stutter, or a `Lose` of its end when it is short or the process dies before it.
That a line of results is only said behind its calls, and that a conversation begins with a
user line unless its head is lost, is read off `LogOK` and `GoodHead` in the state after the
append; an append that fails is `SayInVain`.

**HttpSse.** `IInv` follows a call from the stream to the accumulator. While a
stream is read, `Matches` says that the calls held are the ones the server announced, in
that order, each with exactly the pieces sent so far; `PlaceInv` says who holds them:
the accumulator for Claude, the `StreamCtx` for the others until the event that hands them
over. `PhaseInv` ties the stop reason and the flags to the phase of the server: "tool_use"
means that every call is complete. `PureInv` says that all of it carries the current
attempt: `Retry` empties both. `ReturnInv` is what is left when the request has returned.
Without the hypothesis on Claude `CallsRunWhole` is false, at the line named above.

**RequestBody.** `Part(s, a, b)` says that the body `s` is what the lines after `a`, up
to `b`, become: none is missing but the ones that have no place in the format, none
precedes an earlier one, and their calls and results are there once and in order.
Parts that follow each other make a part (`PartCat`), commas and empty lines do not
matter (`PartComma`, `PartSkip`), and each conversion of one line is a part of that line
(`PartMessage`, `PartResults`, `PartAssistant`, `PartResponses`). `BuildInv` adds that the
parsed body is the list of the messages of the lines so far (`MessagesOf`), `ConvertInv`
that the conversion has reached the next message and the empty lines before it
(`Reached`), and that it runs only on a body that is JSON (`IsJson`). The commas are `CommasOK`: the counter is the number of items (`CountCat`,
`CountJoined`), so that it is zero exactly while nothing has been written. Its
exception, the tool messages, is the finding `openai_body`.

**Display.** The flush (`FlushInv`) is a handshake: the flush message is the last of
the queue, since main waits for it, so the display thread locks the mutex only while
main is inside the flush and has not been answered. `ShowInv` says that what was pushed is,
in this order, on the screen, in the display thread's hand and in the queue; at the
end of a flush and after the join the last two are empty. `SoundInv` follows an event
from the log to the screen. `ReplayInv` says that what has been replayed is all that can
be, from the offset the ring yields up to the current line. That this offset is where the
last `MaxTurns` inputs begin is a fact about the ring: the j-th line of input (`Nth`) is
kept in slot `(j - 1) % MaxTurns`, so after `n` of them the oldest kept is number
`n - MaxTurns + 1`, or the first.

**BashTool.** `Staged` says how far a call has got with its processes: from the parent's
`setpgid` on the shell is in its group, and a call that has timed out has none of the
group running, which stays so since the dead start nothing. `Kept` says that what was
written is what was read followed by what is in the pipe, and that at the end of the file
nobody holds the write end. `NoOutputLost` is about output without NUL bytes, as
`OutputKept` is.

`ResultSound` is about what `util_sanitize_utf8` and `tool_format_result` compute: recursive
functions over the bytes, from left to right. The library's induction theorems cannot be
instantiated here, but a least counterexample can be taken from a *set*: every set of
numbers that is not empty has a least element (`LeastOf`, from the well-foundedness of
the order on the numbers), so that a set of positions which contains the end, and
with each position those it is reached from, contains all (`Downward`). With the
set of positions from which the rest is sanitised to whole characters, none of them a misfit
if the text has none, this gives `SanitizedFrames`; with those from which the character at
hand stays whole `SanitizedKeeps`. `Frames` is `Framed` in terms of the test the code makes
(`FramedIs`), `Fits` says that there is no misfit; both hold of texts that are joined
(`FramesJoined`, `FitsJoined`).
`TailLength` and `CutLength` bound the two parts of a result that was
cut, with lengths that wrap; `AllTold` carries the outcome through the steps of a call.

Model-checked only:

- liveness (`ResultsDelivered`, `ProcessEnds`, `RequestReturns`, `CloseReleasesPoppers`,
  `MessagesTaken`, `FlushReturns`, `ToolReturns`), since fairness and `ENABLED` are out of
  the prover's reach.

No module declares a `RECURSIVE` operator. What a recursive function computes is proved
only for `ResultSound`; the searches of `find_recent_turn_start_offset` and of
`compact_turn_keep` are sets and need no induction.

## Findings

Each is a run that ends in a violation; `PROJECT.json` quotes the lines.

- `notify_after_destroy`: main waits until `active_task_count` is zero, which a task
  reaches when its *result* is consumed, while the thread has still to push its
  wake-up to `input_queue`. Main can have destroyed that queue.
- `goal_done`: `agent_judge_goal` strips punctuation, the underscore included, from the
  answer and then compares it with `GOAL_DONE`.
- `openai_body`: no comma in front of the first tool message; the body is no JSON as
  soon as a tool was called.
- `shared_pipe`: a command forked in another thread between `pipe()` and the close of the
  write end inherits it; the call then waits for that command and reports a timeout
  of its own, which had ended.

Exceptions the properties name, because the code has them:

- the trim empties the conversation before it writes the kept tail, and a crash in
  between, or a write that ends early, loses it or its end; an append that fails, and
  the line that is appended to a torn one, are lost as well (`lost` in `ConvIsSuffix`, `HistoryKept`,
  `SummaryCovers`). What is left of a conversation may then start with something else
  than a user line (`Headless` in `ConvStartsWithUser`) or with results (`ResultsFollowCall`);
- a summary that cannot be stored does not stop the trim, and a crash between its truncation
  and its write empties it (`unsummarised` in `SummaryCovers`); nor does an archive that
  cannot be written (`unarchived` in `HistoryKept`);
- a copy of a fork lacks what could not be copied (`ForkSound`);
- a crash between a call's line and its results leaves the call without them
  (`CallsAnswered`: one per crash), as does a failed append of the results, and the calls
  of an interrupted or truncated answer are saved without any (they are "text" lines);
- a last line that is longer than the limit makes a "truncated" result longer than
  the text it was cut from, because the length of the head wraps; the head may end inside
  a character (`ResultSound`);
- the sanitiser lets overlong forms, surrogates and numbers above U+10FFFF through, although
  the comment at `util.c:124` says that illegal UTF-8 bytes are replaced; and the text of
  a background command without output is whatever the memory held (`util.c:131`,
  `agent.c:1801`): a string that may not even end (`ResultSound`);
- answers of thoughts only, and a message that is only an image of an empty file, are missing
  from a Responses body; a body with a torn line or malformed arguments goes to OpenAI and
  Responses in Claude's format (`BodyComplete`);
- a NUL byte hides the rest of the read it came in (`OutputKept`);
- a shell that closes its output and goes on is waited for without a deadline
  (`ToolReturns`); a background job that keeps the pipe open makes the call wait for the
  deadline and lose the exit code of a shell that had succeeded;
- an event appended to a line that a crash cut off is lost with it (`ShownIsLogged`).

Read in the code and not run: Ctrl+C during the goal judge's request makes what
arrived the next instruction (`agent.c:884`; `CHANGELOG.md:65` calls Ctrl+C a hard
exit); part of a summary is stored as the summary when its request was interrupted
(`agent.c:3101`); the copy of a fork in the sub-agent's thread (`agent.c:1858`) is never
reached, the main thread has made it before; two threads that edit at once share the
names of the diff files (`tools.c:253`); a background result is logged twice
(`agent.c:729` and `737`); a cancelled transfer that fails for another reason is retried
(`transport.c:668`, against the comment at 722); the Responses conversion puts an
answer's text after its calls, where the Bash version has it before
(`src/awk/transport_responses_body.awk:110`).

## Not modelled

- Read, Write, Edit, Grep, Glob, TodoWrite and Skill: file I/O behind one call.
  `bash_classify_required_mode` is a nondeterministic refusal.
- The session list, `--continue` and identifiers: a lookup among directory names.
- A read that fails in the middle of a file, and a file whose size changes while it is read.
- Failures of the writes to `events.jsonl`: `Display` has lines a crash cut off, not
  appends that fail in a process that goes on.
- A display thread that could not be started, and the stream-json output.
- `http_post`, token counts, costs and titles: data that no property tells apart. The
  economics of `compact_dp_decision` is a nondeterministic choice.
- Tool definitions and the remaining fields of a request; the bytes of the stream.
- The shape of events, statistics, prompt building, JSON and the other utilities:
  sequential formatting and parsing.
- The Bash version, the Go and Rust ports and the web agent: one port is modelled in
  depth. The Bash version is quoted where the C code says it follows it.
- Vendored code, packaging, the site, scripts.
- `malloc` failures, except where the code reports them to a caller that goes on.

## Plan

Done, in this order: the queue and its refinement; the runtime; the session; the
request; the request body; the theorems above; the fork; the display with the event
log; the Bash tool.

Done since: the proofs of every safety property; the abstract specifications of the
runtime and of the session with their refinements.

Left:

1. An abstract specification of a request (an answer is taken whole or not at all) that
   `HttpSse` implements. Its invariants say as much of the states in which a request
   has returned, which is all that `agent_loop` sees.
2. Runs for the two inputs left out above.
3. The file tools: two threads that edit one file.

## How to run

    tlc -workers 2 -config MCSession.cfg MCSession
    tlapm SessionProofs.tla
