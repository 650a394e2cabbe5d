------------------------------- MODULE BashTool -------------------------------
(***************************************************************************)
(* The Bash tool: tool_bash (src/c/tools.c), which runs a command, reads   *)
(* its output from a pipe without blocking and kills its process group at  *)
(* the deadline; and async_bash_thread_fn (src/c/agent.c), whose command   *)
(* writes to a file and is waited for without a deadline.  Several calls   *)
(* run at once, in the main thread and in the threads of sub-agents and    *)
(* background tasks of one process.                                        *)
(*                                                                         *)
(* A command is a shell and one job it may leave in the background; both   *)
(* do what they like: write, close their output, leave the process group,  *)
(* end.  A child inherits every descriptor that is open when it is forked. *)
(***************************************************************************)
EXTENDS ToolText, SequencesExt

CONSTANTS Call,      \* calls of the Bash tool, each in a thread of its own
          Byte,      \* classes of bytes commands write
          MaxBytes   \* bound: bytes written altogether

ASSUME ByteAssumption == Byte \subseteq ByteClass
ASSUME BoundAssumption == MaxBytes \in Nat

VARIABLES
    pc, kind, limit,  \* where each call is, sync or async, whether it has a deadline
    proc,             \* the shell and the job of each call
    group,            \* which of them are in the command's process group
    writers,          \* who holds the write end of each call's pipe
    pipe, out,        \* unread and read output
    late, timedOut,   \* the deadline has passed; timed_out
    result,           \* the text handed back
    written, atExit   \* history: output so far; its length when the shell ended

command == <<proc, group, writers, pipe, written, atExit>>
call == <<pc, kind, limit, out, late, timedOut, result>>
vars == <<pc, kind, limit, proc, group, writers, pipe, out, late, timedOut, result, written,
          atExit>>

Role == {"shell", "job"}
Process == Call \X Role
Agent(c) == <<c, "agent">>   \* the thread of call c, which opened the pipe
Place == {"start", "fork", "setup", "read", "check", "wait", "done"}
Refusal == <<"x">>
TimeoutText == <<"nl", "x">>

Init ==
    /\ pc = [c \in Call |-> "start"]
    /\ kind = [c \in Call |-> "sync"] /\ limit = [c \in Call |-> FALSE]
    /\ proc = [p \in Process |-> "none"]
    /\ group = [c \in Call |-> {}]
    /\ writers = [c \in Call |-> {}]
    /\ pipe = [c \in Call |-> <<>>] /\ out = [c \in Call |-> <<>>]
    /\ late = [c \in Call |-> FALSE] /\ timedOut = [c \in Call |-> FALSE]
    /\ result = [c \in Call |-> <<>>]
    /\ written = [c \in Call |-> <<>>] /\ atExit = [c \in Call |-> 0]

Goto(c, place) == pc' = [pc EXCEPT ![c] = place]
Running(p) == proc[p] = "running"

------------------------------------------------------------------------------
(* The calling thread. *)

(* No JSON, no command, blocked by the policy, no pipe, no process. *)
Refused(c) ==
    /\ pc[c] \in {"start", "fork"}
    /\ result' = [result EXCEPT ![c] = Refusal]
    /\ writers' = [writers EXCEPT ![c] = @ \ {Agent(c)}]
    /\ Goto(c, "done")
    /\ UNCHANGED <<kind, limit, out, late, timedOut, proc, group, pipe, written, atExit>>

(* tool_bash opens the pipe; the deadline comes with the call or from the   *)
(* configuration, where 0 means none.                                       *)
tool_bash(c) ==
    /\ pc[c] = "start"
    /\ writers' = [writers EXCEPT ![c] = {Agent(c)}]
    /\ limit' \in {[limit EXCEPT ![c] = l] : l \in BOOLEAN}
    /\ Goto(c, "fork")
    /\ UNCHANGED <<kind, out, late, timedOut, result, proc, group, pipe, written, atExit>>

(* async_bash_thread_fn opens a temporary file of its own. *)
async_bash_thread_fn(c) ==
    /\ pc[c] = "start"
    /\ kind' = [kind EXCEPT ![c] = "async"]
    /\ Goto(c, "fork")
    /\ UNCHANGED <<limit, out, late, timedOut, result, command>>

(* fork: the child inherits the write end of every pipe the process has open. *)
Fork(c) ==
    /\ pc[c] = "fork"
    /\ proc' = [proc EXCEPT ![<<c, "shell">>] = "born"]
    /\ writers' = [d \in Call |-> IF Agent(d) \in writers[d] THEN writers[d] \cup {<<c, "shell">>}
                                  ELSE writers[d]]
    /\ Goto(c, "setup")
    /\ UNCHANGED <<kind, limit, out, late, timedOut, result, group, pipe, written, atExit>>

(* The parent puts the child into a group of its own and closes its copy of *)
(* the write end.                                                           *)
Setup(c) ==
    /\ pc[c] = "setup"
    /\ group' = [group EXCEPT ![c] = @ \cup {"shell"}]
    /\ writers' = [writers EXCEPT ![c] = @ \ {Agent(c)}]
    /\ Goto(c, IF kind[c] = "sync" THEN "read" ELSE "wait")
    /\ UNCHANGED <<kind, limit, out, late, timedOut, result, proc, pipe, written, atExit>>

(* read returns what is there, up to the size of the buffer. *)
Read(c, n) ==
    /\ pc[c] = "read"
    /\ n \in 1..Len(pipe[c])
    /\ out' = [out EXCEPT ![c] = @ \o UpToNul(SubSeq(pipe[c], 1, n))]
    /\ pipe' = [pipe EXCEPT ![c] = SubSeq(@, n + 1, Len(@))]
    /\ Goto(c, "check")
    /\ UNCHANGED <<kind, limit, late, timedOut, result, proc, group, writers, written, atExit>>

(* Defect: an empty pipe is taken for the end of the output. *)
EmptyIsEof(c) ==
    /\ pc[c] = "read"
    /\ pipe[c] = <<>>
    /\ Goto(c, "wait")
    /\ UNCHANGED <<kind, limit, out, late, timedOut, result, command>>

(* End of file, once nobody holds the write end; else EAGAIN. *)
ReadNothing(c) ==
    /\ pc[c] = "read"
    /\ pipe[c] = <<>>
    /\ Goto(c, IF writers[c] = {} THEN "wait" ELSE "check")
    /\ UNCHANGED <<kind, limit, out, late, timedOut, result, command>>

(* Time passes. *)
Deadline(c) ==
    /\ pc[c] \in {"read", "check"} /\ limit[c] /\ ~late[c]
    /\ late' = [late EXCEPT ![c] = TRUE]
    /\ UNCHANGED <<pc, kind, limit, out, timedOut, result, command>>

(* Processes that end close what they hold. *)
Close(ps) == writers' = [d \in Call |-> writers[d] \ ps]
Ends(ps) ==
    /\ proc' = [p \in Process |-> IF p \in ps THEN "ended" ELSE proc[p]]
    /\ atExit' = [c \in Call |-> IF <<c, "shell">> \in ps THEN Len(written[c]) ELSE atExit[c]]
    /\ Close(ps)

(* Defect: only the shell is killed. *)
KillShell(c) == Ends({p \in {<<c, "shell">>} : proc[p] \in {"born", "running"}})

(* kill(-pid, SIGKILL) *)
KillGroup(c) == Ends({p \in {c} \X group[c] : proc[p] \in {"born", "running"}})

(* Defect: the loop goes on after the kill, until the pipe is closed. *)
KillWithoutBreak(c) ==
    /\ pc[c] = "check"
    /\ IF limit[c] /\ late[c] THEN KillGroup(c) /\ timedOut' = [timedOut EXCEPT ![c] = TRUE]
                              ELSE UNCHANGED <<timedOut, proc, writers, atExit>>
    /\ Goto(c, "read")
    /\ UNCHANGED <<kind, limit, out, late, result, group, pipe, written>>

(* After each read: at the deadline the group is killed and the pipe closed, *)
(* else the loop sleeps and reads again.                                     *)
CheckDeadline(c) ==
    /\ pc[c] = "check"
    /\ IF limit[c] /\ late[c]
         THEN /\ KillGroup(c)
              /\ timedOut' = [timedOut EXCEPT ![c] = TRUE]
              /\ Goto(c, "wait")
         ELSE /\ Goto(c, "read")
              /\ UNCHANGED <<timedOut, proc, writers, atExit>>
    /\ UNCHANGED <<kind, limit, out, late, result, group, pipe, written>>

(* What tool_bash and async_bash_thread_fn make of the output; tool_bash has *)
(* no buffer to sanitise if there was none.                                  *)
Output(c) == IF timedOut[c] THEN out[c] \o TimeoutText ELSE out[c]
Texts(c) ==
    IF kind[c] = "async" THEN util_sanitize_utf8(UpToNul(written[c]))
    ELSE IF Output(c) = <<>> THEN {<<>>}
    ELSE {tool_format_result(t) : t \in util_sanitize_utf8(Output(c))}

(* waitpid has the shell's status; the text is sanitised, the result of a *)
(* foreground command cut to size.                                        *)
Waitpid(c) ==
    /\ pc[c] = "wait"
    /\ proc[<<c, "shell">>] = "ended"
    /\ proc' = [proc EXCEPT ![<<c, "shell">>] = "reaped"]
    /\ out' = IF kind[c] = "sync" THEN out ELSE [out EXCEPT ![c] = UpToNul(written[c])]
    /\ result' \in {[result EXCEPT ![c] = t] : t \in Texts(c)}
    /\ Goto(c, "done")
    /\ UNCHANGED <<kind, limit, late, timedOut, group, writers, pipe, written, atExit>>

------------------------------------------------------------------------------
(* The command (external). *)

(* The child puts itself into its group, connects its output and becomes *)
(* the shell.                                                            *)
Exec(c) ==
    /\ proc[<<c, "shell">>] = "born"
    /\ proc' = [proc EXCEPT ![<<c, "shell">>] = "running"]
    /\ group' = [group EXCEPT ![c] = @ \cup {"shell"}]
    /\ UNCHANGED <<call, writers, pipe, written, atExit>>

(* The job inherits the group and the descriptors of the shell. *)
Spawn(c) ==
    /\ Running(<<c, "shell">>) /\ proc[<<c, "job">>] = "none"
    /\ proc' = [proc EXCEPT ![<<c, "job">>] = "running"]
    /\ group' = [group EXCEPT ![c] = @ \cup {"job"}]
    /\ writers' = [d \in Call |-> IF <<c, "shell">> \in writers[d]
                                    THEN writers[d] \cup {<<c, "job">>} ELSE writers[d]]
    /\ UNCHANGED <<call, pipe, written, atExit>>

(* setsid *)
Leave(c) ==
    /\ Running(<<c, "job">>) /\ "job" \in group[c]
    /\ group' = [group EXCEPT ![c] = @ \ {"job"}]
    /\ UNCHANGED <<call, proc, writers, pipe, written, atExit>>

Connected(p) == Running(p) /\ (kind[p[1]] = "async" \/ p \in writers[p[1]])
Total == Cardinality({q \in Call \X (1..MaxBytes) : q[2] <= Len(written[q[1]])})

(* What is written to a pipe nobody reads any more is lost; it does not end   *)
(* the writer, which inherits from main that SIGPIPE is ignored.              *)
Write(p, b) ==
    LET c == p[1]
    IN  /\ Connected(p)
        /\ Total < MaxBytes
        /\ written' = [written EXCEPT ![c] = Append(@, b)]
        /\ pipe' = IF kind[c] = "sync" /\ pc[c] \notin {"wait", "done"}
                     THEN [pipe EXCEPT ![c] = Append(@, b)] ELSE pipe
        /\ UNCHANGED <<call, proc, group, writers, atExit>>

(* A process redirects its output and goes on. *)
CloseOutput(p) ==
    /\ Running(p) /\ p \in writers[p[1]]
    /\ writers' = [writers EXCEPT ![p[1]] = @ \ {p}]
    /\ UNCHANGED <<call, proc, group, pipe, written, atExit>>

Exit(p) ==
    /\ proc[p] \in {"born", "running"}
    /\ Ends({p})
    /\ UNCHANGED <<call, group, pipe, written>>

CallStep(c) ==
    \/ Fork(c) \/ Setup(c) \/ (\E n \in 1..MaxBytes : Read(c, n)) \/ ReadNothing(c)
    \/ CheckDeadline(c) \/ Waitpid(c)
CommandStep ==
    \/ \E c \in Call : Exec(c) \/ Spawn(c) \/ Leave(c)
    \/ \E p \in Process : Exit(p) \/ CloseOutput(p) \/ \E b \in Byte : Write(p, b)

Next ==
    \/ \E c \in Call : Refused(c) \/ tool_bash(c) \/ async_bash_thread_fn(c) \/ CallStep(c)
                       \/ Deadline(c)
    \/ CommandStep

Spec == Init /\ [][Next]_vars

(* The calling threads run and time passes; commands need not end. *)
FairSpec == Spec /\ \A c \in Call : WF_vars(CallStep(c)) /\ WF_vars(Deadline(c))

------------------------------------------------------------------------------
Ran(c) == pc[c] = "done" /\ proc[<<c, "shell">>] = "reaped"
Clean(s) == \A i \in 1..Len(s) : s[i] # "nul"

(* The result has everything the command wrote, in order: for a foreground   *)
(* command that did not time out all of it, its background job's too; for a  *)
(* background command at least what was written until its shell ended.  (A   *)
(* NUL byte hides what follows it in the same read.)                         *)
OutputKept ==
    \A c \in Call :
        Ran(c) /\ Clean(written[c]) =>
            /\ IsPrefix(out[c], written[c])
            /\ kind[c] = "sync" /\ ~timedOut[c] => out[c] = written[c]
            /\ kind[c] = "async" => Len(out[c]) >= atExit[c]

(* A command that timed out leaves no process of its group behind: neither   *)
(* the shell nor a job it started in the background.                         *)
TimeoutKillsGroup ==
    \A c \in Call : timedOut[c] => \A r \in group[c] : ~Running(<<c, r>>)

(* In the text handed back every character is whole, what was so in the      *)
(* output is in it unchanged, and it is UTF-8, but for overlong forms,       *)
(* surrogates and numbers above U+10FFFF the command wrote itself.  If it    *)
(* had to be cut, where the head may end inside a character, it is no longer *)
(* than allowed, but if its last lines alone are too long.  A background     *)
(* command without output is left out: its text is whatever the memory held. *)
ResultSound ==
    \A c \in Call :
        Ran(c) /\ ~(kind[c] = "async" /\ out[c] = <<>>) =>
            LET full == Sanitized(Output(c))
                cut == kind[c] = "sync" /\ Len(full) > MaxResult
            IN  /\ ~cut => /\ Framed(result[c])
                           /\ Utf8(result[c]) \/ \E i \in 1..Len(Output(c)) : Misfit(Output(c), i)
                           /\ Framed(out[c]) => IsPrefix(out[c], result[c])
                /\ cut => \/ Len(result[c]) <= MaxResult
                          \/ MarkerLen + Len(TailOf(full)) > MaxResult

(* A call with a deadline returns, whatever the command does, unless its     *)
(* shell closes its output and goes on: then waitpid waits for it.           *)
ToolReturns ==
    \A c \in Call :
        pc[c] = "setup" /\ kind[c] = "sync" /\ limit[c] ~>
            \/ pc[c] = "done"
            \/ pc[c] = "wait" /\ Running(<<c, "shell">>) /\ <<c, "shell">> \notin writers[c]

(* A command that had ended, all its output read, when its caller next looks  *)
(* is never reported to have timed out.                                       *)
Over(c) ==
    /\ pc[c] = "read" /\ pipe[c] = <<>>
    /\ \A r \in Role : proc[<<c, r>>] \in {"none", "ended"}
TimedOutIsTrue == \A c \in Call : [](Over(c) => [](~timedOut[c]))
==============================================================================
