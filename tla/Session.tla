------------------------------- MODULE Session -------------------------------
(***************************************************************************)
(* One session of the C port: what agent_loop and agent_compact_context    *)
(* (src/c/agent.c) do to the files of src/c/store.c, over any number of    *)
(* turns, requests, compactions, crashes and restarts.                     *)
(*                                                                         *)
(* A line of conversation.jsonl is its kind and its serial number; the     *)
(* archive and the summary are the serials they account for.  The model's  *)
(* answers are nondeterministic, and so is the economic decision of        *)
(* compact_dp_decision: any cut at a user line it could align to.  Turn    *)
(* limits and the interrupt flag belong to AgentRuntime; here a loop may   *)
(* end after any turn.                                                     *)
(*                                                                         *)
(* No write of a file is checked: it may not open the file, or leave it    *)
(* empty or short (store.c ignores what util_write_file, fprintf and       *)
(* fclose return), and a process that dies inside a write has left it      *)
(* short.  A file that cannot be read counts as missing.                   *)
(***************************************************************************)
EXTENDS Integers, Sequences, FiniteSets, SequencesExt

CONSTANTS Plan,           \* texts of a plan
          NoPlan,         \* the empty plan file
          MinKeepPercent, \* DP_MIN_KEEP_RATIO (default 0.25), in percent
          MaxLines,       \* bound: lines appended to the conversation
          MaxTroubles     \* bound: crashes of the process and faults together (see Fault)

ASSUME PlanAssumption == NoPlan \notin Plan
ASSUME RatioAssumption == MinKeepPercent \in 0..100
ASSUME BoundAssumption == MaxLines \in Nat /\ MaxTroubles \in Nat

VARIABLES
    conv,             \* conversation.jsonl: its lines that end in a newline
    torn,             \* a piece of a line without its newline follows them
    archive,          \* conversation-archive.jsonl: the serials of its legible lines
    archiveTorn,      \* it ends in a piece of a line
    covered,          \* summary.txt: the serials of the lines it accounts for
    plan, draft,      \* plan.md, plan.draft
    pc,               \* where the loop is
    trigger, keep, text, data,  \* locals of agent_compact_context, store_conv_trim_tail
    answer,           \* the accumulated answer of the current request
    child,            \* the files of the session last forked from this one in this batch
    crashes, faults,  \* how many there were
    log,              \* history: every line ever appended, in order
    ran,              \* history: batches of tool calls that were executed
    promptPlan,       \* history: the plan in the system prompt of the request under way
    unarchived,       \* history: dropped lines the archive could not be given
    unsummarised,     \* history: lines whose summary was not stored, or lost when it was replaced
    lost              \* history: kept lines a write or a crash took from the conversation

files == <<conv, torn, archive, archiveTorn, covered, plan, draft>>
local == <<trigger, keep, text, data, answer>>
history == <<log, ran, promptPlan, unarchived, unsummarised, lost>>
vars == <<files, local, history, pc, child, crashes, faults>>

(* "call" is an assistant line whose tool calls are run, "text" any other: of *)
(* an answer without calls, or one whose calls are not run because it was      *)
(* interrupted or ran into the token limit.  "junk" is a line appended to a    *)
(* piece of another: no reader makes sense of it.                              *)
Kind == {"user", "text", "call", "results"}
Line == [kind : Kind \cup {"junk"}, n : Nat]
Place == {"off", "idle", "top", "summary", "summaryWrite", "archive", "truncate", "write",
          "request", "tools", "plan", "planStore", "save", "results", "decide", "end"}
Trigger == {"auto", "plan_confirm", "plan_clear"}
(* stop_reason: "end_turn" stands for "interrupted" as well (the loop goes on *)
(* to the last drain), "max_tokens" for "length".                            *)
Stop == {"end_turn", "tool_use", "max_tokens"}
(* What store_session_fork copies. *)
SessionFiles == [conv : Seq(Line), archive : Seq(Nat), covered : SUBSET Nat, plan : Plan \cup {NoPlan}]
(* No session, or one of which nothing could be copied. *)
NoChild == [conv |-> <<>>, archive |-> <<>>, covered |-> {}, plan |-> NoPlan]
NoAnswer == [stop |-> "end_turn", ran |-> FALSE]

(* The serials of the lines of s. *)
Numbers(s) == {s[i].n : i \in 1..Len(s)}

Init ==
    /\ conv = <<>> /\ torn = FALSE /\ archive = <<>> /\ archiveTorn = FALSE /\ covered = {}
    /\ plan = NoPlan /\ draft = NoPlan
    /\ pc = "idle"
    /\ trigger = "auto" /\ keep = 0 /\ text = {} /\ data = <<>> /\ answer = NoAnswer
    /\ child = NoChild /\ crashes = 0 /\ faults = 0
    /\ log = <<>> /\ ran = 0 /\ promptPlan = NoPlan
    /\ unarchived = {} /\ unsummarised = {} /\ lost = {}

(* A read or write of a file fails or ends early, and something is lost by it. *)
Fault == crashes + faults < MaxTroubles /\ faults' = faults + 1

(* jsonl_append, of a line of the given kind.  What it reports is ignored: the *)
(* line may be missing, or torn; and it ends up behind whatever was torn before.*)
AddLine(kind) ==
    LET n == Len(log) + 1
    IN  /\ n <= MaxLines
        /\ log' = Append(log, [kind |-> kind, n |-> n])
        /\ \/ /\ conv' = Append(conv, [kind |-> IF torn THEN "junk" ELSE kind, n |-> n])
              /\ torn' = FALSE
              /\ lost' = IF torn THEN lost \cup {n} ELSE lost
              /\ faults' = faults
           \/ /\ Fault
              /\ conv' = conv /\ torn' \in {torn, TRUE}
              /\ lost' = lost \cup {n}

store_conv_add_user == AddLine("user")
store_conv_add_assistant == AddLine(IF answer.ran THEN "call" ELSE "text")
store_conv_add_tool_results == AddLine("results")

------------------------------------------------------------------------------
(* agent_loop *)

(* What a step that appends a line leaves alone. *)
others == <<archive, archiveTorn, covered, plan, draft, local, child, crashes, ran, promptPlan,
            unarchived, unsummarised>>

LoopStart ==
    /\ pc = "idle"
    /\ store_conv_add_user
    /\ pc' = "top"
    /\ UNCHANGED others

(* agent_drain_sub_results at the head of a turn: results of background *)
(* tasks and injected texts become user lines.                          *)
Drain ==
    /\ pc = "top"
    /\ store_conv_add_user
    /\ UNCHANGED <<pc, others>>

(* At the end of the last turn they start another one, unless interrupted. *)
DrainAtEnd ==
    /\ pc = "end"
    /\ store_conv_add_user
    /\ pc' \in {"top", "idle"}
    /\ UNCHANGED others

LoopEnds ==
    /\ pc = "end"
    /\ pc' = "idle"
    /\ UNCHANGED <<files, local, child, crashes, faults, history>>

(* The request fails, or its answer reports an error: nothing is saved. *)
RequestFails ==
    /\ pc = "request"
    /\ pc' = "idle"
    /\ UNCHANGED <<files, local, child, crashes, faults, history>>

(* The answer, with or without complete tool calls; a Ctrl+C or the token   *)
(* limit can end it after some.  Tools run only if the model stopped for it.*)
Answer(calls, stop) ==
    /\ pc = "request"
    /\ promptPlan' = plan
    /\ answer' = [stop |-> stop, ran |-> calls /\ stop = "tool_use"]
    /\ pc' = IF calls /\ stop = "tool_use" THEN "tools" ELSE "save"
    /\ UNCHANGED <<files, trigger, keep, text, data, child, crashes, faults,
                   log, ran, unarchived, unsummarised, lost>>

(* A copy may end early. *)
Copies(s) == {SubSeq(s, 1, k) : k \in 0..Len(s)}

(* The files of this session, copied: each only if it can be read and its copy *)
(* written, which nobody checks.                                               *)
CopyFiles ==
    \/ child' = [conv |-> conv, archive |-> archive, covered |-> covered, plan |-> plan] /\ faults' = faults
    \/ /\ Fault
       /\ \E c \in Copies(conv), a \in Copies(archive), s \in {covered, {}}, p \in {plan, NoPlan} :
             child' = [conv |-> c, archive |-> a, covered |-> s, plan |-> p]

(* Defect: the thread of the sub-agent makes the copy, at any time. *)
ForkInThread ==
    /\ pc \in {"tools", "save", "results"}
    /\ CopyFiles
    /\ UNCHANGED <<files, pc, local, crashes, history>>

(* A SubAgent call of the batch with fork: the main thread copies the session *)
(* before it goes on with the batch, so before the calls and results of this  *)
(* turn are saved.                                                            *)
store_session_fork ==
    /\ pc = "tools"
    /\ CopyFiles
    /\ UNCHANGED <<files, pc, local, crashes, history>>

(* Defect: PlanConfirm and PlanClear change the plan before the compaction. *)
PlanBeforeCompact ==
    /\ pc = "tools"
    /\ ran' = ran + 1
    /\ draft' \in {draft, NoPlan} \cup Plan
    /\ \/ pc' = "save" /\ trigger' = trigger /\ plan' = plan
       \/ /\ pc' = "plan" /\ trigger' \in {"plan_confirm", "plan_clear"}
          /\ plan' = IF trigger' = "plan_confirm" THEN draft' ELSE NoPlan
    /\ child' = NoChild
    /\ UNCHANGED <<conv, torn, archive, archiveTorn, covered, keep, text, data, answer,
                   crashes, faults, log, promptPlan, unarchived, unsummarised, lost>>

(* The batch runs (a Write may replace plan.draft); the first PlanConfirm or *)
(* PlanClear of the batch then triggers a compaction.                        *)
RunTools ==
    /\ pc = "tools"
    /\ ran' = ran + 1
    /\ draft' \in {draft, NoPlan} \cup Plan
    /\ \/ pc' = "save" /\ trigger' = trigger
       \/ pc' = "plan" /\ trigger' \in {"plan_confirm", "plan_clear"}
    /\ child' = NoChild
    /\ UNCHANGED <<conv, torn, archive, archiveTorn, covered, plan, keep, text, data, answer,
                   crashes, faults, log, promptPlan, unarchived, unsummarised, lost>>

(* After the compaction, failed or not: PlanConfirm writes the draft, if there *)
(* is one, to the plan and empties the draft, PlanClear empties the plan.  A   *)
(* write that ends early leaves another text; the draft is emptied all the same.*)
StorePlan ==
    /\ pc = "planStore"
    /\ IF trigger = "plan_confirm"
         THEN /\ plan' \in IF draft = NoPlan THEN {plan} ELSE {plan, NoPlan} \cup Plan
              /\ draft' \in {NoPlan, draft}
         ELSE plan' \in {NoPlan, plan} /\ draft' = draft
    /\ trigger' = "auto" /\ promptPlan' = NoPlan
    /\ pc' = "save"
    /\ UNCHANGED <<conv, torn, archive, archiveTorn, covered, keep, text, data, answer, child,
                   crashes, faults, log, ran, unarchived, unsummarised, lost>>

(* Defect: the results of a batch are not saved. *)
SaveForgetsResults ==
    /\ pc = "save"
    /\ store_conv_add_assistant
    /\ pc' = "decide"
    /\ UNCHANGED others

Save ==
    /\ pc = "save"
    /\ store_conv_add_assistant
    /\ pc' = IF answer.ran THEN "results" ELSE "decide"
    /\ UNCHANGED others

SaveResults ==
    /\ pc = "results"
    /\ store_conv_add_tool_results
    /\ pc' = "decide"
    /\ UNCHANGED others

(* A truncated answer ends the loop at once; after tools the next turn     *)
(* starts, unless interrupted or out of turns; else the loop drains once   *)
(* more.                                                                   *)
Decide ==
    /\ pc = "decide"
    /\ pc' \in CASE answer.stop = "max_tokens" -> {"idle"}
                 [] answer.stop = "tool_use"   -> {"top", "idle"}
                 [] OTHER                      -> {"end"}
    /\ answer' = NoAnswer /\ promptPlan' = NoPlan
    /\ UNCHANGED <<files, trigger, keep, text, data, child, crashes, faults,
                   log, ran, unarchived, unsummarised, lost>>

------------------------------------------------------------------------------
(* agent_compact_context *)

(* Defect: every line of role "user" counts, a line of tool results too. *)
AnyUserRole(line) == line.kind \in {"user", "results"}

(* A line of role "user" whose content is a string: not a line of results. *)
compact_is_real_user_line(line) == line.kind = "user"

(* The numbers of lines kept by a cut in front of a user line, the first *)
(* line excepted.                                                        *)
UserCuts(s) == {k \in 1..(Len(s) - 1) : compact_is_real_user_line(s[Len(s) - k + 1])}

(* Defect: the best cut is not aligned. *)
UnalignedDecision(s) == 3..(Len(s) - 1)

(* compact_dp_decision searches from three lines up and aligns its best cut *)
(* down to a user line.                                                     *)
compact_dp_decision(s) == {k \in UserCuts(s) : k >= 3}

(* compact_turn_keep keeps the last share of the user turns, at least one: *)
(* the one number of lines that does, 0 if there is no user line.          *)
compact_turn_keep(s) ==
    LET users == {i \in 1..Len(s) : compact_is_real_user_line(s[i])}
        share == (Cardinality(users) * MinKeepPercent + 50) \div 100
        turns == IF share < 1 THEN 1 ELSE share
    IN  IF users = {} THEN {0}
        ELSE {Len(s) - i + 1 : i \in {i \in users : Cardinality({j \in users : j >= i}) = turns}}

(* At the head of a turn: a cut the decision finds worth its cost, else, near *)
(* the context limit, the cut by turns if it drops anything.                  *)
AutoKeeps ==
    IF Len(conv) <= 4 THEN {}
    ELSE compact_dp_decision(conv) \cup (compact_turn_keep(conv) \cap 0..(Len(conv) - 1))

(* For PlanConfirm and PlanClear, always; the cut may keep everything. *)
PlanKeeps ==
    IF Len(conv) <= 4 THEN {}
    ELSE compact_dp_decision(conv) \cup compact_turn_keep(conv)

(* agent_compact_context returns; its locals go out of scope. *)
AfterCompact ==
    /\ pc' = IF trigger = "auto" THEN "request" ELSE "planStore"
    /\ keep' = 0 /\ data' = <<>>

(* No compaction, or the conversation cannot be read. *)
NoAutoCompact ==
    /\ pc = "top"
    /\ pc' = "request"
    /\ UNCHANGED <<files, local, child, crashes, faults, history>>

AutoCompact ==
    /\ pc = "top"
    /\ trigger' = "auto"
    /\ keep' \in AutoKeeps
    /\ pc' = "summary"
    /\ UNCHANGED <<files, text, data, answer, child, crashes, faults, history>>

PlanCompact ==
    /\ pc = "plan"
    /\ \/ pc' = "planStore" /\ keep' = keep
       \/ pc' = "summary" /\ keep' \in PlanKeeps
    /\ UNCHANGED <<files, trigger, text, data, answer, child, crashes, faults, history>>

(* The lines the summary is asked to add to the one there is. *)
ToSummarise == SubSeq(conv, 1, Len(conv) - keep)

(* On to the trim, whatever became of the summary, if it drops anything. *)
Trim == IF keep < Len(conv) THEN pc' = "archive" /\ UNCHANGED <<keep, data>> ELSE AfterCompact

(* Defect: the trim does not depend on the summary. *)
TrimWithoutSummary ==
    /\ pc = "summary"
    /\ Trim
    /\ UNCHANGED <<files, text, trigger, answer, child, crashes, faults, history>>

(* The request for the summary failed or gave no text: no trim. *)
SummaryFails ==
    /\ pc = "summary"
    /\ AfterCompact
    /\ UNCHANGED <<files, trigger, text, answer, child, crashes, faults, history>>

(* store_summary_set opens summary.txt, which empties it, or cannot.  The text *)
(* updates the old summary, if that could be read for the prompt, with the     *)
(* lines that are about to be dropped.                                         *)
store_summary_set ==
    /\ pc = "summary"
    /\ \/ /\ \/ text' = covered \cup Numbers(ToSummarise) /\ faults' = faults
             \/ text' = Numbers(ToSummarise) /\ Fault
          /\ covered' = {}
          /\ unsummarised' = unsummarised \cup (covered \ text')
          /\ pc' = "summaryWrite"
          /\ UNCHANGED <<keep, data>>
       \/ /\ Fault
          /\ unsummarised' = unsummarised \cup (Numbers(ToSummarise) \ covered)
          /\ Trim
          /\ UNCHANGED <<covered, text>>
    /\ UNCHANGED <<conv, torn, archive, archiveTorn, plan, draft, trigger, answer, child,
                   crashes, log, ran, promptPlan, unarchived, lost>>

(* Its write; cut short, the summary accounts for nothing any more.  Either way *)
(* the trim follows.                                                           *)
SummaryWrite ==
    /\ pc = "summaryWrite"
    /\ \/ covered' = text /\ unsummarised' = unsummarised \ text /\ faults' = faults
       \/ covered' = {} /\ unsummarised' = unsummarised \cup text /\ Fault
    /\ text' = {}
    /\ Trim
    /\ UNCHANGED <<conv, torn, archive, archiveTorn, plan, draft, trigger, answer, child,
                   crashes, log, ran, promptPlan, unarchived, lost>>

(* Defect: the last of the dropped lines is not archived. *)
DroppedButOne == SubSeq(conv, 1, Len(conv) - keep - 1)

(* store_conv_trim_tail splits the conversation in what it drops and keeps; a *)
(* torn line is no line, and kept.                                            *)
Dropped == SubSeq(conv, 1, Len(conv) - keep)

(* Defect: the head is kept instead of the tail. *)
KeptHead == SubSeq(conv, 1, keep)
Kept == SubSeq(conv, Len(conv) - keep + 1, Len(conv))

(* The conversation cannot be read. *)
TrimFails ==
    /\ pc = "archive"
    /\ AfterCompact
    /\ UNCHANGED <<files, trigger, text, answer, child, crashes, faults, history>>

(* The dropped lines are appended to the archive, the first of them to what may *)
(* be torn there.  That the archive cannot be opened or is written short does   *)
(* not stop the trim.                                                           *)
TrimArchive ==
    /\ pc = "archive"
    /\ data' = Kept
    /\ \E k \in 0..Len(Dropped), piece \in BOOLEAN :
          LET written == SubSeq(Dropped, IF archiveTorn THEN 2 ELSE 1, k)
          IN  /\ IF k = Len(Dropped) THEN ~piece /\ faults' = faults ELSE Fault
              /\ k = 0 /\ archiveTorn => piece
              /\ archive' = archive \o [i \in 1..Len(written) |-> written[i].n]
              /\ unarchived' = unarchived \cup (Numbers(Dropped) \ Numbers(written))
              /\ archiveTorn' = piece
    /\ pc' = "truncate"
    /\ UNCHANGED <<conv, torn, covered, plan, draft, trigger, keep, text, answer, child,
                   crashes, log, ran, promptPlan, unsummarised, lost>>

(* fopen(path, "wb") empties the conversation, or fails. *)
TrimTruncate ==
    /\ pc = "truncate"
    /\ \/ conv' = <<>> /\ pc' = "write" /\ UNCHANGED <<keep, data>>
       \/ conv' = conv /\ AfterCompact
    /\ UNCHANGED <<torn, archive, archiveTorn, covered, plan, draft, trigger, text, answer,
                   child, crashes, faults, history>>

(* The kept lines are written back, or the first k of them and a piece of the *)
(* next: its line, and those behind it, are gone.                             *)
TrimWrite ==
    /\ pc = "write"
    /\ \/ conv' = data /\ UNCHANGED <<torn, lost, faults>>
       \/ /\ Fault
          /\ \E k \in 0..Len(data) :
                /\ k = Len(data) => torn
                /\ conv' = SubSeq(data, 1, k)
                /\ lost' = lost \cup Numbers(SubSeq(data, k + 1, Len(data)))
          /\ torn' \in BOOLEAN
    /\ AfterCompact
    /\ UNCHANGED <<archive, archiveTorn, covered, plan, draft, trigger, text, answer, child,
                   crashes, log, ran, promptPlan, unarchived, unsummarised>>

------------------------------------------------------------------------------
(* The process dies; what it held in memory is gone. *)
Crash ==
    /\ pc # "off"
    /\ crashes + faults < MaxTroubles
    /\ crashes' = crashes + 1
    /\ pc' = "off"
    /\ trigger' = "auto" /\ keep' = 0 /\ text' = {} /\ data' = <<>> /\ answer' = NoAnswer
    /\ child' = NoChild /\ promptPlan' = NoPlan
    /\ unsummarised' = unsummarised \cup text
    /\ lost' = IF pc = "write" THEN lost \cup Numbers(data) ELSE lost
    /\ torn' = (torn /\ pc # "write")
    /\ UNCHANGED <<conv, archive, archiveTorn, covered, plan, draft, faults, log, ran, unarchived>>

(* Defect: a restart begins with empty files. *)
RestartEmpties ==
    /\ pc = "off"
    /\ pc' = "idle"
    /\ conv' = <<>> /\ archive' = <<>> /\ covered' = {}
    /\ UNCHANGED <<torn, archiveTorn, plan, draft, local, child, crashes, faults, history>>

(* --continue or --session: store_session_init leaves existing files alone. *)
Restart ==
    /\ pc = "off"
    /\ pc' = "idle"
    /\ UNCHANGED <<files, local, child, crashes, faults, history>>

Next ==
    \/ LoopStart \/ Drain \/ DrainAtEnd \/ LoopEnds
    \/ RequestFails \/ \E c \in BOOLEAN, s \in Stop : Answer(c, s)
    \/ store_session_fork \/ RunTools \/ StorePlan \/ Save \/ SaveResults \/ Decide
    \/ NoAutoCompact \/ AutoCompact \/ PlanCompact \/ SummaryFails \/ store_summary_set \/ SummaryWrite
    \/ TrimFails \/ TrimArchive \/ TrimTruncate \/ TrimWrite
    \/ Crash \/ Restart

Spec == Init /\ [][Next]_vars

------------------------------------------------------------------------------
(* Type invariant; what a compaction keeps is never more than there is. *)
TypeOK ==
    /\ conv \in Seq(Line) /\ torn \in BOOLEAN
    /\ archive \in Seq(Nat) /\ archiveTorn \in BOOLEAN
    /\ covered \subseteq Nat
    /\ plan \in Plan \cup {NoPlan} /\ draft \in Plan \cup {NoPlan}
    /\ pc \in Place
    /\ trigger \in Trigger /\ keep \in Nat /\ text \subseteq Nat /\ data \in Seq(Line)
    /\ answer \in [stop : Stop, ran : BOOLEAN]
    /\ child \in SessionFiles
    /\ crashes \in Nat /\ faults \in Nat /\ crashes + faults <= MaxTroubles
    /\ log \in Seq(Line) /\ Len(log) <= MaxLines
    /\ ran \in Nat
    /\ promptPlan \in Plan \cup {NoPlan}
    /\ unarchived \subseteq Nat /\ unsummarised \subseteq Nat /\ lost \subseteq Nat
    /\ pc \in {"summary", "summaryWrite", "archive"} => keep <= Len(conv)

(* At every moment, across compactions, failed and broken writes and crashes  *)
(* between any two file operations, the conversation is the end of what was   *)
(* said: each line stands where it was said, once, in order, and of what was  *)
(* said since the first nothing is missing but the lines of broken writes.    *)
(* What no reader makes sense of stands for such a line.                      *)
ConvIsSuffix ==
    /\ \A i \in 1..Len(conv) :
          IF conv[i].kind = "junk" THEN conv[i].n \in lost ELSE conv[i] = log[conv[i].n]
    /\ \A i, j \in 1..Len(conv) : i < j => conv[i].n < conv[j].n
    /\ conv # <<>> => conv[1].n..Len(log) \subseteq Numbers(conv) \cup lost

(* Among the first m lines, every user line or one behind it was lost: a      *)
(* conversation from line m on may have lost its head.                        *)
Headless(m) ==
    \A i \in 1..m : log[i].kind = "user" => \E j \in lost : i <= j /\ j <= m

(* The conversation sent to the model starts with a real user message: the    *)
(* cut of a compaction is aligned to one; unless a broken write has taken     *)
(* that message or all from it on.                                            *)
ConvStartsWithUser == conv # <<>> => conv[1].kind = "user" \/ Headless(conv[1].n)

(* No tool result without its call: each line of results directly follows     *)
(* the assistant line with the calls it answers, unless writing that failed.  *)
ResultsFollowCall ==
    \A i \in 1..Len(conv) :
        conv[i].kind = "results" =>
            \/ conv[i].n - 1 \in lost
            \/ i > 1 /\ conv[i - 1].kind = "call" /\ conv[i - 1].n = conv[i].n - 1

(* What the files or a trim under way hold of the conversation. *)
Held == Numbers(conv) \cup (IF pc = "write" THEN Numbers(data) ELSE {})

(* Every line that was ever appended is still in the conversation or in the   *)
(* archive, but for those the archive could not be given and those that a     *)
(* broken write, or a crash inside store_conv_trim_tail, took away.           *)
HistoryKept ==
    \A i \in 1..Len(log) : i \in Held \cup ToSet(archive) \cup unarchived \cup lost

(* Lines leave the conversation only once a stored summary accounts for them, *)
(* whatever fails in between; but for those of a summary that could not be    *)
(* written or, when it was replaced, read.                                    *)
SummaryCovers ==
    \A i \in 1..Len(log) : i \in Held \cup covered \cup text \cup unsummarised \cup lost

(* Every executed batch of tool calls appends its results to the conversation *)
(* (an append that fails is none the less made), also when the loop ends with *)
(* it: the model is never asked to repeat what was already done.              *)
RunsRecorded ==
    crashes = 0 =>
        ran = Cardinality({i \in 1..Len(log) : log[i].kind = "results"})
              + (IF answer.ran /\ pc \notin {"tools", "decide"} THEN 1 ELSE 0)

(* A compaction triggered by PlanConfirm or PlanClear asks for its summary   *)
(* with the system prompt of the request before it (the cached prefix): the  *)
(* plan changes only afterwards.                                             *)
PlanPrefixKept == pc = "summary" /\ trigger # "auto" => plan = promptPlan

(* Batches of calls in a conversation without their results right after, but *)
(* for those whose results a broken write took.                              *)
Unanswered(s) ==
    {i \in 1..Len(s) :
        /\ s[i].kind = "call" /\ s[i].n + 1 \notin lost
        /\ ~(i < Len(s) /\ s[i + 1].kind = "results")}

(* Every tool call in the conversation of a request has its results, but for *)
(* one batch per crash, for results that could not be written, and for       *)
(* answers that were interrupted or truncated, which are saved with calls    *)
(* nobody answers.                                                           *)
CallsAnswered == pc = "request" => Cardinality(Unanswered(conv)) <= crashes

(* The copy a forked sub-agent starts from is a session of its own right: it *)
(* starts with a user message, none of its calls waits for results the       *)
(* parent saves later, and what its conversation lacks its own summary       *)
(* accounts for and its own archive has.  A copy that failed lacks what it   *)
(* lacks, but takes nothing from the other files.                            *)
ForkSound ==
    child # NoChild =>
        /\ child.conv # <<>> => child.conv[1].kind = "user" \/ Headless(child.conv[1].n)
        /\ Cardinality(Unanswered(child.conv)) <= crashes + (IF child.conv # conv THEN 1 ELSE 0)
        /\ \A i \in 1..Len(log) :
               \/ i \in Numbers(child.conv) \cup lost
               \/ child.conv # conv /\ i \in Numbers(conv)
               \/ /\ i \in child.covered \cup unsummarised \/ child.covered # covered
                  /\ i \in ToSet(child.archive) \cup unarchived \/ child.archive # archive

(* The transcript: the conversation is the tail a trim under way will write *)
(* back, the summary the one being written, and the archive was handed what *)
(* it holds and what it could not be given.                                 *)
Abstract == INSTANCE Transcript WITH
    said         <- log,
    conversation <- IF pc = "write" THEN data ELSE conv,
    summarised   <- covered \cup text,
    missed       <- unsummarised \ text,
    handed       <- ToSet(archive) \cup unarchived

(* Refinement: a compaction in its six file operations, with failures and     *)
(* crashes between them, forgets whole turns in one step, after their summary *)
(* was written or missed and their archive tried; or a broken write takes the *)
(* end of the conversation away.                                              *)
ImplementsTranscript == Abstract!TSpec
==============================================================================
