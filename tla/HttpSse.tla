------------------------------- MODULE HttpSse -------------------------------
(***************************************************************************)
(* One streamed request to the model (src/c/transport.c http_post_sse, with*)
(* stream_display_callback of agent.c): up to MaxRetries + 1 attempts, the *)
(* parser of each provider's stream, and the accumulator the agent loop    *)
(* reads when the request has returned.                                    *)
(*                                                                         *)
(* The server is the environment.  Per attempt it streams text and tool    *)
(* calls whose inputs come in pieces, it may answer with one JSON document *)
(* or an HTTP error, and the connection may end at any point, cleanly or   *)
(* not.  A line of the stream is one step; how bytes are cut into chunks   *)
(* does not matter, since stream_cb collects lines.                        *)
(***************************************************************************)
EXTENDS Integers, Sequences, FiniteSets, SequencesExt

CONSTANTS Provider,      \* "claude", "openai", "responses"
          JsonProvider,  \* those that may answer with one JSON document
          Call,          \* bound: tool calls of an answer
          Pieces,        \* bound: pieces of a call's input
          MaxRetries     \* max_retries

ASSUME ProviderAssumption ==
    Provider \subseteq {"claude", "openai", "responses"} /\ JsonProvider \subseteq Provider
ASSUME SizeAssumption == Pieces \in Nat \ {0} /\ MaxRetries \in Nat

VARIABLES
    provider,
    attempt,    \* the attempt under way, from 1
    pc,         \* in curl_easy_perform, after it, or returned
    cancelled,  \* the interrupt flag of the agent
    server,     \* what the server has sent in this attempt
    ctx,        \* the StreamCtx of the attempt
    acc,        \* the SseAccumulator
    rc, result  \* the CURLcode, and what http_post_sse returns

vars == <<provider, attempt, pc, cancelled, server, ctx, acc, rc, result>>

NoResult == -2
Attempt == 1..(MaxRetries + 1)

(* A piece of input knows its call, its place and the attempt it came in. *)
Piece(c, k) == [attempt |-> attempt, call |-> c, k |-> k]
WholeInput(c) == [k \in 1..Pieces |-> Piece(c, k)]

(* sent: 0 before a call is announced, k + 1 after k pieces, Pieces + 2 after *)
(* the event that ends it.  phase: "body", "finished" after the stop reason,  *)
(* "ended" after the terminal event (or a whole JSON document).               *)
Server(status, json) == [status |-> status, json |-> json, sent |-> [c \in Call |-> 0],
                         started |-> <<>>, phase |-> "body"]

FreshServer ==
    {Server(status, FALSE) : status \in {200, 400, 500}}
    \cup (IF provider \in JsonProvider THEN {Server(200, TRUE)} ELSE {})

NoCtx == [tools |-> <<>>, items |-> {}, finished |-> FALSE, complete |-> FALSE,
          terminal |-> FALSE]

(* Text, stop and error are tagged with the attempts they came from. *)
NoStop == [reason |-> "none", attempt |-> 0]
NoAcc == [text |-> {}, tools |-> <<>>, stop |-> NoStop, error |-> 0, speed |-> FALSE]

Init ==
    /\ provider \in Provider
    /\ attempt = 1
    /\ pc = "transfer"
    /\ cancelled = FALSE
    /\ server \in FreshServer
    /\ ctx = NoCtx
    /\ acc = NoAcc
    /\ rc = "ok" /\ result = NoResult

------------------------------------------------------------------------------
(* stream_display_callback: what each event does to the accumulator. *)

SSE_TEXT(a) == [a EXCEPT !.text = @ \cup {attempt}]
SSE_STOP(a, reason) == [a EXCEPT !.stop = [reason |-> reason, attempt |-> attempt]]
SSE_ERROR(a) == [a EXCEPT !.error = attempt]
SSE_USAGE(a, ready) == [a EXCEPT !.speed = ready]
SSE_TOOL_CALL_START(a, c) == [a EXCEPT !.tools = Append(@, [call |-> c, input |-> <<>>])]
SSE_TOOL_INPUT_DELTA(a, piece) ==
    IF a.tools = <<>> THEN a
    ELSE [a EXCEPT !.tools[Len(a.tools)].input = Append(@, piece)]
SSE_TOOL_CALLS(a, tools) == [a EXCEPT !.tools = @ \o tools]

(* Defect: the calls of the failed attempt stay. *)
RetryKeepsTools(a) == [NoAcc EXCEPT !.tools = a.tools]
SSE_RETRY(a) == NoAcc

------------------------------------------------------------------------------
(* stream_cb and the parsers; they run while a transfer is not cancelled. *)

Streaming == pc = "transfer" /\ server.status = 200 /\ ~server.json

Parse(ctx2, acc2) ==
    /\ ctx' = ctx2 /\ acc' = acc2
    /\ UNCHANGED <<provider, attempt, pc, cancelled, rc, result>>

(* Defect: what arrives belongs to the newest call, whatever its index. *)
NewestTool(tools, c) ==
    IF tools = <<>> THEN <<[call |-> c, input |-> <<>>]>>
    ELSE [tools EXCEPT ![Len(tools)].call = c]

(* The accumulated call with this index, appended if there is none. *)
streamctx_ensure_openai_tool(tools, c) ==
    IF \E i \in DOMAIN tools : tools[i].call = c THEN tools
    ELSE Append(tools, [call |-> c, input |-> <<>>])

(* Appends to, or replaces, the input of the call with this index. *)
AppendInput(tools, c, piece) ==
    [i \in DOMAIN tools |-> IF tools[i].call = c
        THEN [tools[i] EXCEPT !.input = Append(@, piece)] ELSE tools[i]]
SetInput(tools, c, input) ==
    [i \in DOMAIN tools |-> IF tools[i].call = c
        THEN [tools[i] EXCEPT !.input = input] ELSE tools[i]]

(* Calls without any argument text are left out; the others keep their order. *)
streamctx_emit_openai_tool_calls(tools) ==
    LET kept == {i \in DOMAIN tools : tools[i].input # <<>>}
        nth(k) == CHOOSE i \in kept : Cardinality({j \in kept : j <= i}) = k
    IN  [k \in 1..Cardinality(kept) |-> tools[nth(k)]]

(* An event of the Responses API names its call by output_index, or by an *)
(* item id that an earlier event has connected to an index.               *)
responses_tool_index(c, hasIndex) == hasIndex \/ c \in ctx.items

Done(c) == server.sent[c] = Pieces + 2
(* Claude's blocks do not overlap. *)
MayStart(c) ==
    /\ server.phase = "body" /\ server.sent[c] = 0
    /\ provider = "claude" => \A d \in Call : server.sent[d] = 0 \/ Done(d)

(* A call is announced: content_block_start, the first chunk of an index, *)
(* response.output_item.added.                                            *)
ToolStart(c) ==
    /\ Streaming /\ ~cancelled
    /\ MayStart(c)
    /\ server' = [server EXCEPT !.sent[c] = 1, !.started = Append(@, c)]
    /\ IF provider = "claude"
         THEN Parse(ctx, SSE_TOOL_CALL_START(acc, c))
         ELSE Parse([ctx EXCEPT !.tools = streamctx_ensure_openai_tool(@, c),
                                !.items = @ \cup {c}], acc)

(* A piece of input arrives: input_json_delta carries no call and goes to   *)
(* the last one; the other providers name the call.                         *)
ToolDelta(c, hasIndex) ==
    /\ Streaming /\ ~cancelled
    /\ server.phase = "body" /\ server.sent[c] \in 1..Pieces
    /\ provider # "responses" => hasIndex
    /\ server' = [server EXCEPT !.sent[c] = @ + 1]
    /\ LET piece == Piece(c, server.sent[c])
       IN  CASE provider = "claude" -> Parse(ctx, SSE_TOOL_INPUT_DELTA(acc, piece))
             [] provider = "responses" /\ ~responses_tool_index(c, hasIndex) -> Parse(ctx, acc)
             [] OTHER ->
                  Parse([ctx EXCEPT !.tools =
                            AppendInput(streamctx_ensure_openai_tool(@, c), c, piece)], acc)

(* content_block_stop does nothing, response.output_item.done brings the *)
(* whole input again; OpenAI chunks have no such event.                  *)
ToolStop(c) ==
    /\ Streaming /\ ~cancelled
    /\ server.phase = "body" /\ server.sent[c] = Pieces + 1
    /\ server' = [server EXCEPT !.sent[c] = @ + 1]
    /\ IF provider = "responses"
         THEN Parse([ctx EXCEPT !.tools =
                        SetInput(streamctx_ensure_openai_tool(@, c), c, WholeInput(c))], acc)
         ELSE Parse(ctx, acc)

Text ==
    /\ Streaming /\ ~cancelled
    /\ server.phase = "body" /\ attempt \notin acc.text
    /\ Parse(ctx, SSE_TEXT(acc))
    /\ UNCHANGED server

(* The server has streamed its calls (if any) to the end, or is cut short by *)
(* the token limit.                                                          *)
Finishes(reason) ==
    CASE reason = "tool_use"   -> server.started # <<>> /\ \A c \in ToSet(server.started) : Done(c)
      [] reason = "end_turn"   -> server.started = <<>>
      [] reason = "max_tokens" -> TRUE

(* message_delta, or a chunk with a finish_reason; usage comes along. *)
Finish(reason) ==
    /\ Streaming /\ ~cancelled
    /\ provider # "responses"
    /\ server.phase = "body" /\ Finishes(reason)
    /\ server' = [server EXCEPT !.phase = "finished"]
    /\ LET stopped == SSE_USAGE(SSE_STOP(acc, reason), FALSE)
       IN  IF provider = "openai" /\ reason = "tool_use"
             THEN Parse([ctx EXCEPT !.finished = TRUE, !.tools = <<>>],
                        SSE_TOOL_CALLS(stopped, streamctx_emit_openai_tool_calls(ctx.tools)))
             ELSE Parse([ctx EXCEPT !.finished = TRUE], stopped)

(* message_stop and [DONE]: the protocol is complete, for OpenAI only after *)
(* a finish_reason.                                                         *)
Terminal ==
    /\ Streaming /\ ~cancelled
    /\ server.phase = "finished"
    /\ server' = [server EXCEPT !.phase = "ended"]
    /\ Parse([ctx EXCEPT !.complete = provider = "claude" \/ ctx.finished], acc)

(* response.completed *)
ResponseCompleted ==
    /\ Streaming /\ ~cancelled
    /\ provider = "responses" /\ server.phase = "body"
    /\ \A c \in ToSet(server.started) : Done(c)
    /\ server' = [server EXCEPT !.phase = "ended"]
    /\ LET tools == streamctx_emit_openai_tool_calls(ctx.tools)
           reason == IF ctx.tools # <<>> THEN "tool_use" ELSE "end_turn"
       IN  Parse([ctx EXCEPT !.tools = <<>>, !.terminal = TRUE, !.complete = TRUE],
                 SSE_STOP(SSE_USAGE(SSE_TOOL_CALLS(acc, tools), FALSE), reason))

(* response.failed, response.incomplete, error; Claude has an error event too, *)
(* which leaves the stop reason alone.                                         *)
StreamError ==
    /\ Streaming /\ ~cancelled
    /\ provider # "openai" /\ server.phase = "body"
    /\ server' = [server EXCEPT !.phase = "failed"]
    /\ IF provider = "responses"
         THEN Parse([ctx EXCEPT !.terminal = TRUE],
                    SSE_STOP(SSE_USAGE(SSE_ERROR(acc), FALSE), "error"))
         ELSE Parse(ctx, SSE_ERROR(acc))

(* The body of a JSON document arrives, all of it or not at all. *)
JsonBody ==
    /\ pc = "transfer" /\ server.json /\ ~cancelled
    /\ server.phase = "body"
    /\ \E started \in {<<>>} \cup {<<c>> : c \in Call} :
          server' = [server EXCEPT !.phase = "ended", !.started = started]
    /\ UNCHANGED <<provider, attempt, pc, cancelled, ctx, acc, rc, result>>

------------------------------------------------------------------------------
(* Ctrl+C, at any time. *)
CtrlC ==
    /\ pc # "done" /\ ~cancelled
    /\ cancelled' = TRUE
    /\ UNCHANGED <<provider, attempt, pc, server, ctx, acc, rc, result>>

(* stream_cb refuses data once the flag is set. *)
Abort ==
    /\ pc = "transfer" /\ cancelled
    /\ rc' = "write" /\ pc' = "after"
    /\ UNCHANGED <<provider, attempt, cancelled, server, ctx, acc, result>>

(* The transfer ends, cleanly (complete or not) or with an error or timeout. *)
TransferEnds ==
    /\ pc = "transfer"
    /\ rc' \in {"ok", "failed"}
    /\ pc' = "after"
    /\ UNCHANGED <<provider, attempt, cancelled, server, ctx, acc, result>>

------------------------------------------------------------------------------
(* http_post_sse after curl_easy_perform *)

ShouldRetry == rc = "failed" \/ (rc = "ok" /\ server.status >= 500)

(* Defect: the number of retries is not limited. *)
RetryForever ==
    /\ pc = "after" /\ ShouldRetry
    /\ UNCHANGED attempt
    /\ acc' = SSE_RETRY(acc)
    /\ ctx' = NoCtx
    /\ server' \in FreshServer
    /\ pc' = "transfer" /\ rc' = "ok"
    /\ UNCHANGED <<provider, cancelled, result>>

(* Defect: the StreamCtx is made once for all attempts. *)
RetryKeepsCtx ==
    /\ pc = "after" /\ ShouldRetry
    /\ attempt <= MaxRetries
    /\ attempt' = attempt + 1
    /\ acc' = SSE_RETRY(acc)
    /\ ctx' = [ctx EXCEPT !.tools = <<>>]
    /\ server' \in FreshServer
    /\ pc' = "transfer" /\ rc' = "ok"
    /\ UNCHANGED <<provider, cancelled, result>>

(* Another attempt, with a new StreamCtx and a reset accumulator. *)
Retry ==
    /\ pc = "after" /\ ShouldRetry
    /\ attempt <= MaxRetries
    /\ attempt' = attempt + 1
    /\ acc' = SSE_RETRY(acc)
    /\ ctx' = NoCtx
    /\ server' \in FreshServer
    /\ pc' = "transfer" /\ rc' = "ok"
    /\ UNCHANGED <<provider, cancelled, result>>

Return(a, value) ==
    /\ acc' = a
    /\ result' = value
    /\ pc' = "done"
    /\ UNCHANGED <<provider, attempt, cancelled, server, ctx, rc>>

(* No attempt left, or the window of 20 seconds is over. *)
Exhausted ==
    /\ pc = "after" /\ ShouldRetry
    /\ Return(acc, IF rc = "ok" THEN server.status ELSE -1)

(* Defect: an aborted request leaves the stop reason alone. *)
AbortedSilently == pc = "after" /\ rc = "write" /\ Return(acc, 0)

(* Aborted by Ctrl+C: whatever the stop reason was, it is "interrupted". *)
Interrupted == pc = "after" /\ rc = "write" /\ Return(SSE_STOP(acc, "interrupted"), 0)

(* What is left in the line buffer is parsed as a whole response: an error, *)
(* or text, calls and stop reason.  A call's input is taken from OpenAI's   *)
(* "arguments"; for Claude it is "{}" (here: no piece).  A document of the  *)
(* Responses API has nothing the parser looks for.                          *)
process_residual_json(a) ==
    LET input(c) == IF provider = "openai" THEN WholeInput(c) ELSE <<>>
        tools == [i \in DOMAIN server.started |->
                     [call |-> server.started[i], input |-> input(server.started[i])]]
        reason == IF tools = <<>> THEN "end_turn" ELSE "tool_use"
    IN  IF server.status >= 400 THEN {a, SSE_ERROR(a)}
        ELSE IF ~server.json \/ server.phase # "ended" THEN {a}
        ELSE {SSE_ERROR(a),
              IF provider = "responses" THEN a
              ELSE SSE_USAGE(SSE_STOP(SSE_TOOL_CALLS(SSE_TEXT(a), tools), reason), FALSE)}

stream_speed_ready == server.status = 200 /\ ~cancelled /\ ctx.complete

(* Defect: a stream that ends early is not noticed. *)
AcceptAnyEnd(a) == a

(* A Responses stream without its terminal event is an error. *)
CheckTerminal(a) ==
    IF server.status < 400 /\ provider = "responses" /\ ~ctx.terminal
      THEN SSE_STOP(SSE_ERROR(a), "error") ELSE a

Complete ==
    /\ pc = "after" /\ rc = "ok" /\ ~ShouldRetry
    /\ \E a \in process_residual_json(acc) :
          Return(CheckTerminal(SSE_USAGE(a, stream_speed_ready)),
                 IF server.status >= 400 THEN server.status ELSE 0)

------------------------------------------------------------------------------
Reason == {"tool_use", "end_turn", "max_tokens"}

StreamStep ==
    \/ \E c \in Call : ToolStart(c) \/ ToolStop(c) \/ \E h \in BOOLEAN : ToolDelta(c, h)
    \/ Text \/ (\E r \in Reason : Finish(r)) \/ Terminal
    \/ ResponseCompleted \/ StreamError \/ JsonBody

AfterStep == Retry \/ Exhausted \/ Interrupted \/ Complete

Returned == pc = "done" /\ UNCHANGED vars

Next == StreamStep \/ CtrlC \/ Abort \/ TransferEnds \/ AfterStep \/ Returned

(* A transfer ends at the latest by CURLOPT_TIMEOUT. *)
Fairness == WF_vars(Abort \/ TransferEnds) /\ WF_vars(AfterStep)

Spec == Init /\ [][Next]_vars
FairSpec == Spec /\ Fairness

------------------------------------------------------------------------------
(* agent_loop executes the accumulated calls. *)
Runs == pc = "done" /\ result = 0 /\ acc.error = 0 /\ acc.tools # <<>> /\ acc.stop.reason = "tool_use"

Tools == {acc.tools[i] : i \in DOMAIN acc.tools} \cup {ctx.tools[i] : i \in DOMAIN ctx.tools}

(* Type invariant. *)
TypeOK ==
    /\ provider \in Provider
    /\ attempt \in Attempt
    /\ pc \in {"transfer", "after", "done"}
    /\ cancelled \in BOOLEAN
    /\ server.status \in {200, 400, 500} /\ server.json \in BOOLEAN
    /\ server.sent \in [Call -> 0..(Pieces + 2)]
    /\ server.started \in Seq(Call)
    /\ server.phase \in {"body", "finished", "ended", "failed"}
    /\ \A t \in Tools : t.call \in Call /\ Len(t.input) <= Pieces
    /\ acc.text \subseteq Attempt
    /\ acc.stop.reason \in {"none", "error", "interrupted"} \cup Reason
    /\ acc.error \in 0..(MaxRetries + 1) /\ acc.speed \in BOOLEAN
    /\ rc \in {"ok", "write", "failed"} /\ result \in {NoResult, -1, 0, 400, 500}

(* Everything in the accumulator comes from the attempt under way: a retry   *)
(* mixes nothing of a failed attempt into the answer.                        *)
AttemptPure ==
    /\ \A t \in Tools : \A i \in DOMAIN t.input : t.input[i].attempt = attempt
    /\ acc.text \subseteq {attempt}
    /\ acc.stop.attempt \in {0, attempt}
    /\ acc.error \in {0, attempt}

(* The calls that are executed are the ones the server made, in its order,   *)
(* each with its whole input and nothing else, however the pieces of several *)
(* calls were interleaved and wherever earlier attempts broke off.           *)
ToolsRunAsCalled ==
    Runs => acc.tools = [i \in DOMAIN server.started |->
                            [call |-> server.started[i], input |-> WholeInput(server.started[i])]]

(* A request aborted by Ctrl+C executes nothing, also when the calls and     *)
(* their stop reason had already arrived.                                    *)
AbortedNotRun == pc = "done" /\ rc = "write" => ~Runs

(* What counts as complete did end in this attempt: the speed of a call is   *)
(* updated only after a whole stream with HTTP success, and a Responses      *)
(* stream that ends without its terminal event is reported as an error and   *)
(* never taken for an answer.                                                *)
CompleteMeansEnded ==
    pc = "done" =>
        /\ acc.speed => server.phase = "ended" /\ server.status = 200
        /\ provider = "responses" /\ result = 0 /\ acc.error = 0
              => server.phase = "ended" \/ acc.stop.reason = "interrupted"

(* The request returns, whatever the server does. *)
RequestReturns == <>(pc = "done")
==============================================================================
