---------------------------- MODULE HttpSseProofs ----------------------------
(***************************************************************************)
(* Proofs about HttpSse, for any number of calls, of pieces of input and of *)
(* retries: nothing of a failed attempt gets into the answer, an aborted    *)
(* request runs nothing, the calls that are run are the ones the server     *)
(* made, whole and in order, and only a stream that has ended counts as     *)
(* complete.                                                                *)
(***************************************************************************)
EXTENDS HttpSse, FiniteSetTheorems, SequenceTheorems, TLAPS

(* The types in full. *)
PieceSet == [attempt : Attempt, call : Call, k : 1..Pieces]
Tool == [call : Call, input : Seq(PieceSet)]
SentSet == [Call -> 0..(Pieces + 2)]
StartedSet == Seq(Call)
Phase == {"body", "finished", "ended", "failed"}
ServerSet == [status : {200, 400, 500}, json : BOOLEAN, sent : SentSet, started : StartedSet,
              phase : Phase]
CtxSet == [tools : Seq(Tool), items : SUBSET Call, finished : BOOLEAN, complete : BOOLEAN,
           terminal : BOOLEAN]
StopSet == [reason : {"none", "error", "interrupted"} \cup Reason, attempt : 0..(MaxRetries + 1)]
AccSet == [text : SUBSET Attempt, tools : Seq(Tool), stop : StopSet, error : 0..(MaxRetries + 1),
           speed : BOOLEAN]
Types ==
    /\ provider \in Provider
    /\ attempt \in Attempt
    /\ pc \in {"transfer", "after", "done"}
    /\ cancelled \in BOOLEAN
    /\ server \in ServerSet
    /\ ctx \in CtxSet
    /\ acc \in AccSet
    /\ rc \in {"ok", "write", "failed"} /\ result \in {NoResult, -1, 0, 400, 500}

(* The first n pieces of a call's input, and how many of them are there once *)
(* the server has sent so much of the call.                                  *)
Got(a, c, n) == [k \in 1..n |-> [attempt |-> a, call |-> c, k |-> k]]
Count(s) == IF s = Pieces + 2 THEN Pieces ELSE s - 1

(* These are the calls announced so far, with what has been sent of each. *)
Matches(tools, started, sent, a) ==
    /\ Len(tools) = Len(started)
    /\ \A j \in 1..Len(started) :
          tools[j] = [call |-> started[j], input |-> Got(a, started[j], Count(sent[started[j]]))]
AllDone == \A c \in Call : server.sent[c] # 0 => Done(c)

(* Announced calls are distinct; those of Claude follow each other. *)
Distinct(started, sent) ==
    /\ \A j \in 1..Len(started) : sent[started[j]] # 0
    /\ \A c \in Call : sent[c] # 0 => \E j \in 1..Len(started) : started[j] = c
    /\ \A j, k \in 1..Len(started) : started[j] = started[k] => j = k
OneByOne(started, sent) == \A j \in 1..(Len(started) - 1) : sent[started[j]] = Pieces + 2
StartedInv ==
    /\ Distinct(server.started, server.sent)
    /\ provider = "claude" => OneByOne(server.started, server.sent)

(* Where they are: Claude's in the accumulator from the start, the others'  *)
(* in the StreamCtx until the event that hands them over.                   *)
InAcc == /\ Matches(acc.tools, server.started, server.sent, attempt)
         /\ ctx.tools = <<>>
InCtx == /\ Matches(ctx.tools, server.started, server.sent, attempt)
         /\ acc.tools = <<>>
PlaceInv ==
    /\ provider = "claude" => InAcc
    /\ provider # "claude" => \A c \in Call : server.sent[c] # 0 => c \in ctx.items
    /\ provider # "claude" /\ server.phase \in {"body", "failed"} => InCtx
    /\ provider = "openai" /\ server.phase \in {"finished", "ended"} =>
          IF acc.stop.reason = "tool_use" THEN InAcc ELSE InCtx
    /\ provider = "responses" /\ server.phase = "ended" => InAcc
    /\ provider = "responses" => server.phase # "finished"

(* What the stop reason and the flags of the StreamCtx mean. *)
PhaseInv ==
    /\ acc.stop.reason = "tool_use" => AllDone /\ server.phase \in {"finished", "ended"}
    /\ acc.stop.reason # "interrupted"
    /\ ctx.complete => server.phase = "ended"
    /\ ctx.terminal => server.phase \in {"ended", "failed"}
    /\ provider = "responses" /\ server.phase = "failed" => acc.error = attempt

(* Before the request returns, a streamed answer is as above; without a      *)
(* stream nothing has been parsed.                                           *)
Streamed == server.status = 200 /\ ~server.json
StreamInv ==
    pc # "done" =>
        /\ Streamed => StartedInv /\ PlaceInv /\ PhaseInv
        /\ ~Streamed => ctx = NoCtx /\ acc = NoAcc
        /\ server.json => server.status = 200 /\ provider \in JsonProvider
        /\ ~acc.speed

(* Everything is of this attempt. *)
Fresh(tools) ==
    \A j \in 1..Len(tools) :
        /\ Len(tools[j].input) <= Pieces
        /\ \A m \in 1..Len(tools[j].input) : tools[j].input[m].attempt = attempt
PureInv ==
    /\ acc.text \subseteq {attempt}
    /\ acc.stop.attempt \in {0, attempt}
    /\ acc.error \in {0, attempt}
    /\ Fresh(acc.tools) /\ Fresh(ctx.tools)

(* When it has returned. *)
ReturnInv ==
    pc = "done" =>
        /\ rc = "write" => acc.stop.reason = "interrupted"
        /\ "claude" \notin JsonProvider => ToolsRunAsCalled
        /\ CompleteMeansEnded

IInv == Types /\ StreamInv /\ PureInv /\ ReturnInv

------------------------------------------------------------------------------
(* Pieces and calls. *)

LEMMA GotFacts ==
    ASSUME NEW a \in Attempt, NEW c \in Call, NEW n \in 0..Pieces
    PROVE  /\ Got(a, c, n) \in Seq(PieceSet) /\ Len(Got(a, c, n)) = n
           /\ \A k \in 1..n : Got(a, c, n)[k].attempt = a
           /\ n > 0 => Got(a, c, n) # <<>>
<1>0. Pieces \in Nat /\ n \in Nat
    BY SizeAssumption
<1>1. \A k \in 1..n : [attempt |-> a, call |-> c, k |-> k] \in PieceSet
    BY <1>0 DEF PieceSet
<1>2. Got(a, c, n) \in [1..n -> PieceSet]
    BY <1>1 DEF Got
<1>3. \A k \in 1..n : Got(a, c, n)[k].attempt = a
    BY DEF Got
<1>4. Got(a, c, n) \in Seq(PieceSet) /\ Len(Got(a, c, n)) = n
    BY <1>0, <1>2
<1> QED
    BY <1>0, <1>3, <1>4

LEMMA GotNext ==
    ASSUME NEW a \in Attempt, NEW c \in Call, NEW n \in 0..Pieces, n # Pieces
    PROVE  Append(Got(a, c, n), [attempt |-> a, call |-> c, k |-> n + 1]) = Got(a, c, n + 1)
<1> DEFINE p == [attempt |-> a, call |-> c, k |-> n + 1]
           A == Append(Got(a, c, n), p)
           B == Got(a, c, n + 1)
<1>0. Pieces \in Nat /\ n \in Nat /\ n + 1 \in 0..Pieces /\ n + 1 \in 1..Pieces
    BY SizeAssumption
<1>1. Got(a, c, n) \in Seq(PieceSet) /\ Len(Got(a, c, n)) = n /\ B \in Seq(PieceSet) /\ Len(B) = n + 1
    BY <1>0, GotFacts
<1>2. p \in PieceSet
    BY <1>0 DEF PieceSet
<1>3. \A k \in 1..n : B[k] = Got(a, c, n)[k]
    BY <1>0 DEF Got
<1>4. B[n + 1] = p
    BY <1>0 DEF Got
<1> HIDE DEF p, B
<1>5. /\ A \in Seq(PieceSet) /\ Len(A) = n + 1 /\ A[n + 1] = p
      /\ \A k \in 1..n : A[k] = Got(a, c, n)[k]
    BY <1>0, <1>1, <1>2
<1>6. \A k \in 1..Len(A) : A[k] = B[k]
    BY <1>0, <1>3, <1>4, <1>5
<1> HIDE DEF A
<1>7. A = B
    BY <1>1, <1>5, <1>6, SeqEqual
<1> QED
    BY <1>7 DEF A, B, p

LEMMA CountFacts ==
    /\ \A s \in 1..(Pieces + 2) : Count(s) \in 0..Pieces
    /\ \A s \in 1..Pieces : Count(s) # Pieces /\ Count(s) + 1 = Count(s + 1) /\ Count(s) + 1 = s
    /\ Count(1) = 0 /\ Count(Pieces + 1) = Pieces /\ Count(Pieces + 2) = Pieces
    BY SizeAssumption DEF Count

LEMMA WholeFacts ==
    ASSUME attempt \in Attempt, NEW c \in Call
    PROVE  WholeInput(c) = Got(attempt, c, Pieces) /\ WholeInput(c) \in Seq(PieceSet)
<1>1. Pieces \in 0..Pieces
    BY SizeAssumption
<1>2. WholeInput(c) = Got(attempt, c, Pieces)
    BY DEF WholeInput, Piece, Got
<1> QED
    BY <1>1, <1>2, GotFacts

(* Calls that all have input are all handed over, in order. *)
LEMMA EmitAll ==
    ASSUME NEW tools \in Seq(Tool), \A j \in 1..Len(tools) : tools[j].input # <<>>
    PROVE  streamctx_emit_openai_tool_calls(tools) = tools
<1> DEFINE n == Len(tools)
           kept == {i \in DOMAIN tools : tools[i].input # <<>>}
           nth(k) == CHOOSE i \in kept : Cardinality({j \in kept : j <= i}) = k
<1>0. n \in Nat /\ DOMAIN tools = 1..n
    OBVIOUS
<1>1. kept = 1..n
    BY <1>0
<1>2. Cardinality(1..n) = n
    BY <1>0, FS_Interval
<1>3. ASSUME NEW i \in 1..n PROVE Cardinality({j \in kept : j <= i}) = i
    <2>1. \A j : j \in 1..n /\ j <= i <=> j \in 1..i
        BY <1>0
    <2>2. {j \in kept : j <= i} = 1..i
        BY <1>1, <2>1
    <2>3. Cardinality(1..i) = i
        BY <1>0, FS_Interval
    <2> QED
        BY <2>2, <2>3
<1>4. ASSUME NEW k \in 1..n PROVE nth(k) = k
    BY <1>1, <1>3
<1> HIDE DEF nth
<1>5. [k \in 1..n |-> tools[nth(k)]] = tools
    <2>1. [k \in 1..n |-> tools[nth(k)]] = [k \in 1..n |-> tools[k]]
        BY <1>4
    <2>2. [k \in 1..n |-> tools[k]] = tools
        BY <1>0
    <2> QED
        BY <2>1, <2>2
<1>6. streamctx_emit_openai_tool_calls(tools) = [k \in 1..Cardinality(kept) |-> tools[nth(k)]]
    BY DEF streamctx_emit_openai_tool_calls, nth
<1>7. Cardinality(kept) = n
    BY <1>1, <1>2
<1> HIDE DEF kept, n
<1> QED
    BY <1>5, <1>6, <1>7

(* What matches is of this attempt, and whole once all calls are. *)
LEMMA MatchesFacts ==
    ASSUME Types, StartedInv, NEW tools \in Seq(Tool),
           Matches(tools, server.started, server.sent, attempt)
    PROVE  /\ Fresh(tools)
           /\ AllDone => \A j \in 1..Len(server.started) :
                             /\ tools[j] = [call |-> server.started[j],
                                            input |-> WholeInput(server.started[j])]
                             /\ tools[j].input # <<>>
<1>0. server.started \in Seq(Call) /\ server.sent \in [Call -> 0..(Pieces + 2)] /\ attempt \in Attempt
    BY DEF Types, ServerSet, SentSet, StartedSet
<1>1. ASSUME NEW j \in 1..Len(server.started)
      PROVE  /\ server.started[j] \in Call /\ Count(server.sent[server.started[j]]) \in 0..Pieces
             /\ tools[j] = [call |-> server.started[j],
                            input |-> Got(attempt, server.started[j], Count(server.sent[server.started[j]]))]
    <2>1. server.started[j] \in Call
        BY <1>0
    <2>2. server.sent[server.started[j]] \in 1..(Pieces + 2)
        BY <1>0, <2>1 DEF StartedInv, Distinct
    <2> QED
        BY <2>1, <2>2, CountFacts DEF Matches
<1>2. Fresh(tools)
    <2>1. Len(tools) = Len(server.started)
        BY DEF Matches
    <2>2. ASSUME NEW j \in 1..Len(server.started)
          PROVE  Len(tools[j].input) <= Pieces /\ \A m \in 1..Len(tools[j].input) : tools[j].input[m].attempt = attempt
        <3> DEFINE c == server.started[j]
                   n == Count(server.sent[c])
        <3>a. tools[j] = [call |-> c, input |-> Got(attempt, c, n)] /\ c \in Call /\ n \in 0..Pieces
            BY <1>1
        <3>1. tools[j].input = Got(attempt, c, n) /\ c \in Call /\ n \in 0..Pieces
            BY ONLY <3>a
        <3> HIDE DEF c, n
        <3>2. Len(Got(attempt, c, n)) = n /\ \A k \in 1..n : Got(attempt, c, n)[k].attempt = attempt
            BY <1>0, <3>1, GotFacts
        <3> QED
            BY <3>1, <3>2
    <2> QED
        BY <2>1, <2>2 DEF Fresh
<1>3. ASSUME AllDone, NEW j \in 1..Len(server.started)
      PROVE  /\ tools[j] = [call |-> server.started[j], input |-> WholeInput(server.started[j])]
             /\ tools[j].input # <<>>
    <2> DEFINE c == server.started[j]
    <2>1. c \in Call /\ server.sent[c] = Pieces + 2
        BY <1>0, <1>1, <1>3 DEF AllDone, Done, StartedInv, Distinct
    <2>2. WholeInput(c) = Got(attempt, c, Count(server.sent[c]))
        BY <1>0, <2>1, CountFacts, WholeFacts
    <2>3. Got(attempt, c, Pieces) # <<>>
        <3>1. Pieces \in 0..Pieces /\ Pieces > 0
            BY SizeAssumption
        <3> QED
            BY <1>0, <2>1, <3>1, GotFacts
    <2>4. tools[j] = [call |-> c, input |-> WholeInput(c)]
        BY <1>1, <2>2
    <2>5. WholeInput(c) # <<>>
        BY <1>0, <2>1, <2>3, WholeFacts
    <2> HIDE DEF c
    <2>6. tools[j].input # <<>>
        BY <2>4, <2>5
    <2> QED
        BY <2>4, <2>6 DEF c
<1> QED
    BY <1>2, <1>3

LEMMA MatchesStart ==
    ASSUME NEW tools \in Seq(Tool), NEW started \in Seq(Call), NEW sent \in [Call -> 0..(Pieces + 2)],
           NEW a \in Attempt, NEW c \in Call, sent[c] = 0,
           \A j \in 1..Len(started) : sent[started[j]] # 0, Matches(tools, started, sent, a)
    PROVE  Matches(Append(tools, [call |-> c, input |-> <<>>]), Append(started, c),
                   [sent EXCEPT ![c] = 1], a)
<1> DEFINE t == [call |-> c, input |-> <<>>]
           T == Append(tools, t)
           S == Append(started, c)
           N == [sent EXCEPT ![c] = 1]
<1>0. Len(started) \in Nat /\ Len(tools) = Len(started) /\ 1 \in 0..(Pieces + 2)
    BY SizeAssumption DEF Matches
<1>1. t \in Tool
    <2>1. <<>> \in Seq(PieceSet)
        OBVIOUS
    <2> QED
        BY <2>1 DEF Tool
<1>2. t = [call |-> c, input |-> Got(a, c, Count(1))]
    <2>1. Count(1) = 0 /\ 1..0 = {}
        BY CountFacts
    <2>2. Got(a, c, 0) = <<>>
        BY <2>1 DEF Got
    <2> QED
        BY <2>1, <2>2
<1> HIDE DEF t
<1>3. /\ Len(T) = Len(tools) + 1 /\ T[Len(tools) + 1] = t
      /\ \A j \in 1..Len(tools) : T[j] = tools[j]
      /\ Len(S) = Len(started) + 1 /\ S[Len(started) + 1] = c
      /\ \A j \in 1..Len(started) : S[j] = started[j]
    BY <1>0, <1>1
<1>4. N[c] = 1 /\ \A j \in 1..Len(started) : N[started[j]] = sent[started[j]]
    BY <1>0
<1> HIDE DEF T, S, N
<1>5. ASSUME NEW j \in 1..Len(S) PROVE T[j] = [call |-> S[j], input |-> Got(a, S[j], Count(N[S[j]]))]
    <2>1. CASE j = Len(started) + 1
        BY <1>0, <1>2, <1>3, <1>4, <2>1
    <2>2. CASE j # Len(started) + 1
        <3>1. j \in 1..Len(started)
            BY <1>0, <1>3, <2>2
        <3>2. T[j] = tools[j] /\ S[j] = started[j] /\ N[S[j]] = sent[started[j]]
            BY <1>0, <1>3, <1>4, <3>1
        <3>3. tools[j] = [call |-> started[j], input |-> Got(a, started[j], Count(sent[started[j]]))]
            BY <3>1 DEF Matches
        <3> QED
            BY <3>2, <3>3
    <2> QED
        BY <2>1, <2>2
<1>6. Matches(T, S, N, a)
    BY <1>0, <1>3, <1>5 DEF Matches
<1> QED
    BY <1>6 DEF T, S, N, t

LEMMA MatchesAt ==
    ASSUME NEW tools, NEW started, NEW sent, NEW a, Matches(tools, started, sent, a),
           NEW i \in 1..Len(started)
    PROVE  tools[i].call = started[i] /\ tools[i].input = Got(a, started[i], Count(sent[started[i]]))
<1>1. tools[i] = [call |-> started[i], input |-> Got(a, started[i], Count(sent[started[i]]))]
    BY DEF Matches
<1> QED
    BY ONLY <1>1

(* Only one call changes. *)
LEMMA MatchesChange ==
    ASSUME NEW tools, NEW new, NEW started \in Seq(Call), NEW sent \in [Call -> 0..(Pieces + 2)],
           NEW a, NEW c \in Call, NEW s \in 0..(Pieces + 2), Matches(tools, started, sent, a),
           Len(new) = Len(started),
           \A j \in 1..Len(started) : started[j] # c => new[j] = tools[j],
           \A j \in 1..Len(started) : started[j] = c =>
                new[j] = [call |-> c, input |-> Got(a, c, Count(s))]
    PROVE  Matches(new, started, [sent EXCEPT ![c] = s], a)
<1> DEFINE N == [sent EXCEPT ![c] = s]
<1>1. \A j \in 1..Len(started) : started[j] \in Call
    OBVIOUS
<1>2. N[c] = s /\ \A d \in Call : d # c => N[d] = sent[d]
    OBVIOUS
<1> HIDE DEF N
<1>3. ASSUME NEW j \in 1..Len(started)
      PROVE  new[j] = [call |-> started[j], input |-> Got(a, started[j], Count(N[started[j]]))]
    <2>1. CASE started[j] = c
        BY <1>2, <2>1
    <2>2. CASE started[j] # c
        <3>1. tools[j] = [call |-> started[j], input |-> Got(a, started[j], Count(sent[started[j]]))]
            BY DEF Matches
        <3> QED
            BY <1>1, <1>2, <2>2, <3>1
    <2> QED
        BY <2>1, <2>2
<1>4. Matches(new, started, N, a)
    BY <1>3 DEF Matches
<1> QED
    BY <1>4 DEF N

(* The list of announced calls grows ... *)
LEMMA DistinctStart ==
    ASSUME NEW st \in Seq(Call), NEW sent \in [Call -> 0..(Pieces + 2)], NEW c \in Call, sent[c] = 0,
           Distinct(st, sent)
    PROVE  /\ Distinct(Append(st, c), [sent EXCEPT ![c] = 1])
           /\ (\A d \in Call : sent[d] = 0 \/ sent[d] = Pieces + 2) =>
                 OneByOne(Append(st, c), [sent EXCEPT ![c] = 1])
<1> DEFINE n == Len(st)
           S == Append(st, c)
           N == [sent EXCEPT ![c] = 1]
<1>1. /\ n \in Nat /\ Len(S) = n + 1 /\ S[n + 1] = c
      /\ \A j \in 1..n : S[j] = st[j] /\ st[j] \in Call
      /\ N[c] = 1 /\ \A d \in Call : d # c => N[d] = sent[d]
    OBVIOUS
<1>2. \A j \in 1..n : st[j] # c /\ sent[st[j]] # 0
    BY DEF Distinct
<1>3. \A j \in 1..(n + 1) : j \in 1..n \/ j = n + 1
    BY <1>1
<1> HIDE DEF S, N
<1>4. ASSUME NEW j \in 1..(n + 1) PROVE N[S[j]] # 0
    BY <1>1, <1>2, <1>3
<1>5. ASSUME NEW d \in Call, N[d] # 0 PROVE \E j \in 1..(n + 1) : S[j] = d
    <2>1. CASE d = c
        <3>1. n + 1 \in 1..(n + 1)
            BY <1>1
        <3> QED
            BY <1>1, <2>1, <3>1
    <2>2. CASE d # c
        <3>1. PICK j \in 1..n : st[j] = d
            BY <1>1, <1>5, <2>2 DEF Distinct
        <3>2. j \in 1..(n + 1)
            BY <1>1
        <3> QED
            BY <1>1, <3>1, <3>2
    <2> QED
        BY <2>1, <2>2
<1>6. ASSUME NEW j \in 1..(n + 1), NEW k \in 1..(n + 1), S[j] = S[k] PROVE j = k
    <2>1. CASE j \in 1..n /\ k \in 1..n
        BY <1>1, <1>6, <2>1 DEF Distinct
    <2>2. CASE ~(j \in 1..n /\ k \in 1..n)
        BY <1>1, <1>2, <1>3, <1>6, <2>2
    <2> QED
        BY <2>1, <2>2
<1>7. Distinct(S, N)
    BY <1>1, <1>4, <1>5, <1>6 DEF Distinct
<1>8. ASSUME \A d \in Call : sent[d] = 0 \/ sent[d] = Pieces + 2 PROVE OneByOne(S, N)
    <2>1. \A j \in 1..(Len(S) - 1) : j \in 1..n
        BY <1>1
    <2> QED
        BY <1>1, <1>2, <1>8, <2>1 DEF OneByOne
<1> QED
    BY <1>7, <1>8 DEF S, N

(* ... and stays as it is when one of them gets on. *)
LEMMA DistinctChange ==
    ASSUME NEW st \in Seq(Call), NEW sent \in [Call -> 0..(Pieces + 2)], NEW c \in Call, sent[c] # 0,
           NEW s \in 0..(Pieces + 2), s # 0, Distinct(st, sent)
    PROVE  /\ Distinct(st, [sent EXCEPT ![c] = s])
           /\ sent[c] # Pieces + 2 /\ OneByOne(st, sent) => OneByOne(st, [sent EXCEPT ![c] = s])
<1> DEFINE N == [sent EXCEPT ![c] = s]
<1>1. N[c] = s /\ \A d \in Call : d # c => N[d] = sent[d]
    OBVIOUS
<1>2. Len(st) \in Nat /\ \A j \in 1..Len(st) : st[j] \in Call
    OBVIOUS
<1> HIDE DEF N
<1>3. Distinct(st, N)
    BY <1>1, <1>2 DEF Distinct
<1>4. ASSUME sent[c] # Pieces + 2, OneByOne(st, sent) PROVE OneByOne(st, N)
    <2>1. \A j \in 1..(Len(st) - 1) : j \in 1..Len(st)
        BY <1>2
    <2> QED
        BY <1>1, <1>2, <1>4, <2>1 DEF OneByOne
<1> QED
    BY <1>3, <1>4 DEF N

------------------------------------------------------------------------------
(* Where an attempt starts. *)

FreshStart ==
    /\ pc = "transfer" /\ server.started = <<>> /\ server.phase = "body"
    /\ \A c \in Call : server.sent[c] = 0
    /\ server.json => server.status = 200 /\ provider \in JsonProvider
    /\ ctx = NoCtx /\ acc = NoAcc

LEMMA Empties == NoCtx \in CtxSet /\ NoAcc \in AccSet
<1>1. <<>> \in Seq(Tool)
    OBVIOUS
<1>2. 0 \in 0..(MaxRetries + 1)
    BY SizeAssumption
<1>3. NoStop \in StopSet
    BY <1>2 DEF NoStop, StopSet
<1> QED
    BY <1>1, <1>2, <1>3 DEF NoCtx, NoAcc, CtxSet, AccSet

LEMMA FreshInv == Types /\ FreshStart => StreamInv /\ PureInv /\ ReturnInv
<1> SUFFICES ASSUME Types, FreshStart PROVE StreamInv /\ PureInv /\ ReturnInv
    OBVIOUS
<1>0. Len(server.started) = 0 /\ 1..0 = {} /\ Len(<<>>) = 0
    BY DEF FreshStart
<1>a. /\ ctx.tools = <<>> /\ acc.tools = <<>> /\ acc.stop.reason = "none" /\ acc.stop.attempt = 0
      /\ acc.error = 0 /\ acc.text = {} /\ ~acc.speed /\ ~ctx.complete /\ ~ctx.terminal
      /\ pc = "transfer" /\ server.phase = "body"
    BY DEF FreshStart, NoCtx, NoAcc, NoStop
<1>1. StartedInv
    <2>1. 1..(0 - 1) = {}
        OBVIOUS
    <2> QED
        BY <1>0, <2>1 DEF FreshStart, StartedInv, Distinct, OneByOne
<1>2. InAcc /\ InCtx
    BY <1>0, <1>a DEF InAcc, InCtx, Matches
<1>3. PlaceInv
    BY <1>2, <1>a DEF PlaceInv, FreshStart
<1>4. PhaseInv
    BY <1>a DEF PhaseInv
<1>5. StreamInv
    BY <1>1, <1>3, <1>4, <1>a DEF StreamInv, FreshStart
<1>6. PureInv
    BY <1>0, <1>a DEF PureInv, Fresh
<1> QED
    BY <1>5, <1>6, <1>a DEF ReturnInv

LEMMA FreshServerFacts ==
    ASSUME NEW s \in FreshServer
    PROVE  /\ s \in ServerSet /\ s.started = <<>> /\ s.phase = "body"
           /\ \A c \in Call : s.sent[c] = 0
           /\ s.json => s.status = 200 /\ provider \in JsonProvider
<1>0. [c \in Call |-> 0] \in SentSet /\ <<>> \in StartedSet /\ "body" \in Phase
    BY SizeAssumption DEF SentSet, StartedSet, Phase
<1>2. CASE s \in {Server(status, FALSE) : status \in {200, 400, 500}}
    <2>1. PICK status \in {200, 400, 500} : s = Server(status, FALSE)
        BY <1>2
    <2> QED
        BY <1>0, <2>1 DEF Server, ServerSet
<1>3. CASE s \notin {Server(status, FALSE) : status \in {200, 400, 500}}
    <2>1. s = Server(200, TRUE) /\ provider \in JsonProvider
        BY <1>3 DEF FreshServer
    <2> QED
        BY <1>0, <2>1 DEF Server, ServerSet
<1> QED
    BY <1>2, <1>3

LEMMA InitInv == Init => IInv
<1> SUFFICES ASSUME Init PROVE IInv
    OBVIOUS
<1>a. server \in ServerSet
    BY FreshServerFacts DEF Init
<1>b. 1 \in Attempt
    BY SizeAssumption DEF Attempt
<1>1. Types
    BY <1>a, <1>b, Empties DEF Init, Types
<1>2. FreshStart
    BY FreshServerFacts DEF Init, FreshStart
<1> QED
    BY <1>1, <1>2, FreshInv DEF IInv

LEMMA StreamFresh == Types /\ StreamInv /\ pc # "done" => Fresh(acc.tools) /\ Fresh(ctx.tools)
<1> SUFFICES ASSUME Types, StreamInv, pc # "done" PROVE Fresh(acc.tools) /\ Fresh(ctx.tools)
    OBVIOUS
<1>1. Fresh(<<>>)
    BY DEF Fresh
<1>2. CASE ~Streamed
    BY <1>1, <1>2 DEF StreamInv, NoCtx, NoAcc
<1>3. CASE Streamed
    <2>1. StartedInv /\ PlaceInv
        BY <1>3 DEF StreamInv
    <2>2. acc.tools \in Seq(Tool) /\ ctx.tools \in Seq(Tool)
        BY DEF Types, AccSet, CtxSet
    <2>3. InAcc => Fresh(acc.tools) /\ Fresh(ctx.tools)
        BY <1>1, <2>1, <2>2, MatchesFacts DEF InAcc
    <2>4. InCtx => Fresh(acc.tools) /\ Fresh(ctx.tools)
        BY <1>1, <2>1, <2>2, MatchesFacts DEF InCtx
    <2>5. InAcc \/ InCtx
        BY <2>1, ProviderAssumption DEF PlaceInv, Types, ServerSet, Phase
    <2> QED
        BY <2>3, <2>4, <2>5
<1> QED
    BY <1>2, <1>3

------------------------------------------------------------------------------
(* Parsing. *)

Tags == /\ acc.text \subseteq {attempt}
        /\ acc.stop.attempt \in {0, attempt}
        /\ acc.error \in {0, attempt}

(* What a step of the parsers has to keep. *)
LEMMA ParseKeeps ==
    ASSUME IInv, Streaming, UNCHANGED <<provider, attempt, pc, rc, result>>, cancelled' \in BOOLEAN,
           server' \in ServerSet, server'.status = server.status, server'.json = server.json,
           ctx' \in CtxSet, acc' \in AccSet, StartedInv', PlaceInv', PhaseInv', Tags', ~acc'.speed
    PROVE  IInv'
<1>1. Types'
    BY DEF IInv, Types
<1>2. StreamInv' /\ ReturnInv' /\ (pc # "done")'
    BY DEF Streaming, StreamInv, ReturnInv, Streamed
<1>3. (Types /\ StreamInv /\ pc # "done" => Fresh(acc.tools) /\ Fresh(ctx.tools))'
    BY StreamFresh, PTL
<1>4. PureInv'
    BY <1>1, <1>2, <1>3 DEF PureInv, Tags
<1> QED
    BY <1>1, <1>2, <1>4 DEF IInv

(* What holds while a stream is parsed. *)
LEMMA StreamingFacts ==
    ASSUME IInv, Streaming
    PROVE  /\ Types /\ StartedInv /\ PlaceInv /\ PhaseInv /\ Tags /\ ~acc.speed
           /\ server \in ServerSet /\ ctx \in CtxSet /\ acc \in AccSet
           /\ server.started \in Seq(Call) /\ server.sent \in [Call -> 0..(Pieces + 2)]
           /\ ctx.tools \in Seq(Tool) /\ acc.tools \in Seq(Tool) /\ acc.stop \in StopSet
           /\ Len(server.started) \in Nat
           /\ attempt \in Attempt /\ attempt \in 0..(MaxRetries + 1) /\ attempt # 0
           /\ provider \in {"claude", "openai", "responses"}
<1>1. Types /\ StartedInv /\ PlaceInv /\ PhaseInv /\ Tags /\ ~acc.speed
    BY DEF IInv, Streaming, StreamInv, Streamed, PureInv, Tags
<1>2. server \in ServerSet /\ ctx \in CtxSet /\ acc \in AccSet /\ attempt \in Attempt
    BY <1>1 DEF Types
<1>3. attempt \in 0..(MaxRetries + 1) /\ attempt # 0
    BY <1>2, SizeAssumption DEF Attempt
<1>4. /\ server.started \in Seq(Call) /\ server.sent \in [Call -> 0..(Pieces + 2)]
      /\ ctx.tools \in Seq(Tool) /\ acc.tools \in Seq(Tool) /\ acc.stop \in StopSet
    BY <1>2 DEF ServerSet, CtxSet, AccSet, SentSet, StartedSet
<1> QED
    BY <1>1, <1>2, <1>3, <1>4, ProviderAssumption DEF Types

LEMMA ServerUpdate ==
    ASSUME NEW s \in ServerSet, NEW N \in SentSet, NEW S \in StartedSet, NEW p \in Phase, NEW r,
           r = [status |-> s.status, json |-> s.json, sent |-> N, started |-> S, phase |-> p]
    PROVE  /\ r \in ServerSet /\ r.status = s.status /\ r.json = s.json
           /\ r.sent = N /\ r.started = S /\ r.phase = p
<1>1. s.status \in {200, 400, 500} /\ s.json \in BOOLEAN
    BY DEF ServerSet
<1>2. r \in ServerSet
    BY <1>1 DEF ServerSet
<1> QED
    BY <1>2

LEMMA StartStep == ASSUME IInv, NEW c \in Call, ToolStart(c) PROVE IInv'
<1> DEFINE t == [call |-> c, input |-> <<>>]
           st == server.started
           sent == server.sent
<1>0. Streaming /\ MayStart(c) /\ server.phase = "body" /\ sent[c] = 0
    BY DEF ToolStart, MayStart
<1>a. /\ Types /\ StartedInv /\ PlaceInv /\ PhaseInv /\ Tags /\ ~acc.speed
      /\ server \in ServerSet /\ ctx \in CtxSet /\ acc \in AccSet
      /\ st \in Seq(Call) /\ sent \in [Call -> 0..(Pieces + 2)]
      /\ ctx.tools \in Seq(Tool) /\ acc.tools \in Seq(Tool) /\ attempt \in Attempt
    BY <1>0, StreamingFacts
<1>1. UNCHANGED <<provider, attempt, pc, cancelled, rc, result>> /\ cancelled \in BOOLEAN
    BY <1>a DEF ToolStart, Parse, Types
<1>2. /\ server' \in ServerSet /\ server'.status = server.status /\ server'.json = server.json
      /\ server'.phase = "body" /\ server'.sent = [sent EXCEPT ![c] = 1]
      /\ server'.started = Append(st, c)
    <2>1. 1 \in 0..(Pieces + 2)
        BY SizeAssumption
    <2> DEFINE N == [sent EXCEPT ![c] = 1]
               S == Append(st, c)
    <2>2. N \in SentSet /\ S \in StartedSet /\ server.phase \in Phase
        BY <1>0, <1>a, <2>1 DEF SentSet, StartedSet, Phase
    <2>3. server' = [status |-> server.status, json |-> server.json, sent |-> N, started |-> S,
                     phase |-> server.phase]
        BY <1>a DEF ServerSet, ToolStart
    <2> HIDE DEF N, S
    <2>4. /\ server' \in ServerSet /\ server'.status = server.status /\ server'.json = server.json
          /\ server'.phase = server.phase /\ server'.sent = N /\ server'.started = S
        BY <1>a, <2>2, <2>3, ServerUpdate
    <2> QED
        BY <1>0, <2>4 DEF N, S
<1>4. StartedInv'
    <2>0. Distinct(st, sent)
        BY <1>a DEF StartedInv
    <2>1. Distinct(server'.started, server'.sent)
        <3>1. Distinct(Append(st, c), [sent EXCEPT ![c] = 1])
            BY <1>0, <1>a, <2>0, DistinctStart
        <3> QED
            BY <1>2, <3>1
    <2>2. ASSUME provider = "claude" PROVE OneByOne(server'.started, server'.sent)
        <3>1. \A d \in Call : sent[d] = 0 \/ sent[d] = Pieces + 2
            BY <1>0, <2>2 DEF MayStart, Done
        <3>2. OneByOne(Append(st, c), [sent EXCEPT ![c] = 1])
            BY <1>0, <1>a, <2>0, <3>1, DistinctStart
        <3> QED
            BY <1>2, <3>2
    <2> QED
        BY <1>1, <2>1, <2>2 DEF StartedInv
<1>b. \A j \in 1..Len(st) : sent[st[j]] # 0
    BY <1>a DEF StartedInv, Distinct
<1>5. ASSUME NEW tools \in Seq(Tool), Matches(tools, st, sent, attempt)
      PROVE  Matches(Append(tools, t), server'.started, server'.sent, attempt')
    <2>1. Matches(Append(tools, t), Append(st, c), [sent EXCEPT ![c] = 1], attempt)
        BY <1>0, <1>a, <1>b, <1>5, MatchesStart
    <2> QED
        BY <1>1, <1>2, <2>1
<1>6. t \in Tool
    <2>1. <<>> \in Seq(PieceSet)
        OBVIOUS
    <2> QED
        BY <2>1 DEF Tool
<1>7. CASE provider = "claude"
    <2>1. ctx' = ctx /\ acc' = [acc EXCEPT !.tools = Append(@, t)]
        BY <1>7 DEF ToolStart, Parse, SSE_TOOL_CALL_START
    <2>2. Append(acc.tools, t) \in Seq(Tool)
        BY <1>6, <1>a
    <2> HIDE DEF t
    <2>3. acc' \in AccSet /\ acc'.tools = Append(acc.tools, t) /\ acc'.stop = acc.stop
          /\ acc'.text = acc.text /\ acc'.error = acc.error /\ acc'.speed = acc.speed
        BY <1>a, <2>1, <2>2 DEF AccSet
    <2>4. InAcc'
        BY <1>a, <1>5, <1>7, <2>1, <2>3 DEF InAcc, PlaceInv
    <2>5. PlaceInv'
        BY <1>1, <1>2, <1>7, <2>4 DEF PlaceInv
    <2>6. PhaseInv' /\ Tags'
        BY <1>0, <1>a, <1>1, <1>2, <1>7, <2>1, <2>3 DEF PhaseInv, Tags
    <2> QED
        BY <1>0, <1>a, <1>1, <1>2, <1>4, <2>1, <2>3, <2>5, <2>6, ParseKeeps
<1>8. CASE provider # "claude"
    <2>1. /\ acc' = acc
          /\ ctx' = [ctx EXCEPT !.tools = streamctx_ensure_openai_tool(@, c), !.items = @ \cup {c}]
        BY <1>8 DEF ToolStart, Parse
    <2>2. InCtx
        BY <1>0, <1>a, <1>8 DEF PlaceInv
    <2>3. \A i \in DOMAIN ctx.tools : ctx.tools[i].call # c
        <3>1. DOMAIN ctx.tools = 1..Len(st)
            BY <1>a, <2>2 DEF InCtx, Matches
        <3>2. ASSUME NEW i \in 1..Len(st) PROVE ctx.tools[i].call = st[i]
            BY <2>2, MatchesAt DEF InCtx
        <3> QED
            BY <1>0, <1>b, <3>1, <3>2
    <2>4. streamctx_ensure_openai_tool(ctx.tools, c) = Append(ctx.tools, t)
        BY <2>3 DEF streamctx_ensure_openai_tool
    <2>5. Append(ctx.tools, t) \in Seq(Tool)
        BY <1>6, <1>a
    <2> HIDE DEF t
    <2>6. /\ ctx' \in CtxSet /\ ctx'.tools = Append(ctx.tools, t) /\ ctx'.items = ctx.items \cup {c}
          /\ ctx'.complete = ctx.complete /\ ctx'.terminal = ctx.terminal
        BY <1>a, <2>1, <2>4, <2>5 DEF CtxSet
    <2>7. InCtx'
        BY <1>a, <1>5, <2>1, <2>2, <2>6 DEF InCtx
    <2>8. PlaceInv'
        BY <1>a, <1>1, <1>2, <1>8, <2>6, <2>7 DEF PlaceInv
    <2>9. PhaseInv' /\ Tags'
        BY <1>0, <1>a, <1>1, <1>2, <2>1, <2>6 DEF PhaseInv, Tags
    <2> QED
        BY <1>0, <1>a, <1>1, <1>2, <1>4, <2>1, <2>6, <2>8, <2>9, ParseKeeps
<1> QED
    BY <1>7, <1>8

LEMMA SentUpdate ==
    ASSUME server \in ServerSet, NEW N \in SentSet, server' = [server EXCEPT !.sent = N]
    PROVE  /\ server' \in ServerSet /\ server'.status = server.status /\ server'.json = server.json
           /\ server'.phase = server.phase /\ server'.sent = N /\ server'.started = server.started
<1>1. server' = [status |-> server.status, json |-> server.json, sent |-> N,
                 started |-> server.started, phase |-> server.phase]
    BY DEF ServerSet
<1>2. server \in ServerSet /\ N \in SentSet /\ server.started \in StartedSet /\ server.phase \in Phase
    BY DEF ServerSet
<1> QED
    BY ONLY <1>1, <1>2, ServerUpdate

LEMMA PhaseUpdate ==
    ASSUME server \in ServerSet, NEW p \in Phase, server' = [server EXCEPT !.phase = p]
    PROVE  /\ server' \in ServerSet /\ server'.status = server.status /\ server'.json = server.json
           /\ server'.phase = p /\ server'.sent = server.sent /\ server'.started = server.started
<1>1. server' = [status |-> server.status, json |-> server.json, sent |-> server.sent,
                 started |-> server.started, phase |-> p]
    BY DEF ServerSet
<1>2. server \in ServerSet /\ p \in Phase /\ server.started \in StartedSet /\ server.sent \in SentSet
    BY DEF ServerSet
<1> QED
    BY ONLY <1>1, <1>2, ServerUpdate

LEMMA CtxUpdate ==
    ASSUME ctx \in CtxSet, NEW T \in Seq(Tool), ctx' = [ctx EXCEPT !.tools = T]
    PROVE  /\ ctx' \in CtxSet /\ ctx'.tools = T /\ ctx'.items = ctx.items
           /\ ctx'.complete = ctx.complete /\ ctx'.terminal = ctx.terminal
    BY DEF CtxSet

LEMMA AccUpdate ==
    ASSUME acc \in AccSet, NEW T \in Seq(Tool), acc' = [acc EXCEPT !.tools = T]
    PROVE  /\ acc' \in AccSet /\ acc'.tools = T /\ acc'.text = acc.text /\ acc'.stop = acc.stop
           /\ acc'.error = acc.error /\ acc'.speed = acc.speed
    BY DEF AccSet

(* The input of one call is replaced. *)
LEMMA InputChange ==
    ASSUME NEW tools \in Seq(Tool), NEW started \in Seq(Call), NEW sent \in [Call -> 0..(Pieces + 2)],
           NEW a \in Attempt, NEW c \in Call, NEW s \in 1..(Pieces + 2),
           Matches(tools, started, sent, a), NEW new,
           new = [i \in DOMAIN tools |->
                     IF started[i] = c THEN [call |-> c, input |-> Got(a, c, Count(s))] ELSE tools[i]]
    PROVE  new \in Seq(Tool) /\ Matches(new, started, [sent EXCEPT ![c] = s], a)
<1>1. DOMAIN tools = 1..Len(started) /\ Len(started) \in Nat
    BY DEF Matches
<1>2. Got(a, c, Count(s)) \in Seq(PieceSet)
    BY CountFacts, GotFacts
<1>a. [call |-> c, input |-> Got(a, c, Count(s))] \in Tool
    BY <1>2 DEF Tool
<1>3. ASSUME NEW i \in 1..Len(started) PROVE new[i] \in Tool
    BY <1>1, <1>a
<1>4. new \in [1..Len(started) -> Tool]
    BY <1>1, <1>3
<1>5. new \in Seq(Tool) /\ Len(new) = Len(started)
    BY <1>1, <1>4
<1>6. s \in 0..(Pieces + 2)
    OBVIOUS
<1>7. /\ \A j \in 1..Len(started) : started[j] # c => new[j] = tools[j]
      /\ \A j \in 1..Len(started) : started[j] = c =>
            new[j] = [call |-> c, input |-> Got(a, c, Count(s))]
    BY <1>1
<1>8. Matches(new, started, [sent EXCEPT ![c] = s], a)
    BY <1>5, <1>6, <1>7, MatchesChange
<1> QED
    BY <1>5, <1>8

LEMMA DeltaStep == ASSUME IInv, NEW c \in Call, NEW h \in BOOLEAN, ToolDelta(c, h) PROVE IInv'
<1> DEFINE st == server.started
           sent == server.sent
           piece == Piece(c, sent[c])
           s == sent[c] + 1
           N == [sent EXCEPT ![c] = s]
<1>0. Streaming /\ server.phase = "body" /\ sent[c] \in 1..Pieces
    BY DEF ToolDelta
<1>a. /\ Types /\ StartedInv /\ PlaceInv /\ PhaseInv /\ Tags /\ ~acc.speed
      /\ server \in ServerSet /\ ctx \in CtxSet /\ acc \in AccSet
      /\ st \in Seq(Call) /\ sent \in [Call -> 0..(Pieces + 2)] /\ Len(st) \in Nat
      /\ ctx.tools \in Seq(Tool) /\ acc.tools \in Seq(Tool) /\ attempt \in Attempt
    BY <1>0, StreamingFacts
<1>b. provider \in {"claude", "openai", "responses"}
    BY <1>0, StreamingFacts
<1>1. UNCHANGED <<provider, attempt, pc, cancelled, rc, result>> /\ cancelled \in BOOLEAN
    BY <1>a, <1>b DEF ToolDelta, Parse, Types
<1>2. Pieces \in Nat /\ s \in 1..(Pieces + 2) /\ s \in 0..(Pieces + 2) /\ s # 0 /\ sent[c] # 0 /\ sent[c] # Pieces + 2
    BY <1>0, SizeAssumption
<1>3. N \in SentSet
    BY <1>a, <1>2 DEF SentSet
<1>4. server' = [server EXCEPT !.sent = N]
    BY <1>a DEF ToolDelta, ServerSet
<1>5. /\ server' \in ServerSet /\ server'.status = server.status /\ server'.json = server.json
      /\ server'.phase = "body" /\ server'.sent = N /\ server'.started = st
    <2> HIDE DEF N
    <2> QED
        BY <1>0, <1>a, <1>3, <1>4, SentUpdate
<1>6. StartedInv'
    <2>1. Distinct(st, sent) /\ (provider = "claude" => OneByOne(st, sent))
        BY <1>a DEF StartedInv
    <2>2. Distinct(st, N) /\ (provider = "claude" => OneByOne(st, N))
        BY <1>a, <1>2, <2>1, DistinctChange
    <2> QED
        BY <1>1, <1>5, <2>2 DEF StartedInv
<1>7. PICK m \in 1..Len(st) : st[m] = c
    BY <1>a, <1>2 DEF StartedInv, Distinct
<1>8. \A j \in 1..Len(st) : st[j] = c <=> j = m
    BY <1>a, <1>7 DEF StartedInv, Distinct
<1>9. Append(Got(attempt, c, Count(sent[c])), piece) = Got(attempt, c, Count(s))
    <2>1. /\ sent[c] \in 1..(Pieces + 2) /\ Count(sent[c]) \in 0..Pieces /\ Count(sent[c]) # Pieces
          /\ Count(sent[c]) + 1 = Count(s) /\ Count(sent[c]) + 1 = sent[c]
        <3>1. sent[c] \in 1..(Pieces + 2)
            BY <1>0, <1>2
        <3> QED
            BY <1>0, <3>1, CountFacts
    <2>2. piece = [attempt |-> attempt, call |-> c, k |-> Count(sent[c]) + 1]
        BY <2>1 DEF Piece
    <2> HIDE DEF piece, s
    <2>3. Append(Got(attempt, c, Count(sent[c])), piece) = Got(attempt, c, Count(sent[c]) + 1)
        BY <1>a, <2>1, <2>2, GotNext
    <2> QED
        BY <2>1, <2>3
<1> HIDE DEF piece
<1>10. CASE provider = "claude"
    <2>1. ctx' = ctx /\ acc' = SSE_TOOL_INPUT_DELTA(acc, piece)
        BY <1>10 DEF ToolDelta, Parse, piece
    <2>2. Matches(acc.tools, st, sent, attempt) /\ ctx.tools = <<>>
        BY <1>a, <1>10 DEF PlaceInv, InAcc
    <2>3. Len(acc.tools) = Len(st) /\ DOMAIN acc.tools = 1..Len(st) /\ acc.tools # <<>> /\ m = Len(st)
        <3>1. Len(acc.tools) = Len(st) /\ DOMAIN acc.tools = 1..Len(st)
            BY <1>a, <2>2 DEF Matches
        <3>2. m \notin 1..(Len(st) - 1)
            BY <1>a, <1>2, <1>7, <1>10 DEF StartedInv, OneByOne
        <3> QED
            BY <1>a, <1>7, <3>1, <3>2
    <2> DEFINE G == Got(attempt, c, Count(sent[c]))
               H == Got(attempt, c, Count(s))
               E == [acc.tools EXCEPT ![m] = [call |-> c, input |-> H]]
               F == [i \in DOMAIN acc.tools |->
                       IF st[i] = c THEN [call |-> c, input |-> H] ELSE acc.tools[i]]
    <2>4. acc.tools[m] = [call |-> c, input |-> G]
        BY <1>7, <2>2 DEF Matches
    <2>5. Append(G, piece) = H
        BY <1>9
    <2> HIDE DEF G, H
    <2>6. acc' = [acc EXCEPT !.tools = [acc.tools EXCEPT ![m] = [acc.tools[m] EXCEPT !.input = Append(@, piece)]]]
        BY <1>a, <2>1, <2>3 DEF SSE_TOOL_INPUT_DELTA, AccSet
    <2>7. [acc.tools[m] EXCEPT !.input = Append(@, piece)] = [call |-> c, input |-> H]
        <3>1. PICK t : t = acc.tools[m]
            OBVIOUS
        <3>2. t = [call |-> c, input |-> G]
            BY <2>4, <3>1
        <3>3. [t EXCEPT !.input = Append(@, piece)] = [call |-> c, input |-> Append(G, piece)]
            BY ONLY <3>2
        <3> QED
            BY ONLY <2>5, <3>1, <3>3
    <2>8. acc' = [acc EXCEPT !.tools = E]
        BY <2>6, <2>7
    <2>9. E = F
        BY <1>8, <2>3
    <2>10. F \in Seq(Tool) /\ Matches(F, st, N, attempt)
        BY <1>a, <1>2, <2>2, InputChange DEF H
    <2> HIDE DEF E, F
    <2>11. /\ acc' \in AccSet /\ acc'.tools = F /\ acc'.text = acc.text /\ acc'.stop = acc.stop
           /\ acc'.error = acc.error /\ acc'.speed = acc.speed
        BY <1>a, <2>8, <2>9, <2>10, AccUpdate
    <2>12. InAcc'
        BY <1>1, <1>5, <2>1, <2>2, <2>10, <2>11 DEF InAcc
    <2>13. PlaceInv'
        BY <1>1, <1>5, <1>10, <2>12 DEF PlaceInv
    <2>14. PhaseInv' /\ Tags'
        BY <1>0, <1>a, <1>1, <1>5, <1>10, <2>1, <2>11 DEF PhaseInv, Tags
    <2> QED
        BY <1>0, <1>a, <1>1, <1>5, <1>6, <2>1, <2>11, <2>13, <2>14, ParseKeeps
<1>11. CASE provider # "claude"
    <2>1. c \in ctx.items /\ InCtx
        BY <1>0, <1>a, <1>2, <1>11 DEF PlaceInv
    <2>2. acc' = acc /\ ctx' = [ctx EXCEPT !.tools = AppendInput(streamctx_ensure_openai_tool(@, c), c, piece)]
        BY <1>11, <2>1 DEF ToolDelta, Parse, piece, responses_tool_index
    <2>3. Matches(ctx.tools, st, sent, attempt) /\ acc.tools = <<>>
        BY <2>1 DEF InCtx
    <2>4. DOMAIN ctx.tools = 1..Len(st)
        BY <1>a, <2>3 DEF Matches
    <2>5. \A i \in 1..Len(st) : ctx.tools[i].call = st[i]
        BY <2>3, MatchesAt
    <2>6. streamctx_ensure_openai_tool(ctx.tools, c) = ctx.tools
        BY <1>7, <2>4, <2>5 DEF streamctx_ensure_openai_tool
    <2> DEFINE G == Got(attempt, c, Count(sent[c]))
               H == Got(attempt, c, Count(s))
               F == [i \in DOMAIN ctx.tools |->
                       IF st[i] = c THEN [call |-> c, input |-> H] ELSE ctx.tools[i]]
    <2>7. ctx.tools[m] = [call |-> c, input |-> G]
        BY <1>7, <2>3 DEF Matches
    <2>8. Append(G, piece) = H
        BY <1>9
    <2>9. F \in Seq(Tool) /\ Matches(F, st, N, attempt)
        BY <1>a, <1>2, <2>3, InputChange
    <2> HIDE DEF G, H
    <2>10. [ctx.tools[m] EXCEPT !.input = Append(@, piece)] = [call |-> c, input |-> H]
        <3>1. PICK t : t = ctx.tools[m]
            OBVIOUS
        <3>2. t = [call |-> c, input |-> G]
            BY <2>7, <3>1
        <3>3. [t EXCEPT !.input = Append(@, piece)] = [call |-> c, input |-> Append(G, piece)]
            BY ONLY <3>2
        <3> QED
            BY ONLY <2>8, <3>1, <3>3
    <2>11. AppendInput(ctx.tools, c, piece) = F
        BY <1>8, <2>4, <2>5, <2>10 DEF AppendInput
    <2> HIDE DEF F
    <2>12. /\ ctx' \in CtxSet /\ ctx'.tools = F /\ ctx'.items = ctx.items
           /\ ctx'.complete = ctx.complete /\ ctx'.terminal = ctx.terminal
        BY <1>a, <2>2, <2>6, <2>9, <2>11, CtxUpdate
    <2>13. InCtx'
        BY <1>1, <1>5, <2>2, <2>3, <2>9, <2>12 DEF InCtx
    <2>14. \A d \in Call : N[d] # 0 => d \in ctx'.items
        BY <1>a, <1>11, <2>1, <2>12 DEF PlaceInv
    <2>15. PlaceInv'
        BY <1>1, <1>5, <1>11, <2>13, <2>14 DEF PlaceInv
    <2>16. PhaseInv' /\ Tags'
        BY <1>0, <1>a, <1>1, <1>5, <2>2, <2>12 DEF PhaseInv, Tags
    <2> QED
        BY <1>0, <1>a, <1>1, <1>5, <1>6, <2>2, <2>12, <2>15, <2>16, ParseKeeps
<1> QED
    BY <1>10, <1>11

LEMMA StopStep == ASSUME IInv, NEW c \in Call, ToolStop(c) PROVE IInv'
<1> DEFINE st == server.started
           sent == server.sent
           s == Pieces + 2
           N == [sent EXCEPT ![c] = s]
<1>0. Streaming /\ server.phase = "body" /\ sent[c] = Pieces + 1
    BY DEF ToolStop
<1>a. /\ Types /\ StartedInv /\ PlaceInv /\ PhaseInv /\ Tags /\ ~acc.speed
      /\ server \in ServerSet /\ ctx \in CtxSet /\ acc \in AccSet
      /\ st \in Seq(Call) /\ sent \in [Call -> 0..(Pieces + 2)] /\ Len(st) \in Nat
      /\ ctx.tools \in Seq(Tool) /\ acc.tools \in Seq(Tool) /\ attempt \in Attempt
    BY <1>0, StreamingFacts
<1>b. provider \in {"claude", "openai", "responses"}
    BY <1>0, StreamingFacts
<1>1. UNCHANGED <<provider, attempt, pc, cancelled, rc, result>> /\ cancelled \in BOOLEAN
    BY <1>a DEF ToolStop, Parse, Types
<1>2. Pieces \in Nat /\ s \in 1..(Pieces + 2) /\ s \in 0..(Pieces + 2) /\ s # 0 /\ sent[c] # 0 /\ sent[c] # Pieces + 2
    BY <1>0, SizeAssumption
<1>3. N \in SentSet
    BY <1>a, <1>2 DEF SentSet
<1>4. server' = [server EXCEPT !.sent = N]
    <2>1. (Pieces + 1) + 1 = s
        BY <1>2
    <2> QED
        BY <1>0, <1>a, <2>1 DEF ToolStop, ServerSet
<1>5. /\ server' \in ServerSet /\ server'.status = server.status /\ server'.json = server.json
      /\ server'.phase = "body" /\ server'.sent = N /\ server'.started = st
    <2> HIDE DEF N
    <2> QED
        BY <1>0, <1>a, <1>3, <1>4, SentUpdate
<1>6. StartedInv'
    <2>1. Distinct(st, sent) /\ (provider = "claude" => OneByOne(st, sent))
        BY <1>a DEF StartedInv
    <2>2. Distinct(st, N) /\ (provider = "claude" => OneByOne(st, N))
        BY <1>a, <1>2, <2>1, DistinctChange
    <2> QED
        BY <1>1, <1>5, <2>2 DEF StartedInv
<1>7. Count(s) = Pieces /\ Count(sent[c]) = Pieces
    BY <1>0, CountFacts
<1>8. ASSUME NEW tools \in Seq(Tool), Matches(tools, st, sent, attempt)
      PROVE  /\ \A j \in 1..Len(st) : st[j] = c =>
                    tools[j] = [call |-> c, input |-> Got(attempt, c, Count(s))]
             /\ Matches(tools, st, N, attempt)
    <2>1. \A j \in 1..Len(st) : st[j] = c => tools[j] = [call |-> c, input |-> Got(attempt, c, Count(s))]
        BY <1>7, <1>8 DEF Matches
    <2>2. Len(tools) = Len(st)
        BY <1>8 DEF Matches
    <2>3. Matches(tools, st, N, attempt)
        BY <1>a, <1>2, <1>8, <2>1, <2>2, MatchesChange
    <2> QED
        BY <2>1, <2>3
<1>9. CASE provider = "claude"
    <2>1. ctx' = ctx /\ acc' = acc
        BY <1>9 DEF ToolStop, Parse
    <2>2. InAcc'
        BY <1>a, <1>1, <1>5, <1>8, <1>9, <2>1 DEF PlaceInv, InAcc
    <2>3. PlaceInv'
        BY <1>1, <1>5, <1>9, <2>2 DEF PlaceInv
    <2>4. PhaseInv' /\ Tags'
        BY <1>0, <1>a, <1>1, <1>5, <1>9, <2>1 DEF PhaseInv, Tags
    <2> QED
        BY <1>0, <1>a, <1>1, <1>5, <1>6, <2>1, <2>3, <2>4, ParseKeeps
<1>10. CASE provider # "claude"
    <2>1. InCtx /\ c \in ctx.items /\ acc' = acc
        BY <1>0, <1>a, <1>2, <1>10 DEF PlaceInv, ToolStop, Parse
    <2>2. Matches(ctx.tools, st, sent, attempt) /\ acc.tools = <<>>
        BY <2>1 DEF InCtx
    <2>3. ctx' = ctx
        <3>1. CASE provider # "responses"
            BY <3>1 DEF ToolStop, Parse
        <3>2. CASE provider = "responses"
            <4>1. ctx' = [ctx EXCEPT !.tools = SetInput(streamctx_ensure_openai_tool(@, c), c, WholeInput(c))]
                BY <3>2 DEF ToolStop, Parse
            <4>2. DOMAIN ctx.tools = 1..Len(st)
                BY <1>a, <2>2 DEF Matches
            <4>3. \A i \in 1..Len(st) : ctx.tools[i].call = st[i]
                BY <2>2, MatchesAt
            <4>4. \E i \in 1..Len(st) : st[i] = c
                BY <1>a, <1>2 DEF StartedInv, Distinct
            <4>5. streamctx_ensure_openai_tool(ctx.tools, c) = ctx.tools
                BY <4>2, <4>3, <4>4 DEF streamctx_ensure_openai_tool
            <4>6. WholeInput(c) = Got(attempt, c, Count(s))
                BY <1>a, <1>7, WholeFacts
            <4>7. ASSUME NEW i \in 1..Len(st), st[i] = c
                  PROVE  [ctx.tools[i] EXCEPT !.input = WholeInput(c)] = ctx.tools[i]
                <5>1. PICK t : t = ctx.tools[i]
                    OBVIOUS
                <5>2. t = [call |-> c, input |-> WholeInput(c)]
                    BY <1>8, <2>2, <1>a, <4>6, <4>7, <5>1
                <5>3. [t EXCEPT !.input = WholeInput(c)] = t
                    BY ONLY <5>2
                <5> QED
                    BY ONLY <5>1, <5>3
            <4>8. SetInput(ctx.tools, c, WholeInput(c)) = ctx.tools
                <5>1. SetInput(ctx.tools, c, WholeInput(c)) = [i \in DOMAIN ctx.tools |-> ctx.tools[i]]
                    BY <4>2, <4>3, <4>7 DEF SetInput
                <5> QED
                    BY <1>a, <5>1
            <4> QED
                BY <1>a, <4>1, <4>5, <4>8 DEF CtxSet
        <3> QED
            BY <3>1, <3>2
    <2>4. InCtx'
        BY <1>a, <1>1, <1>5, <1>8, <2>1, <2>2, <2>3 DEF InCtx
    <2>5. \A d \in Call : N[d] # 0 => d \in ctx'.items
        BY <1>a, <1>10, <2>1, <2>3 DEF PlaceInv
    <2>6. PlaceInv'
        BY <1>1, <1>5, <1>10, <2>4, <2>5 DEF PlaceInv
    <2>7. PhaseInv' /\ Tags'
        BY <1>0, <1>a, <1>1, <1>5, <2>1, <2>3 DEF PhaseInv, Tags
    <2> QED
        BY <1>0, <1>a, <1>1, <1>5, <1>6, <2>1, <2>3, <2>6, <2>7, ParseKeeps
<1> QED
    BY <1>9, <1>10

(* stream_display_callback, event by event. *)
LEMMA StopAcc ==
    ASSUME NEW a \in AccSet, attempt \in 0..(MaxRetries + 1),
           NEW reason \in {"none", "error", "interrupted"} \cup Reason
    PROVE  LET b == SSE_STOP(a, reason)
           IN  /\ b \in AccSet /\ b.tools = a.tools /\ b.text = a.text /\ b.error = a.error
               /\ b.speed = a.speed /\ b.stop.reason = reason /\ b.stop.attempt = attempt
<1>1. [reason |-> reason, attempt |-> attempt] \in StopSet
    BY DEF StopSet
<1> QED
    BY <1>1 DEF SSE_STOP, AccSet

LEMMA ErrorAcc ==
    ASSUME NEW a \in AccSet, attempt \in 0..(MaxRetries + 1)
    PROVE  LET b == SSE_ERROR(a)
           IN  /\ b \in AccSet /\ b.tools = a.tools /\ b.text = a.text /\ b.error = attempt
               /\ b.speed = a.speed /\ b.stop = a.stop
    BY DEF SSE_ERROR, AccSet

LEMMA UsageAcc ==
    ASSUME NEW a \in AccSet, NEW ready \in BOOLEAN
    PROVE  LET b == SSE_USAGE(a, ready)
           IN  /\ b \in AccSet /\ b.tools = a.tools /\ b.text = a.text /\ b.error = a.error
               /\ b.speed = ready /\ b.stop = a.stop
    BY DEF SSE_USAGE, AccSet

LEMMA TextAcc ==
    ASSUME NEW a \in AccSet, attempt \in Attempt
    PROVE  LET b == SSE_TEXT(a)
           IN  /\ b \in AccSet /\ b.tools = a.tools /\ b.text = a.text \cup {attempt}
               /\ b.error = a.error /\ b.speed = a.speed /\ b.stop = a.stop
    BY DEF SSE_TEXT, AccSet

(* The calls are the first ones of an attempt. *)
LEMMA ToolsAcc ==
    ASSUME NEW a \in AccSet, a.tools = <<>>, NEW tools \in Seq(Tool)
    PROVE  LET b == SSE_TOOL_CALLS(a, tools)
           IN  /\ b \in AccSet /\ b.tools = tools /\ b.text = a.text
               /\ b.error = a.error /\ b.speed = a.speed /\ b.stop = a.stop
<1>1. a.tools \o tools = tools
    OBVIOUS
<1>2. SSE_TOOL_CALLS(a, tools) = [a EXCEPT !.tools = tools]
    BY <1>1 DEF SSE_TOOL_CALLS
<1> QED
    BY <1>2 DEF AccSet

------------------------------------------------------------------------------
(* The events that end a stream. *)

LEMMA SameStarted ==
    ASSUME UNCHANGED <<provider, attempt>>, server'.sent = server.sent, server'.started = server.started
    PROVE  /\ StartedInv => StartedInv'
           /\ AllDone => AllDone'
           /\ InAcc /\ ctx'.tools = ctx.tools /\ acc'.tools = acc.tools => InAcc'
           /\ InCtx /\ ctx'.tools = ctx.tools /\ acc'.tools = acc.tools => InCtx'
    BY DEF StartedInv, AllDone, Done, InAcc, InCtx

(* All of the calls are handed over. *)
LEMMA HandOver ==
    ASSUME Types, StartedInv, AllDone, InCtx
    PROVE  streamctx_emit_openai_tool_calls(ctx.tools) = ctx.tools
<1>1. ctx.tools \in Seq(Tool)
    BY DEF Types, CtxSet
<1>2. Matches(ctx.tools, server.started, server.sent, attempt)
    BY DEF InCtx
<1>3. \A j \in 1..Len(server.started) : ctx.tools[j].input # <<>>
    BY <1>1, <1>2, MatchesFacts
<1>4. Len(ctx.tools) = Len(server.started)
    BY <1>2 DEF Matches
<1> QED
    BY <1>1, <1>3, <1>4, EmitAll

LEMMA AllStartedDone ==
    ASSUME Types, StartedInv, \A c \in ToSet(server.started) : Done(c)
    PROVE  AllDone
<1>1. server.started \in Seq(Call)
    BY DEF Types, ServerSet, StartedSet
<1>2. \A j \in 1..Len(server.started) : server.started[j] \in ToSet(server.started)
    BY <1>1 DEF ToSet
<1> QED
    BY <1>2 DEF AllDone, StartedInv, Distinct

LEMMA TextStep == ASSUME IInv, Text PROVE IInv'
<1>0. Streaming /\ server.phase = "body" /\ server' = server /\ ctx' = ctx /\ acc' = SSE_TEXT(acc)
    BY DEF Text, Parse
<1>a. /\ Types /\ StartedInv /\ PlaceInv /\ PhaseInv /\ Tags /\ ~acc.speed
      /\ server \in ServerSet /\ ctx \in CtxSet /\ acc \in AccSet /\ attempt \in Attempt
    BY <1>0, StreamingFacts
<1>1. UNCHANGED <<provider, attempt, pc, cancelled, rc, result>> /\ cancelled \in BOOLEAN
    BY <1>a DEF Text, Parse, Types
<1>2. /\ acc' \in AccSet /\ acc'.tools = acc.tools /\ acc'.text = acc.text \cup {attempt}
      /\ acc'.error = acc.error /\ acc'.speed = acc.speed /\ acc'.stop = acc.stop
    BY <1>0, <1>a, TextAcc
<1>3. /\ StartedInv' /\ (AllDone => AllDone') /\ (InAcc => InAcc') /\ (InCtx => InCtx')
    BY <1>0, <1>a, <1>1, <1>2, SameStarted
<1>4. PlaceInv'
    BY <1>0, <1>a, <1>1, <1>2, <1>3 DEF PlaceInv
<1>5. PhaseInv' /\ Tags'
    BY <1>0, <1>a, <1>1, <1>2, <1>3 DEF PhaseInv, Tags
<1> QED
    BY <1>0, <1>a, <1>1, <1>2, <1>3, <1>4, <1>5, ParseKeeps

LEMMA FinishStep == ASSUME IInv, NEW reason \in Reason, Finish(reason) PROVE IInv'
<1>0. /\ Streaming /\ server.phase = "body" /\ provider # "responses" /\ Finishes(reason)
      /\ server' = [server EXCEPT !.phase = "finished"]
    BY DEF Finish
<1>a. /\ Types /\ StartedInv /\ PlaceInv /\ PhaseInv /\ Tags /\ ~acc.speed
      /\ server \in ServerSet /\ ctx \in CtxSet /\ acc \in AccSet /\ ctx.tools \in Seq(Tool)
      /\ attempt \in 0..(MaxRetries + 1) /\ provider \in {"claude", "openai", "responses"}
    BY <1>0, StreamingFacts
<1>1. UNCHANGED <<provider, attempt, pc, cancelled, rc, result>> /\ cancelled \in BOOLEAN
    BY <1>a DEF Finish, Parse, Types
<1>2. /\ server' \in ServerSet /\ server'.status = server.status /\ server'.json = server.json
      /\ server'.phase = "finished" /\ server'.sent = server.sent /\ server'.started = server.started
    <2>1. "finished" \in Phase
        BY DEF Phase
    <2> QED
        BY <1>0, <1>a, <2>1, PhaseUpdate
<1>3. reason = "tool_use" => AllDone
    BY <1>0, <1>a, AllStartedDone DEF Finishes
<1>4. reason \in {"none", "error", "interrupted"} \cup Reason /\ reason # "interrupted"
    BY DEF Reason
<1> DEFINE b == SSE_USAGE(SSE_STOP(acc, reason), FALSE)
<1>5. /\ b \in AccSet /\ b.tools = acc.tools /\ b.text = acc.text /\ b.error = acc.error
      /\ b.speed = FALSE /\ b.stop.reason = reason /\ b.stop.attempt = attempt
    <2> DEFINE d == SSE_STOP(acc, reason)
    <2>1. /\ d \in AccSet /\ d.tools = acc.tools /\ d.text = acc.text /\ d.error = acc.error
          /\ d.stop.reason = reason /\ d.stop.attempt = attempt
        BY <1>a, <1>4, StopAcc
    <2> HIDE DEF d
    <2>2. /\ SSE_USAGE(d, FALSE) \in AccSet /\ SSE_USAGE(d, FALSE).tools = d.tools
          /\ SSE_USAGE(d, FALSE).text = d.text /\ SSE_USAGE(d, FALSE).error = d.error
          /\ SSE_USAGE(d, FALSE).speed = FALSE /\ SSE_USAGE(d, FALSE).stop = d.stop
        BY <2>1, UsageAcc
    <2> QED
        BY <2>1, <2>2 DEF d
<1>6. StartedInv' /\ (AllDone => AllDone')
    BY <1>a, <1>1, <1>2, SameStarted
<1>7. CASE provider = "openai" /\ reason = "tool_use"
    <2>1. InCtx /\ AllDone
        BY <1>0, <1>a, <1>3, <1>7 DEF PlaceInv
    <2>2. streamctx_emit_openai_tool_calls(ctx.tools) = ctx.tools
        BY <1>a, <2>1, HandOver
    <2>3. /\ ctx' = [ctx EXCEPT !.finished = TRUE, !.tools = <<>>]
          /\ acc' = SSE_TOOL_CALLS(b, ctx.tools)
        BY <1>7, <2>2 DEF Finish, Parse
    <2> HIDE DEF b
    <2>4. b.tools = <<>>
        BY <1>5, <2>1 DEF InCtx
    <2>5. /\ acc' \in AccSet /\ acc'.tools = ctx.tools /\ acc'.text = b.text
          /\ acc'.error = b.error /\ acc'.speed = b.speed /\ acc'.stop = b.stop
        BY <1>a, <1>5, <2>3, <2>4, ToolsAcc
    <2>6. /\ ctx' \in CtxSet /\ ctx'.tools = <<>> /\ ctx'.items = ctx.items
          /\ ctx'.complete = ctx.complete /\ ctx'.terminal = ctx.terminal
        <3>1. <<>> \in Seq(Tool)
            OBVIOUS
        <3> QED
            BY <1>a, <2>3, <3>1 DEF CtxSet
    <2>7. InAcc'
        BY <1>1, <1>2, <2>1, <2>5, <2>6 DEF InAcc, InCtx
    <2>8. PlaceInv'
        BY <1>a, <1>1, <1>2, <1>5, <1>7, <2>5, <2>6, <2>7 DEF PlaceInv
    <2>9. PhaseInv' /\ Tags'
        BY <1>0, <1>a, <1>1, <1>2, <1>4, <1>5, <1>6, <1>7, <2>1, <2>5, <2>6 DEF PhaseInv, Tags
    <2> QED
        BY <1>0, <1>a, <1>1, <1>2, <1>5, <1>6, <2>5, <2>6, <2>8, <2>9, ParseKeeps
<1>8. CASE ~(provider = "openai" /\ reason = "tool_use")
    <2>1. ctx' = [ctx EXCEPT !.finished = TRUE] /\ acc' = b
        BY <1>8 DEF Finish, Parse
    <2> HIDE DEF b
    <2>2. /\ ctx' \in CtxSet /\ ctx'.tools = ctx.tools /\ ctx'.items = ctx.items
          /\ ctx'.complete = ctx.complete /\ ctx'.terminal = ctx.terminal
        BY <1>a, <2>1 DEF CtxSet
    <2>3. (InAcc => InAcc') /\ (InCtx => InCtx')
        BY <1>1, <1>2, <1>5, <2>1, <2>2, SameStarted
    <2>4. PlaceInv'
        BY <1>0, <1>a, <1>1, <1>2, <1>5, <1>8, <2>1, <2>2, <2>3 DEF PlaceInv
    <2>5. PhaseInv' /\ Tags'
        BY <1>0, <1>a, <1>1, <1>2, <1>3, <1>4, <1>5, <1>6, <2>1, <2>2 DEF PhaseInv, Tags
    <2> QED
        BY <1>0, <1>a, <1>1, <1>2, <1>5, <1>6, <2>1, <2>2, <2>4, <2>5, ParseKeeps
<1> QED
    BY <1>7, <1>8

LEMMA TerminalStep == ASSUME IInv, Terminal PROVE IInv'
<1>0. /\ Streaming /\ server.phase = "finished" /\ acc' = acc
      /\ server' = [server EXCEPT !.phase = "ended"]
      /\ ctx' = [ctx EXCEPT !.complete = provider = "claude" \/ ctx.finished]
    BY DEF Terminal, Parse
<1>a. /\ Types /\ StartedInv /\ PlaceInv /\ PhaseInv /\ Tags /\ ~acc.speed
      /\ server \in ServerSet /\ ctx \in CtxSet /\ acc \in AccSet
    BY <1>0, StreamingFacts
<1>1. UNCHANGED <<provider, attempt, pc, cancelled, rc, result>> /\ cancelled \in BOOLEAN
    BY <1>a DEF Terminal, Parse, Types
<1>2. /\ server' \in ServerSet /\ server'.status = server.status /\ server'.json = server.json
      /\ server'.phase = "ended" /\ server'.sent = server.sent /\ server'.started = server.started
    <2>1. "ended" \in Phase
        BY DEF Phase
    <2> QED
        BY <1>0, <1>a, <2>1, PhaseUpdate
<1>3. ctx' \in CtxSet /\ ctx'.tools = ctx.tools /\ ctx'.items = ctx.items
    <2>1. (provider = "claude" \/ ctx.finished) \in BOOLEAN
        BY <1>a DEF CtxSet
    <2> DEFINE f == provider = "claude" \/ ctx.finished
    <2>2. ctx' = [ctx EXCEPT !.complete = f] /\ f \in BOOLEAN
        BY <1>0, <2>1
    <2> HIDE DEF f
    <2> QED
        BY <1>a, <2>2 DEF CtxSet
<1>4. StartedInv' /\ (AllDone => AllDone') /\ (InAcc => InAcc') /\ (InCtx => InCtx')
    BY <1>0, <1>a, <1>1, <1>2, <1>3, SameStarted
<1>5. PlaceInv'
    BY <1>0, <1>a, <1>1, <1>2, <1>3, <1>4 DEF PlaceInv
<1>6. PhaseInv' /\ Tags'
    BY <1>0, <1>a, <1>1, <1>2, <1>3, <1>4 DEF PhaseInv, Tags
<1> QED
    BY <1>0, <1>a, <1>1, <1>2, <1>3, <1>4, <1>5, <1>6, ParseKeeps

LEMMA CompletedStep == ASSUME IInv, ResponseCompleted PROVE IInv'
<1> DEFINE reason == IF ctx.tools # <<>> THEN "tool_use" ELSE "end_turn"
<1>0. /\ Streaming /\ server.phase = "body" /\ provider = "responses"
      /\ server' = [server EXCEPT !.phase = "ended"]
      /\ \A c \in ToSet(server.started) : Done(c)
    BY DEF ResponseCompleted
<1>a. /\ Types /\ StartedInv /\ PlaceInv /\ PhaseInv /\ Tags /\ ~acc.speed
      /\ server \in ServerSet /\ ctx \in CtxSet /\ acc \in AccSet /\ ctx.tools \in Seq(Tool)
      /\ attempt \in 0..(MaxRetries + 1)
    BY <1>0, StreamingFacts
<1>1. UNCHANGED <<provider, attempt, pc, cancelled, rc, result>> /\ cancelled \in BOOLEAN
    BY <1>a DEF ResponseCompleted, Parse, Types
<1>2. /\ server' \in ServerSet /\ server'.status = server.status /\ server'.json = server.json
      /\ server'.phase = "ended" /\ server'.sent = server.sent /\ server'.started = server.started
    <2>1. "ended" \in Phase
        BY DEF Phase
    <2> QED
        BY <1>0, <1>a, <2>1, PhaseUpdate
<1>3. AllDone /\ InCtx
    BY <1>0, <1>a, AllStartedDone DEF PlaceInv
<1>4. reason \in {"none", "error", "interrupted"} \cup Reason /\ reason # "interrupted"
    BY DEF Reason
<1>5. streamctx_emit_openai_tool_calls(ctx.tools) = ctx.tools
    BY <1>a, <1>3, HandOver
<1>6. /\ ctx' = [ctx EXCEPT !.tools = <<>>, !.terminal = TRUE, !.complete = TRUE]
      /\ acc' = SSE_STOP(SSE_USAGE(SSE_TOOL_CALLS(acc, ctx.tools), FALSE), reason)
    BY <1>5 DEF ResponseCompleted, Parse
<1> HIDE DEF reason
<1>7. /\ acc' \in AccSet /\ acc'.tools = ctx.tools /\ acc'.text = acc.text /\ acc'.error = acc.error
      /\ acc'.speed = FALSE /\ acc'.stop.reason = reason /\ acc'.stop.attempt = attempt
    <2> DEFINE b == SSE_TOOL_CALLS(acc, ctx.tools)
               d == SSE_USAGE(b, FALSE)
    <2>1. acc.tools = <<>>
        BY <1>3 DEF InCtx
    <2>2. b \in AccSet /\ b.tools = ctx.tools /\ b.text = acc.text /\ b.error = acc.error
        BY <1>a, <2>1, ToolsAcc
    <2> HIDE DEF b
    <2>3. /\ d \in AccSet /\ d.tools = b.tools /\ d.text = b.text /\ d.error = b.error
          /\ d.speed = FALSE
        BY <2>2, UsageAcc
    <2>4. acc' = SSE_STOP(d, reason)
        BY <1>6 DEF b
    <2> HIDE DEF d
    <2>5. /\ acc' \in AccSet /\ acc'.tools = d.tools /\ acc'.text = d.text /\ acc'.error = d.error
          /\ acc'.speed = d.speed /\ acc'.stop.reason = reason /\ acc'.stop.attempt = attempt
        BY <1>a, <1>4, <2>3, <2>4, StopAcc
    <2> QED
        BY <2>2, <2>3, <2>5
<1>8. ctx' \in CtxSet /\ ctx'.tools = <<>> /\ ctx'.items = ctx.items
    <2>1. <<>> \in Seq(Tool)
        OBVIOUS
    <2> QED
        BY <1>a, <1>6, <2>1 DEF CtxSet
<1>9. StartedInv' /\ AllDone'
    BY <1>a, <1>1, <1>2, <1>3, SameStarted
<1>10. InAcc'
    BY <1>1, <1>2, <1>3, <1>7, <1>8 DEF InAcc, InCtx
<1>11. PlaceInv'
    BY <1>0, <1>a, <1>1, <1>2, <1>8, <1>10 DEF PlaceInv
<1>12. PhaseInv' /\ Tags'
    BY <1>0, <1>a, <1>1, <1>2, <1>4, <1>7, <1>9 DEF PhaseInv, Tags
<1> QED
    BY <1>0, <1>a, <1>1, <1>2, <1>7, <1>8, <1>9, <1>11, <1>12, ParseKeeps

LEMMA ErrorStep == ASSUME IInv, StreamError PROVE IInv'
<1>0. /\ Streaming /\ server.phase = "body" /\ provider # "openai"
      /\ server' = [server EXCEPT !.phase = "failed"]
    BY DEF StreamError
<1>a. /\ Types /\ StartedInv /\ PlaceInv /\ PhaseInv /\ Tags /\ ~acc.speed
      /\ server \in ServerSet /\ ctx \in CtxSet /\ acc \in AccSet
      /\ attempt \in 0..(MaxRetries + 1)
    BY <1>0, StreamingFacts
<1>1. UNCHANGED <<provider, attempt, pc, cancelled, rc, result>> /\ cancelled \in BOOLEAN
    BY <1>a DEF StreamError, Parse, Types
<1>2. /\ server' \in ServerSet /\ server'.status = server.status /\ server'.json = server.json
      /\ server'.phase = "failed" /\ server'.sent = server.sent /\ server'.started = server.started
    <2>1. "failed" \in Phase
        BY DEF Phase
    <2> QED
        BY <1>0, <1>a, <2>1, PhaseUpdate
<1> DEFINE b == SSE_ERROR(acc)
<1>3. /\ b \in AccSet /\ b.tools = acc.tools /\ b.text = acc.text /\ b.error = attempt
      /\ b.speed = acc.speed /\ b.stop = acc.stop
    BY <1>a, ErrorAcc
<1>4. CASE provider = "responses"
    <2>1. /\ ctx' = [ctx EXCEPT !.terminal = TRUE]
          /\ acc' = SSE_STOP(SSE_USAGE(b, FALSE), "error")
        BY <1>4 DEF StreamError, Parse
    <2>2. /\ ctx' \in CtxSet /\ ctx'.tools = ctx.tools /\ ctx'.items = ctx.items
          /\ ctx'.complete = ctx.complete
        BY <1>a, <2>1 DEF CtxSet
    <2> HIDE DEF b
    <2> DEFINE d == SSE_USAGE(b, FALSE)
    <2>3. d \in AccSet /\ d.tools = b.tools /\ d.text = b.text /\ d.error = b.error /\ d.speed = FALSE
        BY <1>3, UsageAcc
    <2>4. acc' = SSE_STOP(d, "error")
        BY <2>1
    <2> HIDE DEF d
    <2>5. /\ acc' \in AccSet /\ acc'.tools = d.tools /\ acc'.text = d.text /\ acc'.error = d.error
          /\ acc'.speed = d.speed /\ acc'.stop.reason = "error" /\ acc'.stop.attempt = attempt
        BY <1>a, <2>3, <2>4, StopAcc
    <2>6. StartedInv' /\ (InCtx => InCtx')
        BY <1>a, <1>1, <1>2, <1>3, <2>2, <2>3, <2>5, SameStarted
    <2>7. PlaceInv'
        BY <1>0, <1>a, <1>1, <1>2, <1>4, <2>2, <2>6 DEF PlaceInv
    <2>8. PhaseInv' /\ Tags'
        BY <1>0, <1>a, <1>1, <1>2, <1>3, <2>2, <2>3, <2>5 DEF PhaseInv, Tags
    <2> QED
        BY <1>0, <1>a, <1>1, <1>2, <2>2, <2>3, <2>5, <2>6, <2>7, <2>8, ParseKeeps
<1>5. CASE provider = "claude"
    <2>1. ctx' = ctx /\ acc' = b
        BY <1>5 DEF StreamError, Parse
    <2> HIDE DEF b
    <2>2. StartedInv' /\ (InAcc => InAcc')
        BY <1>a, <1>1, <1>2, <1>3, <2>1, SameStarted
    <2>3. PlaceInv'
        BY <1>0, <1>a, <1>1, <1>2, <1>5, <2>1, <2>2 DEF PlaceInv
    <2>4. PhaseInv' /\ Tags'
        BY <1>0, <1>a, <1>1, <1>2, <1>3, <1>5, <2>1 DEF PhaseInv, Tags
    <2> QED
        BY <1>0, <1>a, <1>1, <1>2, <1>3, <2>1, <2>2, <2>3, <2>4, ParseKeeps
<1> QED
    BY <1>0, <1>4, <1>5, StreamingFacts

------------------------------------------------------------------------------
(* The transfer. *)

(* Steps that touch nothing of the answer. *)
LEMMA TransferKeeps ==
    ASSUME IInv, pc # "done", UNCHANGED <<provider, attempt, server, ctx, acc, result>>,
           cancelled' \in BOOLEAN, rc' \in {"ok", "write", "failed"}, pc' \in {"transfer", "after"}
    PROVE  IInv'
<1>1. Types'
    BY DEF IInv, Types
<1>2. (StartedInv => StartedInv') /\ (PlaceInv => PlaceInv') /\ (PhaseInv => PhaseInv')
    BY DEF StartedInv, PlaceInv, PhaseInv, InAcc, InCtx, AllDone, Done
<1>3. StreamInv' /\ ReturnInv'
    BY <1>2 DEF IInv, StreamInv, ReturnInv, Streamed
<1>4. PureInv'
    BY DEF IInv, PureInv, Fresh
<1> QED
    BY <1>1, <1>3, <1>4 DEF IInv

LEMMA JsonStep == ASSUME IInv, JsonBody PROVE IInv'
<1>0. /\ pc = "transfer" /\ server.json /\ Types /\ server \in ServerSet
      /\ UNCHANGED <<provider, attempt, pc, cancelled, ctx, acc, rc, result>>
    BY DEF JsonBody, IInv, Types
<1>1. PICK S \in {<<>>} \cup {<<c>> : c \in Call} :
         server' = [server EXCEPT !.phase = "ended", !.started = S]
    BY DEF JsonBody
<1>2. S \in StartedSet
    <2>1. <<>> \in Seq(Call) /\ \A c \in Call : <<c>> \in Seq(Call)
        OBVIOUS
    <2>2. S = <<>> \/ \E c \in Call : S = <<c>>
        BY <1>1
    <2> QED
        BY <2>1, <2>2 DEF StartedSet
<1>3. /\ server' \in ServerSet /\ server'.status = server.status /\ server'.json = server.json
    <2>1. server' = [status |-> server.status, json |-> server.json, sent |-> server.sent,
                     started |-> S, phase |-> "ended"]
        BY <1>0, <1>1 DEF ServerSet
    <2>2. server \in ServerSet /\ server.sent \in SentSet /\ "ended" \in Phase
        BY <1>0 DEF ServerSet, Phase
    <2> QED
        BY ONLY <1>2, <2>1, <2>2, ServerUpdate
<1>4. Types'
    BY <1>0, <1>3 DEF Types
<1>5. StreamInv' /\ ReturnInv'
    BY <1>0, <1>3 DEF IInv, StreamInv, ReturnInv, Streamed
<1>6. PureInv'
    BY <1>0 DEF IInv, PureInv, Fresh
<1> QED
    BY <1>4, <1>5, <1>6 DEF IInv

(* Another attempt starts from nothing. *)
LEMMA RetryStep == ASSUME IInv, Retry PROVE IInv'
<1>1. /\ attempt \in Attempt /\ attempt <= MaxRetries /\ attempt' = attempt + 1 /\ pc' = "transfer"
      /\ acc' = NoAcc /\ ctx' = NoCtx /\ rc' = "ok" /\ UNCHANGED <<provider, cancelled, result>>
    BY DEF IInv, Types, Retry, SSE_RETRY
<1>2. PICK s \in FreshServer : server' = s
    BY DEF Retry
<1>3. attempt' \in Attempt
    BY <1>1, SizeAssumption DEF Attempt
<1>4. Types'
    BY <1>1, <1>2, <1>3, FreshServerFacts, Empties DEF IInv, Types
<1>5. FreshStart'
    BY <1>1, <1>2, FreshServerFacts DEF FreshStart
<1>6. (Types /\ FreshStart => StreamInv /\ PureInv /\ ReturnInv)'
    BY FreshInv, PTL
<1> QED
    BY <1>4, <1>5, <1>6 DEF IInv

------------------------------------------------------------------------------
(* Returning. *)

LEMMA AfterFacts ==
    ASSUME IInv, pc = "after"
    PROVE  /\ Types /\ StreamInv /\ PureInv /\ Tags /\ ~acc.speed
           /\ server \in ServerSet /\ ctx \in CtxSet /\ acc \in AccSet
           /\ server.status \in {200, 400, 500} /\ server.json \in BOOLEAN
           /\ server.started \in Seq(Call)
           /\ attempt \in Attempt /\ attempt \in 0..(MaxRetries + 1) /\ attempt # 0
<1>1. Types /\ StreamInv /\ PureInv /\ Tags /\ ~acc.speed
    BY DEF IInv, StreamInv, PureInv, Tags
<1>2. server \in ServerSet /\ ctx \in CtxSet /\ acc \in AccSet /\ attempt \in Attempt
    BY <1>1 DEF Types
<1>3. attempt \in 0..(MaxRetries + 1) /\ attempt # 0
    BY <1>2, SizeAssumption DEF Attempt
<1>4. server.status \in {200, 400, 500} /\ server.json \in BOOLEAN /\ server.started \in Seq(Call)
    BY <1>2 DEF ServerSet, StartedSet
<1> QED
    BY <1>1, <1>2, <1>3, <1>4

(* An accumulator of this attempt. *)
Pure(a) == /\ a \in AccSet /\ Fresh(a.tools)
           /\ a.text \subseteq {attempt} /\ a.stop.attempt \in {0, attempt}
           /\ a.error \in {0, attempt}

LEMMA ReturnKeeps ==
    ASSUME IInv, NEW a, NEW value \in {NoResult, -1, 0, 400, 500}, Return(a, value), Pure(a), ReturnInv'
    PROVE  IInv'
<1>0. acc' = a /\ result' = value /\ pc' = "done"
      /\ UNCHANGED <<provider, attempt, cancelled, server, ctx, rc>>
    BY DEF Return
<1>1. Types'
    BY <1>0 DEF IInv, Types, Pure
<1>2. StreamInv'
    BY <1>0 DEF StreamInv
<1>3. PureInv'
    <2>1. Fresh(acc.tools)'
        BY <1>0 DEF Pure, Fresh
    <2>2. Fresh(ctx.tools)'
        BY <1>0 DEF IInv, PureInv, Fresh
    <2> QED
        BY <1>0, <2>1, <2>2 DEF Pure, PureInv
<1> QED
    BY <1>1, <1>2, <1>3 DEF IInv

LEMMA ExhaustedStep == ASSUME IInv, Exhausted PROVE IInv'
<1> DEFINE v == IF rc = "ok" THEN server.status ELSE -1
<1>0. pc = "after" /\ ShouldRetry /\ Return(acc, v)
    BY DEF Exhausted
<1>a. /\ PureInv /\ ~acc.speed /\ acc \in AccSet /\ server.status \in {200, 400, 500}
    BY <1>0, AfterFacts
<1>1. v \in {-1, 500} /\ rc # "write"
    <2>1. CASE rc = "failed"
        BY <2>1
    <2>2. CASE rc # "failed"
        BY <1>0, <1>a, <2>2 DEF ShouldRetry
    <2> QED
        BY <2>1, <2>2
<1> HIDE DEF v
<1>2. acc' = acc /\ result' \in {-1, 500} /\ rc' # "write"
    BY <1>0, <1>1 DEF Return
<1>3. ReturnInv'
    BY <1>a, <1>2 DEF ReturnInv, ToolsRunAsCalled, Runs, CompleteMeansEnded
<1>4. Pure(acc)
    BY <1>a DEF Pure, PureInv
<1> QED
    BY <1>0, <1>1, <1>3, <1>4, ReturnKeeps

LEMMA InterruptedStep == ASSUME IInv, Interrupted PROVE IInv'
<1> DEFINE b == SSE_STOP(acc, "interrupted")
<1>0. pc = "after" /\ rc = "write" /\ Return(b, 0)
    BY DEF Interrupted
<1>a. PureInv /\ ~acc.speed /\ acc \in AccSet /\ attempt \in 0..(MaxRetries + 1)
    BY <1>0, AfterFacts
<1>1. /\ b \in AccSet /\ b.tools = acc.tools /\ b.text = acc.text /\ b.error = acc.error
      /\ b.speed = acc.speed /\ b.stop.reason = "interrupted" /\ b.stop.attempt = attempt
    BY <1>a, StopAcc
<1> HIDE DEF b
<1>2. acc' = b
    BY <1>0 DEF Return
<1>3. ReturnInv'
    BY <1>a, <1>1, <1>2 DEF ReturnInv, ToolsRunAsCalled, Runs, CompleteMeansEnded
<1>4. Pure(b)
    BY <1>a, <1>1 DEF Pure, PureInv
<1> QED
    BY <1>0, <1>3, <1>4, ReturnKeeps

LEMMA TerminalAcc ==
    ASSUME NEW a, Pure(a), attempt \in 0..(MaxRetries + 1)
    PROVE  LET b == CheckTerminal(a)
           IN  /\ Pure(b) /\ b.tools = a.tools /\ b.speed = a.speed
               /\ b = a \/ b.error = attempt
               /\ server.status < 400 /\ provider = "responses" /\ ~ctx.terminal => b.error = attempt
<1>1. CASE server.status < 400 /\ provider = "responses" /\ ~ctx.terminal
    <2> DEFINE d == SSE_ERROR(a)
               b == SSE_STOP(d, "error")
    <2>1. CheckTerminal(a) = b
        BY <1>1 DEF CheckTerminal
    <2>2. /\ d \in AccSet /\ d.tools = a.tools /\ d.text = a.text /\ d.error = attempt
          /\ d.speed = a.speed
        BY ErrorAcc DEF Pure
    <2> HIDE DEF d
    <2>3. /\ b \in AccSet /\ b.tools = d.tools /\ b.text = d.text /\ b.error = d.error
          /\ b.speed = d.speed /\ b.stop.attempt = attempt
        BY <2>2, StopAcc
    <2> HIDE DEF b
    <2> QED
        BY <2>1, <2>2, <2>3 DEF Pure
<1>2. CASE ~(server.status < 400 /\ provider = "responses" /\ ~ctx.terminal)
    BY <1>2 DEF CheckTerminal
<1> QED
    BY <1>1, <1>2

LEMMA UsagePure ==
    ASSUME NEW a, Pure(a), NEW ready \in BOOLEAN
    PROVE  LET b == SSE_USAGE(a, ready)
           IN  /\ Pure(b) /\ b.tools = a.tools /\ b.error = a.error /\ b.stop = a.stop
               /\ b.speed = ready
<1> DEFINE b == SSE_USAGE(a, ready)
<1>1. /\ b \in AccSet /\ b.tools = a.tools /\ b.text = a.text /\ b.error = a.error
      /\ b.speed = ready /\ b.stop = a.stop
    BY UsageAcc DEF Pure
<1> HIDE DEF b
<1>2. Pure(b)
    BY <1>1 DEF Pure
<1> QED
    BY <1>1, <1>2 DEF b

(* A whole answer with this accumulator runs the calls of the server. *)
Whole(started, n) ==
    [i \in DOMAIN started |-> [call |-> started[i], input |-> Got(n, started[i], Pieces)]]
AsCalled(a) ==
    a.error = 0 /\ a.tools # <<>> /\ a.stop.reason = "tool_use" =>
        a.tools = Whole(server.started, attempt)

LEMMA AsCalledFacts ==
    /\ Whole(server.started, attempt) =
          [i \in DOMAIN server.started |->
              [call |-> server.started[i], input |-> WholeInput(server.started[i])]]
    /\ ToolsRunAsCalled <=> (pc = "done" /\ result = 0 => AsCalled(acc))
<1>1. \A c : WholeInput(c) = Got(attempt, c, Pieces)
    BY DEF WholeInput, Piece, Got
<1>2. Whole(server.started, attempt) =
          [i \in DOMAIN server.started |->
              [call |-> server.started[i], input |-> WholeInput(server.started[i])]]
    BY <1>1 DEF Whole
<1> QED
    BY <1>2 DEF ToolsRunAsCalled, Runs, AsCalled

(* The residual JSON of an answer that is no stream. *)
LEMMA ResidualJson ==
    ASSUME IInv, pc = "after", server.status = 200, server.json, NEW a \in process_residual_json(acc)
    PROVE  Pure(a) /\ ("claude" \notin JsonProvider => AsCalled(a))
<1>a. /\ Types /\ StreamInv /\ acc \in AccSet /\ server.started \in Seq(Call) /\ attempt \in Attempt
      /\ attempt \in 0..(MaxRetries + 1) /\ attempt # 0 /\ PureInv
    BY AfterFacts
<1>0. acc = NoAcc /\ provider \in JsonProvider /\ provider \in {"claude", "openai", "responses"}
    BY <1>a, ProviderAssumption DEF StreamInv, Streamed, Types
<1>1. Pure(acc) /\ AsCalled(acc)
    BY <1>a, <1>0 DEF Pure, PureInv, AsCalled, NoAcc
<1>2. Pure(SSE_ERROR(acc)) /\ AsCalled(SSE_ERROR(acc))
    <2> DEFINE b == SSE_ERROR(acc)
    <2>1. b \in AccSet /\ b.tools = acc.tools /\ b.text = acc.text /\ b.error = attempt /\ b.stop = acc.stop
        BY <1>a, ErrorAcc
    <2> HIDE DEF b
    <2>2. Pure(b) /\ AsCalled(b)
        BY <1>a, <1>1, <2>1 DEF Pure, AsCalled
    <2> QED
        BY <2>2 DEF b
<1> DEFINE input(c) == IF provider = "openai" THEN WholeInput(c) ELSE <<>>
           tools == [i \in DOMAIN server.started |->
                        [call |-> server.started[i], input |-> input(server.started[i])]]
           reason == IF tools = <<>> THEN "end_turn" ELSE "tool_use"
           b1 == SSE_TEXT(acc)
           b2 == SSE_TOOL_CALLS(b1, tools)
           b3 == SSE_STOP(b2, reason)
           b4 == SSE_USAGE(b3, FALSE)
<1>3. a = acc \/ a = SSE_ERROR(acc) \/ (provider # "responses" /\ a = b4)
    BY DEF process_residual_json
<1>4. ASSUME NEW c \in Call
      PROVE  /\ input(c) \in Seq(PieceSet) /\ Len(input(c)) <= Pieces
             /\ \A m \in 1..Len(input(c)) : input(c)[m].attempt = attempt
    <2>0. Pieces \in Nat /\ Pieces \in 0..Pieces
        BY SizeAssumption
    <2>1. CASE provider = "openai"
        <3>1. input(c) = Got(attempt, c, Pieces)
            BY <1>a, <2>1, WholeFacts
        <3>2. /\ Got(attempt, c, Pieces) \in Seq(PieceSet) /\ Len(Got(attempt, c, Pieces)) = Pieces
              /\ \A k \in 1..Pieces : Got(attempt, c, Pieces)[k].attempt = attempt
            BY <1>a, <2>0, GotFacts
        <3> QED
            BY <2>0, <3>1, <3>2
    <2>2. CASE provider # "openai"
        BY <2>0, <2>2
    <2> QED
        BY <2>1, <2>2
<1> HIDE DEF input
<1>5. /\ tools \in Seq(Tool) /\ Len(tools) = Len(server.started)
      /\ \A j \in 1..Len(tools) : server.started[j] \in Call /\ tools[j].input = input(server.started[j])
    <2>1. Len(server.started) \in Nat /\ DOMAIN server.started = 1..Len(server.started)
          /\ \A j \in 1..Len(server.started) : server.started[j] \in Call
        BY <1>a
    <2>2. \A j \in 1..Len(server.started) :
             [call |-> server.started[j], input |-> input(server.started[j])] \in Tool
        BY <1>4, <2>1 DEF Tool
    <2>3. tools \in [1..Len(server.started) -> Tool]
        BY <2>1, <2>2
    <2>4. \A j \in 1..Len(server.started) : tools[j].input = input(server.started[j])
        BY <2>1
    <2> HIDE DEF tools
    <2> QED
        BY <2>1, <2>3, <2>4
<1>6. provider = "openai" => tools = Whole(server.started, attempt)
    BY AsCalledFacts DEF input
<1> HIDE DEF tools
<1>7. Fresh(tools)
    BY <1>4, <1>5 DEF Fresh
<1>8. reason \in {"none", "error", "interrupted"} \cup Reason
    BY DEF Reason
<1> HIDE DEF reason
<1>9. /\ b4 \in AccSet /\ b4.tools = tools /\ b4.text = acc.text \cup {attempt}
      /\ b4.error = acc.error /\ b4.stop.attempt = attempt
    <2>1. b1 \in AccSet /\ b1.tools = acc.tools /\ b1.text = acc.text \cup {attempt} /\ b1.error = acc.error
        BY <1>a, TextAcc
    <2>2. acc.tools = <<>>
        BY <1>0 DEF NoAcc
    <2> HIDE DEF b1
    <2>3. b2 \in AccSet /\ b2.tools = tools /\ b2.text = b1.text /\ b2.error = b1.error
        BY <1>5, <2>1, <2>2, ToolsAcc
    <2> HIDE DEF b2
    <2>4. b3 \in AccSet /\ b3.tools = b2.tools /\ b3.text = b2.text /\ b3.error = b2.error
          /\ b3.stop.attempt = attempt
        BY <1>a, <1>8, <2>3, StopAcc
    <2> HIDE DEF b3
    <2>5. b4 \in AccSet /\ b4.tools = b3.tools /\ b4.text = b3.text /\ b4.error = b3.error
          /\ b4.stop = b3.stop
        BY <2>4, UsageAcc
    <2> HIDE DEF b4
    <2> QED
        BY <2>1, <2>3, <2>4, <2>5
<1> HIDE DEF b4
<1>10. Pure(b4)
    BY <1>a, <1>7, <1>9 DEF Pure, PureInv
<1>11. provider # "responses" /\ "claude" \notin JsonProvider => AsCalled(b4)
    BY <1>0, <1>6, <1>9 DEF AsCalled
<1> QED
    BY <1>1, <1>2, <1>3, <1>10, <1>11

(* A stream that ended well. *)
LEMMA StreamAsCalled ==
    ASSUME IInv, pc = "after", server.status = 200, ~server.json
    PROVE  /\ AsCalled(acc)
           /\ ctx.complete => server.phase = "ended"
           /\ provider = "responses" /\ ctx.terminal /\ acc.error = 0 => server.phase = "ended"
<1>a. Types /\ StreamInv /\ acc \in AccSet /\ server.started \in Seq(Call) /\ attempt # 0
    BY AfterFacts
<1>0. StartedInv /\ PlaceInv /\ PhaseInv /\ acc.tools \in Seq(Tool)
    BY <1>a DEF StreamInv, Streamed, AccSet
<1>1. ASSUME acc.stop.reason = "tool_use"
      PROVE  acc.tools = Whole(server.started, attempt)
    <2>1. AllDone /\ server.phase \in {"finished", "ended"}
        BY <1>0, <1>1 DEF PhaseInv
    <2>2. InAcc
        BY <1>a, <1>0, <1>1, <2>1, ProviderAssumption DEF PlaceInv, Types
    <2>3. Matches(acc.tools, server.started, server.sent, attempt)
        BY <2>2 DEF InAcc
    <2>4. Len(acc.tools) = Len(server.started)
        BY <2>3 DEF Matches
    <2>5. \A j \in 1..Len(server.started) :
             acc.tools[j] = [call |-> server.started[j], input |-> WholeInput(server.started[j])]
        BY <1>a, <1>0, <2>1, <2>3, MatchesFacts
    <2>6. DOMAIN server.started = 1..Len(server.started)
        BY <1>a
    <2>7. acc.tools = [i \in 1..Len(server.started) |-> acc.tools[i]]
        BY <1>0, <2>4
    <2> DEFINE call(i) == [call |-> server.started[i], input |-> WholeInput(server.started[i])]
    <2>8. Whole(server.started, attempt) = [i \in 1..Len(server.started) |-> call(i)]
        BY <2>6, AsCalledFacts
    <2>9. \A j \in 1..Len(server.started) : acc.tools[j] = call(j)
        BY <2>5
    <2> HIDE DEF call
    <2>10. [i \in 1..Len(server.started) |-> acc.tools[i]] = [i \in 1..Len(server.started) |-> call(i)]
        BY <2>9
    <2> QED
        BY <2>7, <2>8, <2>10
<1> QED
    BY <1>a, <1>0, <1>1 DEF AsCalled, PhaseInv

LEMMA CompleteStep == ASSUME IInv, Complete PROVE IInv'
<1> DEFINE ready == stream_speed_ready
           v == IF server.status >= 400 THEN server.status ELSE 0
<1>0. pc = "after" /\ rc = "ok" /\ ~ShouldRetry
    BY DEF Complete
<1>a. /\ Types /\ StreamInv /\ PureInv /\ acc \in AccSet /\ ctx \in CtxSet
      /\ server.status \in {200, 400, 500} /\ server.json \in BOOLEAN
      /\ attempt \in 0..(MaxRetries + 1) /\ attempt # 0
    BY <1>0, AfterFacts
<1>1. PICK a \in process_residual_json(acc) : Return(CheckTerminal(SSE_USAGE(a, ready)), v)
    BY DEF Complete
<1>2. /\ server.status \in {200, 400} /\ v \in {NoResult, -1, 0, 400, 500}
      /\ (server.status = 400 => v = 400)
    BY <1>0, <1>a DEF ShouldRetry
<1>3. ready \in BOOLEAN
    BY <1>a DEF stream_speed_ready, Types, CtxSet
<1>4. Pure(acc)
    BY <1>a DEF Pure, PureInv
<1>5. Pure(a)
    <2>1. CASE server.status = 200 /\ server.json
        BY <1>0, <2>1, ResidualJson
    <2>2. CASE server.status = 200 /\ ~server.json
        BY <1>1, <1>4, <2>2 DEF process_residual_json
    <2>3. CASE server.status = 400
        <3>1. a = acc \/ a = SSE_ERROR(acc)
            BY <1>1, <2>3 DEF process_residual_json
        <3> DEFINE e == SSE_ERROR(acc)
        <3>2. e \in AccSet /\ e.tools = acc.tools /\ e.text = acc.text /\ e.error = attempt /\ e.stop = acc.stop
            BY <1>a, ErrorAcc
        <3> HIDE DEF e
        <3>3. Pure(e)
            BY <1>4, <3>2 DEF Pure
        <3> QED
            BY <1>4, <3>1, <3>3 DEF e
    <2> QED
        BY <1>2, <1>a, <2>1, <2>2, <2>3
<1>6. "claude" \notin JsonProvider /\ server.status = 200 => AsCalled(a)
    <2>1. CASE server.status = 200 /\ server.json
        BY <1>0, <2>1, ResidualJson
    <2>2. CASE server.status = 200 /\ ~server.json
        <3>1. a = acc
            BY <1>1, <2>2 DEF process_residual_json
        <3> QED
            BY <1>0, <2>2, <3>1, StreamAsCalled
    <2> QED
        BY <2>1, <2>2
<1> DEFINE b == SSE_USAGE(a, ready)
           e == CheckTerminal(b)
<1> HIDE DEF ready, v
<1>7. Pure(b) /\ b.tools = a.tools /\ b.error = a.error /\ b.stop = a.stop /\ b.speed = ready
    BY <1>3, <1>5, UsagePure
<1>8. acc' = e /\ result' = v /\ pc' = "done" /\ UNCHANGED <<provider, attempt, server, ctx, rc>>
    BY <1>1 DEF Return
<1> HIDE DEF b
<1>9. /\ Pure(e) /\ e.tools = b.tools /\ e.speed = b.speed
      /\ e = b \/ e.error = attempt
      /\ server.status < 400 /\ provider = "responses" /\ ~ctx.terminal => e.error = attempt
    BY <1>7, <1>a, TerminalAcc
<1> HIDE DEF e
<1>10. ASSUME "claude" \notin JsonProvider PROVE ToolsRunAsCalled'
    <2>1. ASSUME v = 0 PROVE AsCalled(e)
        <3> SUFFICES ASSUME e.error = 0, e.tools # <<>>, e.stop.reason = "tool_use"
                     PROVE  e.tools = Whole(server.started, attempt)
            BY DEF AsCalled
        <3>1. server.status = 200 /\ e = b
            BY <1>a, <1>2, <1>9, <2>1
        <3>2. AsCalled(a) /\ a.error = 0 /\ a.tools # <<>> /\ a.stop.reason = "tool_use" /\ e.tools = a.tools
            BY <1>6, <1>7, <1>9, <1>10, <3>1
        <3> QED
            BY <3>2 DEF AsCalled
    <2>2. result' = 0 => AsCalled(acc)'
        BY <1>8, <2>1 DEF AsCalled
    <2>3. (ToolsRunAsCalled <=> (pc = "done" /\ result = 0 => AsCalled(acc)))'
        BY AsCalledFacts, PTL
    <2> QED
        BY <2>2, <2>3
<1>11. CompleteMeansEnded'
    <2>1. ASSUME e.speed PROVE server.phase = "ended" /\ server.status = 200
        <3>1. ready
            BY <1>7, <1>9, <2>1
        <3>2. server.status = 200 /\ ctx.complete
            BY <3>1 DEF ready, stream_speed_ready
        <3>3. ~server.json
            BY <1>0, <1>a, <3>2 DEF StreamInv, Streamed, NoCtx
        <3> QED
            BY <1>0, <3>2, <3>3, StreamAsCalled
    <2>2. ASSUME provider = "responses", v = 0, e.error = 0 PROVE server.phase = "ended"
        <3>1. server.status = 200 /\ e = b /\ ctx.terminal /\ a.error = 0
            BY <1>a, <1>2, <1>7, <1>9, <2>2
        <3>2. ~server.json
            BY <1>0, <1>a, <3>1 DEF StreamInv, Streamed, NoCtx
        <3>3. a = acc
            BY <1>1, <3>1, <3>2 DEF process_residual_json
        <3> QED
            BY <1>0, <2>2, <3>1, <3>2, <3>3, StreamAsCalled
    <2> QED
        BY <1>8, <2>1, <2>2 DEF CompleteMeansEnded
<1>12. ReturnInv'
    BY <1>0, <1>8, <1>10, <1>11 DEF ReturnInv
<1>13. Return(e, v)
    BY <1>1 DEF e, b
<1> QED
    BY <1>2, <1>9, <1>12, <1>13, ReturnKeeps DEF v

LEMMA StutterInv == ASSUME IInv, UNCHANGED vars PROVE IInv'
<1>1. UNCHANGED <<provider, attempt, pc, cancelled, server, ctx, acc, rc, result>>
    BY DEF vars
<1>2. Types'
    BY <1>1 DEF IInv, Types
<1>3. (StartedInv => StartedInv') /\ (PlaceInv => PlaceInv') /\ (PhaseInv => PhaseInv')
    BY <1>1 DEF StartedInv, PlaceInv, PhaseInv, InAcc, InCtx, AllDone, Done
<1>4. StreamInv'
    BY <1>1, <1>3 DEF IInv, StreamInv, Streamed
<1>5. PureInv'
    BY <1>1 DEF IInv, PureInv, Fresh
<1>6. ReturnInv'
    BY <1>1 DEF IInv, ReturnInv, ToolsRunAsCalled, Runs, CompleteMeansEnded, WholeInput, Piece
<1> QED
    BY <1>2, <1>4, <1>5, <1>6 DEF IInv

LEMMA NextInv == IInv /\ [Next]_vars => IInv'
<1> SUFFICES ASSUME IInv, [Next]_vars PROVE IInv'
    OBVIOUS
<1>0. cancelled \in BOOLEAN /\ rc \in {"ok", "write", "failed"} /\ pc \in {"transfer", "after", "done"}
    BY DEF IInv, Types
<1>1. ASSUME NEW c \in Call, ToolStart(c) PROVE IInv'
    BY <1>1, StartStep
<1>2. ASSUME NEW c \in Call, ToolStop(c) PROVE IInv'
    BY <1>2, StopStep
<1>3. ASSUME NEW c \in Call, NEW h \in BOOLEAN, ToolDelta(c, h) PROVE IInv'
    BY <1>3, DeltaStep
<1>4. ASSUME NEW r \in Reason, Finish(r) PROVE IInv'
    BY <1>4, FinishStep
<1>5. CASE Text
    BY <1>5, TextStep
<1>6. CASE Terminal
    BY <1>6, TerminalStep
<1>7. CASE ResponseCompleted
    BY <1>7, CompletedStep
<1>8. CASE StreamError
    BY <1>8, ErrorStep
<1>9. CASE JsonBody
    BY <1>9, JsonStep
<1>10. CASE CtrlC
    BY <1>0, <1>10, TransferKeeps DEF CtrlC
<1>11. CASE Abort
    BY <1>0, <1>11, TransferKeeps DEF Abort
<1>12. CASE TransferEnds
    BY <1>0, <1>12, TransferKeeps DEF TransferEnds
<1>13. CASE Retry
    BY <1>13, RetryStep
<1>14. CASE Exhausted
    BY <1>14, ExhaustedStep
<1>15. CASE Interrupted
    BY <1>15, InterruptedStep
<1>16. CASE Complete
    BY <1>16, CompleteStep
<1>17. CASE Returned \/ UNCHANGED vars
    BY <1>17, StutterInv DEF Returned
<1> QED
    BY <1>1, <1>2, <1>3, <1>4, <1>5, <1>6, <1>7, <1>8, <1>9, <1>10, <1>11, <1>12, <1>13, <1>14,
       <1>15, <1>16, <1>17 DEF Next, StreamStep, AfterStep

LEMMA IInvAlways == Spec => []IInv
    BY InitInv, NextInv, PTL DEF Spec

------------------------------------------------------------------------------
(* Everything has its type, the calls collected so far included: none has    *)
(* more input than the server sends.                                         *)
THEOREM StreamTypeOK == Spec => []TypeOK
<1>1. IInv => TypeOK
    <2> SUFFICES ASSUME IInv PROVE TypeOK
        OBVIOUS
    <2>0. Types /\ PureInv
        BY DEF IInv
    <2>1. /\ server.status \in {200, 400, 500} /\ server.json \in BOOLEAN
          /\ server.sent \in [Call -> 0..(Pieces + 2)] /\ server.started \in Seq(Call)
          /\ server.phase \in {"body", "finished", "ended", "failed"}
        BY <2>0 DEF Types, ServerSet, SentSet, StartedSet, Phase
    <2>2. /\ acc.text \subseteq Attempt /\ acc.tools \in Seq(Tool) /\ acc.stop \in StopSet
          /\ acc.error \in 0..(MaxRetries + 1) /\ acc.speed \in BOOLEAN /\ ctx.tools \in Seq(Tool)
        BY <2>0 DEF Types, AccSet, CtxSet
    <2>3. acc.stop.reason \in {"none", "error", "interrupted"} \cup Reason
        BY <2>2 DEF StopSet
    <2>4. \A t \in Tools : t.call \in Call /\ Len(t.input) <= Pieces
        <3>1. \A i \in DOMAIN acc.tools : acc.tools[i] \in Tool /\ Len(acc.tools[i].input) <= Pieces
            BY <2>0, <2>2 DEF PureInv, Fresh
        <3>2. \A i \in DOMAIN ctx.tools : ctx.tools[i] \in Tool /\ Len(ctx.tools[i].input) <= Pieces
            BY <2>0, <2>2 DEF PureInv, Fresh
        <3>3. \A t \in Tool : t.call \in Call
            BY DEF Tool
        <3> QED
            BY <3>1, <3>2, <3>3 DEF Tools
    <2> QED
        BY <2>0, <2>1, <2>2, <2>3, <2>4 DEF Types, TypeOK
<1> QED
    BY <1>1, IInvAlways, PTL

(* However often a request is retried and wherever an attempt broke off,     *)
(* nothing of an earlier attempt (no text, call, piece of input, stop reason *)
(* or error) is in the accumulator.                                          *)
THEOREM RetriesDoNotMix == Spec => []AttemptPure
<1>1. IInv => AttemptPure
    <2> SUFFICES ASSUME IInv PROVE AttemptPure
        OBVIOUS
    <2>0. Types /\ PureInv
        BY DEF IInv
    <2>1. acc.tools \in Seq(Tool) /\ ctx.tools \in Seq(Tool)
        BY <2>0 DEF Types, AccSet, CtxSet
    <2>2. \A tools \in Seq(Tool) : Fresh(tools) =>
             \A i \in DOMAIN tools : \A m \in DOMAIN tools[i].input : tools[i].input[m].attempt = attempt
        <3> SUFFICES ASSUME NEW tools \in Seq(Tool), Fresh(tools), NEW i \in DOMAIN tools,
                            NEW m \in DOMAIN tools[i].input
                     PROVE  tools[i].input[m].attempt = attempt
            OBVIOUS
        <3>1. i \in 1..Len(tools) /\ tools[i] \in Tool
            OBVIOUS
        <3>2. tools[i].input \in Seq(PieceSet)
            BY <3>1 DEF Tool
        <3>3. m \in 1..Len(tools[i].input)
            BY <3>2
        <3> QED
            BY <3>1, <3>3 DEF Fresh
    <2>3. \A t \in Tools : \A i \in DOMAIN t.input : t.input[i].attempt = attempt
        BY <2>0, <2>1, <2>2 DEF Tools, PureInv
    <2> QED
        BY <2>0, <2>3 DEF PureInv, AttemptPure
<1> QED
    BY <1>1, IInvAlways, PTL

(* The calls that are executed are those the server made, in its order and   *)
(* with their whole input, for every interleaving of the pieces and any      *)
(* number of retries.  The hypothesis excludes the one case where the code   *)
(* does not promise this: a Claude answer that is one JSON document, whose   *)
(* calls the parser gives an empty input.                                    *)
THEOREM CallsRunWhole ==
    ASSUME "claude" \notin JsonProvider PROVE Spec => []ToolsRunAsCalled
<1>1. IInv => ToolsRunAsCalled
    BY DEF IInv, ReturnInv, ToolsRunAsCalled, Runs
<1> QED
    BY <1>1, IInvAlways, PTL

(* A request that Ctrl+C aborted executes nothing, even if its calls and     *)
(* their stop reason were complete.                                          *)
THEOREM InterruptedRunsNothing == Spec => []AbortedNotRun
<1>1. IInv => AbortedNotRun
    BY DEF IInv, ReturnInv, AbortedNotRun, Runs
<1> QED
    BY <1>1, IInvAlways, PTL

(* Only a stream that ended counts as complete, and a Responses stream that  *)
(* breaks off is never taken for an answer.                                  *)
THEOREM CompleteOnlyIfEnded == Spec => []CompleteMeansEnded
<1>1. IInv => CompleteMeansEnded
    BY DEF IInv, ReturnInv, CompleteMeansEnded
<1> QED
    BY <1>1, IInvAlways, PTL
==============================================================================
