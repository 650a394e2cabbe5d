----------------------------- MODULE RequestBody -----------------------------
(***************************************************************************)
(* The list of messages in a request (src/c/transport.c): the lines of the *)
(* conversation as build_claude_request puts them together, then converted *)
(* for the other two providers, message by message, as convert_to_openai   *)
(* and convert_to_responses do.                                            *)
(*                                                                         *)
(* A body is a sequence of items and commas: the code writes the commas    *)
(* itself, so they are part of the model.  An item stands for one element  *)
(* of the JSON list; it knows the line it comes from and the calls and     *)
(* results it carries.  Texts, tool definitions and the other fields of    *)
(* the request are left out.                                               *)
(***************************************************************************)
EXTENDS Integers, Sequences, FiniteSets

CONSTANTS Provider,  \* "claude", "openai", "responses"
          MaxLines   \* bound: lines of the conversation

ASSUME ProviderAssumption == Provider \subseteq {"claude", "openai", "responses"}
ASSUME BoundAssumption == MaxLines \in Nat \ {0}

VARIABLES provider, vision,  \* options of the agent
          lines,             \* the conversation
          pc, i,             \* the loop under way and its index
          messages,          \* the list in the Claude body
          out, wrote         \* the list under construction and its local counter

vars == <<provider, vision, lines, pc, i, messages, out, wrote>>

(* Lines: an empty physical line and one that a crash or a failed write left  *)
(* torn; a user's text, one with an image, an image alone, the same with an   *)
(* empty file for the image, and one that cannot be read; answers with        *)
(* thoughts only, with text, with a call, with a call whose arguments were    *)
(* saved although they are no JSON, with text and two calls; the results of   *)
(* the calls before them.                                                     *)
Kind == {"blank", "torn", "user", "image", "imageOnly", "emptyImage", "emptyOnly", "unreadable",
         "thinking", "text", "call", "badCall", "textCalls", "results"}

CallsIn(kind) == CASE kind \in {"call", "badCall"} -> 1 [] kind = "textCalls" -> 2 [] OTHER -> 0
Ids(line) == [k \in 1..CallsIn(lines[line]) |-> <<line, k>>]

(* The body parses again: every line in it is JSON. *)
IsJson == \A line \in 1..Len(lines) : lines[line] \notin {"torn", "badCall"}

UserKind == {"user", "image", "imageOnly", "emptyImage", "emptyOnly", "unreadable"}
(* The conversations Session allows: they start with a user, and results     *)
(* follow their calls (calls without results occur; results whose answer     *)
(* could not be appended are left out).                                      *)
Conversation ==
    {s \in UNION {[1..n -> Kind] : n \in 1..MaxLines} :
        /\ s[1] \in UserKind \cup {"torn"}
        /\ \A k \in 2..Len(s) : s[k] = "results" => CallsIn(s[k - 1]) > 0}

Item(type, line, calls, results) ==
    [type |-> type, line |-> line, calls |-> calls, results |-> results]
Comma == Item("comma", 0, <<>>, <<>>)

(* Items with commas between them. *)
Joined(items) ==
    [k \in 1..(2 * Len(items) - 1) |-> IF k % 2 = 1 THEN items[(k + 1) \div 2] ELSE Comma]

(* The elements of such a list, as the JSON parser finds them. *)
Elements(body) == [k \in 1..((Len(body) + 1) \div 2) |-> body[2 * k - 1]]

(* Defect: a comma in front of the first item too. *)
CommaAlways(items) == IF items = <<>> THEN out ELSE Append(out, Comma) \o Joined(items)

(* Appends items to the list, after a comma if something was written. *)
Write(items) ==
    IF items = <<>> THEN out
    ELSE (IF wrote > 0 THEN Append(out, Comma) ELSE out) \o Joined(items)

Init ==
    /\ provider \in Provider
    /\ vision \in BOOLEAN
    /\ lines \in Conversation
    /\ pc = "build" /\ i = 1
    /\ messages = <<>>
    /\ out = <<>> /\ wrote = 0

------------------------------------------------------------------------------
(* build_claude_request *)

(* With vision on, a user's images become blocks after the text, those *)
(* without data too.                                                   *)
expand_vision_line(line) ==
    CASE vision /\ lines[line] = "image"      -> "textAndImage"
      [] vision /\ lines[line] = "imageOnly"  -> "imageBlock"
      [] vision /\ lines[line] = "emptyImage" -> "textAndEmpty"
      [] vision /\ lines[line] = "emptyOnly"  -> "emptyBlock"
      [] ~vision /\ lines[line] \in UserKind  -> "user"
      [] OTHER -> lines[line]

(* A line as an element of the Claude body. *)
Message(line) ==
    Item(expand_vision_line(line), line, Ids(line),
         IF lines[line] = "results" THEN Ids(line - 1) ELSE <<>>)

(* Defect: a line whose attachment cannot be read is left out. *)
SkipUnreadable ==
    /\ pc = "build" /\ i <= Len(lines)
    /\ i' = i + 1
    /\ IF lines[i] = "blank" \/ (lines[i] = "unreadable" /\ vision)
         THEN UNCHANGED <<pc, out, wrote>>
         ELSE out' = Write(<<Message(i)>>) /\ wrote' = wrote + 1 /\ pc' = pc
    /\ UNCHANGED <<provider, vision, lines, messages>>

(* The next line; one whose attachment cannot be read fails the request. *)
AddLine ==
    /\ pc = "build" /\ i <= Len(lines)
    /\ i' = i + 1
    /\ IF lines[i] = "blank"
         THEN UNCHANGED <<pc, out, wrote>>
         ELSE IF lines[i] = "unreadable" /\ vision
         THEN pc' = "failed" /\ UNCHANGED <<out, wrote>>
         ELSE out' = Write(<<Message(i)>>) /\ wrote' = wrote + 1 /\ pc' = pc
    /\ UNCHANGED <<provider, vision, lines, messages>>

(* The Claude body is sent, or parsed again and converted; one that is no *)
(* JSON is sent as it is to any provider.                                 *)
Built ==
    /\ pc = "build" /\ i > Len(lines)
    /\ messages' = Elements(out)
    /\ IF provider = "claude" \/ ~IsJson
         THEN pc' = "done" /\ UNCHANGED <<i, out, wrote>>
         ELSE pc' = "convert" /\ i' = 1 /\ out' = <<>> /\ wrote' = 0
    /\ UNCHANGED <<provider, vision, lines>>

------------------------------------------------------------------------------
(* convert_to_openai *)

(* One message of role "tool" per result. *)
openai_convert_tool_results(m) ==
    [k \in DOMAIN m.results |-> Item("tool", m.line, <<>>, <<m.results[k]>>)]

(* The calls of an answer stay in its message; images become data URLs in *)
(* theirs, and one without data leaves the content shorter or empty; a     *)
(* message with a plain text is copied.  The messages of results have      *)
(* commas between them, but none in front of the first.                    *)
openai_convert_messages ==
    /\ provider = "openai" /\ pc = "convert" /\ i <= Len(messages)
    /\ IF messages[i].type = "results"
         THEN LET tools == openai_convert_tool_results(messages[i])
              IN  out' = out \o Joined(tools) /\ wrote' = wrote + Len(tools)
         ELSE out' = Write(<<messages[i]>>) /\ wrote' = wrote + 1
    /\ i' = i + 1
    /\ UNCHANGED <<provider, vision, lines, pc, messages>>

(* The system prompt becomes the first message. *)
convert_to_openai ==
    /\ provider = "openai" /\ pc = "convert" /\ i > Len(messages)
    /\ LET system == <<Item("system", 0, <<>>, <<>>)>>
       IN  out' = IF out = <<>> THEN system ELSE Append(system, Comma) \o out
    /\ wrote' = wrote + 1
    /\ pc' = "done"
    /\ UNCHANGED <<provider, vision, lines, i, messages>>

------------------------------------------------------------------------------
(* convert_to_responses *)

(* Every call is an item of its own; the text follows if there is any; *)
(* thoughts are not sent.                                              *)
AssistantItems(m) ==
    [k \in DOMAIN m.calls |-> Item("function_call", m.line, <<m.calls[k]>>, <<>>)]
    \o IF m.type \in {"text", "textCalls"} THEN <<Item("assistant", m.line, <<>>, <<>>)>> ELSE <<>>

(* The items a message becomes: every result is one; the text and the image *)
(* of a user are two, and an image without data is none.                    *)
ResponsesItems(m) ==
    CASE m.type \in {"thinking", "text", "call", "textCalls"} -> AssistantItems(m)
      [] m.type = "results" ->
           [k \in DOMAIN m.results |-> Item("function_call_output", m.line, <<>>, <<m.results[k]>>)]
      [] m.type = "textAndImage" ->
           <<Item("user", m.line, <<>>, <<>>), Item("input_image", m.line, <<>>, <<>>)>>
      [] m.type = "imageBlock" -> <<Item("input_image", m.line, <<>>, <<>>)>>
      [] m.type = "textAndEmpty" -> <<Item("user", m.line, <<>>, <<>>)>>
      [] m.type = "emptyBlock" -> <<>>
      [] OTHER -> <<m>>

responses_convert_messages ==
    /\ provider = "responses" /\ pc = "convert" /\ i <= Len(messages)
    /\ out' = Write(ResponsesItems(messages[i]))
    /\ wrote' = wrote + Len(ResponsesItems(messages[i]))
    /\ i' = i + 1
    /\ UNCHANGED <<provider, vision, lines, pc, messages>>

convert_to_responses ==
    /\ provider = "responses" /\ pc = "convert" /\ i > Len(messages)
    /\ pc' = "done"
    /\ UNCHANGED <<provider, vision, lines, i, messages, out, wrote>>

------------------------------------------------------------------------------
Returned == pc \in {"done", "failed"} /\ UNCHANGED vars

Next ==
    \/ AddLine \/ Built
    \/ openai_convert_messages \/ convert_to_openai
    \/ responses_convert_messages \/ convert_to_responses
    \/ Returned

Spec == Init /\ [][Next]_vars

------------------------------------------------------------------------------
Before(p, q) == p[1] < q[1] \/ (p[1] = q[1] /\ p[2] < q[2])
Places(list) == UNION {{<<k, n>> : n \in DOMAIN list[k]} : k \in DOMAIN list}
(* The sequences in the list, one after the other, have exactly these ids, *)
(* each once and in order.                                                 *)
InOrderOnce(list, ids) ==
    /\ {list[p[1]][p[2]] : p \in Places(list)} = ids
    /\ \A p, q \in Places(list) : Before(p, q) => Before(list[p[1]][p[2]], list[q[1]][q[2]])

Calls(line) == {<<line, k>> : k \in 1..CallsIn(lines[line])}
Results(line) == IF lines[line] = "results" THEN Calls(line - 1) ELSE {}
Dropped(line) ==
    \/ lines[line] = "blank"
    \/ /\ provider = "responses" /\ IsJson
       /\ lines[line] = "thinking" \/ (vision /\ lines[line] = "emptyOnly")

(* A body that is sent, converted or as it was, has every line of the         *)
(* conversation, in order, with each of its calls and results exactly once:   *)
(* nothing is dropped because it could not be read or because of its          *)
(* neighbours.  Only answers that are nothing but thoughts and images of      *)
(* empty files sent alone have no place in the Responses format.              *)
BodyComplete ==
    pc = "done" =>
        /\ \A line \in 1..Len(lines) : Dropped(line) \/ \E k \in 1..Len(out) : out[k].line = line
        /\ \A k, m \in 1..Len(out) :
              k < m /\ out[k] # Comma /\ out[m] # Comma => out[k].line <= out[m].line
        /\ InOrderOnce([k \in DOMAIN out |-> out[k].calls], UNION {Calls(line) : line \in 1..Len(lines)})
        /\ InOrderOnce([k \in DOMAIN out |-> out[k].results],
                       UNION {Results(line) : line \in 1..Len(lines)})

(* Commas separate: none at either end, no two in a row, and one between any *)
(* two items but in front of OpenAI's tool messages; the counter that decides *)
(* about them counts every item, also where a line becomes none or several.  *)
CommasSeparate ==
    /\ wrote = Cardinality({k \in 1..Len(out) : out[k] # Comma})
    /\ out # <<>> =>
        /\ out[1] # Comma /\ out[Len(out)] # Comma
        /\ \A k \in 1..(Len(out) - 1) :
              (out[k] = Comma) = (out[k + 1] # Comma) \/ out[k + 1].type = "tool"

(* A body that is sent is a list: items and commas alternate.                *)
BodyParses ==
    pc = "done" => /\ out # <<>> => Len(out) % 2 = 1
                   /\ \A k \in 1..Len(out) : (out[k] = Comma) = (k % 2 = 0)
==============================================================================
