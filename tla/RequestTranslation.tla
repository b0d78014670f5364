-------------------------- MODULE RequestTranslation --------------------------
(***************************************************************************)
(* A client's conversation as the chat messages that are sent upstream:    *)
(* anthropic_request_to_chat, responses_request_to_chat and                *)
(* ollama_chat_to_openai.  Text is the sequence of its pieces, and of an   *)
(* image only that it is there.  Arguments are a value and the order in    *)
(* which its keys were written: a client may write them in any order.      *)
(***************************************************************************)
EXTENDS ChatSse

Message == [role |-> "user", content |-> <<>>, image |-> FALSE, reasoning |-> <<>>,
            calls |-> <<>>, answers |-> <<>>]

\* Mutation: json.dumps without sort_keys.
StableAsWritten(args) == args

\* stable_json_dumps: the same value, keys sorted.
Stable(args) == [value |-> args.value, keys |-> "sorted"]

\* stable_tool_arguments: a text that is no JSON stays as it is.
StableArguments(text) == IF Parses(text.value) THEN Stable(text) ELSE text

\* The blocks of a type, and the others, in their order.
OfType(blocks, type) ==
  FlattenSeq([k \in 1..Len(blocks) |-> IF blocks[k].type = type THEN <<blocks[k]>> ELSE <<>>])
OtherThan(blocks, type) ==
  FlattenSeq([k \in 1..Len(blocks) |-> IF blocks[k].type # type THEN <<blocks[k]>> ELSE <<>>])
Pieces(blocks, type) ==
  FlattenSeq([k \in 1..Len(OfType(blocks, type)) |-> OfType(blocks, type)[k].piece])
SystemMessage(text) == IF text = <<>> THEN <<>>
                      ELSE <<[Message EXCEPT !.role = "system", !.content = text]>>

-----------------------------------------------------------------------------
(* Anthropic: an item is [role, blocks].                                   *)

\* _role_content_with_optional_thinking, _normalize_content_blocks
Plain(role, blocks) ==
  [Message EXCEPT !.role = role, !.content = Pieces(blocks, "text"),
                  !.reasoning = Pieces(blocks, "thinking"),
                  !.image = OfType(blocks, "image") # <<>>]

\* _tool_results_and_followup
ResultsAndFollowup(role, blocks) ==
  LET results == OfType(blocks, "tool_result")
      followup == Plain(role, OtherThan(blocks, "tool_result"))
      says == followup.content # <<>> \/ followup.image \/ followup.reasoning # <<>>
  IN  [k \in 1..Len(results) |->
         [Message EXCEPT !.role = "tool", !.answers = results[k].id,
                         !.content = results[k].piece]]
      \o (IF says THEN <<followup>> ELSE <<>>)

\* _assistant_tool_use_message
WithToolUses(blocks) ==
  LET uses == OfType(blocks, "tool_use")
  IN  [Message EXCEPT !.role = "assistant", !.content = Pieces(blocks, "text"),
         !.reasoning = Pieces(blocks, "thinking"),
         !.calls = [k \in 1..Len(uses) |-> [id |-> uses[k].id, name |-> uses[k].name,
                                            args |-> Stable(uses[k].args)]]]

\* _anthropic_message_to_chat
FromAnthropic(item) ==
  IF OfType(item.blocks, "tool_result") # <<>> THEN ResultsAndFollowup(item.role, item.blocks)
  ELSE IF OfType(item.blocks, "tool_use") # <<>> THEN <<WithToolUses(item.blocks)>>
  ELSE <<Plain(item.role, item.blocks)>>

AnthropicToChat(system, items) ==
  SystemMessage(system) \o FlattenSeq([k \in 1..Len(items) |-> FromAnthropic(items[k])])

-----------------------------------------------------------------------------
(* Responses: an item is [type, role, text, image, id, name, args].        *)

NormalizeRole(role) == IF role = "developer" THEN "system" ELSE role

\* _coerce_input_item; a reasoning item has no role and is dropped.
FromItem(item) ==
  CASE item.type = "function_call_output" ->
         <<[Message EXCEPT !.role = "tool", !.answers = item.id, !.content = item.text]>>
    [] item.type = "message" ->
         <<[Message EXCEPT !.role = NormalizeRole(item.role), !.content = item.text,
                           !.image = item.image]>>
    [] OTHER -> <<>>

Flush(acc) ==
  IF acc.pending = <<>> THEN acc
  ELSE [msgs |-> Append(acc.msgs, [Message EXCEPT !.role = "assistant", !.calls = acc.pending]),
        pending |-> <<>>]

\* _append_input_list_messages: consecutive calls make one assistant message.
TakeItem(acc, item) ==
  IF item.type = "function_call"
  THEN IF item.name = None THEN acc
       ELSE [acc EXCEPT !.pending =
               Append(@, [id |-> item.id, name |-> item.name,
                          args |-> StableArguments(item.args)])]
  ELSE LET f == Flush(acc) IN [f EXCEPT !.msgs = @ \o FromItem(item)]

ResponsesToChat(instructions, items) ==
  Flush(FoldLeft(TakeItem, [msgs |-> SystemMessage(instructions), pending |-> <<>>], items)).msgs

-----------------------------------------------------------------------------
(* Ollama: an item is [role, text, image, thinking, calls, name].  The     *)
(* calls have no ids; an answer names the tool it comes from.              *)

\* _ollama_tool_calls_to_openai
NumberedCalls(calls) ==
  [k \in 1..Len(calls) |-> [id |-> <<"call", k - 1>>, name |-> calls[k].name,
                            args |-> Stable(calls[k].args)]]

\* _pending_ids_after_message
PendingIds(calls) ==
  [n \in {calls[k].name : k \in 1..Len(calls)} |->
     FlattenSeq([k \in 1..Len(calls) |-> IF calls[k].name = n THEN <<calls[k].id>> ELSE <<>>])]

\* _resolve_tool_call_id: the oldest call of the tool that is not answered yet.
AnswerId(pending, name) ==
  IF name = None THEN <<"call", 0>>
  ELSE IF name \in DOMAIN pending /\ pending[name] # <<>> THEN Head(pending[name])
  ELSE <<"call", name>>

\* Mutation: the id is read and not popped.
AfterAnswerKept(pending, name) == pending

AfterAnswer(pending, name) ==
  IF name \in DOMAIN pending /\ pending[name] # <<>>
  THEN [pending EXCEPT ![name] = Tail(@)] ELSE pending

\* _normalize_ollama_messages
TakeMessage(acc, item) ==
  LET calls == IF item.role = "assistant" THEN NumberedCalls(item.calls) ELSE <<>>
      tool == item.role = "tool"
      msg == [Message EXCEPT !.role = item.role, !.content = item.text, !.image = item.image,
                !.calls = calls, !.reasoning = item.thinking,
                !.answers = IF tool THEN AnswerId(acc.pending, item.name) ELSE <<>>]
  IN  [msgs |-> Append(acc.msgs, msg),
       pending |-> IF calls # <<>> THEN PendingIds(calls)
                   ELSE IF tool THEN AfterAnswer(acc.pending, item.name) ELSE acc.pending]

OllamaToChat(items) == FoldLeft(TakeMessage, [msgs |-> <<>>, pending |-> <<>>], items).msgs

\* ollama_generate_to_openai: no history, one prompt.
GenerateToChat(system, prompt, image) ==
  Append(SystemMessage(system), [Message EXCEPT !.content = prompt, !.image = image])

=============================================================================
