--------------------------- MODULE AnthropicStream ---------------------------
(***************************************************************************)
(* Chat completions as Anthropic Messages: the streamed events             *)
(* (services/anthropic_proxy.py) and the JSON reply                        *)
(* (protocol/anthropic_translate.py).  The state is _AnthropicStreamState  *)
(* with the events written so far in `out`.                                *)
(***************************************************************************)
EXTENDS ChatSse, Functions

Least(a, b) == IF a < b THEN a ELSE b

\* chat_usage_to_anthropic_usage
AnthropicUsage(u) ==
  LET cached == IF u.cached > 0 THEN Least(u.cached, u.prompt) ELSE 0
  IN  [input |-> u.prompt - cached, cache_read |-> cached, output |-> u.completion]

AnthropicStart(thinking) ==
  [out |-> <<[ev |-> "message_start"]>>, stop |-> "end_turn", next |-> 0, open |-> None,
   tools |-> NoCalls, toolBlock |-> <<>>, thinkingAt |-> None, textAt |-> None,
   thinking |-> thinking, usage |-> NoUsage, failed |-> FALSE]

WriteEvent(s, event) == [s EXCEPT !.out = Append(@, event)]

CloseBlock(s) ==
  IF s.open = None THEN s
  ELSE LET kept == {t \in DOMAIN s.toolBlock : s.toolBlock[t] # s.open}
       IN  WriteEvent([s EXCEPT !.open = None,
                         !.textAt = IF @ = s.open THEN None ELSE @,
                         !.thinkingAt = IF @ = s.open THEN None ELSE @,
                         !.toolBlock = Restrict(@, kept)],
               [ev |-> "block_stop", index |-> s.open])

\* Mutation: the open block is not closed first.
OpenBlockUnclosed(s, block) ==
  [WriteEvent(s, [ev |-> "block_start", index |-> s.next, block |-> block])
     EXCEPT !.open = s.next, !.next = @ + 1]

OpenBlock(s, block) ==
  LET c == CloseBlock(s)
  IN  [WriteEvent(c, [ev |-> "block_start", index |-> s.next, block |-> block])
         EXCEPT !.open = s.next, !.next = @ + 1]

NoBlock == [type |-> None, id |-> <<>>, name |-> None]
Active(s, at) == at # None /\ at = s.open
Delta(s, at, type, piece) ==
  WriteEvent(s, [ev |-> "block_delta", index |-> at, type |-> type, piece |-> piece])

PutThinking(s, piece) ==
  LET o == IF Active(s, s.thinkingAt) THEN s
           ELSE [OpenBlock(s, [NoBlock EXCEPT !.type = "thinking"])
                   EXCEPT !.thinkingAt = s.next]
  IN  Delta(o, o.thinkingAt, "thinking", piece)

PutText(s, piece) ==
  LET o == IF Active(s, s.textAt) THEN s
           ELSE [OpenBlock(s, [NoBlock EXCEPT !.type = "text"]) EXCEPT !.textAt = s.next]
  IN  Delta(o, o.textAt, "text", piece)

\* One delta of _emit_tool_deltas: a call whose block is not the open one gets
\* a new block, once it has a name; until then its fragments are not sent.
PutTool(s, delta) ==
  LET i == delta.index
      m == [s EXCEPT !.tools = Ingest(@, delta)]
      call == m.tools[i]
      at == IF i \in DOMAIN s.toolBlock THEN s.toolBlock[i] ELSE None
      o == IF Active(m, at) THEN m
           ELSE LET b == OpenBlock(m, [type |-> "tool_use", name |-> call.name,
                                       id |-> Default(call.id, "toolu", i)])
                IN  [b EXCEPT !.toolBlock = With(@, i, m.next)]
  IN  IF ~Active(m, at) /\ call.name = None THEN m
      ELSE IF delta.args = <<>> THEN o
      ELSE Delta(o, o.toolBlock[i], "input_json", delta.args)

StopReason(finish) ==
  CASE finish = "length" -> "max_tokens" [] finish = "tool_calls" -> "tool_use"
    [] OTHER -> "end_turn"

\* _events_for_chat_line; nothing is read after an error (_drain_chat_sse_line).
AnthropicLine(s, line) ==
  LET p == Parse(line)
      noted == [s EXCEPT !.usage = IF p.usage # None THEN p.usage ELSE @,
                         !.stop = IF p.finish # None THEN StopReason(p.finish) ELSE @]
      thought == IF p.reasoning # <<>> /\ s.thinking THEN PutThinking(noted, p.reasoning)
                 ELSE noted
      spoken == IF p.text # <<>> THEN PutText(thought, p.text) ELSE thought
  IN  IF s.failed \/ p.kind = "noise" THEN s
      ELSE IF p.kind = "error" THEN WriteEvent([s EXCEPT !.failed = TRUE], [ev |-> "error"])
      ELSE FoldLeft(PutTool, spoken, p.tools)

\* The end of a message: the reason and the usage, then message_stop.
EndMessage(s, stop) ==
  WriteEvent(WriteEvent(s, [ev |-> "message_delta", stop |-> stop,
                            usage |-> AnthropicUsage(s.usage)]), [ev |-> "message_stop"])

\* Mutation: a stream that ends without finish_reason is an end of turn.
AnthropicCloseKeepingStop(s) ==
  IF s.failed THEN s ELSE EndMessage(CloseBlock(s), s.stop)

\* _close_anthropic_stream; a failed stream just ends.
AnthropicClose(s) ==
  LET stop == IF HasCalls(s.tools) /\ s.stop = "end_turn" THEN "tool_use" ELSE s.stop
  IN  IF s.failed THEN s ELSE EndMessage([CloseBlock(s) EXCEPT !.stop = stop], stop)

-----------------------------------------------------------------------------
\* An input object with one key.
Under(key, text) == <<<<key, text>>>>

\* _tool_call_to_tool_use: the input is an object whatever the arguments are, and
\* a call without an id gets a fresh one.
Input(text) ==
  CASE JsonKind(text) = "object" -> text
    [] JsonKind(text) = "value" -> Under("value", text)
    [] OTHER -> Under("raw", text)
ToolUses(calls) ==
  [k \in 1..Len(calls) |-> [type |-> "tool_use", id |-> Default(calls[k].id, "fresh", k),
                            name |-> calls[k].name, piece |-> Input(calls[k].args)]]

\* _assistant_content_blocks: never empty.
ContentBlocks(c, thinking) ==
  LET Block(type, piece) == IF piece = <<>> THEN <<>> ELSE <<[type |-> type, piece |-> piece]>>
      all == Block("thinking", IF thinking THEN c.reasoning ELSE <<>>)
             \o Block("text", c.text) \o ToolUses(c.calls)
  IN  IF all = <<>> THEN <<[type |-> "text", piece |-> <<>>]>> ELSE all

\* _finish_to_stop_reason
FinishToStop(c) ==
  CASE c.finish = "length" -> "max_tokens"
    [] c.finish # "length" /\ (c.finish = "tool_calls" \/ c.calls # <<>>) -> "tool_use"
    [] OTHER -> "end_turn"

\* chat_completion_to_anthropic: the JSON reply for the completion c.
AnthropicJson(c, thinking) ==
  [content |-> ContentBlocks(c, thinking), stop |-> FinishToStop(c),
   usage |-> AnthropicUsage(c.usage)]
=============================================================================
