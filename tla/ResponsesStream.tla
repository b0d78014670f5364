--------------------------- MODULE ResponsesStream ---------------------------
(***************************************************************************)
(* Chat completions as OpenAI Responses: the streamed events               *)
(* (services/responses_proxy.py) and the JSON output items                 *)
(* (protocol/responses_translate.py).  The state is the translator's       *)
(* `meta` with the events written so far in `out`.  An item is known to    *)
(* the client by its output index; `body` is the text, the reasoning or    *)
(* the arguments an event carries.                                         *)
(***************************************************************************)
EXTENDS ChatSse

OutputItem == [type |-> None, id |-> <<>>, call_id |-> <<>>, name |-> None, body |-> <<>>]
ResponseEvent == [seq |-> 0, ev |-> None, at |-> None, id |-> <<>>, item |-> OutputItem, body |-> <<>>,
                  output |-> <<>>, usage |-> None]

\* _sse_event with next_sequence
PutEvent(s, e) == [s EXCEPT !.seq = @ + 1, !.out = Append(@, [e EXCEPT !.seq = s.seq + 1])]

MessageId == <<"msg">>
ReasoningId(n) == IF n = 0 THEN <<"rs">> ELSE <<"rs", n>>

ResponsesStart ==
  PutEvent([out |-> <<>>, seq |-> 0, next |-> 0, messageAt |-> None, text |-> <<>>,
       thinking |-> FALSE, part |-> FALSE, thinkingAt |-> None, thoughts |-> 0,
       rid |-> ReasoningId(0), reasoning |-> <<>>, tools |-> NoCalls, itemOf |-> <<>>,
       done |-> <<>>, usage |-> NoUsage, failed |-> FALSE],
      [ResponseEvent EXCEPT !.ev = "created"])

AddItem(s, at, item) ==
  PutEvent(s, [ResponseEvent EXCEPT !.ev = "item_added", !.at = at, !.id = item.id, !.item = item])
\* The item's done event, recorded for the final list of output items.
FinishItem(s, at, item) ==
  [PutEvent(s, [ResponseEvent EXCEPT !.ev = "item_done", !.at = at, !.id = item.id, !.item = item])
     EXCEPT !.done = Append(@, [at |-> at, item |-> item])]
PutPiece(s, ev, at, id, body) ==
  PutEvent(s, [ResponseEvent EXCEPT !.ev = ev, !.at = at, !.id = id, !.body = body])

OpenMessage(s) ==
  IF s.messageAt # None THEN s
  ELSE LET a == AddItem([s EXCEPT !.messageAt = s.next, !.next = @ + 1], s.next,
                      [OutputItem EXCEPT !.type = "message", !.id = MessageId])
       IN  PutPiece(a, "part_added", s.next, MessageId, <<>>)

\* Mutation: every reasoning item has the first one's id.
OpenReasoningSameId(s) ==
  IF s.thinking THEN s
  ELSE AddItem([s EXCEPT !.thinking = TRUE, !.part = FALSE, !.reasoning = <<>>,
                       !.thinkingAt = s.next, !.next = @ + 1],
             s.next, [OutputItem EXCEPT !.type = "reasoning", !.id = s.rid])

\* A reasoning that comes back after it was closed is a new item, with a new id.
OpenReasoning(s) ==
  IF s.thinking THEN s
  ELSE LET rid == IF s.thoughts = 0 THEN s.rid ELSE ReasoningId(s.thoughts)
       IN  AddItem([s EXCEPT !.thinking = TRUE, !.part = FALSE, !.reasoning = <<>>,
                           !.thinkingAt = s.next, !.next = @ + 1,
                           !.thoughts = @ + 1, !.rid = rid],
                 s.next, [OutputItem EXCEPT !.type = "reasoning", !.id = rid])

OpenPart(s) ==
  IF s.part THEN s
  ELSE PutPiece([s EXCEPT !.part = TRUE], "summary_added", s.thinkingAt, s.rid, <<>>)

CloseReasoning(s) ==
  IF ~s.thinking THEN s
  ELSE LET t == PutPiece(s, "summary_text_done", s.thinkingAt, s.rid, s.reasoning)
           p == IF ~s.part THEN t
                ELSE [PutPiece(t, "summary_done", s.thinkingAt, s.rid, s.reasoning)
                        EXCEPT !.part = FALSE]
       IN  [FinishItem(p, s.thinkingAt, [OutputItem EXCEPT !.type = "reasoning", !.id = s.rid,
                                                   !.body = s.reasoning])
              EXCEPT !.thinking = FALSE]

PutReasoning(s, piece) ==
  LET o == OpenPart(OpenReasoning(s))
  IN  PutPiece([o EXCEPT !.reasoning = @ \o piece], "summary_delta", o.thinkingAt, o.rid, piece)

PutMessage(s, piece) ==
  LET o == OpenMessage(CloseReasoning(s))
  IN  PutPiece([o EXCEPT !.text = @ \o piece], "text_delta", o.messageAt, MessageId, piece)

\* One delta of _map_tool_call_deltas; `itemOf` joins tool_item_ids,
\* tool_output_indexes and tool_call_ids.
PutCall(s, delta) ==
  LET i == delta.index
      m == [s EXCEPT !.tools = Ingest(@, delta)]
      call == m.tools[i]
      item == [OutputItem EXCEPT !.type = "function_call", !.name = call.name,
                 !.id = <<"fc", Default(call.id, "index", i)>>,
                 !.call_id = Default(call.id, "call", i)]
      o == IF i \in DOMAIN m.itemOf THEN m
           ELSE AddItem([m EXCEPT !.next = @ + 1,
                                !.itemOf = With(@, i, [id |-> item.id, at |-> m.next])],
                      m.next, item)
  IN  IF i \notin DOMAIN m.itemOf /\ call.name = None THEN m
      ELSE IF delta.args = <<>> THEN o
      ELSE PutPiece(o, "args_delta", o.itemOf[i].at, o.itemOf[i].id, delta.args)

\* _map_chat_sse_line, and _failed_event for an error
ResponsesLine(s, line) ==
  LET p == Parse(line)
      noted == [s EXCEPT !.usage = IF p.usage # None THEN p.usage ELSE @]
      thought == IF p.reasoning # <<>> THEN PutReasoning(noted, p.reasoning) ELSE noted
      spoken == IF p.text # <<>> THEN PutMessage(thought, p.text) ELSE thought
  IN  IF s.failed \/ p.kind = "noise" THEN s
      ELSE IF p.kind = "error"
           THEN PutEvent([s EXCEPT !.failed = TRUE], [ResponseEvent EXCEPT !.ev = "failed"])
      ELSE IF p.tools = <<>> THEN spoken
      ELSE FoldLeft(PutCall, CloseReasoning(spoken), p.tools)

CloseMessage(s) ==
  IF s.messageAt = None THEN s
  ELSE LET t == PutPiece(s, "text_done", s.messageAt, MessageId, s.text)
           p == PutPiece(t, "part_done", s.messageAt, MessageId, s.text)
       IN  FinishItem(p, s.messageAt, [OutputItem EXCEPT !.type = "message", !.id = MessageId,
                                                 !.body = s.text])

CloseCall(s, call) ==
  LET known == call.index \in DOMAIN s.itemOf
      at == IF known THEN s.itemOf[call.index].at ELSE s.next
      id == IF known THEN s.itemOf[call.index].id ELSE call.id
  IN  FinishItem(PutPiece(s, "args_done", at, id, call.args), at,
               [type |-> "function_call", id |-> id, call_id |-> call.id,
                name |-> call.name, body |-> call.args])

\* _ordered_completed_output_items: a stable sort by the output index
Ordered(done) ==
  LET Place(k) == Cardinality({l \in DOMAIN done : \/ done[l].at < done[k].at
                                                   \/ done[l].at = done[k].at /\ l <= k})
  IN  [n \in 1..Len(done) |-> done[CHOOSE k \in DOMAIN done : Place(k) = n].item]

ResponsesUsage(u) == [input |-> u.prompt, output |-> u.completion, total |-> u.total]

\* _stream_close_events
ResponsesClose(s) ==
  IF s.failed THEN s
  ELSE LET c == FoldLeft(CloseCall, CloseMessage(CloseReasoning(s)), CompletedCalls(s.tools))
       IN  PutEvent(c, [ResponseEvent EXCEPT !.ev = "completed", !.output = Ordered(c.done),
                                                !.usage = ResponsesUsage(s.usage)])

-----------------------------------------------------------------------------
\* _assistant_text_from_chat
AssistantText(c) == c.text

\* _output_items_from_chat: the reasoning first, then the calls, then the text.
\* The arguments keep their value (stable_tool_arguments orders keys only).
OutputItems(c) ==
  LET thought == IF c.reasoning = <<>> THEN <<>>
                 ELSE <<[OutputItem EXCEPT !.type = "reasoning", !.id = ReasoningId(0),
                                     !.body = c.reasoning]>>
      calls == [k \in 1..Len(c.calls) |->
                  LET id == Default(c.calls[k].id, "fresh", k)
                  IN  [type |-> "function_call", id |-> id, call_id |-> id,
                       name |-> c.calls[k].name, body |-> c.calls[k].args]]
      text == [OutputItem EXCEPT !.type = "message", !.id = MessageId, !.body = AssistantText(c)]
  IN  thought \o calls \o
      (IF text.body # <<>> \/ thought \o calls = <<>> THEN <<text>> ELSE <<>>)

\* chat_completion_to_response: the JSON reply for the completion c.
ResponsesJson(c) == [output |-> OutputItems(c), usage |-> ResponsesUsage(c.usage)]
=============================================================================
