----------------------------- MODULE ChatClient -----------------------------
(***************************************************************************)
(* The clients of the gateway, which are not part of it: what they make of *)
(* the events they receive, how they write their next request, and the     *)
(* parameters they ask for.  A wish is the same in every dialect; Written  *)
(* is the body it becomes in one.                                          *)
(***************************************************************************)
EXTENDS RequestParameters, FiniteSets

Silence == [reasoning |-> <<>>, text |-> <<>>, calls |-> <<>>, finish |-> None,
            usage |-> NoUsage, error |-> FALSE, calling |-> FALSE]

\* One more fragment of a call, or the first one of the next.
HearCall(calls, d) ==
  IF d.index < Len(calls)
  THEN [calls EXCEPT ![d.index + 1].args = @ \o d.args]
  ELSE Append(calls, [id |-> d.id, name |-> d.name, args |-> d.args])

\* One more line of a chat-completion stream.
Hear(reply, line) ==
  IF line.kind = "error" THEN [reply EXCEPT !.error = TRUE]
  ELSE [reply EXCEPT !.reasoning = @ \o line.reasoning, !.text = @ \o line.text,
                     !.calls = FoldLeft(HearCall, @, line.tools),
                     !.calling = line.tools # <<>> \/ (@ /\ line.kind = "noise"),
                     !.finish = IF line.finish = None THEN @ ELSE line.finish,
                     !.usage = IF line.usage = None THEN @ ELSE line.usage]

\* An OpenAI client reads reasoning_content only.
HearTwin(reply, line) ==
  Hear(reply, IF line.twin THEN line ELSE [line EXCEPT !.reasoning = <<>>])

\* One more event of an Anthropic message: a block begins, or goes on.
ReadBlock(bs, e) ==
  IF e.ev = "block_start"
  THEN Append(bs, [type |-> e.block.type, id |-> e.block.id, name |-> e.block.name,
                   piece |-> <<>>])
  ELSE IF e.ev = "block_delta" THEN [bs EXCEPT ![e.index + 1].piece = @ \o e.piece]
  ELSE bs

\* One more event of a response: an item is added, or goes on.
ReadItem(is, e) ==
  IF e.ev = "item_added" THEN Append(is, e.item)
  ELSE IF e.ev \in {"text_delta", "summary_delta", "args_delta"}
  THEN [is EXCEPT ![e.at + 1].body = @ \o e.body]
  ELSE is

\* The content blocks of an Anthropic message, in the order of their indexes,
\* and the output items of a response, in the order they were added.
Blocks(out) == FoldLeft(ReadBlock, <<>>, out)
Items(out) == FoldLeft(ReadItem, <<>>, out)

\* What a block or an item says, the parts of a type joined, and its calls.
Body(b) == IF "piece" \in DOMAIN b THEN b.piece ELSE b.body
AsCall(b) == [id |-> IF "call_id" \in DOMAIN b THEN b.call_id ELSE b.id,
              name |-> b.name, args |-> Body(b)]
Join(seq, type) ==
  FlattenSeq([k \in 1..Len(seq) |-> IF seq[k].type = type THEN Body(seq[k]) ELSE <<>>])
CallsIn(seq, type) ==
  FlattenSeq([k \in 1..Len(seq) |-> IF seq[k].type = type THEN <<AsCall(seq[k])>> ELSE <<>>])

FromBlocks(bs) == [reasoning |-> Join(bs, "thinking"), text |-> Join(bs, "text"),
                   calls |-> CallsIn(bs, "tool_use")]
FromItems(is) == [reasoning |-> Join(is, "reasoning"), text |-> Join(is, "message"),
                  calls |-> CallsIn(is, "function_call")]
FromChunks(out) ==
  [reasoning |-> FlattenSeq([k \in 1..Len(out) |-> out[k].thinking]),
   text |-> FlattenSeq([k \in 1..Len(out) |-> out[k].content]),
   calls |-> FlattenSeq([k \in 1..Len(out) |-> out[k].calls])]

-----------------------------------------------------------------------------
(* The client's next request.                                              *)

Args(value, keys) == [value |-> value, keys |-> keys]
Asked(n) == <<<<"asked", n>>>>          \* the user's words in turn n
Result(args) == <<<<"result", args>>>>  \* what the tool answered

\* The calls a client answers, in the order it answers them.
Answered(turn) == IF turn.backwards THEN Reverse(turn.reply.calls) ELSE turn.reply.calls

AnthropicItems(turns, keys) ==
  LET Block(b) == IF b.type = "tool_use"
                  THEN [type |-> b.type, id |-> b.id, name |-> b.name,
                        args |-> Args(b.piece, keys), piece |-> <<>>]
                  ELSE [type |-> b.type, piece |-> b.piece]
      Answers(t) == [k \in 1..Len(Answered(t)) |->
                       [type |-> "tool_result", id |-> Answered(t)[k].id,
                        piece |-> Result(Answered(t)[k].args)]]
      More(t) == IF ~t.more THEN <<>>
                 ELSE <<[type |-> "text", piece |-> t.words], [type |-> "image", piece |-> <<>>]>>
      Turn(t) == <<[role |-> "assistant", blocks |-> [k \in 1..Len(t.kept) |-> Block(t.kept[k])]],
                   [role |-> "user", blocks |-> Answers(t) \o More(t)]>>
  IN  FlattenSeq([n \in 1..Len(turns) |-> Turn(turns[n])])

\* Arguments sent back as a text: one that is no JSON has no keys to reorder.
TextArgs(text, keys) == Args(text, IF Parses(text) THEN keys ELSE "written")

ResponsesItems(turns, keys) ==
  LET Blank == [type |-> "message", role |-> "user", text |-> <<>>, image |-> FALSE,
                id |-> <<>>, name |-> None, args |-> Args(<<>>, keys)]
      Kind(i) == CASE i.type = "function_call" ->
                        [Blank EXCEPT !.type = i.type, !.id = i.call_id, !.name = i.name,
                                      !.args = TextArgs(i.body, keys)]
                   [] i.type = "message" ->
                        [Blank EXCEPT !.role = "assistant", !.text = i.body]
                   [] OTHER -> [Blank EXCEPT !.type = "reasoning", !.text = i.body]
      Answers(t) == [k \in 1..Len(Answered(t)) |->
                       [Blank EXCEPT !.type = "function_call_output",
                                     !.id = Answered(t)[k].id,
                                     !.text = Result(Answered(t)[k].args)]]
      More(t) == IF ~t.more THEN <<>>
                 ELSE <<[Blank EXCEPT !.text = t.words, !.image = TRUE]>>
      Turn(t) == [k \in 1..Len(t.kept) |-> Kind(t.kept[k])] \o Answers(t) \o More(t)
  IN  FlattenSeq([n \in 1..Len(turns) |-> Turn(turns[n])])

OllamaItems(turns, keys) ==
  LET Blank == [role |-> "user", text |-> <<>>, image |-> FALSE, thinking |-> <<>>,
                calls |-> <<>>, name |-> None]
      Call(c) == [name |-> c.name, args |-> Args(c.args, keys)]
      Reply(t) == [Blank EXCEPT !.role = "assistant", !.text = t.reply.text,
                     !.thinking = t.reply.reasoning,
                     !.calls = [k \in 1..Len(t.reply.calls) |-> Call(t.reply.calls[k])]]
      Answers(t) == [k \in 1..Len(Answered(t)) |->
                       [Blank EXCEPT !.role = "tool", !.name = Answered(t)[k].name,
                                     !.text = Result(Answered(t)[k].args)]]
      More(t) == IF ~t.more THEN <<>>
                 ELSE <<[Blank EXCEPT !.text = t.words, !.image = TRUE]>>
  IN  FlattenSeq([n \in 1..Len(turns) |-> <<Reply(turns[n])>> \o Answers(turns[n]) \o More(turns[n])])

System(d) == IF d = "ollama" THEN <<>> ELSE <<<<"system", 0>>>>

-----------------------------------------------------------------------------
(* Parameters.                                                             *)

Usual(d) == [model |-> "chat", limit |-> IF d = "anthropic" THEN 16 ELSE None,
             temperature |-> None, stop |-> None, seed |-> None, tools |-> <<>>,
             choice |-> None, format |-> None, think |-> None, budget |-> None,
             previous |-> FALSE, usage |-> FALSE]

Tool(name, type) == [name |-> name, type |-> type]
ToolLists == {<<>>, <<Tool("look", "function")>>, <<Tool("look", "function"), Tool("web", "search")>>,
              <<Tool("web", "search")>>, <<Tool("write", "function"), Tool("look", "function")>>}
ToolChoices == {None, [shape |-> "word", name |-> "auto"], [shape |-> "word", name |-> "any"],
            [shape |-> "tool", name |-> "look"]}

\* The words a dialect has for thinking.
Thoughts(d) == IF d \in {"anthropic", "ollama", "generate"} THEN {None, "enabled", "disabled"}
               ELSE {None, "minimal", "low", "xhigh", "max", "unheard"}

WishesOf(d) ==
  LET u == Usual(d)
      tools == IF d = "generate" THEN {<<>>}
               ELSE IF d = "responses" THEN ToolLists
               ELSE {ts \in ToolLists : \A k \in DOMAIN ts : ts[k].type = "function"}
  IN  {[u EXCEPT !.model = m] : m \in {"chat", "unknown", "unready", "broken", "slow",
                                             "embedder", None}}
      \cup {[u EXCEPT !.limit = n, !.model = m] : n \in {None, 0, 16}, m \in {"chat", "unknown"}}
      \cup {[u EXCEPT !.limit = 16, !.temperature = t, !.stop = s,
                      !.seed = IF d = "anthropic" THEN None ELSE "seed"] :
              t \in {None, "t"}, s \in {None, "s"}}
      \cup {[u EXCEPT !.tools = ts, !.choice = c] :
              ts \in tools, c \in IF d = "generate" THEN {None} ELSE ToolChoices}
      \cup {[u EXCEPT !.format = f] : f \in IF d = "anthropic" THEN {None}
                                            ELSE {"json_object", "json_schema"}}
      \cup {[u EXCEPT !.think = t, !.budget = b] :
              t \in Thoughts(d), b \in IF d = "anthropic" THEN {None, 512} ELSE {None}}
      \cup {[u EXCEPT !.usage = TRUE] : x \in IF d = "openai" THEN {1} ELSE {}}
      \cup {[u EXCEPT !.previous = TRUE] : x \in IF d = "responses" THEN {1} ELSE {}}

Present(field, value) == Optional(value # None, Field(field, value))

Shaped(shape, tools) == [k \in 1..Len(tools) |-> [shape |-> shape] ++ tools[k]]
ChoiceIn(d, c) ==
  IF c = None THEN None
  ELSE IF c.shape = "tool"
       THEN [c EXCEPT !.shape = IF d \in {"anthropic", "responses"} THEN "flat" ELSE "nested"]
       ELSE [c EXCEPT !.name = IF @ = "any" /\ d # "anthropic" THEN "required" ELSE @]
Lists(field, d, tools) ==
  Optional(tools # <<>>,
    Field(field, Shaped(IF d \in {"anthropic", "responses"} THEN "flat" ELSE "nested", tools)))

Written(d, w) ==
  Present("model", w.model) ++ Lists("tools", d, w.tools)
  ++ Present("tool_choice", ChoiceIn(d, w.choice))
  ++ CASE d = "anthropic" ->
            Present("max_tokens", w.limit) ++ Present("temperature", w.temperature)
            ++ Present("stop_sequences", w.stop) ++ Field("stream", TRUE)
            ++ Present("thinking.type", w.think) ++ Present("thinking.budget_tokens", w.budget)
       [] d = "responses" ->
            Present("max_output_tokens", w.limit) ++ Present("temperature", w.temperature)
            ++ Present("stop", w.stop) ++ Present("seed", w.seed) ++ Field("stream", TRUE)
            ++ Present("text.format", w.format)
            ++ Present("reasoning.effort", w.think)
            ++ Optional(w.previous, Field("previous_response_id", TRUE))
       [] d = "openai" ->
            Present("max_tokens", w.limit) ++ Present("temperature", w.temperature)
            ++ Present("stop", w.stop) ++ Present("seed", w.seed) ++ Field("stream", TRUE)
            ++ Present("response_format", w.format) ++ Present("reasoning_effort", w.think)
            ++ Optional(w.usage, Field("include_usage", TRUE))
       [] OTHER ->
            Present("options.num_predict", w.limit)
            ++ Present("options.temperature", w.temperature)
            ++ Present("options.stop", w.stop) ++ Present("options.seed", w.seed)
            ++ Optional(w.format # None,
                 Field("format", IF w.format = "json_object" THEN "json" ELSE "schema"))
            ++ Optional(w.think # None, Field("think", w.think = "enabled"))
=============================================================================
