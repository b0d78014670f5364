---------------------------- MODULE GatewayStream ----------------------------
(***************************************************************************)
(* A client talks with a model through the gateway in one of the dialects  *)
(* it offers.  The upstream's lines arrive one by one and are translated   *)
(* at once; when the stream has ended the client answers the tool calls    *)
(* it assembled and sends the longer conversation with its next request.   *)
(* The upstream and the client are the environment, the translators are    *)
(* the gateway's.  `said` is what the model really said, heard from the    *)
(* same lines without any of the gateway's code.                           *)
(*                                                                         *)
(* The upstream begins each tool call with its name, ends one call before  *)
(* it begins the next and numbers them from 0, which is how mlx-lm streams *)
(* them.                                                                   *)
(***************************************************************************)
EXTENDS AnthropicStream, ResponsesStream, OllamaStream, RequestTranslation,
        ChatClient, GatewayErrors, RequestTiming, FiniteSetsExt

CONSTANTS Dialects,    \* of "anthropic", "responses", "ollama", "generate", "openai"
          Tools,       \* names of the client's tools
          MaxPieces,   \* bound: lines with content and later turns together
          MaxTurns     \* bound: requests in a conversation

FinishReasons == {"stop", "length", "tool_calls"}

ASSUME StreamAssumption ==
  /\ Dialects \subseteq {"anthropic", "responses", "ollama", "generate", "openai"}
  /\ Tools # {} /\ MaxPieces \in Nat /\ MaxTurns \in Nat
  /\ None \notin Nat \cup Tools \cup FinishReasons

VARIABLES dialect,   \* of this conversation
          wish,      \* the client's parameters
          telemetry, \* the gateway asks for usage on its own account
          conv,      \* the client's conversation: turns [kept, reply, backwards, more, words]
          messages,  \* the chat messages of the last upstream request
          request,   \* its other fields
          stream,    \* the translator's state
          said,      \* what the model said in this reply
          phase,     \* "asked", then "open" and "closed", or "refused"
          failure,   \* what a refused request failed of
          told,      \* the error answer the client got
          timing,    \* the collector of this request
          pieces     \* content lines so far; their numbers are the pieces

vars == <<dialect, wish, telemetry, conv, messages, request, stream, said, phase,
          failure, told, timing, pieces>>
client == <<dialect, wish, telemetry, conv>>

\* _anthropic_thinking_enabled, _ollama_thinking_enabled
Thinking == wish.think = "enabled"

Asks == Written(dialect, wish)

\* _force_usage_for_telemetry, _client_requested_include_usage and the
\* façades, which always ask for the usage.
ForcesUsage == dialect # "openai" \/ telemetry
StripsUsage == telemetry /\ ~Has(Asks, "include_usage")

\* chat_proxy and iter_sse_with_restored_model: the OpenAI dialect forwards the
\* lines, without the usage-only ones that the gateway asked for its telemetry.
OpenAiStart == [out |-> <<>>, failed |-> FALSE, strip |-> StripsUsage]
UsageOnly(line) == line.usage # None /\ IsEmpty([line EXCEPT !.usage = None])
OpenAiLine(s, line) ==
  [s EXCEPT !.failed = @ \/ line.kind = "error",
            !.out = IF s.strip /\ UsageOnly(line) THEN @ ELSE Append(@, line)]

Start == CASE dialect = "anthropic" -> AnthropicStart(Thinking)
           [] dialect = "responses" -> ResponsesStart
           [] dialect = "openai" -> OpenAiStart
           [] OTHER -> OllamaStart(Thinking, dialect = "ollama")

Translate(s, line) ==
  CASE dialect = "anthropic" -> AnthropicLine(s, line)
    [] dialect = "responses" -> ResponsesLine(s, line)
    [] dialect = "openai" -> OpenAiLine(s, line)
    [] OTHER -> OllamaLine(s, line)

Close(s) == CASE dialect = "anthropic" -> AnthropicClose(s)
              [] dialect = "responses" -> ResponsesClose(s)
              [] dialect = "openai" -> s
              [] OTHER -> OllamaClose(s)

-----------------------------------------------------------------------------
(* The client: what it has assembled from the events it received.          *)

Received ==
  CASE dialect = "anthropic" -> FromBlocks(Blocks(stream.out))
    [] dialect = "responses" -> FromItems(Items(stream.out))
    [] dialect = "openai" -> LET r == FoldLeft(HearTwin, Silence, stream.out)
                             IN  [reasoning |-> r.reasoning, text |-> r.text, calls |-> r.calls]
    [] OTHER -> FromChunks(stream.out)

-----------------------------------------------------------------------------
(* The client's next request.                                              *)

\* The reply as the client keeps it: a sequence of blocks, items or one message.
Kept == CASE dialect = "anthropic" -> Blocks(stream.out)
          [] dialect = "responses" -> Items(stream.out)
          [] OTHER -> <<Received>>

\* The upstream messages of a request with this history, the client writing
\* the keys of its arguments in the order `keys`.
Upstream(d, turns, keys) ==
  CASE d = "anthropic" ->
         AnthropicToChat(System(d), <<[role |-> "user",
                                       blocks |-> <<[type |-> "text", piece |-> Asked(0)]>>]>>
                                    \o AnthropicItems(turns, keys))
    [] d = "responses" ->
         ResponsesToChat(<<>>, <<[type |-> "message", role |-> "developer", image |-> FALSE,
                                  text |-> System(d)],
                                 [type |-> "message", role |-> "user", image |-> FALSE,
                                  text |-> Asked(0)]>> \o ResponsesItems(turns, keys))
    [] d = "ollama" ->
         OllamaToChat(<<[role |-> "user", text |-> Asked(0), image |-> FALSE,
                         thinking |-> <<>>, calls |-> <<>>, name |-> None]>>
                      \o OllamaItems(turns, keys))
    [] OTHER -> GenerateToChat(System(d), Asked(0), FALSE)

-----------------------------------------------------------------------------
\* The request reaches the upstream, or the gateway refuses it: a field is
\* missing, the alias is unknown or not ready, the instance is of another kind.
Send(turns, keys) ==
  LET refusal == Refusal(dialect, Asks)
      fails == IF refusal # None THEN Failure(400, refusal)
               ELSE IF RouteFailure(wish.model) # None THEN RouteFailure(wish.model)
               ELSE ModeFailure(wish.model)
      body == UpstreamBody(ChatBody(dialect, Asks), ForcesUsage, TemplateKwargs(dialect, Asks))
  IN  [messages |-> Upstream(dialect, turns, keys),
       request |-> IF fails = None THEN body ELSE NoFields,
       failure |-> fails,
       told |-> IF fails = None THEN None ELSE RefusalAnswer(dialect, fails),
       phase |-> IF fails = None THEN "asked" ELSE "refused"]

\* Bound: with unusual parameters one short reply is explored.
Explored == /\ telemetry
            /\ wish \in {[Usual(dialect) EXCEPT !.think = t, !.usage = u] :
                          t \in {None, "enabled"}, u \in BOOLEAN}

Init ==
  /\ dialect \in Dialects
  /\ wish \in WishesOf(dialect)
  /\ telemetry \in IF dialect = "openai" THEN BOOLEAN ELSE {TRUE}
  /\ conv = <<>>
  /\ LET sent == Send(<<>>, "written")
     IN  /\ messages = sent.messages /\ request = sent.request
         /\ phase = sent.phase /\ failure = sent.failure /\ told = sent.told
  /\ stream = Start /\ said = Silence
  /\ pieces = IF Explored THEN 0 ELSE MaxPieces
  /\ timing = NewTiming(pieces)

Ended == said.finish # None

Piece == <<<<"said", pieces>>>>
Call(n, name) == [index |-> n, id |-> <<"id", pieces, n>>, name |-> name, args |-> Piece]
BareCall(n, name) == [index |-> n, id |-> <<>>, name |-> name, args |-> <<>>]
Fragment(n) == [index |-> n, id |-> <<>>, name |-> None, args |-> Piece]

ContentLines ==
  LET n == Len(said.calls)
      one == CHOOSE t \in Tools : TRUE
      L(r, t, tools) == [BlankLine EXCEPT !.reasoning = r, !.text = t, !.tools = tools]
  IN  {L(Piece, <<>>, <<>>), L(<<>>, Piece, <<>>), L(Piece, Piece, <<>>),
       L(<<>>, <<>>, <<BareCall(n, one)>>),
       L(<<>>, Piece, <<Call(n, one), Call(n + 1, one)>>)}
      \cup {L(<<>>, <<>>, <<Call(n, t)>>) : t \in Tools}
      \cup {[BlankLine EXCEPT !.kind = k] : k \in IF pieces = 0 THEN {"noise"} ELSE {}}
      \cup (IF said.calling THEN {L(<<>>, <<>>, <<Fragment(n - 1)>>)} ELSE {})

\* Some upstreams count more cached tokens than the prompt has.
Usage == [prompt |-> IF said.finish = "length" THEN 3 ELSE 10, cached |-> 4, completion |-> 2,
          total |-> IF said.finish = "length" THEN 5 ELSE 12]

ControlLines ==
  IF ~Ended
  THEN {[BlankLine EXCEPT !.finish = f] : f \in FinishReasons}
       \cup {[BlankLine EXCEPT !.kind = "error"]}
  ELSE {[BlankLine EXCEPT !.usage = Usage] :
          asked \in {TRUE} \cap {Has(request, "include_usage")}}

\* The upstream answers the request with a stream, or it fails.
Opened ==
  /\ phase = "asked" /\ phase' = "open" /\ timing' = MarkOpen(timing, pieces)
  /\ UNCHANGED <<client, messages, request, stream, said, failure, told, pieces>>

\* Bound: only the first request of a conversation fails before its stream.
Fails(f) ==
  /\ phase = "asked" /\ conv = <<>> /\ phase' = "refused"
  /\ failure' = f /\ told' = FailureAnswer(dialect, f)
  /\ timing' = IF dialect = "openai" THEN timing ELSE Finalize(timing, pieces)
  /\ UNCHANGED <<client, messages, request, stream, said, pieces>>

Receive(line) ==
  /\ stream' = Translate(stream, Restored(line))
  /\ said' = Hear(said, line)
  /\ timing' = Observe(timing, Restored(line), pieces)
  /\ UNCHANGED <<client, messages, request, phase, failure, told>>

\* The upstream sends a piece of the reply.
Content == /\ phase = "open" /\ ~said.error /\ ~Ended
           /\ pieces + Len(conv) < MaxPieces
           /\ pieces' = pieces + 1
           /\ \E line \in ContentLines : Receive(line)

\* The upstream ends its reply, reports its usage or an error.
Control == /\ phase = "open" /\ ~said.error
           /\ said.usage = NoUsage
           /\ \E line \in ControlLines : Receive(line)
           /\ UNCHANGED pieces

\* The connection breaks: iter_chunks writes an error of its own.
Breaks ==
  /\ phase = "open" /\ ~said.error
  /\ \E line \in {[BlankLine EXCEPT !.kind = "error"]} :
       stream' = Translate(stream, line) /\ said' = Hear(said, line)
  /\ timing' = [timing EXCEPT !.error = "bad_gateway"]
  /\ UNCHANGED <<client, messages, request, phase, failure, told, pieces>>

\* The end of the upstream's bytes, after [DONE] or without it: the collector
\* takes the same time for the end of the stream.
End ==
  /\ phase = "open"
  /\ phase' = "closed" /\ stream' = Close(stream)
  /\ timing' = Finalize(Observe(timing, [BlankLine EXCEPT !.kind = "done"], pieces), pieces)
  /\ UNCHANGED <<client, messages, request, said, failure, told, pieces>>

\* The client answers the calls, if there are any, and goes on.  An Ollama
\* client answers in the order of the calls: it has nothing else to tell two
\* calls of a tool apart.
NextTurn(backwards, more, keys) ==
  /\ phase = "closed" /\ ~said.error /\ Explored /\ Len(conv) + 1 < MaxTurns
  /\ dialect \in {"anthropic", "responses", "ollama"}
  /\ backwards => dialect # "ollama" /\ Len(Received.calls) > 1
  /\ Received.calls = <<>> => more
  /\ conv' = Append(conv, [kept |-> Kept, reply |-> Received, backwards |-> backwards,
                           more |-> more, words |-> Asked(Len(conv) + 1)])
  /\ \E sent \in {Send(conv', keys)} :
         /\ messages' = sent.messages /\ request' = sent.request
         /\ phase' = sent.phase /\ failure' = sent.failure /\ told' = sent.told
  /\ stream' = Start /\ said' = Silence /\ timing' = NewTiming(pieces)
  /\ UNCHANGED <<dialect, wish, telemetry, pieces>>

Next == \/ Opened \/ Content \/ Control \/ Breaks \/ End
        \/ \E f \in ProxyFailures \cup UpstreamFailures : Fails(f)
        \/ \E backwards, more \in BOOLEAN, keys \in {"written", "otherwise"} :
             NextTurn(backwards, more, keys)

Spec == Init /\ [][Next]_vars

-----------------------------------------------------------------------------
(* Properties.                                                             *)

Events(ev) == {i \in DOMAIN stream.out : stream.out[i].ev = ev}
DeltaOf == [thinking |-> "thinking", text |-> "text", tool_use |-> "input_json"]

\* The Anthropic events form a message: one message_start first, blocks that
\* follow each other without overlap and are numbered from 0, deltas of the
\* block's type inside it, one id per tool call, then message_delta and
\* message_stop, or an error that ends the stream (_open_block and
\* _close_open_block are called from three places).
AnthropicWellFormed ==
  dialect = "anthropic" =>
    LET out == stream.out
        Inside(i) == \E j \in Events("block_start") :
          /\ j < i /\ out[j].index = out[i].index
          /\ \A k \in (j + 1)..(i - 1) : out[k].ev = "block_delta"
          /\ out[i].ev = "block_delta" => out[i].type = DeltaOf[out[j].block.type]
    IN  /\ Events("message_start") = {1}
        /\ \A i \in Events("block_start") :
             /\ out[i].index = Cardinality({j \in Events("block_start") : j < i})
             /\ out[i - 1].ev \in {"message_start", "block_stop"}
             /\ \A j \in Events("block_start") \ {i} :
                  out[i].block.type = "tool_use" => out[j].block.id # out[i].block.id
        /\ \A i \in Events("block_delta") \cup Events("block_stop") : Inside(i)
        /\ \A i \in Events("error") : i = Len(out)
        /\ \A i \in Events("message_delta") :
             /\ out[i - 1].ev \in {"message_start", "block_stop"}
             /\ i + 1 = Len(out) /\ out[i + 1].ev = "message_stop"
        /\ phase = "closed" =>
             (Events("message_stop") = {} <=> Events("error") # {})

\* The Responses events form a response: sequence numbers without a gap, every
\* item added once at the next output index with an id of its own, its deltas
\* between its added and its done event, the text of its done events the
\* concatenation of its deltas, and a completed response that lists every
\* added item, done, by output index.
ResponsesWellFormed ==
  dialect = "responses" =>
    LET out == stream.out
        OfItem(i) == out[i].at # None
        Added(i) == CHOOSE j \in Events("item_added") : out[j].at = out[i].at
        Deltas == {"text_delta", "summary_delta", "args_delta"}
        Dones == {"text_done", "part_done", "summary_text_done", "summary_done", "args_done"}
        Sent(j, i) == FlattenSeq([k \in 1..(i - j) |->
                        IF out[j + k].at = out[j].at /\ out[j + k].ev \in Deltas
                        THEN out[j + k].body ELSE <<>>])
        DoneAts == {out[i].at : i \in Events("item_done")}
    IN  /\ \A i \in DOMAIN out : out[i].seq = i
        /\ \A i \in Events("item_added") :
             /\ out[i].at = Cardinality({j \in Events("item_added") : j < i})
             /\ \A j \in Events("item_added") \ {i} : out[j].id # out[i].id
        /\ \A i \in {i \in DOMAIN out : OfItem(i)} :
             /\ \E j \in Events("item_added") : j <= i /\ out[j].at = out[i].at
             /\ out[i].id = out[Added(i)].id
             /\ \A k \in Events("item_done") : out[k].at = out[i].at => i <= k
             /\ out[i].ev \in Dones => out[i].body = Sent(Added(i), i)
             /\ out[i].ev = "item_done" =>
                  out[i].item = [out[Added(i)].item EXCEPT !.body = Sent(Added(i), i)]
        /\ \A i \in Events("failed") : i = Len(out)
        /\ \A i \in Events("completed") :
             /\ i = Len(out)
             /\ Len(out[i].output) = Cardinality(Events("item_added"))
             /\ \A j \in Events("item_done") :
                  out[i].output[out[j].at + 1] = out[j].item
        /\ phase = "closed" => (Events("completed") = {} <=> said.error)

Calls(calls) == [k \in 1..Len(calls) |-> [name |-> calls[k].name, args |-> calls[k].args]]
FinalChunk == stream.out[Len(stream.out)]

\* The calls as the dialect can tell them: Ollama's arguments are an object, so
\* those that are none (of a call cut by the length limit) cannot arrive.
Tellable(calls) ==
  [k \in 1..Len(calls) |->
     [name |-> calls[k].name,
      args |-> IF dialect = "ollama" /\ JsonKind(calls[k].args) # "object" THEN <<>>
               ELSE calls[k].args]]

\* Calls of a JSON Anthropic reply against those of its stream: the same names,
\* and the same arguments, which the JSON reply wraps when they are no object.
SameInputs(calls, streamed) ==
  /\ Len(calls) = Len(streamed)
  /\ \A k \in 1..Len(calls) :
       /\ calls[k].name = streamed[k].name
       /\ IF JsonKind(streamed[k].args) = "object" THEN calls[k].args = streamed[k].args
          ELSE \E key \in {"raw", "value"} : calls[k].args = Under(key, streamed[k].args)

\* The row of a request tells when something was first said and when the
\* first of it was visible, in that order, its parts sum up to the whole, and it
\* counts the tokens the upstream reported, hidden from the client or not.
RecordsWhatWasSaid(row) ==
  LET spoke == said.text # <<>> \/ said.reasoning # <<>> \/ said.calls # <<>>
  IN  /\ spoke = (row.ttft # None) /\ (said.text # <<>>) = (row.visible_ttft # None)
      /\ said.text # <<>> => row.ttft <= row.visible_ttft /\ row.visible_ttft <= row.total
      /\ spoke => row.prefill <= row.ttft /\ row.total = row.ttft + row.generation
      /\ row.usage = IF said.usage = NoUsage THEN None ELSE Tokens(said.usage)
      /\ row.error # None => said.error

\* At every moment the client has exactly what the model said: all of its
\* text, its reasoning when the client asked for it, its tool calls with their
\* whole arguments (an Ollama client at the end, and {} instead of arguments
\* that are no object), the tokens it is charged for in every façade's own
\* count, and the news of an error; a request that fails before its stream is
\* answered in the client's own kind of envelope with the status of the failure.
ClientSeesWhatWasSaid ==
  LET shown == CASE dialect \in {"responses", "openai"} -> TRUE
                 [] dialect = "generate" -> FALSE
                 [] OTHER -> Thinking
      late == dialect \in {"ollama", "generate"}
      whole == phase = "closed" /\ ~said.error
  IN  /\ Received.text = said.text
      /\ Received.reasoning = (IF shown THEN said.reasoning ELSE <<>>)
      /\ Calls(Received.calls) =
           (IF dialect = "generate" \/ (late /\ ~whole) THEN <<>> ELSE Tellable(said.calls))
      /\ \A k \in 1..Len(Received.calls) :
           ~late /\ said.calls[k].id # <<>> => Received.calls[k].id = said.calls[k].id
      /\ stream.failed = said.error
      /\ whole /\ dialect = "anthropic" =>
           LET u == stream.out[Len(stream.out) - 1].usage
           IN  u.input + u.cache_read = said.usage.prompt /\ u.output = said.usage.completion
      /\ whole /\ dialect = "responses" =>
           LET u == FinalChunk.usage
           IN  u.input = said.usage.prompt /\ u.output = said.usage.completion
               /\ u.total = said.usage.total
      /\ whole /\ late => /\ FinalChunk.prompt = said.usage.prompt
                          /\ FinalChunk.eval = said.usage.completion
      /\ dialect = "openai" =>
           (\E i \in DOMAIN stream.out : UsageOnly(stream.out[i]))
             = (wish.usage /\ said.usage # NoUsage)
      /\ dialect = "openai" => \A i \in DOMAIN stream.out :
           stream.out[i].kind = "chunk" => stream.out[i].model = "alias"
      /\ phase = "refused" =>
           /\ told.shape = IF dialect = "anthropic" THEN "anthropic" ELSE "openai"
           /\ told.status = failure.status
      /\ phase = "closed" => RecordsWhatWasSaid(timing.row)

\* A client that does not stream gets the same reply from the JSON
\* translation of the same completion: the same text, reasoning and calls
\* with the same ids, the same stop reason and the same usage, and the gateway
\* records the same usage of both.  Arguments that are no JSON object are in an
\* Anthropic reply whole too, under a key of their own.
StreamMatchesJson ==
  phase = "closed" /\ ~said.error =>
    /\ Finalize(JsonComplete(NewTiming(0), IF said.usage = NoUsage THEN None ELSE said.usage,
                             0), 0).row.usage = timing.row.usage
    /\ CASE dialect = "anthropic" ->
              LET j == AnthropicJson(said, Thinking)
                  u == stream.out[Len(stream.out) - 1]
                  given == {k \in 1..Len(said.calls) : said.calls[k].id # <<>>}
                  r == FromBlocks(j.content)
              IN  /\ r.text = Received.text /\ r.reasoning = Received.reasoning
                  /\ SameInputs(r.calls, Received.calls)
                  /\ \A k \in given : r.calls[k].id = Received.calls[k].id
                  /\ j.stop = u.stop /\ j.usage = u.usage
         [] dialect = "responses" ->
              LET j == ResponsesJson(said)
                  r == FromItems(j.output)
                  given == {k \in 1..Len(said.calls) : said.calls[k].id # <<>>}
              IN  /\ r.text = Received.text /\ r.reasoning = Received.reasoning
                  /\ Calls(r.calls) = Calls(Received.calls)
                  /\ \A k \in given : r.calls[k].id = Received.calls[k].id
                  /\ j.usage = FinalChunk.usage
         [] dialect \in {"ollama", "generate"} ->
              LET j == OllamaJson(said, Thinking, dialect = "ollama")
              IN  /\ FromChunks(<<j>>) = Received
                  /\ j.reason = FinalChunk.reason
                  /\ j.prompt = FinalChunk.prompt /\ j.eval = FinalChunk.eval
         [] OTHER -> TRUE

\* The calls of the last reply in a history.
LastCalls(acc) ==
  LET replies == {i \in DOMAIN acc : acc[i].role = "assistant"}
  IN  IF replies = {} THEN <<>> ELSE acc[Max(replies)].calls

\* One message more of a history in which the messages of one assistant reply
\* are joined and a tool answer names the calls of the reply that have its id.
Joins(acc, m) ==
  IF m.role = "assistant"
  THEN IF acc # <<>> /\ acc[Len(acc)].role = "assistant"
       THEN [acc EXCEPT ![Len(acc)].content = @ \o m.content,
                        ![Len(acc)].reasoning = @ \o m.reasoning,
                        ![Len(acc)].calls = @ \o m.calls]
       ELSE IF m.content # <<>> \/ m.reasoning # <<>> \/ m.calls # <<>> THEN Append(acc, m)
       ELSE acc
  ELSE IF m.role = "tool"
  THEN LET calls == LastCalls(acc)
       IN  Append(acc, [m EXCEPT !.answers = {k \in DOMAIN calls : calls[k].id = m.answers}])
  ELSE Append(acc, m)

\* A message without the ids and the key order of its calls.
Bare(m) ==
  IF m.role # "assistant" THEN m
  ELSE [m EXCEPT !.calls = [k \in DOMAIN @ |-> [name |-> @[k].name, args |-> @[k].args.value]]]

Normal(msgs) == LET joined == FoldLeft(Joins, <<>>, msgs)
                IN  [i \in DOMAIN joined |-> Bare(joined[i])]

\* The same conversation written directly as chat messages.
ReplyTo(t) ==
  LET reasoning == IF dialect = "responses" THEN <<>> ELSE t.reply.reasoning
  IN  IF t.reply.text = <<>> /\ reasoning = <<>> /\ t.reply.calls = <<>> THEN <<>>
      ELSE <<[Message EXCEPT !.role = "assistant", !.content = t.reply.text,
                             !.reasoning = reasoning, !.calls = Calls(t.reply.calls)]>>
AnswersTo(t) ==
  LET Number(k) == IF t.backwards THEN Len(t.reply.calls) + 1 - k ELSE k
  IN  [k \in 1..Len(t.reply.calls) |->
         [Message EXCEPT !.role = "tool", !.answers = {Number(k)},
                         !.content = Result(t.reply.calls[Number(k)].args)]]
RemarkOf(t) ==
  IF ~t.more THEN <<>> ELSE <<[Message EXCEPT !.content = t.words, !.image = TRUE]>>

Expected(turns) ==
  (IF System(dialect) = <<>> THEN <<>>
   ELSE <<[Message EXCEPT !.role = "system", !.content = System(dialect)]>>)
  \o <<[Message EXCEPT !.content = Asked(0)]>>
  \o FlattenSeq([n \in 1..Len(turns) |->
                   ReplyTo(turns[n]) \o AnswersTo(turns[n]) \o RemarkOf(turns[n])])

\* The parameters of the wish in the words of chat completions.
Wanted ==
  LET choice == IF wish.choice = None THEN None
                ELSE IF wish.choice.shape = "tool" THEN Nested(wish.choice)
                ELSE [wish.choice EXCEPT !.name = IF @ = "any" THEN "required" ELSE @]
      functions == SelectSeq(wish.tools, LAMBDA t : t.type = "function")
  IN  Field("model", "upstream") ++ Field("stream", TRUE)
      ++ Optional(dialect # "openai" \/ telemetry \/ wish.usage, Field("include_usage", TRUE))
      ++ Present("max_tokens", wish.limit) ++ Present("temperature", wish.temperature)
      ++ Present("stop", wish.stop) ++ Present("seed", wish.seed)
      ++ Present("response_format", wish.format) ++ Present("tool_choice", choice)
      ++ Optional(functions # <<>>,
           Field("tools", Shaped("nested", functions)))

\* Whether the model is told to think; None leaves it to its template.
WantsThinking ==
  CASE wish.think \in {"enabled", "low", "xhigh", "max"} -> TRUE
    [] wish.think \in {"disabled", "minimal"} -> FALSE
    [] wish.think = None /\ dialect \in {"anthropic", "ollama", "generate"} -> FALSE
    [] OTHER -> None

\* What goes upstream is the conversation the client had, whatever the
\* dialect: nothing said is lost or reordered, each tool answer names exactly
\* the call it answers, a remark or an image beside the answers is kept.
HistoryIsFaithful ==
  phase \in {"asked", "refused"} /\ dialect \in {"anthropic", "responses", "ollama"} =>
    Normal(messages) = Expected(conv)

\* With it go the parameters the client asked for: limits, tools, choice,
\* format and thinking arrive the same from every dialect that can say them,
\* and nothing arrives of a request that lacks what its dialect requires.
ParametersArrive ==
  phase \in {"asked", "refused"} =>
    /\ (request = NoFields) = (\/ wish.model # "chat" \/ wish.previous
                               \/ dialect = "anthropic" /\ wish.limit \in {None, 0})
    /\ request # NoFields =>
         LET kwargs == IF Has(request, "chat_template_kwargs")
                       THEN request["chat_template_kwargs"] ELSE NoFields
         IN  /\ Restrict(request, DOMAIN request \ {"chat_template_kwargs"}) = Wanted
             /\ WantsThinking = IF kwargs = NoFields THEN None ELSE kwargs["enable_thinking"]
             /\ Has(kwargs, "thinking_budget") => WantsThinking = TRUE
             /\ WantsThinking = TRUE /\ wish.budget # None =>
                  kwargs["thinking_budget"] = wish.budget

\* The messages of a request begin with those of the request before it,
\* written the same way even when the client wrote its JSON in another order:
\* the prompt cache of the instance can be used again (stable_json.py).
HistoryIsStable == [][IsPrefix(messages, messages')]_messages
=============================================================================
