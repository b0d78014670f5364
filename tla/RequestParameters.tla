-------------------------- MODULE RequestParameters --------------------------
(***************************************************************************)
(* What a client asks for beside its messages, and the chat-completion     *)
(* body that asks the upstream for it: limits and sampling, tools and the  *)
(* choice among them, the format of the reply, thinking, usage.  A body is *)
(* a function from the names of its fields.  A tool or a tool choice has   *)
(* the shape it is written in: "flat" ({name, ...}) or "nested"            *)
(* ({function: {name, ...}}); a choice may also be a "word" (auto, any).   *)
(* Nested fields are joined to their names: options.stop, text.format.     *)
(***************************************************************************)
EXTENDS ChatSse

NoFields == <<>>     \* the empty function
Has(body, field) == field \in DOMAIN body
Optional(condition, fields) == IF condition THEN fields ELSE NoFields
Field(name, value) == [f \in {name} |-> value]
\* The fields of both bodies; those of the first win.
b ++ c == [f \in DOMAIN b \cup DOMAIN c |-> IF f \in DOMAIN b THEN b[f] ELSE c[f]]

\* The fields of a body that `names` knows, under the names it gives them.
Renamed(body, names) ==
  LET known == DOMAIN names \cap DOMAIN body
  IN  [to \in {names[n] : n \in known} |-> body[CHOOSE n \in known : names[n] = to]]
Copied(body, fields) == Restrict(body, fields \cap DOMAIN body)

\* stabilize_chat_tools, _copy_tool_shallow: the schemas keep the client's keys.
StabilizeTools(tools) == tools
Nested(tool) == [tool EXCEPT !.shape = "nested"]
MapTools(tools, Op(_)) == [k \in 1..Len(tools) |-> Op(tools[k])]

-----------------------------------------------------------------------------
(* thinking_control: the fields of chat_template_kwargs.                   *)

Budget == [low |-> 1024, medium |-> 8192, high |-> 24576, xhigh |-> 49152]

\* kwargs_from_reasoning_effort
FromEffort(effort) ==
  CASE effort \in {"", "none", "minimal", "disabled", "off"} ->
         Field("enable_thinking", FALSE)
    [] effort \in DOMAIN Budget \cup {"max"} ->
         Field("enable_thinking", TRUE) ++
         Optional(effort \in DOMAIN Budget, Field("thinking_budget", Budget[effort]))
    [] OTHER -> NoFields

FromOpenAiChat(body) ==
  IF Has(body, "reasoning_effort") THEN FromEffort(body["reasoning_effort"]) ELSE NoFields
\* kwargs_from_responses: the top-level field hides the nested one.
FromResponses(body) ==
  IF Has(body, "reasoning_effort") \/ ~Has(body, "reasoning.effort")
  THEN FromOpenAiChat(body) ELSE FromEffort(body["reasoning.effort"])
\* kwargs_from_anthropic: off unless enabled.
FromAnthropicThinking(body) ==
  LET on == Has(body, "thinking.type") /\ body["thinking.type"] = "enabled"
  IN  Field("enable_thinking", on) ++
      Optional(on /\ Has(body, "thinking.budget_tokens"),
               Field("thinking_budget", body["thinking.budget_tokens"]))
FromOllamaThink(body) == Field("enable_thinking", Has(body, "think") /\ body["think"])

-----------------------------------------------------------------------------
(* Anthropic.                                                              *)

\* _require_model, _require_max_tokens: the code of the refusal, or None.
AnthropicRefusal(body) ==
  IF ~Has(body, "model") THEN "invalid_model"
  ELSE IF ~Has(body, "max_tokens") \/ body["max_tokens"] <= 0 THEN "invalid_request"
  ELSE None

\* _anthropic_tool_choice_to_openai
AnthropicChoice(choice) ==
  IF choice.shape = "word" THEN [choice EXCEPT !.name = IF @ = "any" THEN "required" ELSE @]
  ELSE Nested(choice)

\* _copy_tools, _anthropic_tool_to_openai
AnthropicTools(body) ==
  Optional(Has(body, "tools"), Field("tools", StabilizeTools(MapTools(body["tools"], Nested))))
  ++ Optional(Has(body, "tool_choice"),
              Field("tool_choice", AnthropicChoice(body["tool_choice"])))

\* Mutation: the stop sequences keep the name they have in Anthropic.
AnthropicSamplingCopied(body) == Copied(body, {"temperature", "stop_sequences", "stream"})

\* _copy_optional_sampling_fields
AnthropicSampling(body) ==
  Renamed(body, [temperature |-> "temperature", stop_sequences |-> "stop", stream |-> "stream"])

AnthropicBody(body) ==
  Copied(body, {"model", "max_tokens"}) ++ AnthropicSampling(body) ++ AnthropicTools(body)

-----------------------------------------------------------------------------
(* Responses.                                                              *)

\* _reject_unsupported_responses_fields, _require_responses_model
ResponsesRefusal(body) ==
  IF Has(body, "previous_response_id") THEN "invalid_request"
  ELSE IF ~Has(body, "model") THEN "invalid_model" ELSE None

\* _copy_responses_sampling_fields, _responses_format_to_chat
ResponsesSampling(body) ==
  Renamed(body, [max_output_tokens |-> "max_tokens"])
  ++ Optional(Has(body, "text.format") /\ body["text.format"] \in {"json_object", "json_schema"},
              Field("response_format", body["text.format"]))

\* _is_function_tool
IsFunctionTool(tool) == tool.type = "function" /\ tool.name # None

\* _responses_tool_to_chat, _responses_tool_choice_to_chat: what is nested stays.
ToChat(tool) == IF tool.shape = "flat" THEN Nested(tool) ELSE tool

\* _copy_responses_tools
ResponsesTools(body) ==
  LET tools == IF Has(body, "tools") THEN SelectSeq(body["tools"], IsFunctionTool) ELSE <<>>
  IN  Optional(tools # <<>>, Field("tools", StabilizeTools(MapTools(tools, ToChat))))
      ++ Optional(Has(body, "tool_choice"), Field("tool_choice", ToChat(body["tool_choice"])))

ResponsesBody(body) ==
  Copied(body, {"model", "temperature", "stream", "stop", "seed"})
  ++ ResponsesSampling(body) ++ ResponsesTools(body)

-----------------------------------------------------------------------------
(* Ollama.                                                                 *)

OllamaRefusal(body) == IF ~Has(body, "model") THEN "invalid_model" ELSE None

\* _apply_ollama_options
OllamaOptions(body) ==
  Renamed(body, Field("options.temperature", "temperature")
                ++ Field("options.num_predict", "max_tokens")
                ++ Field("options.stop", "stop") ++ Field("options.seed", "seed"))

\* _apply_ollama_format: "json", or a schema.
OllamaFormat(body) ==
  Optional(Has(body, "format"),
    Field("response_format", IF body["format"] = "json" THEN "json_object" ELSE "json_schema"))

\* _copy_tools of the Ollama translation
OllamaTools(body) ==
  Optional(Has(body, "tools"), Field("tools", StabilizeTools(body["tools"])))
  ++ Copied(body, {"tool_choice"})

\* ollama_chat_to_openai; generate has no tools.
OllamaBody(body, chat) ==
  Copied(body, {"model"}) ++ Field("stream", TRUE) ++ OllamaOptions(body) ++ OllamaFormat(body)
  ++ Optional(chat, OllamaTools(body))

-----------------------------------------------------------------------------
(* All dialects.                                                           *)

Refusal(dialect, body) ==
  CASE dialect = "anthropic" -> AnthropicRefusal(body)
    [] dialect = "responses" -> ResponsesRefusal(body)
    [] OTHER -> OllamaRefusal(body)

ChatBody(dialect, body) ==
  CASE dialect = "anthropic" -> AnthropicBody(body)
    [] dialect = "responses" -> ResponsesBody(body)
    [] dialect = "openai" -> body
    [] OTHER -> OllamaBody(body, dialect = "ollama")

TemplateKwargs(dialect, body) ==
  CASE dialect = "anthropic" -> FromAnthropicThinking(body)
    [] dialect = "responses" -> FromResponses(body)
    [] dialect = "openai" -> FromOpenAiChat(body)
    [] OTHER -> FromOllamaThink(body)

\* merge_chat_template_kwargs: the gateway's keys win over the client's.
WithKwargs(body, kwargs) ==
  LET given == IF Has(body, "chat_template_kwargs") THEN body["chat_template_kwargs"]
               ELSE NoFields
  IN  IF kwargs = NoFields THEN body
      ELSE Field("chat_template_kwargs", kwargs ++ given) ++ body

\* prepare_chat_upstream_body
UpstreamBody(body, usage, kwargs) ==
  LET forced == IF usage /\ Has(body, "stream") /\ body["stream"]
                THEN Field("include_usage", TRUE) ++ body ELSE body
      plain == Restrict(forced, DOMAIN forced \ {"reasoning_effort"})
  IN  WithKwargs(Field("model", "upstream") ++ plain, kwargs)
=============================================================================
