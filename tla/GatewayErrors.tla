---------------------------- MODULE GatewayErrors ----------------------------
(***************************************************************************)
(* How a request fails before its stream begins, and in what shape the     *)
(* client is told: the gateway's own refusals (router.py, errors.py), the  *)
(* proxy's failures and the upstream's error answers (http_proxy.py), and  *)
(* Anthropic's envelope around them (anthropic_proxy.py).  An answer is    *)
(* [shape, status, type]; the wording is left out.                         *)
(***************************************************************************)
EXTENDS ChatSse

Failure(status, code) == [status |-> status, code |-> code]

\* openai_error_type_for_code
OpenAiType(code) ==
  CASE code \in {"model_not_found", "invalid_model", "unsupported_endpoint", "invalid_request"} ->
         "invalid_request_error"
    [] OTHER -> "server_error"

\* anthropic_error_type_for_code
AnthropicType(code) ==
  CASE code \in {"invalid_model", "invalid_request"} -> "invalid_request_error"
    [] code = "model_not_found" -> "not_found_error"
    [] OTHER -> "api_error"

\* openai_error_envelope
OpenAiEnvelope(f) == [shape |-> "openai", status |-> f.status, type |-> OpenAiType(f.code)]

\* handle_gateway_route_error: the gateway's refusals, by the path they came on.
RefusalAnswer(dialect, f) ==
  IF dialect = "anthropic"
  THEN [shape |-> "anthropic", status |-> f.status, type |-> AnthropicType(f.code)]
  ELSE OpenAiEnvelope(f)

\* A wake that fails, or that outlasts the client's wait (lifecycle_services.py).
WakeFailure(model) ==
  CASE model = "broken" -> Failure(503, "model_unavailable")
    [] model = "slow" -> Failure(503, "model_waking_timeout")
    [] OTHER -> None

\* _route_error_for_alias: unknown, or known and not ready.
RouteFailure(model) ==
  CASE model = "unknown" -> Failure(404, "model_not_found")
    [] model = "unready" -> Failure(503, "model_unavailable")
    [] OTHER -> WakeFailure(model)

\* validate_target_launch_mode with CHAT_LAUNCH_MODES
ModeFailure(model) ==
  IF model = "embedder" THEN Failure(400, "unsupported_endpoint") ELSE None

\* A full queue's timeout, the upstream's, and an upstream that is gone.
ProxyFailures == {Failure(503, "upstream_queue_timeout"), Failure(504, "gateway_timeout"),
                  Failure(502, "bad_gateway")}
\* The upstream's own error: its JSON, JSON with a bare text as mlx-lm writes
\* it, or a body that is not JSON.
UpstreamFailures == {Failure(400, "typed"), Failure(404, "bare"), Failure(500, "text")}

\* gateway_error, read_upstream_stream_error
ProxyAnswer(f) ==
  CASE f.code = "typed" -> [shape |-> "openai", status |-> f.status, type |-> "invalid_request_error"]
    [] f.code = "bare" -> [shape |-> "openai", status |-> f.status, type |-> None]
    [] f.code = "text" -> [shape |-> "openai", status |-> f.status, type |-> "upstream_error"]
    [] OTHER -> OpenAiEnvelope(f)

\* _as_anthropic_error, _openai_error_fields
AsAnthropicError(answer) ==
  [answer EXCEPT !.shape = "anthropic", !.type = IF @ = None THEN "api_error" ELSE @]

FailureAnswer(dialect, f) ==
  IF dialect = "anthropic" THEN AsAnthropicError(ProxyAnswer(f)) ELSE ProxyAnswer(f)
=============================================================================
