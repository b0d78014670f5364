----------------------------- MODULE OllamaStream -----------------------------
(***************************************************************************)
(* Chat completions as Ollama chat or generate replies: the NDJSON chunks  *)
(* (services/ollama_proxy.py) and the JSON reply                           *)
(* (protocol/ollama_translate.py).  The tool calls of a stream are sent    *)
(* with its last chunk, without their ids; generate has neither thinking   *)
(* nor calls.                                                              *)
(***************************************************************************)
EXTENDS ChatSse

Chunk == [done |-> FALSE, content |-> <<>>, thinking |-> <<>>, calls |-> <<>>,
          reason |-> None, prompt |-> None, eval |-> None, error |-> FALSE]

\* _coerce_ollama_arguments: an object, which is {} when the text is none.
Coerced(text) == IF JsonKind(text) = "object" THEN text ELSE <<>>

\* tool_calls_as_ollama: the name and the parsed arguments, nothing else.
AsOllama(calls) ==
  [k \in 1..Len(calls) |-> [name |-> calls[k].name, args |-> Coerced(calls[k].args)]]

OllamaStart(thinking, chat) ==
  [out |-> <<>>, tools |-> NoCalls, reason |-> "stop", usage |-> NoUsage,
   thinking |-> thinking, chat |-> chat, failed |-> FALSE]

\* _events_for_ollama_line
OllamaLine(s, line) ==
  LET p == Parse(line)
      noted == [s EXCEPT
        !.usage = IF p.usage # None THEN p.usage ELSE @,
        !.reason = IF p.finish = None THEN @
                   ELSE IF p.finish = "tool_calls" THEN "stop" ELSE p.finish,
        !.tools = FoldLeft(Ingest, @, p.tools)]
      thought == IF p.reasoning # <<>> /\ s.thinking /\ s.chat
                 THEN <<[Chunk EXCEPT !.thinking = p.reasoning]>> ELSE <<>>
      spoken == IF p.text # <<>> THEN <<[Chunk EXCEPT !.content = p.text]>> ELSE <<>>
  IN  IF s.failed \/ p.kind = "noise" THEN s
      ELSE IF p.kind = "error"
           THEN [s EXCEPT !.failed = TRUE,
                          !.out = Append(@, [Chunk EXCEPT !.done = TRUE, !.reason = "error",
                                                          !.error = TRUE])]
      ELSE [noted EXCEPT !.out = @ \o thought \o spoken]

\* _final_ollama_chunk
OllamaClose(s) ==
  IF s.failed THEN s
  ELSE [s EXCEPT !.out = Append(@,
          [Chunk EXCEPT !.done = TRUE, !.reason = s.reason,
                        !.calls = IF s.chat THEN AsOllama(CompletedCalls(s.tools)) ELSE <<>>,
                        !.prompt = s.usage.prompt, !.eval = s.usage.completion])]

DoneReason(finish) == IF finish = "length" THEN "length" ELSE "stop"

\* _extract_thinking, _extract_tool_calls of a completion c
ThinkingOf(c, shown) == IF shown THEN c.reasoning ELSE <<>>
CallsOf(c, chat) == IF chat THEN AsOllama(c.calls) ELSE <<>>

\* openai_chat_to_ollama, openai_chat_to_ollama_generate
OllamaJson(c, thinking, chat) ==
  [Chunk EXCEPT !.done = TRUE, !.content = c.text, !.reason = DoneReason(c.finish),
     !.thinking = ThinkingOf(c, chat /\ thinking), !.calls = CallsOf(c, chat),
     !.prompt = c.usage.prompt, !.eval = c.usage.completion]
=============================================================================
