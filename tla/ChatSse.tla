------------------------------- MODULE ChatSse -------------------------------
(***************************************************************************)
(* The upstream's chat-completion stream as the gateway reads it           *)
(* (gateway/protocol/chat_sse.py).  A line is abstracted to what the       *)
(* parser takes out of it; a text, a reasoning or an argument fragment is  *)
(* the sequence of the pieces it is made of, so that concatenation, loss   *)
(* and reordering can be told apart.  A string that the code tests for     *)
(* truth is the empty sequence when it is "" or missing.                   *)
(***************************************************************************)
EXTENDS Integers, Sequences, SequencesExt, TLC

CONSTANTS None,
          JsonKind(_)  \* what json.loads makes of an arguments text: an "object",
                       \* another "value", or a text that does not parse

\* An empty text is no JSON.
ASSUME JsonAssumption == JsonKind(<<>>) \notin {"object", "value"}

Parses(text) == JsonKind(text) \in {"object", "value"}

NoUsage == [prompt |-> 0, cached |-> 0, completion |-> 0, total |-> 0]

\* kind: "noise" (not JSON, a comment, an empty line), "done" ([DONE]),
\* "error" (a payload with an error object) or "chunk".
BlankLine == [kind |-> "chunk", reasoning |-> <<>>, text |-> <<>>, tools |-> <<>>,
              finish |-> None, usage |-> None, model |-> "upstream", twin |-> FALSE]

\* normalize_client_chat_payload, on every line: the model is the client's alias
\* and a reasoning is there under both of its names.
Restored(line) ==
  IF line.kind # "chunk" THEN line
  ELSE [line EXCEPT !.model = "alias", !.twin = line.reasoning # <<>>]

IsEmpty(line) == [line EXCEPT !.model = BlankLine.model, !.twin = FALSE] = BlankLine

\* parse_chat_sse_line: a chunk that says nothing is noise, which the code calls
\* None; an error hides the rest of its line.
Parse(line) ==
  IF line.kind # "chunk" THEN [BlankLine EXCEPT !.kind = line.kind]
  ELSE IF IsEmpty(line) THEN [BlankLine EXCEPT !.kind = "noise"]
  ELSE line

NewCall == [id |-> <<>>, name |-> None, args |-> <<>>]
NoCalls == <<>>     \* the empty function: no index has a call yet

\* Mutation: the last fragment of the arguments replaces the others.
MergeReplacing(call, delta) ==
  [id   |-> IF delta.id # <<>> THEN delta.id ELSE call.id,
   name |-> IF delta.name # None THEN delta.name ELSE call.name,
   args |-> IF delta.args # <<>> THEN delta.args ELSE call.args]

\* _merge_tool_call_delta
Merge(call, delta) ==
  [id   |-> IF delta.id # <<>> THEN delta.id ELSE call.id,
   name |-> IF delta.name # None THEN delta.name ELSE call.name,
   args |-> call.args \o delta.args]

With(f, i, x) == [j \in DOMAIN f \cup {i} |-> IF j = i THEN x ELSE f[j]]

\* ToolCallAccumulator.ingest, one delta: the calls are keyed by the index.
Ingest(calls, delta) ==
  LET old == IF delta.index \in DOMAIN calls THEN calls[delta.index] ELSE NewCall
  IN  With(calls, delta.index, Merge(old, delta))

Default(id, prefix, index) == IF id # <<>> THEN id ELSE <<prefix, index>>

\* The k-th of a set of numbers in ascending order.
Nth(S, k) == CHOOSE i \in S : Cardinality({j \in S : j <= i}) = k

\* completed_calls: the named calls in index order, each with an id.
CompletedCalls(calls) ==
  LET named == {i \in DOMAIN calls : calls[i].name # None}
  IN  [k \in 1..Cardinality(named) |->
         LET i == Nth(named, k)
         IN  [index |-> i, id |-> Default(calls[i].id, "call", i),
              name |-> calls[i].name, args |-> calls[i].args]]

HasCalls(calls) == \E i \in DOMAIN calls : calls[i].name # None
=============================================================================
