---------------------------- MODULE RequestTiming ----------------------------
(***************************************************************************)
(* What the gateway records of a request (gateway/request_timing.py): a    *)
(* collector is fed with the restored lines of the upstream's stream and   *)
(* becomes a row when the stream ends.  The alias, the instance, the queue *)
(* and the wake are left out, and the rates, which are quotients of what   *)
(* is here.                                                                *)
(***************************************************************************)
EXTENDS ChatSse

\* start_request_timing: RequestTimingCollector, at the time `now`.
NewTiming(now) == [started |-> now, opened |-> None, first |-> None, visible |-> None,
                   end |-> None, usage |-> None, error |-> None, row |-> None]

Earliest(time, now) == IF time = None THEN now ELSE time
Noted(time, seen, now) == IF seen THEN Earliest(time, now) ELSE time

\* mark_upstream_open
MarkOpen(t, now) == [t EXCEPT !.opened = Earliest(@, now)]

\* apply_usage: the total is not recorded.
Tokens(u) == [prompt |-> u.prompt, cached |-> u.cached, completion |-> u.completion]

\* observe_sse_line
Observe(t, line, now) ==
  LET e == Parse(line)
      any == e.text # <<>> \/ e.reasoning # <<>> \/ e.tools # <<>>
  IN  IF e.kind = "noise" THEN t
      ELSE [t EXCEPT !.first = Noted(@, any, now),
                     !.visible = Noted(@, e.text # <<>>, now),
                     !.end = IF e.kind = "done" \/ e.finish # None THEN now ELSE @,
                     !.usage = IF e.usage = None THEN @ ELSE Tokens(e.usage)]

\* mark_json_complete: a reply that was not streamed came all at once.
JsonComplete(t, usage, now) ==
  [t EXCEPT !.opened = Earliest(@, now), !.first = Earliest(@, now),
            !.visible = Earliest(@, now), !.end = now,
            !.usage = IF usage = None THEN @ ELSE Tokens(usage)]

\* _delta_ms
Elapsed(from, to) ==
  IF from = None \/ to = None THEN None ELSE IF to < from THEN 0 ELSE to - from

\* snapshot
Snapshot(t, now) ==
  LET end == Earliest(t.end, now)
  IN  [prefill |-> Elapsed(t.opened, t.first), ttft |-> Elapsed(t.started, t.first),
       visible_ttft |-> Elapsed(t.started, t.visible),
       generation |-> Elapsed(t.first, end), total |-> Elapsed(t.started, end),
       usage |-> t.usage, error |-> t.error]

\* reset_request_timing, finalize: a row is written once.
Finalize(t, now) == [t EXCEPT !.row = IF @ = None THEN Snapshot(t, now) ELSE @]
=============================================================================
