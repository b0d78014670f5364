------------------------ MODULE GatewayStreamProofs ------------------------
(***************************************************************************)
(* Theorems about the events of GatewayStream for any tools, any number of *)
(* lines and any number of turns.  The argument for the Anthropic events:  *)
(* the state of the translator always says which block is open (OpenAt),   *)
(* whichever of its operations wrote last, so that each event it appends   *)
(* fits those before it (EventOK); a call opens a block once, when it is   *)
(* begun.  The argument for the Responses events: whatever they leave open *)
(* (OpenItems: added, not done, with what was sent of them) is what the    *)
(* translator's state says is open (Books), so that here too each event    *)
(* fits those before it.                                                   *)
(***************************************************************************)
EXTENDS GatewayStream, FiniteSetTheorems, WellFoundedInduction, NaturalsInduction, TLAPS

IsSeq(f) == \E S : f \in Seq(S)

AnthropicFields == {"out", "stop", "next", "open", "tools", "toolBlock", "thinkingAt",
                    "textAt", "thinking", "usage", "failed"}
Between == {"message_start", "block_stop"}

BlockStarts(out) == {i \in DOMAIN out : out[i].ev = "block_start"}
Before(out, i) == {j \in BlockStarts(out) : j < i}

\* The event at i belongs to the block begun last, which is still open there.
InBlock(out, i) ==
  \E j \in BlockStarts(out) :
    /\ j < i /\ out[j].index = out[i].index
    /\ \A k \in (j + 1)..(i - 1) : out[k].ev = "block_delta"
    /\ out[i].ev = "block_delta" => out[i].type = DeltaOf[out[j].block.type]

\* The event at i fits what was written before it.
EventOK(out, i) ==
  /\ out[i].ev = "message_start" <=> i = 1
  /\ out[i].ev = "block_start" => /\ out[i].index = Cardinality(Before(out, i))
                                  /\ out[i - 1].ev \in Between
  /\ out[i].ev \in {"block_delta", "block_stop"} => InBlock(out, i)

\* An id of the call k: the upstream's, or the translator's own.
IsId(id, k) == \E p : id = <<"id", p, k>> \/ id = <<"toolu", k>>

\* Each of the first n calls has one block at most, and its own ids.
IdsOK(out, n) ==
  \A i \in BlockStarts(out) :
    \/ out[i].block.type # "tool_use" /\ out[i].block.id = <<>>
    \/ /\ out[i].block.type = "tool_use"
       /\ \E k \in 0..(n - 1) :
            /\ IsId(out[i].block.id, k)
            /\ \A j \in BlockStarts(out) \ {i} : ~IsId(out[j].block.id, k)

\* The open block was begun at j, and is of the type its deltas will have.
OpenAt(s, j) ==
  /\ j \in BlockStarts(s.out) /\ s.out[j].index = s.open
  /\ \A k \in (j + 1)..Len(s.out) : s.out[k].ev = "block_delta"
  /\ s.textAt = s.open => s.out[j].block.type = "text"
  /\ s.thinkingAt = s.open => s.out[j].block.type = "thinking"
  /\ \A t \in DOMAIN s.toolBlock :
       s.toolBlock[t] = s.open => s.out[j].block.type = "tool_use"

\* The events so far: a message that has begun and not ended.
EventsOK(out, failed) ==
  /\ IsSeq(out) /\ Len(out) \in Nat /\ Len(out) >= 1
  /\ \A i \in 1..Len(out) : EventOK(out, i)
  /\ \A i \in 1..Len(out) :
       /\ out[i].ev \in {"message_start", "block_start", "block_delta", "block_stop", "error"}
       /\ out[i].ev = "error" => failed /\ i = Len(out)
  /\ failed => out[Len(out)].ev = "error"
  /\ IsFiniteSet(BlockStarts(out))

\* Blocks are known by numbers that were given out.
Known(at, next) == at # None => at \in Nat /\ at < next

\* The numbers and the calls of the translator's state.
StateOK(s, n) ==
  /\ DOMAIN s = AnthropicFields /\ n \in Nat /\ s.failed \in BOOLEAN
  /\ s.next = Cardinality(BlockStarts(s.out)) /\ s.next \in Nat
  /\ Known(s.open, s.next) /\ Known(s.textAt, s.next) /\ Known(s.thinkingAt, s.next)
  /\ \A t \in DOMAIN s.toolBlock : s.toolBlock[t] \in Nat /\ s.toolBlock[t] < s.next
  /\ DOMAIN s.toolBlock \subseteq DOMAIN s.tools /\ DOMAIN s.tools \subseteq 0..(n - 1)
  /\ \A k \in DOMAIN s.tools : s.tools[k].id = <<>> \/ \E p : s.tools[k].id = <<"id", p, k>>

\* What is open is what the events left open.
OpenOK(s) ==
  ~s.failed => IF s.open = None THEN s.out[Len(s.out)].ev \in Between
               ELSE \E j \in BlockStarts(s.out) : OpenAt(s, j)

StreamOK(s, n) ==
  EventsOK(s.out, s.failed) /\ IdsOK(s.out, n) /\ StateOK(s, n) /\ OpenOK(s)

-----------------------------------------------------------------------------
(* Sequences and events. *)

\* What Append does, whatever the elements are.
LEMMA Appended ==
  ASSUME NEW out, NEW e, IsSeq(out)
  PROVE  /\ IsSeq(Append(out, e)) /\ Len(out) \in Nat
         /\ Len(Append(out, e)) = Len(out) + 1
         /\ DOMAIN out = 1..Len(out)
         /\ DOMAIN Append(out, e) = 1..(Len(out) + 1)
         /\ Append(out, e)[Len(out) + 1] = e
         /\ \A i \in 1..Len(out) : Append(out, e)[i] = out[i]
<1>1. PICK S : out \in Seq(S)
  BY DEF IsSeq
<1> DEFINE T == S \cup {e}
<1>2. out \in Seq(T) /\ e \in T
  BY <1>1
<1> HIDE DEF T
<1>3. Append(out, e) \in Seq(T)
  BY <1>2
<1> QED BY <1>2, <1>3 DEF IsSeq

\* The blocks begun before a new event, and with it.
LEMMA StartsAppended ==
  ASSUME NEW out, NEW e, IsSeq(out)
  PROVE  /\ BlockStarts(Append(out, e)) =
              IF e.ev = "block_start" THEN BlockStarts(out) \cup {Len(out) + 1}
              ELSE BlockStarts(out)
         /\ Before(Append(out, e), Len(out) + 1) = BlockStarts(out)
         /\ \A i \in 1..Len(out) : Before(Append(out, e), i) = Before(out, i)
         /\ Len(out) + 1 \notin BlockStarts(out)
         /\ BlockStarts(out) \subseteq 1..Len(out)
<1> DEFINE o == Append(out, e)
           n == Len(out)
<1>1. /\ n \in Nat /\ DOMAIN out = 1..n /\ DOMAIN o = 1..(n + 1) /\ o[n + 1] = e
      /\ \A i \in 1..n : o[i] = out[i]
  BY Appended
<1> HIDE DEF o, n
<1>2. BlockStarts(o) = IF e.ev = "block_start" THEN BlockStarts(out) \cup {n + 1}
                       ELSE BlockStarts(out)
  BY <1>1 DEF BlockStarts
<1>3. BlockStarts(out) \subseteq 1..n /\ n + 1 \notin BlockStarts(out)
  BY <1>1 DEF BlockStarts
<1>4. Before(o, n + 1) = BlockStarts(out)
  BY <1>1, <1>2, <1>3 DEF Before
<1>5. ASSUME NEW i \in 1..n
      PROVE  Before(o, i) = Before(out, i)
  BY <1>1, <1>2, <1>3 DEF Before
<1> QED BY <1>2, <1>3, <1>4, <1>5 DEF o, n

\* An event goes on fitting when more is written.
LEMMA EventKept ==
  ASSUME NEW out, NEW e, IsSeq(out), NEW i \in 1..Len(out), EventOK(out, i)
  PROVE  EventOK(Append(out, e), i)
<1> DEFINE o == Append(out, e)
           n == Len(out)
<1>1. /\ n \in Nat /\ DOMAIN out = 1..n /\ DOMAIN o = 1..(n + 1) /\ o[n + 1] = e
      /\ \A k \in 1..n : o[k] = out[k]
  BY Appended
<1>2. /\ BlockStarts(out) \subseteq BlockStarts(o) /\ Before(o, i) = Before(out, i)
      /\ BlockStarts(out) \subseteq 1..n
  BY StartsAppended
<1>3. i \in 1..n
  OBVIOUS
<1> HIDE DEF o, n
<1>4. o[i] = out[i]
  BY <1>1, <1>3
<1>5. out[i].ev = "block_start" => i - 1 \in 1..n
  BY <1>1, <1>3, EventOK(out, i) DEF EventOK
<1>6. InBlock(out, i) => InBlock(o, i)
  <2> SUFFICES ASSUME InBlock(out, i)
               PROVE  InBlock(o, i)
    OBVIOUS
  <2>1. PICK j \in BlockStarts(out) :
          /\ j < i /\ out[j].index = out[i].index
          /\ \A k \in (j + 1)..(i - 1) : out[k].ev = "block_delta"
          /\ out[i].ev = "block_delta" => out[i].type = DeltaOf[out[j].block.type]
    BY DEF InBlock
  <2>2. j \in 1..n /\ o[j] = out[j] /\ j \in BlockStarts(o)
    BY <1>1, <1>2, <2>1
  <2>3. \A k \in (j + 1)..(i - 1) : o[k].ev = "block_delta"
    <3>1. (j + 1)..(i - 1) \subseteq 1..n
      BY <1>1, <1>3, <2>2
    <3> QED BY <1>1, <2>1, <3>1
  <2> QED BY <1>4, <2>1, <2>2, <2>3 DEF InBlock
<1>7. out[i].ev = "block_start" => o[i - 1] = out[i - 1]
  BY <1>1, <1>5
<1> QED BY <1>2, <1>4, <1>6, <1>7, EventOK(out, i) DEF EventOK, o, n

\* Events that fit make a longer message that fits; an error ends it.
LEMMA EventsGrow ==
  ASSUME NEW out, NEW e, NEW f \in BOOLEAN, EventsOK(out, FALSE),
         e.ev \in {"block_start", "block_delta", "block_stop", "error"},
         f <=> e.ev = "error", EventOK(Append(out, e), Len(out) + 1)
  PROVE  EventsOK(Append(out, e), f)
<1> DEFINE o == Append(out, e)
           n == Len(out)
<1>1. /\ n \in Nat /\ IsSeq(o) /\ Len(o) = n + 1 /\ o[n + 1] = e
      /\ \A k \in 1..n : o[k] = out[k]
  BY Appended DEF EventsOK
<1>2. \A i \in 1..n : EventOK(o, i)
  BY EventKept DEF EventsOK
<1>3. IsFiniteSet(BlockStarts(o))
  BY StartsAppended, FS_AddElement DEF EventsOK
<1>4. EventOK(o, n + 1)
  OBVIOUS
<1>5. n >= 1 /\ \A i \in 1..n : out[i].ev \in {"message_start", "block_start", "block_delta",
                                               "block_stop"}
  BY DEF EventsOK
<1> HIDE DEF o, n
<1>6. \A i \in 1..(n + 1) : i \in 1..n \/ i = n + 1
  BY <1>1
<1> QED BY <1>1, <1>2, <1>3, <1>4, <1>5, <1>6 DEF EventsOK, o, n

\* A new event that begins no block leaves the ids as they were.
LEMMA IdsKept ==
  ASSUME NEW out, NEW e, NEW n, IsSeq(out), IdsOK(out, n), e.ev # "block_start"
  PROVE  IdsOK(Append(out, e), n)
<1> DEFINE o == Append(out, e)
<1>1. BlockStarts(o) = BlockStarts(out) /\ \A i \in BlockStarts(out) : o[i] = out[i]
  BY StartsAppended, Appended
<1> HIDE DEF o
<1> QED BY <1>1 DEF IdsOK, o

\* More calls leave them as they were, too.
LEMMA IdsOfMore ==
  ASSUME NEW out, NEW n \in Nat, IdsOK(out, n), NEW m \in Nat, n <= m
  PROVE  IdsOK(out, m)
<1>1. 0..(n - 1) \subseteq 0..(m - 1)
  OBVIOUS
<1> QED BY <1>1 DEF IdsOK

\* The ids of two calls differ, and from the empty id of the other blocks.
LEMMA IdsDiffer ==
  ASSUME NEW id, NEW k \in Int, IsId(id, k)
  PROVE  /\ id # <<>>
         /\ \A l \in Int : l # k => ~IsId(id, l)
<1>1. PICK p : id = <<"id", p, k>> \/ id = <<"toolu", k>>
  BY DEF IsId
<1>2. ASSUME NEW l \in Int, l # k, IsId(id, l)
      PROVE  FALSE
  <2>1. PICK q : id = <<"id", q, l>> \/ id = <<"toolu", l>>
    BY <1>2 DEF IsId
  <2> QED BY <1>1, <1>2, <2>1
<1>3. id # <<>>
  BY <1>1
<1> QED BY <1>2, <1>3

\* A text or thinking block has no id.
LEMMA IdsPlain ==
  ASSUME NEW out, NEW e, NEW n \in Nat, IsSeq(out), IdsOK(out, n),
         e.ev = "block_start", e.block.type # "tool_use", e.block.id = <<>>
  PROVE  IdsOK(Append(out, e), n)
<1> DEFINE o == Append(out, e)
           l == Len(out) + 1
<1>1. /\ BlockStarts(o) = BlockStarts(out) \cup {l} /\ l \notin BlockStarts(out)
      /\ \A i \in BlockStarts(out) : o[i] = out[i]
      /\ o[l] = e
  BY StartsAppended, Appended
<1>2. \A k \in Int : ~IsId(o[l].block.id, k)
  BY <1>1, IdsDiffer
<1> HIDE DEF o, l
<1>3. \A k \in 0..(n - 1) : k \in Int
  OBVIOUS
<1> QED BY <1>1, <1>2, <1>3 DEF IdsOK, o

\* The block of the call n has an id none of the first n calls has.
LEMMA IdsCall ==
  ASSUME NEW out, NEW e, NEW n \in Nat, IsSeq(out), IdsOK(out, n),
         e.ev = "block_start", e.block.type = "tool_use", IsId(e.block.id, n)
  PROVE  IdsOK(Append(out, e), n + 1)
<1> DEFINE o == Append(out, e)
           l == Len(out) + 1
<1>1. /\ BlockStarts(o) = BlockStarts(out) \cup {l} /\ l \notin BlockStarts(out)
      /\ \A i \in BlockStarts(out) : o[i] = out[i]
      /\ o[l] = e
  <2>1. BlockStarts(o) = BlockStarts(out) \cup {l} /\ l \notin BlockStarts(out)
    BY StartsAppended
  <2>2. BlockStarts(out) \subseteq 1..Len(out)
    BY StartsAppended
  <2>3. o[l] = e /\ \A i \in 1..Len(out) : o[i] = out[i]
    BY Appended
  <2> QED BY <2>1, <2>2, <2>3
<1>2. \A k \in 0..(n - 1) : k \in 0..((n + 1) - 1) /\ ~IsId(o[l].block.id, k)
  BY <1>1, IdsDiffer
<1>3. \A i \in BlockStarts(out) : ~IsId(out[i].block.id, n)
  <2> SUFFICES ASSUME NEW i \in BlockStarts(out), IsId(out[i].block.id, n)
               PROVE  FALSE
    OBVIOUS
  <2>1. out[i].block.id # <<>>
    BY IdsDiffer
  <2>2. PICK k \in 0..(n - 1) : IsId(out[i].block.id, k)
    BY <2>1 DEF IdsOK
  <2> QED BY <2>2, IdsDiffer
<1> HIDE DEF o, l
<1>4. n \in 0..((n + 1) - 1)
  OBVIOUS
<1>5. ASSUME NEW i \in BlockStarts(out)
      PROVE  \/ o[i].block.type # "tool_use" /\ o[i].block.id = <<>>
             \/ /\ o[i].block.type = "tool_use"
                /\ \E k \in 0..((n + 1) - 1) :
                     /\ IsId(o[i].block.id, k)
                     /\ \A j \in BlockStarts(o) \ {i} : ~IsId(o[j].block.id, k)
  <2>1. CASE out[i].block.type # "tool_use" /\ out[i].block.id = <<>>
    BY <1>1, <2>1
  <2>2. CASE /\ out[i].block.type = "tool_use"
             /\ \E k \in 0..(n - 1) :
                  /\ IsId(out[i].block.id, k)
                  /\ \A j \in BlockStarts(out) \ {i} : ~IsId(out[j].block.id, k)
    BY <1>1, <1>2, <2>2
  <2> QED BY <2>1, <2>2 DEF IdsOK
<1>6. \A j \in BlockStarts(o) \ {l} : ~IsId(o[j].block.id, n)
  BY <1>1, <1>3
<1>7. o[l].block.type = "tool_use" /\ IsId(o[l].block.id, n)
  BY <1>1
<1>8. ASSUME NEW i \in BlockStarts(o)
      PROVE  \/ o[i].block.type # "tool_use" /\ o[i].block.id = <<>>
             \/ /\ o[i].block.type = "tool_use"
                /\ \E k \in 0..((n + 1) - 1) :
                     /\ IsId(o[i].block.id, k)
                     /\ \A j \in BlockStarts(o) \ {i} : ~IsId(o[j].block.id, k)
  <2>1. CASE i \in BlockStarts(out)
    BY <1>5, <2>1
  <2>2. CASE i = l
    BY <1>4, <1>6, <1>7, <2>2
  <2> QED BY <1>1, <2>1, <2>2
<1>9. IdsOK(o, n + 1)
  BY <1>8 DEF IdsOK
<1> QED BY <1>9 DEF o

-----------------------------------------------------------------------------
(* The blocks. *)

\* What _close_open_block writes and forgets.
LEMMA CloseBlockIs ==
  ASSUME NEW s, DOMAIN s = AnthropicFields, s.open # None
  PROVE  LET c == CloseBlock(s)
         IN  /\ DOMAIN c = AnthropicFields
             /\ c.out = Append(s.out, [ev |-> "block_stop", index |-> s.open])
             /\ c.open = None /\ c.next = s.next /\ c.tools = s.tools /\ c.failed = s.failed
             /\ c.textAt = (IF s.textAt = s.open THEN None ELSE s.textAt)
             /\ c.thinkingAt = (IF s.thinkingAt = s.open THEN None ELSE s.thinkingAt)
             /\ c.toolBlock = Restrict(s.toolBlock,
                                {t \in DOMAIN s.toolBlock : s.toolBlock[t] # s.open})
             /\ c.stop = s.stop /\ c.usage = s.usage /\ c.thinking = s.thinking
BY DEF CloseBlock, AnthropicFields, WriteEvent

\* Closing a block, or having none, leaves a message between two blocks.
LEMMA CloseBlockKeeps ==
  ASSUME NEW s, NEW n, NEW m, EventsOK(s.out, FALSE), IdsOK(s.out, n), StateOK(s, m),
         OpenOK(s), ~s.failed
  PROVE  LET c == CloseBlock(s)
         IN  /\ EventsOK(c.out, FALSE) /\ IdsOK(c.out, n) /\ StateOK(c, m) /\ ~c.failed
             /\ c.open = None /\ c.out[Len(c.out)].ev \in Between
             /\ c.next = s.next /\ c.tools = s.tools
             /\ DOMAIN c.toolBlock \subseteq DOMAIN s.toolBlock
<1>1. CASE s.open = None
  <2>1. CloseBlock(s) = s
    BY <1>1 DEF CloseBlock
  <2> QED BY <1>1, <2>1 DEF OpenOK
<1>2. CASE s.open # None
  <2> DEFINE c == CloseBlock(s)
             e == [ev |-> "block_stop", index |-> s.open]
  <2>1. /\ DOMAIN c = AnthropicFields /\ c.out = Append(s.out, e)
        /\ c.open = None /\ c.next = s.next /\ c.tools = s.tools /\ c.failed = s.failed
        /\ c.textAt = (IF s.textAt = s.open THEN None ELSE s.textAt)
        /\ c.thinkingAt = (IF s.thinkingAt = s.open THEN None ELSE s.thinkingAt)
        /\ c.toolBlock = Restrict(s.toolBlock,
                           {t \in DOMAIN s.toolBlock : s.toolBlock[t] # s.open})
    BY <1>2, CloseBlockIs DEF StateOK
  <2>2. e.ev = "block_stop" /\ e.index = s.open
    OBVIOUS
  <2> HIDE DEF c, e
  <2>3. /\ IsSeq(s.out) /\ Len(s.out) \in Nat /\ Len(c.out) = Len(s.out) + 1
        /\ c.out[Len(s.out) + 1] = e
        /\ \A i \in 1..Len(s.out) : c.out[i] = s.out[i]
    BY <2>1, Appended DEF EventsOK
  <2>4. PICK j \in BlockStarts(s.out) : OpenAt(s, j)
    BY <1>2 DEF OpenOK
  <2>5. BlockStarts(c.out) = BlockStarts(s.out) /\ BlockStarts(s.out) \subseteq 1..Len(s.out)
    <3>1. IsSeq(s.out) /\ c.out = Append(s.out, e) /\ e.ev # "block_start"
      BY <2>1, <2>2, <2>3
    <3> QED BY <3>1, StartsAppended
  <2>6. InBlock(c.out, Len(s.out) + 1)
    <3>1. j \in 1..Len(s.out) /\ c.out[j] = s.out[j]
      BY <2>3, <2>5
    <3>2. j < Len(s.out) + 1 /\ c.out[j].index = c.out[Len(s.out) + 1].index
      BY <2>2, <2>3, <2>4, <3>1 DEF OpenAt
    <3>3. \A k \in (j + 1)..((Len(s.out) + 1) - 1) : c.out[k].ev = "block_delta"
      BY <2>3, <2>4, <3>1 DEF OpenAt
    <3>4. c.out[Len(s.out) + 1].ev # "block_delta"
      BY <2>2, <2>3
    <3> QED BY <2>5, <3>2, <3>3, <3>4 DEF InBlock
  <2>7. EventOK(c.out, Len(s.out) + 1)
    <3>1. Len(s.out) >= 1 /\ c.out[Len(s.out) + 1].ev = "block_stop"
      BY <2>2, <2>3 DEF EventsOK
    <3> QED BY <2>3, <2>6, <3>1 DEF EventOK
  <2>8. EventsOK(c.out, FALSE)
    BY <2>1, <2>2, <2>7, EventsGrow
  <2>9. IdsOK(c.out, n)
    BY <2>1, <2>2, <2>3, IdsKept
  <2>10. /\ DOMAIN c.toolBlock \subseteq DOMAIN s.toolBlock
         /\ \A t \in DOMAIN c.toolBlock : c.toolBlock[t] = s.toolBlock[t]
    BY <2>1 DEF Restrict
  <2>11. StateOK(c, m)
    BY <2>1, <2>5, <2>10 DEF StateOK, Known
  <2> QED BY <2>1, <2>2, <2>3, <2>8, <2>9, <2>10, <2>11 DEF c, Between
<1> QED BY <1>1, <1>2

\* What _open_block writes.
LEMMA OpenBlockIs ==
  ASSUME NEW s, NEW block, DOMAIN CloseBlock(s) = AnthropicFields
  PROVE  LET b == OpenBlock(s, block)
             c == CloseBlock(s)
         IN  /\ DOMAIN b = AnthropicFields
             /\ b.out = Append(c.out, [ev |-> "block_start", index |-> s.next, block |-> block])
             /\ b.open = s.next /\ b.next = c.next + 1
             /\ b.tools = c.tools /\ b.toolBlock = c.toolBlock /\ b.failed = c.failed
             /\ b.textAt = c.textAt /\ b.thinkingAt = c.thinkingAt
<1> DEFINE c == CloseBlock(s)
<1>1. OpenBlock(s, block) =
        [WriteEvent(c, [ev |-> "block_start", index |-> s.next, block |-> block])
           EXCEPT !.open = s.next, !.next = @ + 1]
  BY DEF OpenBlock
<1>2. DOMAIN c = AnthropicFields
  OBVIOUS
<1> HIDE DEF c
<1>3. LET b == OpenBlock(s, block)
      IN  /\ DOMAIN b = AnthropicFields
          /\ b.out = Append(c.out, [ev |-> "block_start", index |-> s.next, block |-> block])
          /\ b.open = s.next /\ b.next = c.next + 1
          /\ b.tools = c.tools /\ b.toolBlock = c.toolBlock /\ b.failed = c.failed
          /\ b.textAt = c.textAt /\ b.thinkingAt = c.thinkingAt
  BY <1>1, <1>2 DEF WriteEvent, AnthropicFields
<1> QED BY <1>3 DEF c

\* A block just begun: it is the last event, and nobody else's block.
Begun(b, block) ==
  LET last == Len(b.out)
  IN  /\ last \in BlockStarts(b.out) /\ b.out[last].index = b.open
      /\ b.out[last].block = block
      /\ b.open \in Nat /\ b.open < b.next
      /\ b.textAt # b.open /\ b.thinkingAt # b.open
      /\ \A t \in DOMAIN b.toolBlock : b.toolBlock[t] # b.open

\* What beginning a block makes of a state whose ids were those of n calls.
Fresh(b, s, n, m, block) ==
  /\ EventsOK(b.out, FALSE) /\ StateOK(b, m) /\ ~b.failed /\ Begun(b, block)
  /\ b.open = s.next /\ b.tools = s.tools
  /\ DOMAIN b.toolBlock \subseteq DOMAIN s.toolBlock
  /\ \E o : /\ IsSeq(o) /\ IdsOK(o, n)
            /\ b.out = Append(o, [ev |-> "block_start", index |-> s.next, block |-> block])

\* Beginning a block: the one that was open is closed first.
LEMMA OpenBlockKeeps ==
  ASSUME NEW s, NEW n, NEW m, NEW block, EventsOK(s.out, FALSE), IdsOK(s.out, n),
         StateOK(s, m), OpenOK(s), ~s.failed
  PROVE  Fresh(OpenBlock(s, block), s, n, m, block)
<1> DEFINE c == CloseBlock(s)
           b == OpenBlock(s, block)
           e == [ev |-> "block_start", index |-> s.next, block |-> block]
<1>1. /\ EventsOK(c.out, FALSE) /\ IdsOK(c.out, n) /\ StateOK(c, m) /\ ~c.failed
      /\ c.open = None /\ c.out[Len(c.out)].ev \in Between
      /\ c.next = s.next /\ c.tools = s.tools
      /\ DOMAIN c.toolBlock \subseteq DOMAIN s.toolBlock
  BY CloseBlockKeeps
<1>2. DOMAIN c = AnthropicFields
  BY <1>1 DEF StateOK
<1>3. /\ DOMAIN b = AnthropicFields /\ b.out = Append(c.out, e)
      /\ b.open = s.next /\ b.next = c.next + 1
      /\ b.tools = c.tools /\ b.toolBlock = c.toolBlock /\ b.failed = c.failed
      /\ b.textAt = c.textAt /\ b.thinkingAt = c.thinkingAt
  BY <1>2, OpenBlockIs
<1>4. e.ev = "block_start" /\ e.index = c.next /\ e.block = block
  BY <1>1
<1> HIDE DEF c, b, e
<1>5. /\ IsSeq(c.out) /\ Len(c.out) \in Nat /\ Len(c.out) >= 1 /\ Len(b.out) = Len(c.out) + 1
      /\ b.out[Len(c.out) + 1] = e /\ \A i \in 1..Len(c.out) : b.out[i] = c.out[i]
  BY <1>1, <1>3, Appended DEF EventsOK
<1>6. /\ BlockStarts(b.out) = BlockStarts(c.out) \cup {Len(c.out) + 1}
      /\ Before(b.out, Len(c.out) + 1) = BlockStarts(c.out)
      /\ Len(c.out) + 1 \notin BlockStarts(c.out)
  BY <1>3, <1>4, <1>5, StartsAppended
<1>7. EventOK(b.out, Len(c.out) + 1)
  <2>1. c.next = Cardinality(BlockStarts(c.out)) /\ (Len(c.out) + 1) - 1 \in 1..Len(c.out)
    BY <1>1, <1>5 DEF StateOK
  <2>2. b.out[(Len(c.out) + 1) - 1].ev \in Between
    BY <1>1, <1>5, <2>1
  <2> QED BY <1>4, <1>5, <1>6, <2>1, <2>2 DEF EventOK
<1>8. EventsOK(b.out, FALSE)
  BY <1>1, <1>3, <1>4, <1>7, EventsGrow
<1>9. b.next = Cardinality(BlockStarts(b.out)) /\ b.next \in Nat
  <2>1. IsFiniteSet(BlockStarts(c.out))
    BY <1>1 DEF EventsOK
  <2>2. Cardinality(BlockStarts(b.out)) = Cardinality(BlockStarts(c.out)) + 1
    BY <1>6, <2>1, FS_AddElement
  <2>3. c.next = Cardinality(BlockStarts(c.out)) /\ c.next \in Nat
    BY <1>1 DEF StateOK
  <2> QED BY <1>3, <2>2, <2>3
<1>10. StateOK(b, m)
  BY <1>1, <1>3, <1>9 DEF StateOK, Known
<1>11. Begun(b, block)
  <2>1. None \notin Nat /\ c.next \in Nat
    BY <1>1, StreamAssumption DEF StateOK
  <2>2. b.textAt # b.open /\ b.thinkingAt # b.open
    BY <1>1, <1>3, <2>1 DEF StateOK, Known
  <2>3. \A t \in DOMAIN b.toolBlock : b.toolBlock[t] # b.open
    BY <1>1, <1>3, <2>1 DEF StateOK
  <2> QED BY <1>1, <1>3, <1>4, <1>5, <1>6, <2>1, <2>2, <2>3 DEF Begun
<1>12. /\ ~b.failed /\ b.open = s.next /\ b.tools = s.tools
       /\ DOMAIN b.toolBlock \subseteq DOMAIN s.toolBlock
  BY <1>1, <1>3
<1>13. IsSeq(c.out) /\ IdsOK(c.out, n) /\ b.out = Append(c.out, e)
  BY <1>1, <1>3, <1>5
<1>14. Fresh(b, s, n, m, block)
  BY <1>8, <1>10, <1>11, <1>12, <1>13 DEF Fresh, e
<1> QED BY <1>14 DEF b

\* What the deltas of a block are, by whose block it is.
Fits(s, at, type) ==
  \/ at = s.textAt /\ type = "text"
  \/ at = s.thinkingAt /\ type = "thinking"
  \/ (\E t \in DOMAIN s.toolBlock : at = s.toolBlock[t]) /\ type = "input_json"

\* A delta of the open block's type goes into the open block.
LEMMA DeltaKeeps ==
  ASSUME NEW s, NEW n, NEW at, NEW type, NEW piece, StreamOK(s, n), ~s.failed,
         at # None, at = s.open, Fits(s, at, type)
  PROVE  LET d == Delta(s, at, type, piece)
         IN  /\ StreamOK(d, n) /\ ~d.failed /\ d.tools = s.tools /\ d.open = s.open
             /\ d.toolBlock = s.toolBlock
<1> DEFINE d == Delta(s, at, type, piece)
           e == [ev |-> "block_delta", index |-> at, type |-> type, piece |-> piece]
<1>1. /\ DOMAIN d = AnthropicFields /\ d.out = Append(s.out, e)
      /\ d.open = s.open /\ d.next = s.next /\ d.tools = s.tools /\ d.failed = s.failed
      /\ d.textAt = s.textAt /\ d.thinkingAt = s.thinkingAt /\ d.toolBlock = s.toolBlock
  BY DEF StreamOK, StateOK, Delta, WriteEvent, AnthropicFields
<1>2. e.ev = "block_delta" /\ e.index = at /\ e.type = type
  OBVIOUS
<1> HIDE DEF d, e
<1>3. /\ IsSeq(s.out) /\ Len(s.out) \in Nat /\ Len(s.out) >= 1 /\ Len(d.out) = Len(s.out) + 1
      /\ d.out[Len(s.out) + 1] = e /\ \A i \in 1..Len(s.out) : d.out[i] = s.out[i]
  BY <1>1, Appended DEF StreamOK, EventsOK
<1>4. PICK j \in BlockStarts(s.out) : OpenAt(s, j)
  BY DEF StreamOK, OpenOK
<1>5. BlockStarts(d.out) = BlockStarts(s.out) /\ BlockStarts(s.out) \subseteq 1..Len(s.out)
  <2>1. IsSeq(s.out) /\ d.out = Append(s.out, e) /\ e.ev # "block_start"
    BY <1>1, <1>2, <1>3
  <2> QED BY <2>1, StartsAppended
<1>6. j \in 1..Len(s.out) /\ d.out[j] = s.out[j] /\ type = DeltaOf[s.out[j].block.type]
  BY <1>3, <1>4, <1>5 DEF OpenAt, DeltaOf, Fits
<1>7. InBlock(d.out, Len(s.out) + 1)
  <2>1. j < Len(s.out) + 1 /\ d.out[j].index = d.out[Len(s.out) + 1].index
    BY <1>2, <1>3, <1>4, <1>6 DEF OpenAt
  <2>2. \A k \in (j + 1)..((Len(s.out) + 1) - 1) : d.out[k].ev = "block_delta"
    BY <1>3, <1>4, <1>6 DEF OpenAt
  <2>3. d.out[Len(s.out) + 1].type = DeltaOf[d.out[j].block.type]
    BY <1>2, <1>3, <1>6
  <2> QED BY <1>5, <2>1, <2>2, <2>3 DEF InBlock
<1>8. EventOK(d.out, Len(s.out) + 1)
  BY <1>2, <1>3, <1>7 DEF EventOK
<1>9. EventsOK(d.out, FALSE)
  <2>1. EventsOK(s.out, FALSE)
    BY DEF StreamOK, StateOK
  <2> QED BY <1>1, <1>2, <1>8, <2>1, EventsGrow
<1>10. IdsOK(d.out, n)
  BY <1>1, <1>2, <1>3, IdsKept DEF StreamOK
<1>11. StateOK(d, n)
  BY <1>1, <1>5 DEF StreamOK, StateOK
<1>12. OpenAt(d, j)
  <2>1. j \in BlockStarts(d.out) /\ d.out[j].index = d.open
    BY <1>1, <1>4, <1>5, <1>6 DEF OpenAt
  <2>2. ASSUME NEW k \in (j + 1)..Len(d.out)
        PROVE  d.out[k].ev = "block_delta"
    <3>1. CASE k = Len(s.out) + 1
      BY <1>2, <1>3, <3>1
    <3>2. CASE k # Len(s.out) + 1
      <4>1. k \in (j + 1)..Len(s.out) /\ k \in 1..Len(s.out)
        BY <1>3, <1>6, <3>2
      <4> QED BY <1>3, <1>4, <4>1 DEF OpenAt
    <3> QED BY <3>1, <3>2
  <2> QED BY <1>1, <1>4, <1>6, <2>1, <2>2 DEF OpenAt
<1>13. OpenOK(d)
  BY <1>1, <1>5, <1>12 DEF OpenOK
<1>14. ~d.failed /\ EventsOK(d.out, d.failed)
  <2>1. ~d.failed /\ d.failed = FALSE
    BY <1>1 DEF StreamOK, StateOK
  <2> QED BY <1>9, <2>1
<1> QED BY <1>1, <1>10, <1>11, <1>13, <1>14 DEF StreamOK, d

\* Who the block just begun belongs to.
Owns(o, b, block) ==
  /\ DOMAIN o = AnthropicFields /\ o.out = b.out /\ o.open = b.open /\ o.next = b.next
  /\ o.tools = b.tools /\ o.failed = b.failed
  /\ o.textAt = b.textAt \/ (o.textAt = b.open /\ block.type = "text")
  /\ o.thinkingAt = b.thinkingAt \/ (o.thinkingAt = b.open /\ block.type = "thinking")
  /\ DOMAIN o.toolBlock \subseteq DOMAIN b.tools
  /\ \A t \in DOMAIN o.toolBlock :
       \/ t \in DOMAIN b.toolBlock /\ o.toolBlock[t] = b.toolBlock[t]
       \/ o.toolBlock[t] = b.open /\ block.type = "tool_use"

\* A block that has an owner can be written into.
LEMMA OwnedBlock ==
  ASSUME NEW b, NEW o, NEW n, NEW block, EventsOK(b.out, FALSE), StateOK(b, n), ~b.failed,
         Begun(b, block), IdsOK(b.out, n), Owns(o, b, block)
  PROVE  StreamOK(o, n) /\ ~o.failed /\ o.open # None
<1>1. o.open # None /\ o.open \in Nat /\ o.open < o.next
  BY StreamAssumption DEF Begun, Owns
<1>2. StateOK(o, n)
  <2>1. Known(o.open, o.next) /\ Known(o.textAt, o.next) /\ Known(o.thinkingAt, o.next)
    BY <1>1 DEF Owns, StateOK, Known
  <2>2. \A t \in DOMAIN o.toolBlock : o.toolBlock[t] \in Nat /\ o.toolBlock[t] < o.next
    BY <1>1 DEF Owns, StateOK
  <2> QED BY <2>1, <2>2 DEF Owns, StateOK
<1>3. OpenAt(o, Len(o.out)) /\ Len(o.out) \in BlockStarts(o.out)
  <2>1. Len(o.out) \in BlockStarts(o.out) /\ o.out[Len(o.out)].index = o.open
        /\ o.out[Len(o.out)].block = block
    BY DEF Begun, Owns
  <2>2. \A k \in (Len(o.out) + 1)..Len(o.out) : o.out[k].ev = "block_delta"
    BY DEF EventsOK, Owns
  <2>3. /\ o.textAt = o.open => block.type = "text"
        /\ o.thinkingAt = o.open => block.type = "thinking"
        /\ \A t \in DOMAIN o.toolBlock : o.toolBlock[t] = o.open => block.type = "tool_use"
    BY DEF Begun, Owns
  <2> QED BY <2>1, <2>2, <2>3 DEF OpenAt
<1>4. OpenOK(o)
  BY <1>1, <1>3 DEF OpenOK
<1>5. o.failed = FALSE
  BY DEF StateOK, Owns
<1> QED BY <1>1, <1>2, <1>4, <1>5 DEF StreamOK, Owns

\* _emit_thinking writes into a block of its own.
LEMMA PutThinkingKeeps ==
  ASSUME NEW s, NEW n \in Nat, NEW piece, StreamOK(s, n), ~s.failed
  PROVE  LET r == PutThinking(s, piece)
         IN  StreamOK(r, n) /\ ~r.failed /\ r.tools = s.tools
<1>f. s.failed = FALSE /\ EventsOK(s.out, FALSE) /\ IdsOK(s.out, n) /\ StateOK(s, n) /\ OpenOK(s)
  BY DEF StreamOK, StateOK
<1>1. CASE Active(s, s.thinkingAt)
  <2>1. PutThinking(s, piece) = Delta(s, s.thinkingAt, "thinking", piece)
    BY <1>1 DEF PutThinking
  <2>2. s.thinkingAt # None /\ s.thinkingAt = s.open /\ Fits(s, s.thinkingAt, "thinking")
    BY <1>1 DEF Active, Fits
  <2> QED BY <2>1, <2>2, DeltaKeeps
<1>2. CASE ~Active(s, s.thinkingAt)
  <2> DEFINE block == [NoBlock EXCEPT !.type = "thinking"]
             b == OpenBlock(s, block)
             o == [b EXCEPT !.thinkingAt = s.next]
  <2>1. PutThinking(s, piece) = Delta(o, o.thinkingAt, "thinking", piece)
    BY <1>2 DEF PutThinking
  <2>2. block.type = "thinking" /\ block.id = <<>>
    BY DEF NoBlock
  <2>f. Fresh(b, s, n, n, block)
    BY <1>f, OpenBlockKeeps
  <2> HIDE DEF b
  <2>3. /\ EventsOK(b.out, FALSE) /\ StateOK(b, n) /\ ~b.failed /\ Begun(b, block)
        /\ b.open = s.next /\ b.tools = s.tools
    BY <2>f DEF Fresh
  <2> HIDE DEF block
  <2>4. IdsOK(b.out, n)
    <3>1. PICK q : /\ IsSeq(q) /\ IdsOK(q, n)
                   /\ b.out = Append(q, [ev |-> "block_start", index |-> s.next,
                                         block |-> block])
      BY <2>f DEF Fresh
    <3> QED BY <2>2, <3>1, IdsPlain
  <2>5. Owns(o, b, block) /\ o.thinkingAt = b.open
    <3>1. DOMAIN b = AnthropicFields /\ DOMAIN b.toolBlock \subseteq DOMAIN b.tools
      BY <2>3 DEF StateOK
    <3>2. /\ DOMAIN o = AnthropicFields /\ o.out = b.out /\ o.open = b.open /\ o.next = b.next
          /\ o.tools = b.tools /\ o.failed = b.failed /\ o.textAt = b.textAt
          /\ o.toolBlock = b.toolBlock /\ o.thinkingAt = b.open
      BY <2>3, <3>1 DEF AnthropicFields
    <3> HIDE DEF o
    <3> QED BY <2>2, <3>1, <3>2 DEF Owns
  <2> HIDE DEF b, o
  <2>6. StreamOK(o, n) /\ ~o.failed /\ o.open # None
    BY <2>3, <2>4, <2>5, OwnedBlock
  <2>7. o.thinkingAt # None /\ o.thinkingAt = o.open /\ Fits(o, o.thinkingAt, "thinking")
    BY <2>5, <2>6 DEF Owns, Fits
  <2> QED BY <2>1, <2>3, <2>5, <2>6, <2>7, DeltaKeeps DEF Owns
<1> QED BY <1>1, <1>2

\* _emit_text writes into a block of its own.
LEMMA PutTextKeeps ==
  ASSUME NEW s, NEW n \in Nat, NEW piece, StreamOK(s, n), ~s.failed
  PROVE  LET r == PutText(s, piece)
         IN  StreamOK(r, n) /\ ~r.failed /\ r.tools = s.tools
<1>f. s.failed = FALSE /\ EventsOK(s.out, FALSE) /\ IdsOK(s.out, n) /\ StateOK(s, n) /\ OpenOK(s)
  BY DEF StreamOK, StateOK
<1>1. CASE Active(s, s.textAt)
  <2>1. PutText(s, piece) = Delta(s, s.textAt, "text", piece)
    BY <1>1 DEF PutText
  <2>2. s.textAt # None /\ s.textAt = s.open /\ Fits(s, s.textAt, "text")
    BY <1>1 DEF Active, Fits
  <2> QED BY <2>1, <2>2, DeltaKeeps
<1>2. CASE ~Active(s, s.textAt)
  <2> DEFINE block == [NoBlock EXCEPT !.type = "text"]
             b == OpenBlock(s, block)
             o == [b EXCEPT !.textAt = s.next]
  <2>1. PutText(s, piece) = Delta(o, o.textAt, "text", piece)
    BY <1>2 DEF PutText
  <2>2. block.type = "text" /\ block.id = <<>>
    BY DEF NoBlock
  <2>f. Fresh(b, s, n, n, block)
    BY <1>f, OpenBlockKeeps
  <2> HIDE DEF b
  <2>3. /\ EventsOK(b.out, FALSE) /\ StateOK(b, n) /\ ~b.failed /\ Begun(b, block)
        /\ b.open = s.next /\ b.tools = s.tools
    BY <2>f DEF Fresh
  <2> HIDE DEF block
  <2>4. IdsOK(b.out, n)
    <3>1. PICK q : /\ IsSeq(q) /\ IdsOK(q, n)
                   /\ b.out = Append(q, [ev |-> "block_start", index |-> s.next,
                                         block |-> block])
      BY <2>f DEF Fresh
    <3> QED BY <2>2, <3>1, IdsPlain
  <2>5. Owns(o, b, block) /\ o.textAt = b.open
    <3>1. DOMAIN b = AnthropicFields /\ DOMAIN b.toolBlock \subseteq DOMAIN b.tools
      BY <2>3 DEF StateOK
    <3>2. /\ DOMAIN o = AnthropicFields /\ o.out = b.out /\ o.open = b.open /\ o.next = b.next
          /\ o.tools = b.tools /\ o.failed = b.failed /\ o.thinkingAt = b.thinkingAt
          /\ o.toolBlock = b.toolBlock /\ o.textAt = b.open
      BY <2>3, <3>1 DEF AnthropicFields
    <3> HIDE DEF o
    <3> QED BY <2>2, <3>1, <3>2 DEF Owns
  <2> HIDE DEF b, o
  <2>6. StreamOK(o, n) /\ ~o.failed /\ o.open # None
    BY <2>3, <2>4, <2>5, OwnedBlock
  <2>7. o.textAt # None /\ o.textAt = o.open /\ Fits(o, o.textAt, "text")
    BY <2>5, <2>6 DEF Owns, Fits
  <2> QED BY <2>1, <2>3, <2>5, <2>6, <2>7, DeltaKeeps DEF Owns
<1> QED BY <1>1, <1>2

-----------------------------------------------------------------------------
(* The tool calls. *)

\* The first delta of the call n, and one more of the call k.
Begins(d, n) == /\ d.index = n /\ d.name # None
                /\ d.id = <<>> \/ \E p : d.id = <<"id", p, n>>
Continues(d, k) == d.index = k /\ d.name = None /\ d.id = <<>>

\* The call k is the one whose block is open.
InCall(s, k) == k \in DOMAIN s.toolBlock /\ s.toolBlock[k] = s.open /\ s.open # None

\* A call begun: a block of its own is open, with an id of its own.
LEMMA BeginTool ==
  ASSUME NEW s, NEW n \in Nat, NEW d, StreamOK(s, n), ~s.failed, Begins(d, n)
  PROVE  LET r == PutTool(s, d)
         IN  StreamOK(r, n + 1) /\ ~r.failed /\ InCall(r, n)
<1> DEFINE c == Ingest(s.tools, d)
           m == [s EXCEPT !.tools = c]
           block == [type |-> "tool_use", name |-> c[n].name, id |-> Default(c[n].id, "toolu", n)]
           b == OpenBlock(m, block)
           o == [b EXCEPT !.toolBlock = With(@, n, m.next)]
<1>f. s.failed = FALSE /\ EventsOK(s.out, FALSE) /\ IdsOK(s.out, n) /\ StateOK(s, n) /\ OpenOK(s)
  BY DEF StreamOK, StateOK
<1>1. /\ DOMAIN m = AnthropicFields /\ m.out = s.out /\ m.open = s.open /\ m.next = s.next
      /\ m.failed = s.failed /\ m.textAt = s.textAt /\ m.thinkingAt = s.thinkingAt
      /\ m.toolBlock = s.toolBlock /\ m.tools = c
  BY <1>f DEF StateOK, AnthropicFields
<1>2. n \notin DOMAIN s.tools /\ n \notin DOMAIN s.toolBlock
  BY <1>f DEF StateOK
<1>3. /\ DOMAIN c = DOMAIN s.tools \cup {n} /\ \A k \in DOMAIN s.tools : c[k] = s.tools[k]
      /\ c[n].id = d.id /\ c[n].name # None
  <2>1. /\ DOMAIN c = DOMAIN s.tools \cup {d.index}
        /\ \A k \in DOMAIN s.tools \ {d.index} : c[k] = s.tools[k]
        /\ d.index \notin DOMAIN s.tools => c[d.index].id = d.id
        /\ d.name # None => c[d.index].name = d.name
    BY DEF Ingest, With, Merge, NewCall
  <2> HIDE DEF c
  <2> QED BY <1>2, <2>1 DEF Begins
<1>4. PutTool(s, d) = IF d.args = <<>> THEN o ELSE Delta(o, o.toolBlock[n], "input_json", d.args)
  <2>1. d.index = n /\ ~Active(m, None) /\ m.tools[n].name # None
    BY <1>1, <1>3 DEF Begins, Active
  <2>2. \E x \in {m} : PutTool(s, d) =
          IF d.args = <<>> THEN o ELSE Delta(o, o.toolBlock[n], "input_json", d.args)
    BY <1>1, <1>2, <2>1 DEF PutTool
  <2> QED BY <2>2
<1>5. block.type = "tool_use" /\ IsId(block.id, n)
  BY <1>3 DEF Begins, Default, IsId
<1> HIDE DEF c, m, block
<1>6. StateOK(m, n + 1)
  <2>1. DOMAIN m.tools \subseteq 0..((n + 1) - 1)
    BY <1>f, <1>1, <1>3 DEF StateOK
  <2>2. \A k \in DOMAIN m.tools : m.tools[k].id = <<>> \/ \E p : m.tools[k].id = <<"id", p, k>>
    BY <1>f, <1>1, <1>3 DEF StateOK, Begins
  <2> QED BY <1>f, <1>1, <1>3, <2>1, <2>2 DEF StateOK
<1>7. OpenOK(m)
  BY <1>f, <1>1 DEF OpenOK, OpenAt
<1>8. Fresh(b, m, n, n + 1, block)
  BY <1>f, <1>1, <1>6, <1>7, OpenBlockKeeps
<1> HIDE DEF b
<1>9. /\ EventsOK(b.out, FALSE) /\ StateOK(b, n + 1) /\ ~b.failed /\ Begun(b, block)
      /\ b.open = m.next /\ b.tools = c /\ DOMAIN b = AnthropicFields
  BY <1>1, <1>8 DEF Fresh, StateOK
<1>10. IdsOK(b.out, n + 1)
  <2>1. PICK q : /\ IsSeq(q) /\ IdsOK(q, n)
                 /\ b.out = Append(q, [ev |-> "block_start", index |-> m.next,
                                       block |-> block])
    BY <1>8 DEF Fresh
  <2> QED BY <1>5, <2>1, IdsCall
<1>11. /\ o.out = b.out /\ o.open = b.open /\ o.next = b.next /\ o.tools = b.tools
       /\ o.failed = b.failed /\ o.textAt = b.textAt /\ o.thinkingAt = b.thinkingAt
       /\ DOMAIN o = AnthropicFields /\ o.toolBlock = With(b.toolBlock, n, b.open)
  BY <1>9 DEF AnthropicFields
<1> HIDE DEF o
<1>12. Owns(o, b, block)
  <2>1. DOMAIN b.toolBlock \subseteq DOMAIN b.tools
    BY <1>9 DEF StateOK
  <2> QED BY <1>3, <1>5, <1>9, <1>11, <2>1 DEF Owns, With
<1>13. StreamOK(o, n + 1) /\ ~o.failed /\ o.open # None
  BY <1>9, <1>10, <1>12, OwnedBlock
<1>14. InCall(o, n)
  BY <1>11, <1>13 DEF InCall, With
<1>15. CASE d.args = <<>>
  BY <1>4, <1>13, <1>14, <1>15
<1>16. CASE d.args # <<>>
  <2>1. o.toolBlock[n] # None /\ o.toolBlock[n] = o.open /\ Fits(o, o.toolBlock[n], "input_json")
    BY <1>14 DEF InCall, Fits
  <2> DEFINE r == Delta(o, o.toolBlock[n], "input_json", d.args)
  <2>2. StreamOK(r, n + 1) /\ ~r.failed /\ r.open = o.open /\ r.toolBlock = o.toolBlock
    BY <1>13, <2>1, DeltaKeeps
  <2>3. PutTool(s, d) = r
    BY <1>4, <1>16
  <2> HIDE DEF r
  <2> QED BY <1>14, <2>2, <2>3 DEF InCall
<1> QED BY <1>15, <1>16

\* More of the call whose block is open goes into that block.
LEMMA ContinueTool ==
  ASSUME NEW s, NEW n \in Nat, NEW d, NEW k \in Int, StreamOK(s, n), ~s.failed, InCall(s, k),
         Continues(d, k)
  PROVE  LET r == PutTool(s, d)
         IN  StreamOK(r, n) /\ ~r.failed /\ InCall(r, k)
<1> DEFINE c == Ingest(s.tools, d)
           m == [s EXCEPT !.tools = c]
<1>f. s.failed = FALSE /\ EventsOK(s.out, FALSE) /\ IdsOK(s.out, n) /\ StateOK(s, n) /\ OpenOK(s)
  BY DEF StreamOK, StateOK
<1>1. /\ DOMAIN m = AnthropicFields /\ m.out = s.out /\ m.open = s.open /\ m.next = s.next
      /\ m.failed = s.failed /\ m.textAt = s.textAt /\ m.thinkingAt = s.thinkingAt
      /\ m.toolBlock = s.toolBlock /\ m.tools = c
  BY <1>f DEF StateOK, AnthropicFields
<1>2. k \in DOMAIN s.tools /\ k \in DOMAIN s.toolBlock
  BY <1>f DEF StateOK, InCall
<1>3. DOMAIN c = DOMAIN s.tools /\ \A j \in DOMAIN c : c[j].id = s.tools[j].id
  <2>1. /\ DOMAIN c = DOMAIN s.tools \cup {d.index}
        /\ \A j \in DOMAIN s.tools \ {d.index} : c[j] = s.tools[j]
        /\ (d.index \in DOMAIN s.tools /\ d.id = <<>>) => c[d.index].id = s.tools[d.index].id
    BY DEF Ingest, With, Merge, NewCall
  <2> HIDE DEF c
  <2> QED BY <1>2, <2>1 DEF Continues
<1>4. PutTool(s, d) = IF d.args = <<>> THEN m ELSE Delta(m, m.toolBlock[k], "input_json", d.args)
  <2>1. d.index = k /\ Active(m, s.toolBlock[k])
    BY <1>1 DEF Continues, Active, InCall
  <2> QED BY <1>1, <1>2, <2>1 DEF PutTool
<1> HIDE DEF c, m
<1>5. StateOK(m, n)
  <2>1. \A j \in DOMAIN m.tools : m.tools[j].id = <<>> \/ \E p : m.tools[j].id = <<"id", p, j>>
    BY <1>f, <1>1, <1>3 DEF StateOK
  <2> QED BY <1>f, <1>1, <1>3, <2>1 DEF StateOK
<1>6. OpenOK(m)
  BY <1>f, <1>1 DEF OpenOK, OpenAt
<1>7. StreamOK(m, n) /\ ~m.failed /\ InCall(m, k)
  BY <1>f, <1>1, <1>5, <1>6 DEF StreamOK, InCall
<1>8. CASE d.args = <<>>
  BY <1>4, <1>7, <1>8
<1>9. CASE d.args # <<>>
  <2>1. m.toolBlock[k] # None /\ m.toolBlock[k] = m.open /\ Fits(m, m.toolBlock[k], "input_json")
    BY <1>7 DEF InCall, Fits
  <2> DEFINE r == Delta(m, m.toolBlock[k], "input_json", d.args)
  <2>2. StreamOK(r, n) /\ ~r.failed /\ r.open = m.open /\ r.toolBlock = m.toolBlock
    BY <1>7, <2>1, DeltaKeeps
  <2>3. PutTool(s, d) = r
    BY <1>4, <1>9
  <2> HIDE DEF r
  <2> QED BY <1>7, <2>2, <2>3 DEF InCall
<1> QED BY <1>8, <1>9

-----------------------------------------------------------------------------
(* Folds over the calls of a line. *)

\* The greatest of one number and of two.
LEMMA MaxOfTwo == Max({1}) = 1 /\ Max({2}) = 2 /\ Max({1, 2}) = 2
<1>1. 1 \in {1} /\ \A y \in {1} : 1 >= y
  OBVIOUS
<1>2. 2 \in {1, 2} /\ \A y \in {1, 2} : 2 >= y
  OBVIOUS
<1>3. \A x \in {1, 2} : (\A y \in {1, 2} : x >= y) => x = 2
  OBVIOUS
<1>4. 2 \in {2} /\ \A y \in {2} : 2 >= y
  OBVIOUS
<1> QED BY <1>1, <1>2, <1>3, <1>4 DEF Max

\* The tool calls of one line, of which there are two at most.
LEMMA PutTools ==
  ASSUME NEW b, NEW t, DOMAIN t = {} \/ DOMAIN t = {1} \/ DOMAIN t = {1, 2}
  PROVE  FoldLeft(PutTool, b, t) = CASE DOMAIN t = {} -> b
                                  [] DOMAIN t = {1} -> PutTool(b, t[1])
                                  [] OTHER -> PutTool(PutTool(b, t[1]), t[2])
<1> DEFINE S == DOMAIN t
           Step(g, s) == IF s = {} THEN b ELSE PutTool(g[s \ {Max(s)}], t[Max(s)])
           F == [s \in SUBSET S |-> CASE s = {} -> b
                                      [] s = {1} -> PutTool(b, t[1])
                                      [] s = {2} -> PutTool(b, t[2])
                                      [] OTHER -> PutTool(PutTool(b, t[1]), t[2])]
           G == CHOOSE g : g = [s \in SUBSET S |-> Step(g, s)]
<1>1. \A s \in SUBSET S : s = {} \/ s = {1} \/ s = {2} \/ s = {1, 2}
  OBVIOUS
<1>2. FoldLeft(PutTool, b, t) = G[S]
  BY DEF FoldLeft, MapThenFoldSet
<1>3. {1} # {} /\ {2} # {} /\ {1, 2} # {} /\ {2} # {1} /\ {1, 2} # {1} /\ {1, 2} # {2}
  OBVIOUS
<1>4. \A s \in SUBSET S : F[s] = Step(F, s)
  <2> SUFFICES ASSUME NEW s \in SUBSET S
               PROVE  F[s] = Step(F, s)
    OBVIOUS
  <2>1. CASE s = {}
    BY <2>1
  <2>2. CASE s = {1}
    <3>1. F[s] = PutTool(b, t[1]) /\ F[{}] = b
      BY <1>3, <2>2
    <3> HIDE DEF F
    <3>2. Step(F, s) = PutTool(F[{1} \ {1}], t[1]) /\ {1} \ {1} = {}
      BY <1>3, <2>2, MaxOfTwo
    <3> QED BY <3>1, <3>2
  <2>3. CASE s = {2}
    <3>1. F[s] = PutTool(b, t[2]) /\ F[{}] = b
      BY <1>3, <2>3
    <3> HIDE DEF F
    <3>2. Step(F, s) = PutTool(F[{2} \ {2}], t[2]) /\ {2} \ {2} = {}
      BY <1>3, <2>3, MaxOfTwo
    <3> QED BY <3>1, <3>2
  <2>4. CASE s = {1, 2}
    <3>1. F[s] = PutTool(PutTool(b, t[1]), t[2]) /\ F[{1}] = PutTool(b, t[1])
      BY <1>3, <2>4
    <3> HIDE DEF F
    <3>2. Step(F, s) = PutTool(F[{1, 2} \ {2}], t[2]) /\ {1, 2} \ {2} = {1}
      BY <1>3, <2>4, MaxOfTwo
    <3> QED BY <3>1, <3>2
  <2> QED BY <1>1, <2>1, <2>2, <2>3, <2>4
<1>5. G = [s \in SUBSET S |-> Step(G, s)]
  <2>1. F = [s \in SUBSET S |-> Step(F, s)]
    <3>1. F = [s \in SUBSET S |-> F[s]]
      OBVIOUS
    <3> HIDE DEF F, Step
    <3> QED BY <1>4, <3>1
  <2> HIDE DEF F, Step, S
  <2> QED BY <2>1
<1> HIDE DEF F, G
<1>6. \A s \in SUBSET S : G[s] = Step(G, s)
  <2> HIDE DEF Step, S
  <2> QED BY <1>5
<1>7. G[{}] = b
  BY <1>6
<1>8. {1} \in SUBSET S => G[{1}] = PutTool(b, t[1])
  <2>1. {1} \ {1} = {}
    OBVIOUS
  <2> QED BY <1>3, <1>6, <1>7, <2>1, MaxOfTwo
<1>9. {1, 2} \in SUBSET S => G[{1, 2}] = PutTool(PutTool(b, t[1]), t[2])
  <2>1. {1, 2} \ {2} = {1}
    OBVIOUS
  <2> QED BY <1>3, <1>6, <1>8, <2>1, MaxOfTwo
<1> QED BY <1>2, <1>3, <1>7, <1>8, <1>9

\* What is heard of them.
LEMMA HearCalls ==
  ASSUME NEW b, NEW t, DOMAIN t = {} \/ DOMAIN t = {1} \/ DOMAIN t = {1, 2}
  PROVE  FoldLeft(HearCall, b, t) = CASE DOMAIN t = {} -> b
                                  [] DOMAIN t = {1} -> HearCall(b, t[1])
                                  [] OTHER -> HearCall(HearCall(b, t[1]), t[2])
<1> DEFINE S == DOMAIN t
           Step(g, s) == IF s = {} THEN b ELSE HearCall(g[s \ {Max(s)}], t[Max(s)])
           F == [s \in SUBSET S |-> CASE s = {} -> b
                                      [] s = {1} -> HearCall(b, t[1])
                                      [] s = {2} -> HearCall(b, t[2])
                                      [] OTHER -> HearCall(HearCall(b, t[1]), t[2])]
           G == CHOOSE g : g = [s \in SUBSET S |-> Step(g, s)]
<1>1. \A s \in SUBSET S : s = {} \/ s = {1} \/ s = {2} \/ s = {1, 2}
  OBVIOUS
<1>2. FoldLeft(HearCall, b, t) = G[S]
  BY DEF FoldLeft, MapThenFoldSet
<1>3. {1} # {} /\ {2} # {} /\ {1, 2} # {} /\ {2} # {1} /\ {1, 2} # {1} /\ {1, 2} # {2}
  OBVIOUS
<1>4. \A s \in SUBSET S : F[s] = Step(F, s)
  <2> SUFFICES ASSUME NEW s \in SUBSET S
               PROVE  F[s] = Step(F, s)
    OBVIOUS
  <2>1. CASE s = {}
    BY <2>1
  <2>2. CASE s = {1}
    <3>1. F[s] = HearCall(b, t[1]) /\ F[{}] = b
      BY <1>3, <2>2
    <3> HIDE DEF F
    <3>2. Step(F, s) = HearCall(F[{1} \ {1}], t[1]) /\ {1} \ {1} = {}
      BY <1>3, <2>2, MaxOfTwo
    <3> QED BY <3>1, <3>2
  <2>3. CASE s = {2}
    <3>1. F[s] = HearCall(b, t[2]) /\ F[{}] = b
      BY <1>3, <2>3
    <3> HIDE DEF F
    <3>2. Step(F, s) = HearCall(F[{2} \ {2}], t[2]) /\ {2} \ {2} = {}
      BY <1>3, <2>3, MaxOfTwo
    <3> QED BY <3>1, <3>2
  <2>4. CASE s = {1, 2}
    <3>1. F[s] = HearCall(HearCall(b, t[1]), t[2]) /\ F[{1}] = HearCall(b, t[1])
      BY <1>3, <2>4
    <3> HIDE DEF F
    <3>2. Step(F, s) = HearCall(F[{1, 2} \ {2}], t[2]) /\ {1, 2} \ {2} = {1}
      BY <1>3, <2>4, MaxOfTwo
    <3> QED BY <3>1, <3>2
  <2> QED BY <1>1, <2>1, <2>2, <2>3, <2>4
<1>5. G = [s \in SUBSET S |-> Step(G, s)]
  <2>1. F = [s \in SUBSET S |-> Step(F, s)]
    <3>1. F = [s \in SUBSET S |-> F[s]]
      OBVIOUS
    <3> HIDE DEF F, Step
    <3> QED BY <1>4, <3>1
  <2> HIDE DEF F, Step, S
  <2> QED BY <2>1
<1> HIDE DEF F, G
<1>6. \A s \in SUBSET S : G[s] = Step(G, s)
  <2> HIDE DEF Step, S
  <2> QED BY <1>5
<1>7. G[{}] = b
  BY <1>6
<1>8. {1} \in SUBSET S => G[{1}] = HearCall(b, t[1])
  <2>1. {1} \ {1} = {}
    OBVIOUS
  <2> QED BY <1>3, <1>6, <1>7, <2>1, MaxOfTwo
<1>9. {1, 2} \in SUBSET S => G[{1, 2}] = HearCall(HearCall(b, t[1]), t[2])
  <2>1. {1, 2} \ {2} = {1}
    OBVIOUS
  <2> QED BY <1>3, <1>6, <1>8, <2>1, MaxOfTwo
<1> QED BY <1>2, <1>3, <1>7, <1>8, <1>9

-----------------------------------------------------------------------------
(* The lines. *)

\* What the translator may be told more of the last of n calls: its block is
\* open, or it was never sent.
Calling(s, n) ==
  \/ s.failed \/ n - 1 \notin DOMAIN s.tools \/ s.tools[n - 1].name = None
  \/ InCall(s, n - 1)

\* The state as far as the events depend on it.
SameBlocks(s, m) ==
  /\ DOMAIN m = AnthropicFields /\ m.out = s.out /\ m.failed = s.failed /\ m.next = s.next
  /\ m.open = s.open /\ m.textAt = s.textAt /\ m.thinkingAt = s.thinkingAt
  /\ m.toolBlock = s.toolBlock /\ m.tools = s.tools

\* What does not touch the blocks keeps them in order.
LEMMA SameKeeps ==
  ASSUME NEW s, NEW m, NEW n, StreamOK(s, n), SameBlocks(s, m)
  PROVE  StreamOK(m, n)
<1>1. StateOK(m, n)
  BY DEF StreamOK, StateOK, SameBlocks
<1>2. OpenOK(m)
  BY DEF StreamOK, OpenOK, OpenAt, SameBlocks
<1> QED BY <1>1, <1>2 DEF StreamOK, SameBlocks

\* Calls heard and not sent do no harm.
LEMMA MoreCalls ==
  ASSUME NEW s, NEW n \in Nat, NEW m \in Nat, n <= m, StreamOK(s, n)
  PROVE  StreamOK(s, m)
<1>1. 0..(n - 1) \subseteq 0..(m - 1)
  OBVIOUS
<1>2. StateOK(s, m)
  BY <1>1 DEF StreamOK, StateOK
<1> QED BY <1>2, IdsOfMore DEF StreamOK

\* A fragment of a call that was never sent is not sent either.
LEMMA SkipTool ==
  ASSUME NEW s, NEW n \in Nat, n >= 1, NEW d, StreamOK(s, n), ~s.failed, Calling(s, n),
         ~InCall(s, n - 1), Continues(d, n - 1)
  PROVE  LET r == PutTool(s, d)
         IN  StreamOK(r, n) /\ Calling(r, n)
<1> DEFINE c == Ingest(s.tools, d)
           m == [s EXCEPT !.tools = c]
           k == n - 1
           at == IF k \in DOMAIN s.toolBlock THEN s.toolBlock[k] ELSE None
<1>f. s.failed = FALSE /\ EventsOK(s.out, FALSE) /\ IdsOK(s.out, n) /\ StateOK(s, n) /\ OpenOK(s)
  BY DEF StreamOK, StateOK
<1>1. /\ DOMAIN m = AnthropicFields /\ m.out = s.out /\ m.open = s.open /\ m.next = s.next
      /\ m.failed = s.failed /\ m.textAt = s.textAt /\ m.thinkingAt = s.thinkingAt
      /\ m.toolBlock = s.toolBlock /\ m.tools = c
  BY <1>f DEF StateOK, AnthropicFields
<1>2. /\ DOMAIN c = DOMAIN s.tools \cup {d.index}
      /\ \A j \in DOMAIN s.tools \ {d.index} : c[j] = s.tools[j]
      /\ d.index \notin DOMAIN s.tools => c[d.index].id = d.id
      /\ (d.index \in DOMAIN s.tools /\ d.id = <<>>) => c[d.index].id = s.tools[d.index].id
      /\ (d.index \notin DOMAIN s.tools /\ d.name = None) => c[d.index].name = None
      /\ (d.index \in DOMAIN s.tools /\ d.name = None) =>
            c[d.index].name = s.tools[d.index].name
  BY DEF Ingest, With, Merge, NewCall
<1>3. k \in 0..(n - 1) /\ d.index = k /\ d.name = None /\ d.id = <<>>
  BY DEF Continues
<1>4. c[k].name = None
  <2> HIDE DEF c
  <2> QED BY <1>f, <1>2, <1>3 DEF Calling
<1>5. ~Active(m, at)
  <2> HIDE DEF m
  <2> QED BY <1>1 DEF Active, InCall
<1>6. PutTool(s, d) = m
  <2>1. PutTool(s, d) = IF ~Active(m, at) /\ m.tools[k].name = None THEN m ELSE PutTool(s, d)
    BY <1>3 DEF PutTool
  <2> HIDE DEF m, at, c, k
  <2> QED BY <1>1, <1>4, <1>5, <2>1
<1> HIDE DEF m, c, k
<1>7. StateOK(m, n)
  <2>1. DOMAIN m.tools \subseteq 0..(n - 1) /\ DOMAIN m.toolBlock \subseteq DOMAIN m.tools
    BY <1>f, <1>1, <1>2, <1>3 DEF StateOK
  <2>2. \A j \in DOMAIN m.tools : m.tools[j].id = <<>> \/ \E p : m.tools[j].id = <<"id", p, j>>
    BY <1>f, <1>1, <1>2, <1>3 DEF StateOK
  <2> QED BY <1>f, <1>1, <2>1, <2>2 DEF StateOK
<1>8. OpenOK(m)
  BY <1>f, <1>1 DEF OpenOK, OpenAt
<1>9. Calling(m, n)
  BY <1>1, <1>4 DEF Calling, k
<1> QED BY <1>f, <1>1, <1>6, <1>7, <1>8, <1>9 DEF StreamOK

\* An error ends the events.
LEMMA ErrorKeeps ==
  ASSUME NEW s, NEW n, StreamOK(s, n), ~s.failed
  PROVE  LET r == WriteEvent([s EXCEPT !.failed = TRUE], [ev |-> "error"])
         IN  StreamOK(r, n) /\ r.failed
<1> DEFINE r == WriteEvent([s EXCEPT !.failed = TRUE], [ev |-> "error"])
           e == [ev |-> "error"]
<1>1. /\ DOMAIN r = AnthropicFields /\ r.out = Append(s.out, e) /\ r.failed = TRUE
      /\ r.open = s.open /\ r.next = s.next /\ r.tools = s.tools
      /\ r.textAt = s.textAt /\ r.thinkingAt = s.thinkingAt /\ r.toolBlock = s.toolBlock
  BY DEF StreamOK, StateOK, WriteEvent, AnthropicFields
<1>2. e.ev = "error"
  OBVIOUS
<1> HIDE DEF r, e
<1>3. EventsOK(s.out, FALSE)
  BY DEF StreamOK, StateOK
<1>4. /\ IsSeq(s.out) /\ Len(s.out) \in Nat /\ Len(s.out) >= 1 /\ r.out[Len(s.out) + 1] = e
  BY <1>1, Appended DEF StreamOK, EventsOK
<1>5. EventOK(r.out, Len(s.out) + 1)
  BY <1>2, <1>4 DEF EventOK
<1>6. EventsOK(r.out, TRUE)
  BY <1>1, <1>2, <1>3, <1>5, EventsGrow
<1>7. IdsOK(r.out, n)
  BY <1>1, <1>2, <1>4, IdsKept DEF StreamOK
<1>8. BlockStarts(r.out) = BlockStarts(s.out)
  BY <1>1, <1>2, <1>4, StartsAppended
<1>9. StateOK(r, n)
  BY <1>1, <1>8 DEF StreamOK, StateOK
<1>10. OpenOK(r)
  BY <1>1 DEF OpenOK
<1> QED BY <1>1, <1>6, <1>7, <1>9, <1>10 DEF StreamOK, r

\* What the parser takes out of a line: the line, or its kind.
LEMMA Parsed ==
  ASSUME NEW l
  PROVE  \/ Parse(l) = l
         \/ Parse(l).tools = <<>> /\ Parse(l).reasoning = <<>> /\ Parse(l).text = <<>>
BY DEF Parse, BlankLine

\* A line: it is noise, or an error, or its text goes out before its calls.
LEMMA LineIs ==
  ASSUME NEW s, NEW n \in Nat, NEW l, StreamOK(s, n), ~s.failed
  PROVE  LET r == AnthropicLine(s, l)
         IN  \/ r = s
             \/ StreamOK(r, n) /\ r.failed
             \/ \E q : /\ StreamOK(q, n) /\ ~q.failed /\ q.tools = s.tools
                       /\ (l.reasoning = <<>> /\ l.text = <<>>) =>
                             q.open = s.open /\ q.toolBlock = s.toolBlock
                       /\ r = FoldLeft(PutTool, q, l.tools) \/ r = FoldLeft(PutTool, q, <<>>)
<1> DEFINE p == Parse(l)
           noted == [s EXCEPT !.usage = IF p.usage # None THEN p.usage ELSE @,
                              !.stop = IF p.finish # None THEN StopReason(p.finish) ELSE @]
           thought == IF p.reasoning # <<>> /\ s.thinking THEN PutThinking(noted, p.reasoning)
                      ELSE noted
           spoken == IF p.text # <<>> THEN PutText(thought, p.text) ELSE thought
           r == AnthropicLine(s, l)
<1>1. \/ p = l
      \/ p.tools = <<>> /\ p.reasoning = <<>> /\ p.text = <<>>
  BY Parsed
<1>2. r = IF s.failed \/ p.kind = "noise" THEN s
          ELSE IF p.kind = "error"
               THEN WriteEvent([s EXCEPT !.failed = TRUE], [ev |-> "error"])
          ELSE FoldLeft(PutTool, spoken, p.tools)
  BY DEF AnthropicLine
<1>3. SameBlocks(s, noted)
  <2> HIDE DEF p
  <2> QED BY DEF SameBlocks, StreamOK, StateOK, AnthropicFields
<1> HIDE DEF p, noted
<1>4. StreamOK(noted, n) /\ ~noted.failed /\ noted.tools = s.tools
  BY <1>3, SameKeeps DEF SameBlocks
<1>5. StreamOK(thought, n) /\ ~thought.failed /\ thought.tools = s.tools
  BY <1>4, PutThinkingKeeps
<1> HIDE DEF thought
<1>6. StreamOK(spoken, n) /\ ~spoken.failed /\ spoken.tools = s.tools
  BY <1>5, PutTextKeeps
<1>7. (p.reasoning = <<>> /\ p.text = <<>>) =>
         spoken.open = s.open /\ spoken.toolBlock = s.toolBlock
  BY <1>3 DEF thought, SameBlocks
<1> HIDE DEF spoken, r
<1>8. CASE p.kind = "noise"
  BY <1>2, <1>8 DEF r
<1>9. CASE p.kind = "error"
  <2>1. r = WriteEvent([s EXCEPT !.failed = TRUE], [ev |-> "error"])
    BY <1>2, <1>9
  <2>2. StreamOK(r, n) /\ r.failed
    BY <2>1, ErrorKeeps
  <2> QED BY <2>2 DEF r
<1>10. CASE p.kind \notin {"noise", "error"}
  <2>1. r = FoldLeft(PutTool, spoken, p.tools)
    BY <1>2, <1>10
  <2>2. r = FoldLeft(PutTool, spoken, l.tools) \/ r = FoldLeft(PutTool, spoken, <<>>)
    BY <1>1, <1>10, <2>1
  <2>3. (l.reasoning = <<>> /\ l.text = <<>>) =>
           spoken.open = s.open /\ spoken.toolBlock = s.toolBlock
    BY <1>1, <1>7, <1>10
  <2>4. \E q : /\ StreamOK(q, n) /\ ~q.failed /\ q.tools = s.tools
               /\ (l.reasoning = <<>> /\ l.text = <<>>) =>
                     q.open = s.open /\ q.toolBlock = s.toolBlock
               /\ r = FoldLeft(PutTool, q, l.tools) \/ r = FoldLeft(PutTool, q, <<>>)
    BY <1>6, <2>2, <2>3
  <2> QED BY <2>4 DEF r
<1> QED BY <1>8, <1>9, <1>10

\* The calls a line begins when n have begun, or the last one goes on.
Tells(l, n, m, calling) ==
  \/ l.tools = <<>> /\ m = n
  \/ \E d : l.tools = <<d>> /\ Begins(d, n) /\ m = n + 1
  \/ \E d, e : l.tools = <<d, e>> /\ Begins(d, n) /\ Begins(e, n + 1) /\ m = n + 2
  \/ \E d : /\ l.tools = <<d>> /\ Continues(d, n - 1) /\ n >= 1 /\ m = n /\ calling
            /\ l.reasoning = <<>> /\ l.text = <<>>

\* A line keeps the events in order, whatever it tells of the calls.
LEMMA LineKeeps ==
  ASSUME NEW s, NEW n \in Nat, NEW m \in Nat, NEW l, NEW calling,
         StreamOK(s, n), calling => Calling(s, n), Tells(l, n, m, calling)
  PROVE  LET r == AnthropicLine(s, l)
         IN  /\ StreamOK(r, m)
             /\ l.tools # <<>> => Calling(r, m)
             /\ (calling /\ l.reasoning = <<>> /\ l.text = <<>>) => Calling(r, m)
<1> DEFINE r == AnthropicLine(s, l)
           goes == l.tools # <<>> \/ (calling /\ l.reasoning = <<>> /\ l.text = <<>>)
<1>1. n <= m /\ (m # n => n <= m - 1) /\ (m = n /\ goes => calling)
  BY DEF Tells
<1>2. ASSUME NEW x, StreamOK(x, n), x.failed = s.failed, x.tools = s.tools,
             (l.reasoning = <<>> /\ l.text = <<>>) =>
                x.open = s.open /\ x.toolBlock = s.toolBlock
      PROVE  StreamOK(x, m) /\ (goes => Calling(x, m))
  <2>1. StreamOK(x, m)
    BY <1>1, <1>2, MoreCalls
  <2>2. CASE m # n
    <3>1. m - 1 \notin DOMAIN x.tools
      BY <1>1, <1>2, <2>2 DEF StreamOK, StateOK
    <3> QED BY <2>1, <3>1 DEF Calling
  <2>3. CASE m = n /\ goes
    <3>1. Calling(s, n) /\ l.reasoning = <<>> /\ l.text = <<>>
      BY <1>1, <2>3 DEF Tells
    <3> QED BY <1>2, <2>1, <2>3, <3>1 DEF Calling, InCall
  <2> QED BY <2>1, <2>2, <2>3
<1>3. CASE s.failed
  <2>1. r = s
    BY <1>3 DEF AnthropicLine
  <2> QED BY <1>1, <1>3, <2>1, MoreCalls DEF Calling
<1>4. CASE ~s.failed /\ r = s
  BY <1>2, <1>4
<1>5. CASE StreamOK(r, n) /\ r.failed
  <2> HIDE DEF r
  <2>1. StreamOK(r, m) /\ Calling(r, m)
    BY <1>1, <1>5, MoreCalls DEF Calling
  <2> QED BY <2>1 DEF r
<1>6. ASSUME ~s.failed,
             NEW q, StreamOK(q, n), ~q.failed, q.tools = s.tools,
             (l.reasoning = <<>> /\ l.text = <<>>) =>
                q.open = s.open /\ q.toolBlock = s.toolBlock,
             r = FoldLeft(PutTool, q, l.tools) \/ r = FoldLeft(PutTool, q, <<>>)
      PROVE  StreamOK(r, m) /\ (goes => Calling(r, m))
  <2>f. q.failed = s.failed
    BY <1>6 DEF StreamOK, StateOK
  <2> HIDE DEF r
  <2>1. CASE r = FoldLeft(PutTool, q, <<>>) \/ l.tools = <<>>
    <3>1. DOMAIN <<>> = {}
      OBVIOUS
    <3>2. FoldLeft(PutTool, q, <<>>) = q
      BY <3>1, PutTools
    <3>3. r = q
      BY <1>6, <2>1, <3>2
    <3> QED BY <1>2, <1>6, <2>f, <3>3
  <2>2. ASSUME r = FoldLeft(PutTool, q, l.tools),
               NEW d, l.tools = <<d>>, Begins(d, n), m = n + 1
        PROVE  StreamOK(r, m) /\ Calling(r, m)
    <3>1. r = PutTool(q, d)
      <4>1. DOMAIN <<d>> = {1} /\ {1} # {} /\ <<d>>[1] = d
        OBVIOUS
      <4> QED BY <2>2, <4>1, PutTools
    <3>2. StreamOK(r, n + 1) /\ ~r.failed /\ InCall(r, n)
      BY <1>6, <2>2, <3>1, BeginTool
    <3>3. m - 1 = n
      BY <2>2
    <3> QED BY <2>2, <3>2, <3>3 DEF Calling
  <2>3. ASSUME r = FoldLeft(PutTool, q, l.tools), NEW d, NEW e, l.tools = <<d, e>>,
               Begins(d, n), Begins(e, n + 1), m = n + 2
        PROVE  StreamOK(r, m) /\ Calling(r, m)
    <3> DEFINE x == PutTool(q, d)
    <3>1. r = PutTool(x, e)
      <4>1. /\ DOMAIN <<d, e>> = {1, 2} /\ {1, 2} # {} /\ {1, 2} # {1}
            /\ <<d, e>>[1] = d /\ <<d, e>>[2] = e
        OBVIOUS
      <4> QED BY <2>3, <4>1, PutTools
    <3>2. StreamOK(x, n + 1) /\ ~x.failed
      BY <1>6, <2>3, BeginTool
    <3> HIDE DEF x
    <3>3. n + 1 \in Nat /\ (n + 1) + 1 = m /\ m - 1 = n + 1
      BY <2>3
    <3>4. StreamOK(r, (n + 1) + 1) /\ ~r.failed /\ InCall(r, n + 1)
      BY <2>3, <3>1, <3>2, <3>3, BeginTool
    <3> QED BY <3>3, <3>4 DEF Calling
  <2>4. ASSUME r = FoldLeft(PutTool, q, l.tools), NEW d, l.tools = <<d>>,
               Continues(d, n - 1), n >= 1, m = n, calling,
               l.reasoning = <<>>, l.text = <<>>
        PROVE  StreamOK(r, m) /\ Calling(r, m)
    <3>1. r = PutTool(q, d)
      <4>1. DOMAIN <<d>> = {1} /\ {1} # {} /\ <<d>>[1] = d
        OBVIOUS
      <4> QED BY <2>4, <4>1, PutTools
    <3>2. Calling(q, n)
      BY <1>6, <2>4 DEF Calling, InCall
    <3>3. CASE InCall(q, n - 1)
      <4>1. n - 1 \in Int
        OBVIOUS
      <4>2. StreamOK(r, n) /\ ~r.failed /\ InCall(r, n - 1)
        BY <1>6, <2>4, <3>1, <3>3, <4>1, ContinueTool
      <4> QED BY <2>4, <4>2 DEF Calling
    <3>4. CASE ~InCall(q, n - 1)
      <4>1. StreamOK(r, n) /\ Calling(r, n)
        BY <1>6, <2>4, <3>1, <3>2, <3>4, SkipTool
      <4> QED BY <2>4, <4>1
    <3> QED BY <3>3, <3>4
  <2> QED BY <1>6, <2>1, <2>2, <2>3, <2>4 DEF Tells
<1> QED BY <1>3, <1>4, <1>5, <1>6, LineIs

-----------------------------------------------------------------------------
(* The end of a message. *)

\* Events that fit, as far as they go.
Fitting(out, n) ==
  /\ IsSeq(out) /\ Len(out) \in Nat /\ Len(out) >= 1 /\ IdsOK(out, n)
  /\ \A i \in 1..Len(out) : EventOK(out, i)

Evs(out, ev) == {i \in DOMAIN out : out[i].ev = ev}

\* An event that begins no message and concerns no block fits anywhere.
LEMMA FittingGrows ==
  ASSUME NEW out, NEW n, NEW e, Fitting(out, n),
         e.ev \notin {"message_start", "block_start", "block_delta", "block_stop"}
  PROVE  Fitting(Append(out, e), n)
<1> DEFINE o == Append(out, e)
<1>1. /\ Len(out) \in Nat /\ IsSeq(o) /\ Len(o) = Len(out) + 1 /\ o[Len(out) + 1] = e
  BY Appended DEF Fitting
<1>2. \A i \in 1..Len(out) : EventOK(o, i)
  BY EventKept DEF Fitting
<1>3. IdsOK(o, n)
  BY IdsKept DEF Fitting
<1> HIDE DEF o
<1>4. EventOK(o, Len(out) + 1)
  <2>1. Len(out) + 1 # 1
    BY DEF Fitting
  <2> QED BY <1>1, <2>1 DEF EventOK
<1>5. \A i \in 1..Len(o) : i \in 1..Len(out) \/ i = Len(out) + 1
  BY <1>1
<1>6. Fitting(o, n)
  BY <1>1, <1>2, <1>3, <1>4, <1>5 DEF Fitting
<1> QED BY <1>6 DEF o

\* What is true of events that fit.
LEMMA FittingForms ==
  ASSUME NEW out, NEW n, Fitting(out, n)
  PROVE  /\ Evs(out, "message_start") = {1}
         /\ \A i \in Evs(out, "block_start") :
              /\ out[i].index = Cardinality({j \in Evs(out, "block_start") : j < i})
              /\ out[i - 1].ev \in {"message_start", "block_stop"}
              /\ \A j \in Evs(out, "block_start") \ {i} :
                   out[i].block.type = "tool_use" => out[j].block.id # out[i].block.id
         /\ \A i \in Evs(out, "block_delta") \cup Evs(out, "block_stop") : InBlock(out, i)
<1>1. DOMAIN out = 1..Len(out) /\ 1 \in 1..Len(out)
  BY Appended DEF Fitting
<1>2. Evs(out, "message_start") = {1}
  BY <1>1 DEF Fitting, EventOK, Evs
<1>3. ASSUME NEW i \in Evs(out, "block_start")
      PROVE  /\ out[i].index = Cardinality({j \in Evs(out, "block_start") : j < i})
             /\ out[i - 1].ev \in {"message_start", "block_stop"}
  <2>1. {j \in Evs(out, "block_start") : j < i} = Before(out, i)
    BY DEF Before, BlockStarts, Evs
  <2> QED BY <1>1, <2>1 DEF Fitting, EventOK, Evs, Between
<1>4. ASSUME NEW i \in Evs(out, "block_start"), NEW j \in Evs(out, "block_start") \ {i},
             out[i].block.type = "tool_use"
      PROVE  out[j].block.id # out[i].block.id
  BY <1>4 DEF Fitting, IdsOK, Evs, BlockStarts
<1>5. \A i \in Evs(out, "block_delta") \cup Evs(out, "block_stop") : InBlock(out, i)
  BY <1>1 DEF Fitting, EventOK, Evs
<1> QED BY <1>2, <1>3, <1>4, <1>5

\* Well formed: AnthropicWellFormed, as far as it is about the events.
Formed(out, closed) ==
  /\ Evs(out, "message_start") = {1}
  /\ \A i \in Evs(out, "block_start") :
       /\ out[i].index = Cardinality({j \in Evs(out, "block_start") : j < i})
       /\ out[i - 1].ev \in {"message_start", "block_stop"}
       /\ \A j \in Evs(out, "block_start") \ {i} :
            out[i].block.type = "tool_use" => out[j].block.id # out[i].block.id
  /\ \A i \in Evs(out, "block_delta") \cup Evs(out, "block_stop") : InBlock(out, i)
  /\ \A i \in Evs(out, "error") : i = Len(out)
  /\ \A i \in Evs(out, "message_delta") :
       /\ out[i - 1].ev \in {"message_start", "block_stop"}
       /\ i + 1 = Len(out) /\ out[i + 1].ev = "message_stop"
  /\ closed => (Evs(out, "message_stop") = {} <=> Evs(out, "error") # {})

\* A message that goes on, or that an error ended, is well formed.
LEMMA OpenForms ==
  ASSUME NEW out, NEW n, NEW f, EventsOK(out, f), IdsOK(out, n), NEW closed, closed => f
  PROVE  Formed(out, closed)
<1>1. DOMAIN out = 1..Len(out) /\ Len(out) \in 1..Len(out)
  BY Appended DEF EventsOK
<1>2. Fitting(out, n)
  BY DEF Fitting, EventsOK
<1>3. /\ \A i \in Evs(out, "error") : i = Len(out)
      /\ Evs(out, "message_delta") = {} /\ Evs(out, "message_stop") = {}
      /\ closed => Len(out) \in Evs(out, "error")
  BY <1>1 DEF EventsOK, Evs
<1> QED BY <1>2, <1>3, FittingForms DEF Formed

\* So is one that _close_anthropic_stream ends.
LEMMA EndForms ==
  ASSUME NEW out, NEW n, NEW d, NEW e, EventsOK(out, FALSE), IdsOK(out, n),
         out[Len(out)].ev \in Between, d.ev = "message_delta", e.ev = "message_stop"
  PROVE  Formed(Append(Append(out, d), e), TRUE)
<1> DEFINE o == Append(out, d)
           r == Append(o, e)
           k == Len(out)
<1>1. Fitting(out, n)
  BY DEF Fitting, EventsOK
<1>2. Fitting(o, n)
  BY <1>1, FittingGrows
<1>3. /\ k \in Nat /\ k >= 1 /\ DOMAIN out = 1..k /\ IsSeq(o) /\ Len(o) = k + 1
      /\ o[k + 1] = d /\ \A i \in 1..k : o[i] = out[i]
  BY <1>1, Appended DEF Fitting
<1> HIDE DEF o
<1>4. Fitting(r, n)
  BY <1>2, FittingGrows
<1>5. /\ DOMAIN r = 1..((k + 1) + 1) /\ Len(r) = (k + 1) + 1 /\ r[(k + 1) + 1] = e
      /\ \A i \in 1..(k + 1) : r[i] = o[i]
  BY <1>3, Appended
<1> HIDE DEF r, k
<1>6. /\ r[k + 2] = e /\ r[k + 1] = d /\ \A i \in 1..k : r[i] = out[i]
      /\ DOMAIN r = 1..(k + 2) /\ Len(r) = k + 2
  BY <1>3, <1>5
<1>7. \A i \in 1..k : out[i].ev \notin {"error", "message_delta", "message_stop"}
  BY DEF EventsOK, k
<1>8. \A i \in DOMAIN r : i \in 1..k \/ i = k + 1 \/ i = k + 2
  BY <1>3, <1>6
<1>9. Evs(r, "error") = {} /\ Evs(r, "message_delta") \subseteq {k + 1}
      /\ k + 2 \in Evs(r, "message_stop")
  BY <1>3, <1>6, <1>7, <1>8 DEF Evs
<1>10. r[(k + 1) - 1].ev \in {"message_start", "block_stop"} /\ r[(k + 1) + 1].ev = "message_stop"
  BY <1>3, <1>6 DEF Between, k
<1>11. \A i \in Evs(r, "message_delta") :
         /\ r[i - 1].ev \in {"message_start", "block_stop"}
         /\ i + 1 = Len(r) /\ r[i + 1].ev = "message_stop"
  BY <1>3, <1>6, <1>9, <1>10
<1>12. Formed(r, TRUE)
  BY <1>4, <1>9, <1>11, FittingForms DEF Formed
<1> QED BY <1>12 DEF r, o

\* The events after the end of the stream.
LEMMA CloseForms ==
  ASSUME NEW s, NEW n, StreamOK(s, n)
  PROVE  Formed(AnthropicClose(s).out, TRUE)
<1>1. CASE s.failed
  <2>1. AnthropicClose(s) = s
    BY <1>1 DEF AnthropicClose
  <2> QED BY <1>1, <2>1, OpenForms DEF StreamOK
<1>2. CASE ~s.failed
  <2> DEFINE stop == IF HasCalls(s.tools) /\ s.stop = "end_turn" THEN "tool_use" ELSE s.stop
             c == CloseBlock(s)
             x == [c EXCEPT !.stop = stop]
             d == [ev |-> "message_delta", stop |-> stop, usage |-> AnthropicUsage(x.usage)]
             e == [ev |-> "message_stop"]
  <2>1. AnthropicClose(s) = EndMessage(x, stop)
    BY <1>2 DEF AnthropicClose
  <2>2. EventsOK(s.out, FALSE) /\ IdsOK(s.out, n) /\ StateOK(s, n) /\ OpenOK(s)
    BY <1>2 DEF StreamOK, StateOK
  <2>3. /\ EventsOK(c.out, FALSE) /\ IdsOK(c.out, n) /\ StateOK(c, n)
        /\ c.out[Len(c.out)].ev \in Between
    BY <1>2, <2>2, CloseBlockKeeps
  <2> HIDE DEF c, stop
  <2>4. x.out = c.out /\ DOMAIN x = AnthropicFields
    BY <2>3 DEF StateOK, AnthropicFields
  <2>5. EndMessage(x, stop).out = Append(Append(c.out, d), e)
    <3> HIDE DEF x
    <3> QED BY <2>4 DEF EndMessage, WriteEvent, AnthropicFields
  <2>6. d.ev = "message_delta" /\ e.ev = "message_stop"
    OBVIOUS
  <2> HIDE DEF d, e
  <2> QED BY <2>1, <2>3, <2>5, <2>6, EndForms
<1> QED BY <1>1, <1>2

-----------------------------------------------------------------------------
(* The invariant. *)

LineFields == {"kind", "reasoning", "text", "tools", "finish", "usage", "model", "twin"}
SaidFields == {"reasoning", "text", "calls", "finish", "usage", "error", "calling"}

\* A line the upstream sends after n calls; m of them have begun with it.
Sent(l, n, m, calling) ==
  /\ DOMAIN l = LineFields /\ Tells(l, n, m, calling)
  /\ l.kind \in {"noise", "error"} => l.reasoning = <<>> /\ l.text = <<>> /\ l.tools = <<>>

\* Of an ended reply the whole message is well formed; of another the events
\* are, and the translator's state fits them and the calls that were heard.
AnthropicInv ==
  dialect = "anthropic" =>
    /\ IsSeq(said.calls) /\ DOMAIN said = SaidFields
    /\ said.calling => Len(said.calls) >= 1
    /\ IF phase = "closed" THEN Formed(stream.out, TRUE)
       ELSE /\ StreamOK(stream, Len(said.calls))
            /\ said.calling => Calling(stream, Len(said.calls))

\* One line more is heard.
LEMMA Heard ==
  ASSUME NEW r, NEW l, NEW m \in Nat, IsSeq(r.calls), DOMAIN r = SaidFields,
         Sent(l, Len(r.calls), m, r.calling), r.calling => Len(r.calls) >= 1
  PROVE  LET h == Hear(r, l)
         IN  /\ IsSeq(h.calls) /\ DOMAIN h = SaidFields /\ Len(h.calls) = m
             /\ h.calling => m >= 1
             /\ h.calling => \/ l.tools # <<>>
                             \/ r.calling /\ l.reasoning = <<>> /\ l.text = <<>>
<1> DEFINE h == Hear(r, l)
           n == Len(r.calls)
<1>1. n \in Nat
  BY Appended
<1>2. ASSUME NEW calls, IsSeq(calls), NEW d, d.index = Len(calls)
      PROVE  IsSeq(HearCall(calls, d)) /\ Len(HearCall(calls, d)) = Len(calls) + 1
  <2> DEFINE e == [id |-> d.id, name |-> d.name, args |-> d.args]
  <2>1. Len(calls) \in Nat
    BY <1>2, Appended
  <2>2. HearCall(calls, d) = Append(calls, e)
    BY <1>2, <2>1 DEF HearCall
  <2> HIDE DEF e
  <2> QED BY <1>2, <2>2, Appended
<1>3. ASSUME NEW d, n >= 1, d.index = n - 1
      PROVE  IsSeq(HearCall(r.calls, d)) /\ Len(HearCall(r.calls, d)) = n
  <2> DEFINE c == r.calls
             x == [c[n] EXCEPT !.args = @ \o d.args]
  <2>1. PICK S : c \in Seq(S)
    BY DEF IsSeq
  <2>2. HearCall(c, d) = [c EXCEPT ![n] = x]
    BY <1>1, <1>3 DEF HearCall
  <2> DEFINE T == S \cup {x}
  <2>3. c \in Seq(T) /\ x \in T /\ n = Len(c) /\ n \in Nat /\ n >= 1
    <3>1. n = Len(c) /\ n \in Nat /\ n >= 1
      BY <1>1, <1>3
    <3> HIDE DEF x, c, n
    <3>2. c \in Seq(T) /\ x \in T
      BY <2>1
    <3> QED BY <3>1, <3>2
  <2> HIDE DEF x, c, T, n
  <2>4. [c EXCEPT ![n] = x] \in Seq(T) /\ Len([c EXCEPT ![n] = x]) = Len(c)
    BY <2>3
  <2> QED BY <2>2, <2>3, <2>4 DEF IsSeq, c
<1> DEFINE calls == IF l.kind = "error" THEN r.calls ELSE FoldLeft(HearCall, r.calls, l.tools)
<1>4. IsSeq(calls) /\ Len(calls) = m /\ (l.tools # <<>> => m >= 1)
  <2>1. CASE l.tools = <<>>
    <3>1. DOMAIN <<>> = {}
      OBVIOUS
    <3>2. FoldLeft(HearCall, r.calls, <<>>) = r.calls
      BY <3>1, HearCalls
    <3>3. m = n
      BY <2>1 DEF Sent, Tells
    <3> QED BY <2>1, <3>2, <3>3
  <2>2. ASSUME NEW d, l.tools = <<d>>, Begins(d, n), m = n + 1
        PROVE  IsSeq(calls) /\ Len(calls) = m /\ m >= 1
    <3>1. DOMAIN <<d>> = {1} /\ {1} # {} /\ <<d>>[1] = d /\ <<d>> # <<>>
      OBVIOUS
    <3>2. calls = HearCall(r.calls, d)
      BY <2>2, <3>1, HearCalls DEF Sent
    <3>3. IsSeq(HearCall(r.calls, d)) /\ Len(HearCall(r.calls, d)) = n + 1
      BY <1>2, <2>2 DEF Begins
    <3> HIDE DEF calls, n
    <3> QED BY <1>1, <2>2, <3>2, <3>3
  <2>3. ASSUME NEW d, NEW e, l.tools = <<d, e>>, Begins(d, n), Begins(e, n + 1), m = n + 2
        PROVE  IsSeq(calls) /\ Len(calls) = m /\ m >= 1
    <3> DEFINE c == HearCall(r.calls, d)
    <3>1. /\ DOMAIN <<d, e>> = {1, 2} /\ {1, 2} # {} /\ {1, 2} # {1} /\ <<d, e>> # <<>>
          /\ <<d, e>>[1] = d /\ <<d, e>>[2] = e
      OBVIOUS
    <3>2. calls = HearCall(c, e)
      BY <2>3, <3>1, HearCalls DEF Sent
    <3>3. IsSeq(c) /\ Len(c) = n + 1
      BY <1>2, <2>3 DEF Begins
    <3> HIDE DEF c
    <3>4. IsSeq(HearCall(c, e)) /\ Len(HearCall(c, e)) = (n + 1) + 1
      BY <1>2, <2>3, <3>3 DEF Begins
    <3> HIDE DEF calls, n
    <3> QED BY <1>1, <2>3, <3>2, <3>4
  <2>4. ASSUME NEW d, l.tools = <<d>>, Continues(d, n - 1), n >= 1, m = n
        PROVE  IsSeq(calls) /\ Len(calls) = m /\ m >= 1
    <3>1. DOMAIN <<d>> = {1} /\ {1} # {} /\ <<d>>[1] = d /\ <<d>> # <<>>
      OBVIOUS
    <3>2. calls = HearCall(r.calls, d)
      BY <2>4, <3>1, HearCalls DEF Sent
    <3>3. IsSeq(HearCall(r.calls, d)) /\ Len(HearCall(r.calls, d)) = n
      BY <1>3, <2>4 DEF Continues
    <3> HIDE DEF calls, n
    <3> QED BY <1>1, <2>4, <3>2, <3>3
  <2> HIDE DEF calls, n
  <2> QED BY <2>1, <2>2, <2>3, <2>4 DEF Sent, Tells, n
<1>5. h.calls = calls /\ DOMAIN h = SaidFields
  BY DEF Hear, SaidFields
<1>6. h.calling => l.tools # <<>> \/ (r.calling /\ l.kind \in {"noise", "error"})
  BY DEF Hear, SaidFields
<1>7. r.calling /\ l.tools = <<>> => m >= 1
  BY DEF Sent, Tells
<1> HIDE DEF h, calls
<1> QED BY <1>4, <1>5, <1>6, <1>7 DEF Sent, h

\* Restoring the model leaves the rest of the line as it was.
LEMMA RestoredKeeps ==
  ASSUME NEW l, DOMAIN l = LineFields
  PROVE  LET r == Restored(l)
         IN  r.kind = l.kind /\ r.reasoning = l.reasoning /\ r.text = l.text /\ r.tools = l.tools
BY DEF Restored, LineFields

\* The lines of the reply are what Sent says.
LEMMA ContentSent ==
  ASSUME NEW line \in ContentLines, IsSeq(said.calls), said.calling => Len(said.calls) >= 1
  PROVE  \E m \in Nat : Sent(line, Len(said.calls), m, said.calling)
<1> DEFINE n == Len(said.calls)
           one == CHOOSE t \in Tools : TRUE
           L(r, t, tools) == [BlankLine EXCEPT !.reasoning = r, !.text = t, !.tools = tools]
<1>1. n \in Nat /\ n + 1 \in Nat /\ n + 2 \in Nat
  BY Appended
<1>2. one \in Tools /\ \A t \in Tools : t # None
  BY StreamAssumption
<1> HIDE DEF one
<1>3. \A t \in Tools : Begins(Call(n, t), n) /\ Begins(BareCall(n, t), n)
  BY <1>2 DEF Begins, Call, BareCall
<1>4. \A t \in Tools : Begins(Call(n + 1, t), n + 1)
  BY <1>2 DEF Begins, Call
<1>5. Continues(Fragment(n - 1), n - 1)
  BY DEF Continues, Fragment
<1> HIDE DEF n
<1>6. ASSUME NEW r, NEW t, NEW tools
      PROVE  LET l == L(r, t, tools)
             IN  /\ DOMAIN l = LineFields /\ l.kind = "chunk"
                 /\ l.reasoning = r /\ l.text = t /\ l.tools = tools
  BY DEF BlankLine, LineFields
<1> HIDE DEF L
<1>7. ASSUME NEW r, NEW t
      PROVE  Sent(L(r, t, <<>>), n, n, said.calling)
  BY <1>6 DEF Sent, Tells
<1>8. ASSUME NEW r, NEW t, NEW d, Begins(d, n)
      PROVE  Sent(L(r, t, <<d>>), n, n + 1, said.calling)
  BY <1>6, <1>8 DEF Sent, Tells
<1>9. ASSUME NEW r, NEW t, NEW d, Begins(d, n), NEW e, Begins(e, n + 1)
      PROVE  Sent(L(r, t, <<d, e>>), n, n + 2, said.calling)
  BY <1>6, <1>9 DEF Sent, Tells
<1>10. ASSUME said.calling
       PROVE  Sent(L(<<>>, <<>>, <<Fragment(n - 1)>>), n, n, said.calling)
  BY <1>5, <1>6, <1>10 DEF Sent, Tells, n
<1>11. Sent([BlankLine EXCEPT !.kind = "noise"], n, n, said.calling)
  BY DEF Sent, Tells, BlankLine, LineFields
<1>12. \/ line = L(Piece, <<>>, <<>>) \/ line = L(<<>>, Piece, <<>>) \/ line = L(Piece, Piece, <<>>)
       \/ line = L(<<>>, <<>>, <<BareCall(n, one)>>)
       \/ line = L(<<>>, Piece, <<Call(n, one), Call(n + 1, one)>>)
       \/ \E t \in Tools : line = L(<<>>, <<>>, <<Call(n, t)>>)
       \/ line = [BlankLine EXCEPT !.kind = "noise"]
       \/ said.calling /\ line = L(<<>>, <<>>, <<Fragment(n - 1)>>)
  BY DEF ContentLines, L, n, one
<1> HIDE DEF Piece, Call, BareCall, Fragment
<1>13. \E m \in Nat : Sent(line, n, m, said.calling)
  <2>1. CASE \/ line = L(Piece, <<>>, <<>>) \/ line = L(<<>>, Piece, <<>>)
             \/ line = L(Piece, Piece, <<>>)
    BY <1>1, <1>7, <2>1
  <2>2. CASE line = L(<<>>, <<>>, <<BareCall(n, one)>>)
    BY <1>1, <1>2, <1>3, <1>8, <2>2
  <2>3. CASE line = L(<<>>, Piece, <<Call(n, one), Call(n + 1, one)>>)
    BY <1>1, <1>2, <1>3, <1>4, <1>9, <2>3
  <2>4. CASE \E t \in Tools : line = L(<<>>, <<>>, <<Call(n, t)>>)
    BY <1>1, <1>3, <1>8, <2>4
  <2>5. CASE line = [BlankLine EXCEPT !.kind = "noise"]
    BY <1>1, <1>11, <2>5
  <2>6. CASE said.calling /\ line = L(<<>>, <<>>, <<Fragment(n - 1)>>)
    BY <1>1, <1>10, <2>6
  <2> QED BY <1>12, <2>1, <2>2, <2>3, <2>4, <2>5, <2>6
<1> QED BY <1>13 DEF n

\* The other lines tell of no call.
LEMMA ControlSent ==
  ASSUME NEW line, \/ line \in ControlLines \/ line = [BlankLine EXCEPT !.kind = "error"],
         NEW n
  PROVE  Sent(line, n, n, said.calling)
<1>1. \/ \E f \in {"stop", "length", "tool_calls"} : line = [BlankLine EXCEPT !.finish = f]
      \/ line = [BlankLine EXCEPT !.kind = "error"]
      \/ line = [BlankLine EXCEPT !.usage = Usage]
  BY DEF ControlLines, FinishReasons
<1> QED BY <1>1 DEF Sent, Tells, BlankLine, LineFields

\* A line received by the gateway and heard by the client.
LEMMA ReceiveStep ==
  ASSUME AnthropicInv, phase = "open", dialect = "anthropic",
         NEW line, NEW m \in Nat, Sent(line, Len(said.calls), m, said.calling),
         said' = Hear(said, line), phase' = phase, dialect' = dialect,
         \/ stream' = Translate(stream, Restored(line)) \/ stream' = Translate(stream, line)
  PROVE  AnthropicInv'
<1> DEFINE n == Len(said.calls)
<1>1. /\ IsSeq(said.calls) /\ DOMAIN said = SaidFields /\ (said.calling => n >= 1)
      /\ StreamOK(stream, n) /\ (said.calling => Calling(stream, n)) /\ n \in Nat
  BY Appended DEF AnthropicInv
<1>2. /\ IsSeq(said'.calls) /\ DOMAIN said' = SaidFields /\ Len(said'.calls) = m
      /\ said'.calling => m >= 1
      /\ said'.calling => \/ line.tools # <<>>
                          \/ said.calling /\ line.reasoning = <<>> /\ line.text = <<>>
  BY <1>1, Heard
<1>3. PICK l : /\ stream' = AnthropicLine(stream, l) /\ l.tools = line.tools
               /\ l.reasoning = line.reasoning /\ l.text = line.text
  <2>1. DOMAIN line = LineFields
    BY DEF Sent
  <2> QED BY <2>1, RestoredKeeps DEF Translate
<1>4. Tells(l, n, m, said.calling)
  BY <1>3 DEF Sent, Tells
<1> HIDE DEF n
<1>5. /\ StreamOK(stream', m)
      /\ l.tools # <<>> => Calling(stream', m)
      /\ (said.calling /\ l.reasoning = <<>> /\ l.text = <<>>) => Calling(stream', m)
  BY <1>1, <1>3, <1>4, LineKeeps
<1> QED BY <1>2, <1>3, <1>5 DEF AnthropicInv

\* A reply begins with message_start.
LEMMA StartOK ==
  ASSUME NEW thinking
  PROVE  StreamOK(AnthropicStart(thinking), 0) /\ IsSeq(Silence.calls)
         /\ DOMAIN Silence = SaidFields /\ Len(Silence.calls) = 0 /\ Silence.calling = FALSE
<1> DEFINE s == AnthropicStart(thinking)
           e == [ev |-> "message_start"]
<1>1. /\ DOMAIN s = AnthropicFields /\ s.out = <<e>> /\ s.failed = FALSE /\ s.next = 0
      /\ s.open = None /\ s.textAt = None /\ s.thinkingAt = None
      /\ s.tools = <<>> /\ s.toolBlock = <<>>
  BY DEF AnthropicStart, AnthropicFields, NoCalls
<1>2. e.ev = "message_start"
  OBVIOUS
<1> HIDE DEF s, e
<1>3. /\ IsSeq(s.out) /\ Len(s.out) = 1 /\ DOMAIN s.out = 1..1 /\ s.out[1] = e
  <2>1. <<e>> \in Seq({e}) /\ Len(<<e>>) = 1 /\ DOMAIN <<e>> = 1..1 /\ <<e>>[1] = e
    OBVIOUS
  <2> QED BY <1>1, <2>1 DEF IsSeq
<1>4. BlockStarts(s.out) = {} /\ IsFiniteSet({}) /\ Cardinality(BlockStarts(s.out)) = 0
  <2>1. BlockStarts(s.out) = {}
    BY <1>2, <1>3 DEF BlockStarts
  <2> QED BY <2>1, FS_EmptySet
<1>5. EventsOK(s.out, FALSE)
  BY <1>2, <1>3, <1>4 DEF EventsOK, EventOK
<1>6. IdsOK(s.out, 0)
  BY <1>4 DEF IdsOK
<1>7. StateOK(s, 0)
  <2>1. DOMAIN s.tools = {} /\ DOMAIN s.toolBlock = {}
    <3>1. DOMAIN <<>> = {}
      OBVIOUS
    <3> QED BY <1>1, <3>1
  <2>2. Known(s.open, s.next) /\ Known(s.textAt, s.next) /\ Known(s.thinkingAt, s.next)
    BY <1>1 DEF Known
  <2>3. s.next = Cardinality(BlockStarts(s.out)) /\ s.next \in Nat /\ s.failed \in BOOLEAN
    <3>1. s.next = Cardinality(BlockStarts(s.out)) /\ s.next \in Nat
      BY <1>1, <1>4
    <3>2. s.failed \in BOOLEAN
      BY <1>1
    <3> QED BY <3>1, <3>2
  <2>4. /\ DOMAIN s.tools \subseteq 0..(0 - 1) /\ DOMAIN s.toolBlock \subseteq DOMAIN s.tools
        /\ \A t \in DOMAIN s.toolBlock : s.toolBlock[t] \in Nat /\ s.toolBlock[t] < s.next
        /\ \A k \in DOMAIN s.tools : s.tools[k].id = <<>> \/ \E p : s.tools[k].id = <<"id", p, k>>
    BY <2>1
  <2> QED BY <1>1, <2>2, <2>3, <2>4 DEF StateOK
<1>8. OpenOK(s)
  BY <1>1, <1>2, <1>3 DEF OpenOK, Between
<1>9. IsSeq(Silence.calls) /\ DOMAIN Silence = SaidFields /\ Len(Silence.calls) = 0
      /\ Silence.calling = FALSE
  <2>1. <<>> \in Seq({})
    OBVIOUS
  <2>2. Silence.calls = <<>>
    BY DEF Silence
  <2>3. IsSeq(Silence.calls) /\ Len(Silence.calls) = 0
    BY <2>1, <2>2 DEF IsSeq
  <2> QED BY <2>3 DEF Silence, SaidFields
<1> QED BY <1>1, <1>5, <1>6, <1>7, <1>8, <1>9 DEF StreamOK, s

\* It is so in every initial state.
LEMMA InitAnthropic == Init => AnthropicInv
<1> SUFFICES ASSUME Init, dialect = "anthropic"
             PROVE  AnthropicInv
  BY DEF AnthropicInv
<1>1. said = Silence /\ stream = AnthropicStart(Thinking)
  BY DEF Init, Start
<1>2. phase # "closed"
  BY DEF Init, Send
<1> QED BY <1>1, <1>2, StartOK DEF AnthropicInv

\* It is kept by every step.
LEMMA NextAnthropic == AnthropicInv /\ [Next]_vars => AnthropicInv'
<1> SUFFICES ASSUME AnthropicInv, [Next]_vars
             PROVE  AnthropicInv'
  OBVIOUS
<1>1. CASE UNCHANGED vars
  BY <1>1 DEF AnthropicInv, vars
<1>2. CASE dialect' # "anthropic"
  BY <1>2 DEF AnthropicInv
<1>3. CASE Opened
  BY <1>3 DEF AnthropicInv, Opened, client
<1>4. ASSUME Content, dialect' = "anthropic"
      PROVE  AnthropicInv'
  <2>1. PICK line \in ContentLines : Receive(line)
    BY <1>4 DEF Content
  <2>2. dialect = "anthropic" /\ dialect' = dialect /\ phase' = phase /\ phase = "open"
    BY <1>4, <2>1 DEF Content, Receive, client
  <2>3. IsSeq(said.calls) /\ (said.calling => Len(said.calls) >= 1)
    BY <2>2 DEF AnthropicInv
  <2>4. PICK m \in Nat : Sent(line, Len(said.calls), m, said.calling)
    BY <2>3, ContentSent
  <2>5. said' = Hear(said, line) /\ stream' = Translate(stream, Restored(line))
    BY <2>1 DEF Receive
  <2> QED BY <2>2, <2>4, <2>5, ReceiveStep
<1>5. ASSUME Control, dialect' = "anthropic"
      PROVE  AnthropicInv'
  <2>1. PICK line \in ControlLines : Receive(line)
    BY <1>5 DEF Control
  <2>2. dialect = "anthropic" /\ dialect' = dialect /\ phase' = phase /\ phase = "open"
    BY <1>5, <2>1 DEF Control, Receive, client
  <2>3. Len(said.calls) \in Nat
    BY <2>2, Appended DEF AnthropicInv
  <2>4. Sent(line, Len(said.calls), Len(said.calls), said.calling)
    BY ControlSent
  <2>5. said' = Hear(said, line) /\ stream' = Translate(stream, Restored(line))
    BY <2>1 DEF Receive
  <2> QED BY <2>2, <2>3, <2>4, <2>5, ReceiveStep
<1>6. ASSUME Breaks, dialect' = "anthropic"
      PROVE  AnthropicInv'
  <2>1. PICK line : /\ line = [BlankLine EXCEPT !.kind = "error"]
                    /\ stream' = Translate(stream, line) /\ said' = Hear(said, line)
    BY <1>6 DEF Breaks
  <2>2. dialect = "anthropic" /\ dialect' = dialect /\ phase' = phase /\ phase = "open"
    BY <1>6 DEF Breaks, client
  <2>3. Len(said.calls) \in Nat
    BY <2>2, Appended DEF AnthropicInv
  <2>4. Sent(line, Len(said.calls), Len(said.calls), said.calling)
    BY <2>1, ControlSent
  <2> QED BY <2>1, <2>2, <2>3, <2>4, ReceiveStep
<1>7. ASSUME End, dialect' = "anthropic"
      PROVE  AnthropicInv'
  <2>1. /\ dialect = "anthropic" /\ phase = "open" /\ phase' = "closed" /\ said' = said
        /\ stream' = AnthropicClose(stream)
    BY <1>7 DEF End, client, Close
  <2>2. Formed(AnthropicClose(stream).out, TRUE)
    BY <2>1, CloseForms DEF AnthropicInv
  <2> QED BY <2>1, <2>2 DEF AnthropicInv
<1>8. ASSUME NEW f, Fails(f)
      PROVE  AnthropicInv'
  BY <1>8 DEF AnthropicInv, Fails, client
<1>9. ASSUME NEW backwards, NEW more, NEW keys, NextTurn(backwards, more, keys),
             dialect' = "anthropic"
      PROVE  AnthropicInv'
  <2>1. said' = Silence /\ stream' = AnthropicStart(Thinking)
    BY <1>9 DEF NextTurn, Start
  <2>2. phase' # "closed"
    BY <1>9 DEF NextTurn, Send
  <2> QED BY <2>1, <2>2, StartOK DEF AnthropicInv
<1> QED BY <1>1, <1>2, <1>3, <1>4, <1>5, <1>6, <1>7, <1>8, <1>9 DEF Next

\* The invariant says what AnthropicWellFormed asks.
LEMMA InvForms == AnthropicInv => AnthropicWellFormed
<1> SUFFICES ASSUME AnthropicInv, dialect = "anthropic"
             PROVE  AnthropicWellFormed
  BY DEF AnthropicWellFormed
<1>1. Formed(stream.out, phase = "closed")
  <2>1. CASE phase = "closed"
    BY <2>1 DEF AnthropicInv
  <2>2. CASE phase # "closed"
    BY <2>2, OpenForms DEF AnthropicInv, StreamOK
  <2> QED BY <2>1, <2>2
<1> DEFINE out == stream.out
<1>2. /\ Events("message_start") = Evs(out, "message_start")
      /\ Events("block_start") = Evs(out, "block_start")
      /\ Events("block_delta") = Evs(out, "block_delta")
      /\ Events("block_stop") = Evs(out, "block_stop")
      /\ Events("message_delta") = Evs(out, "message_delta")
      /\ Events("message_stop") = Evs(out, "message_stop")
      /\ Events("error") = Evs(out, "error")
  BY DEF Events, Evs
<1>3. \A i : InBlock(out, i) =>
        \E j \in Evs(out, "block_start") :
          /\ j < i /\ out[j].index = out[i].index
          /\ \A k \in (j + 1)..(i - 1) : out[k].ev = "block_delta"
          /\ out[i].ev = "block_delta" => out[i].type = DeltaOf[out[j].block.type]
  BY DEF InBlock, BlockStarts, Evs
<1>4. \A i \in Evs(out, "block_delta") \cup Evs(out, "block_stop") : InBlock(out, i)
  BY <1>1 DEF Formed
<1>5. \A i \in Events("block_delta") \cup Events("block_stop") :
        \E j \in Events("block_start") :
          /\ j < i /\ out[j].index = out[i].index
          /\ \A k \in (j + 1)..(i - 1) : out[k].ev = "block_delta"
          /\ out[i].ev = "block_delta" => out[i].type = DeltaOf[out[j].block.type]
  BY <1>2, <1>3, <1>4
<1>6. \A i \in Events("block_start") :
        /\ out[i].index = Cardinality({j \in Events("block_start") : j < i})
        /\ out[i - 1].ev \in {"message_start", "block_stop"}
        /\ \A j \in Events("block_start") \ {i} :
             out[i].block.type = "tool_use" => out[j].block.id # out[i].block.id
  BY <1>1, <1>2 DEF Formed
<1>7. /\ Events("message_start") = {1}
      /\ \A i \in Events("error") : i = Len(out)
      /\ \A i \in Events("message_delta") :
           /\ out[i - 1].ev \in {"message_start", "block_stop"}
           /\ i + 1 = Len(out) /\ out[i + 1].ev = "message_stop"
      /\ phase = "closed" => (Events("message_stop") = {} <=> Events("error") # {})
  BY <1>1, <1>2 DEF Formed
<1> QED BY <1>5, <1>6, <1>7 DEF AnthropicWellFormed

\* The Anthropic events form a message, whatever the upstream sends of text,
\* reasoning and calls, in whatever order, for any tools and any number of lines
\* and turns: _open_block, _close_open_block and the delta writers keep the blocks
\* apart (services/anthropic_proxy.py).
THEOREM AnthropicFormed == Spec => []AnthropicWellFormed
<1>1. AnthropicInv /\ [Next]_vars => AnthropicInv'
  BY NextAnthropic
<1> QED BY InitAnthropic, <1>1, InvForms, PTL DEF Spec

-----------------------------------------------------------------------------
(* The Responses events.                                                   *)

Deltas == {"text_delta", "summary_delta", "args_delta"}
Dones == {"text_done", "part_done", "summary_text_done", "summary_done", "args_done"}

Adds(out) == {i \in DOMAIN out : out[i].ev = "item_added"}
Ends(out) == {i \in DOMAIN out : out[i].ev = "item_done"}

\* What the client was sent of the item added at j, until i.
SentPieces(out, j, i) ==
  [k \in 1..(i - j) |-> IF out[j + k].at = out[j].at /\ out[j + k].ev \in Deltas
                        THEN out[j + k].body ELSE <<>>]
SentOf(out, j, i) == FlattenSeq(SentPieces(out, j, i))

-----------------------------------------------------------------------------
(* Sequences and their concatenation. *)

\* What holds of 0 and goes on to the next number holds of all.
LEMMA SetInduction ==
  ASSUME NEW S, 0 \in S, \A n \in Nat : n \in S => n + 1 \in S
  PROVE  \A n \in Nat : n \in S
<1> DEFINE R == {ss \in Nat \X Nat : ss[1] < ss[2]}
           T == {n \in Nat : n \notin S}
<1> SUFFICES ASSUME T # {}
             PROVE  FALSE
  OBVIOUS
<1>1. IsWellFoundedOn(R, Nat)
  BY NatLessThanWellFounded DEF OpToRel
<1>2. PICK m \in T : \A n \in T : ~(<<n, m>> \in R)
  BY <1>1, WFMin
<1>3. m \in Nat /\ m # 0 /\ m - 1 \in Nat /\ (m - 1) + 1 = m
  BY <1>2
<1>4. m - 1 \in S
  <2>1. <<m - 1, m>> \in R
    BY <1>3
  <2> QED BY <1>2, <1>3, <2>1
<1> QED BY <1>2, <1>3, <1>4

\* The function that FlattenSeq is defined with, of the first n sequences.
Flattens(f, ss, n) == f = [i \in 1..n |-> IF i = 1 THEN ss[i] ELSE f[i - 1] \o ss[i]]

\* It exists, however many there are.
LEMMA FlattensExists ==
  ASSUME NEW ss, NEW n \in Nat
  PROVE  \E f : Flattens(f, ss, n)
<1> DEFINE S == {m \in Nat : \E f : Flattens(f, ss, m)}
<1>1. 0 \in S
  <2>1. Flattens([i \in 1..0 |-> i], ss, 0)
    BY DEF Flattens
  <2> QED BY <2>1
<1>2. ASSUME NEW m \in Nat, m \in S
      PROVE  m + 1 \in S
  <2>1. PICK f : Flattens(f, ss, m)
    BY <1>2
  <2>2. \A i \in 1..m : f[i] = IF i = 1 THEN ss[i] ELSE f[i - 1] \o ss[i]
    <3>1. f = [i \in 1..m |-> IF i = 1 THEN ss[i] ELSE f[i - 1] \o ss[i]]
      BY <2>1 DEF Flattens
    <3> QED BY <3>1
  <2> DEFINE last == IF m + 1 = 1 THEN ss[m + 1] ELSE f[m] \o ss[m + 1]
             g == [i \in 1..(m + 1) |-> IF i = m + 1 THEN last ELSE f[i]]
  <2>3. g[m + 1] = last /\ \A i \in 1..m : g[i] = f[i]
    <3> HIDE DEF last
    <3> QED OBVIOUS
  <2> HIDE DEF last, g
  <2>4. ASSUME NEW i \in 1..(m + 1)
        PROVE  g[i] = IF i = 1 THEN ss[i] ELSE g[i - 1] \o ss[i]
    <3>1. CASE i = m + 1 /\ i # 1
      <4>1. g[i - 1] = f[m]
        BY <2>3, <3>1
      <4> QED BY <2>3, <3>1, <4>1 DEF last
    <3>2. CASE i = m + 1 /\ i = 1
      BY <2>3, <3>2 DEF last
    <3>3. CASE i \in 1..m /\ i = 1
      BY <2>2, <2>3, <3>3
    <3>4. CASE i \in 1..m /\ i # 1
      <4>1. g[i - 1] = f[i - 1]
        BY <2>3, <3>4
      <4> QED BY <2>2, <2>3, <3>4, <4>1
    <3> QED BY <3>1, <3>2, <3>3, <3>4
  <2>5. g = [i \in 1..(m + 1) |-> g[i]]
    BY DEF g
  <2>6. Flattens(g, ss, m + 1)
    BY <2>4, <2>5 DEF Flattens
  <2> QED BY <2>6
<1>3. n \in S
  <2> HIDE DEF S
  <2> QED BY <1>1, <1>2, SetInduction
<1> QED BY <1>3

\* Two such functions agree where the sequences do.
LEMMA FlattensUnique ==
  ASSUME NEW ss, NEW tt, NEW n \in Nat, NEW m \in Nat, NEW f, NEW g,
         Flattens(f, ss, n), Flattens(g, tt, m), n <= m, \A i \in 1..n : tt[i] = ss[i]
  PROVE  \A i \in 1..n : g[i] = f[i]
<1>1. \A i \in 1..n : f[i] = IF i = 1 THEN ss[i] ELSE f[i - 1] \o ss[i]
  <2>1. f = [i \in 1..n |-> IF i = 1 THEN ss[i] ELSE f[i - 1] \o ss[i]]
    BY DEF Flattens
  <2> QED BY <2>1
<1>2. \A i \in 1..n : g[i] = IF i = 1 THEN ss[i] ELSE g[i - 1] \o ss[i]
  <2>1. g = [i \in 1..m |-> IF i = 1 THEN tt[i] ELSE g[i - 1] \o tt[i]]
    BY DEF Flattens
  <2>2. \A i \in 1..m : g[i] = IF i = 1 THEN tt[i] ELSE g[i - 1] \o tt[i]
    BY <2>1
  <2> QED BY <2>2
<1> DEFINE S == {i \in Nat : i \in 1..n => g[i] = f[i]}
<1>3. 0 \in S
  OBVIOUS
<1>4. ASSUME NEW i \in Nat, i \in S
      PROVE  i + 1 \in S
  <2>1. (i + 1) - 1 = i
    OBVIOUS
  <2> QED BY <1>1, <1>2, <1>4, <2>1
<1>5. \A i \in Nat : i \in S
  <2> HIDE DEF S
  <2> QED BY <1>3, <1>4, SetInduction
<1> QED BY <1>5

\* Two sequences with the same length and the same elements are the same.
LEMMA SameSeq ==
  ASSUME NEW s, NEW t, IsSeq(s), IsSeq(t), Len(s) = Len(t), \A i \in 1..Len(s) : s[i] = t[i]
  PROVE  s = t
<1>1. PICK S : s \in Seq(S)
  BY DEF IsSeq
<1>2. PICK T : t \in Seq(T)
  BY DEF IsSeq
<1> QED BY <1>1, <1>2

\* A concatenation is a sequence; the empty one adds nothing.
LEMMA Concatenated ==
  ASSUME NEW s, NEW t, IsSeq(s), IsSeq(t)
  PROVE  IsSeq(s \o t) /\ s \o <<>> = s /\ <<>> \o s = s
<1>1. PICK S : s \in Seq(S)
  BY DEF IsSeq
<1>2. PICK T : t \in Seq(T)
  BY DEF IsSeq
<1> DEFINE U == S \cup T
<1>3. s \in Seq(U) /\ t \in Seq(U)
  BY <1>1, <1>2
<1> HIDE DEF U
<1>4. s \o t \in Seq(U)
  BY <1>3
<1> QED BY <1>1, <1>4 DEF IsSeq

\* One sequence more at the end is concatenated at the end.
LEMMA FlattenAppend ==
  ASSUME NEW ss, NEW x, IsSeq(ss), IsSeq(x)
  PROVE  FlattenSeq(Append(ss, x)) = FlattenSeq(ss) \o x
<1> DEFINE tt == Append(ss, x)
           n == Len(ss)
<1>1. /\ IsSeq(tt) /\ n \in Nat /\ Len(tt) = n + 1 /\ tt[n + 1] = x
      /\ \A i \in 1..n : tt[i] = ss[i]
  BY Appended
<1> DEFINE F == CHOOSE f : Flattens(f, ss, n)
           G == CHOOSE f : Flattens(f, tt, n + 1)
<1>2. FlattenSeq(ss) = IF n = 0 THEN ss ELSE F[n]
  BY DEF FlattenSeq, Flattens
<1>3. FlattenSeq(tt) = G[n + 1]
  <2>1. FlattenSeq(tt) = IF Len(tt) = 0 THEN tt ELSE (CHOOSE f : Flattens(f, tt, Len(tt)))[Len(tt)]
    BY DEF FlattenSeq, Flattens
  <2> HIDE DEF tt, n
  <2> QED BY <1>1, <2>1
<1>4. Flattens(F, ss, n) /\ Flattens(G, tt, n + 1)
  <2> HIDE DEF tt, n
  <2>1. \E f : Flattens(f, ss, n)
    BY <1>1, FlattensExists
  <2>2. \E f : Flattens(f, tt, n + 1)
    <3>1. n + 1 \in Nat
      BY <1>1
    <3> QED BY <3>1, FlattensExists
  <2> QED BY <2>1, <2>2
<1> HIDE DEF F, G, tt
<1>5. G[n + 1] = IF n + 1 = 1 THEN tt[n + 1] ELSE G[n] \o tt[n + 1]
  <2>1. G = [i \in 1..(n + 1) |-> IF i = 1 THEN tt[i] ELSE G[i - 1] \o tt[i]]
    BY <1>4 DEF Flattens
  <2> HIDE DEF n
  <2>2. \A i \in 1..(n + 1) : G[i] = IF i = 1 THEN tt[i] ELSE G[i - 1] \o tt[i]
    BY <2>1
  <2>3. n + 1 \in 1..(n + 1) /\ (n + 1) - 1 = n
    BY <1>1
  <2> QED BY <2>2, <2>3
<1>6. n # 0 => G[n] = F[n]
  <2> HIDE DEF n
  <2> QED BY <1>1, <1>4, FlattensUnique
<1>7. n = 0 => ss = <<>>
  <2>1. PICK S : ss \in Seq(S)
    BY DEF IsSeq
  <2> QED BY <2>1
<1>8. <<>> \o x = x
  BY Concatenated
<1> HIDE DEF n
<1>9. FlattenSeq(tt) = FlattenSeq(ss) \o x
  <2>1. CASE n = 0
    <3>1. FlattenSeq(ss) = <<>>
      BY <1>2, <1>7, <2>1
    <3>2. FlattenSeq(tt) = x
      BY <1>1, <1>3, <1>5, <2>1
    <3> QED BY <1>8, <3>1, <3>2
  <2>2. CASE n # 0
    <3>1. FlattenSeq(ss) = G[n]
      BY <1>2, <1>6, <2>2
    <3>2. FlattenSeq(tt) = G[n] \o x
      BY <1>1, <1>3, <1>5, <2>2
    <3> QED BY <3>1, <3>2
  <2> QED BY <2>1, <2>2
<1> QED BY <1>9 DEF tt

-----------------------------------------------------------------------------
(* Events. *)

Over(out, j) == \E k \in Ends(out) : out[k].at = out[j].at
OpenAdds(out) == {j \in Adds(out) : ~Over(out, j)}

\* An item that is not done yet, with what was sent of it.
Rec(out, j) == [at |-> out[j].at, item |-> out[j].item, body |-> SentOf(out, j, Len(out))]
OpenItems(out) == {Rec(out, j) : j \in OpenAdds(out)}

\* The event at i is of the item added at j, and says of it what was sent.
SaysOf(out, i, j) ==
  /\ j <= i /\ out[j].at = out[i].at /\ out[j].id = out[i].id
  /\ out[i].ev \in Dones => out[i].body = SentOf(out, j, i)
  /\ out[i].ev = "item_done" => out[i].item = [out[j].item EXCEPT !.body = SentOf(out, j, i)]

\* The event at i fits what was written before it.
EventFits(out, i) ==
  /\ out[i].seq = i /\ IsSeq(out[i].body)
  /\ out[i].ev \in {"item_added", "item_done"} => out[i].at # None
  /\ out[i].at # None => /\ \E j \in Adds(out) : SaysOf(out, i, j)
                         /\ \A k \in Ends(out) : k < i => out[k].at # out[i].at

\* Items are numbered as they are added, and told apart by their ids.
AddsFit(out) ==
  /\ IsFiniteSet(Adds(out))
  /\ \A i \in Adds(out) :
       /\ out[i].at = Cardinality({j \in Adds(out) : j < i})
       /\ out[i].at \in 0..(Cardinality(Adds(out)) - 1)
       /\ out[i].item.id = out[i].id
       /\ IsSeq(SentOf(out, i, Len(out)))
  /\ \A i, j \in Adds(out) : i # j => out[i].at # out[j].at /\ out[i].id # out[j].id

AllFit(out) ==
  /\ IsSeq(out) /\ Len(out) \in Nat
  /\ \A i \in 1..Len(out) : EventFits(out, i)
  /\ AddsFit(out)

\* The pieces are a sequence.
LEMMA PiecesSeq ==
  ASSUME NEW out, NEW j, NEW i, i - j \in Nat
  PROVE  IsSeq(SentPieces(out, j, i)) /\ Len(SentPieces(out, j, i)) = i - j
<1> DEFINE p == SentPieces(out, j, i)
           m == i - j
<1>1. p = [k \in 1..m |-> p[k]]
  BY DEF SentPieces
<1> HIDE DEF p, m
<1>2. m \in Nat
  BY DEF m
<1>3. p \in Seq({p[k] : k \in 1..m}) /\ Len(p) = m
  BY <1>1, <1>2
<1> QED BY <1>3 DEF IsSeq, p, m

\* What one event more does to what was sent of an item.
LEMMA SentGrows ==
  ASSUME NEW out, NEW e, IsSeq(out), IsSeq(e.body), NEW j \in 1..Len(out)
  PROVE  LET o == Append(out, e)
         IN  /\ \A i \in 1..Len(out) : SentOf(o, j, i) = SentOf(out, j, i)
             /\ SentOf(o, j, Len(out) + 1) =
                  SentOf(out, j, Len(out))
                    \o (IF e.at = out[j].at /\ e.ev \in Deltas THEN e.body ELSE <<>>)
<1> DEFINE o == Append(out, e)
           n == Len(out)
           x == IF e.at = out[j].at /\ e.ev \in Deltas THEN e.body ELSE <<>>
<1>1. /\ n \in Nat /\ o[n + 1] = e /\ \A i \in 1..n : o[i] = out[i]
  BY Appended
<1>2. j \in 1..n
  OBVIOUS
<1> HIDE DEF o, n
<1>3. ASSUME NEW i \in 1..n
      PROVE  SentPieces(o, j, i) = SentPieces(out, j, i)
  <2>1. \A k \in 1..(i - j) : o[j + k] = out[j + k]
    BY <1>1, <1>2
  <2>2. o[j] = out[j]
    BY <1>1, <1>2
  <2> QED BY <2>1, <2>2 DEF SentPieces
<1>4. SentPieces(o, j, n + 1) = Append(SentPieces(out, j, n), x)
  <2> DEFINE p == SentPieces(out, j, n)
             q == SentPieces(o, j, n + 1)
             m == n - j
  <2>1. m \in Nat /\ (n + 1) - j = m + 1 /\ j + (m + 1) = n + 1
    BY <1>1, <1>2
  <2>2. IsSeq(p) /\ Len(p) = m
    BY <2>1, PiecesSeq
  <2>3. IsSeq(q) /\ Len(q) = m + 1
    <3>1. (n + 1) - j \in Nat
      BY <2>1
    <3>2. IsSeq(q) /\ Len(q) = (n + 1) - j
      BY <3>1, PiecesSeq
    <3> HIDE DEF q
    <3> QED BY <2>1, <3>2
  <2>4. \A k \in 1..m : q[k] = p[k]
    <3>1. \A k \in 1..m : o[j + k] = out[j + k] /\ k \in 1..(m + 1)
      BY <1>1, <1>2
    <3>2. o[j] = out[j]
      BY <1>1, <1>2
    <3> QED BY <2>1, <3>1, <3>2 DEF SentPieces
  <2>5. q[m + 1] = x
    <3>1. o[j + (m + 1)] = e /\ o[j] = out[j] /\ m + 1 \in 1..(m + 1)
      BY <1>1, <1>2, <2>1
    <3> QED BY <2>1, <3>1 DEF SentPieces
  <2> HIDE DEF p, q, m, x
  <2>6. /\ IsSeq(Append(p, x)) /\ Len(Append(p, x)) = m + 1 /\ Append(p, x)[m + 1] = x
        /\ \A k \in 1..m : Append(p, x)[k] = p[k]
    BY <2>2, Appended
  <2>7. \A k \in 1..(m + 1) : q[k] = Append(p, x)[k]
    BY <2>1, <2>4, <2>5, <2>6
  <2>8. q = Append(p, x)
    BY <2>3, <2>6, <2>7, SameSeq
  <2> QED BY <2>8 DEF p, q
<1>5. IsSeq(SentPieces(out, j, n)) /\ IsSeq(x)
  <2>1. n - j \in Nat
    BY <1>1, <1>2
  <2>2. IsSeq(SentPieces(out, j, n))
    BY <2>1, PiecesSeq
  <2>3. <<>> \in Seq({})
    OBVIOUS
  <2> QED BY <2>2, <2>3 DEF IsSeq
<1> HIDE DEF x
<1>6. SentOf(o, j, n + 1) = SentOf(out, j, n) \o x
  BY <1>4, <1>5, FlattenAppend DEF SentOf
<1>7. \A i \in 1..n : SentOf(o, j, i) = SentOf(out, j, i)
  BY <1>3 DEF SentOf
<1> QED BY <1>6, <1>7 DEF o, n, x

\* Nothing was sent of an item that was added last.
LEMMA SentNone ==
  ASSUME NEW out, NEW n \in Nat
  PROVE  SentOf(out, n, n) = <<>>
<1>1. SentPieces(out, n, n) = <<>>
  BY DEF SentPieces
<1>2. Len(<<>>) = 0
  OBVIOUS
<1> QED BY <1>1, <1>2 DEF SentOf, FlattenSeq

\* The items added and done, with one event more.
LEMMA SetsGrow ==
  ASSUME NEW out, NEW e, IsSeq(out)
  PROVE  LET o == Append(out, e)
             n == Len(out)
         IN  /\ Adds(o) = IF e.ev = "item_added" THEN Adds(out) \cup {n + 1} ELSE Adds(out)
             /\ Ends(o) = IF e.ev = "item_done" THEN Ends(out) \cup {n + 1} ELSE Ends(out)
             /\ Adds(out) \subseteq 1..n /\ Ends(out) \subseteq 1..n
             /\ n + 1 \notin Adds(out)
             /\ \A i \in Adds(out) : o[i] = out[i]
             /\ \A i \in Ends(out) : o[i] = out[i]
<1> DEFINE o == Append(out, e)
           n == Len(out)
<1>1. /\ n \in Nat /\ DOMAIN out = 1..n /\ DOMAIN o = 1..(n + 1) /\ o[n + 1] = e
      /\ \A i \in 1..n : o[i] = out[i]
  BY Appended
<1> HIDE DEF o, n
<1>2. \A i \in 1..(n + 1) : i \in 1..n \/ i = n + 1
  BY <1>1
<1>3. 1..n \subseteq 1..(n + 1) /\ n + 1 \notin 1..n /\ n + 1 \in 1..(n + 1)
  BY <1>1
<1>4. Adds(o) = IF e.ev = "item_added" THEN Adds(out) \cup {n + 1} ELSE Adds(out)
  BY <1>1, <1>2, <1>3 DEF Adds
<1>5. Ends(o) = IF e.ev = "item_done" THEN Ends(out) \cup {n + 1} ELSE Ends(out)
  BY <1>1, <1>2, <1>3 DEF Ends
<1>6. Adds(out) \subseteq 1..n /\ Ends(out) \subseteq 1..n /\ n + 1 \notin Adds(out)
  BY <1>1, <1>3 DEF Adds, Ends
<1> QED BY <1>1, <1>4, <1>5, <1>6 DEF o, n

\* An event that adds no item.
LEMMA SameAdds ==
  ASSUME NEW out, NEW e, IsSeq(out), e.ev # "item_added"
  PROVE  /\ Adds(Append(out, e)) = Adds(out)
         /\ \A i \in Adds(out) : Append(out, e)[i] = out[i]
BY SetsGrow

\* An event that ends an item.
LEMMA OneEndMore ==
  ASSUME NEW out, NEW e, IsSeq(out), e.ev = "item_done"
  PROVE  /\ Ends(Append(out, e)) = Ends(out) \cup {Len(out) + 1}
         /\ \A i \in Ends(out) : Append(out, e)[i] = out[i]
BY SetsGrow

\* An event goes on fitting when more is written.
LEMMA FitsKept ==
  ASSUME NEW out, NEW e, IsSeq(out), IsSeq(e.body), NEW i \in 1..Len(out), EventFits(out, i)
  PROVE  EventFits(Append(out, e), i)
<1> DEFINE o == Append(out, e)
           n == Len(out)
<1>1. n \in Nat /\ o[n + 1] = e /\ \A k \in 1..n : o[k] = out[k]
  BY Appended
<1>2. /\ Adds(out) \subseteq Adds(o) /\ Adds(out) \subseteq 1..n
      /\ Ends(o) \subseteq Ends(out) \cup {n + 1} /\ Ends(out) \subseteq 1..n
  BY SetsGrow
<1>3. \A j \in 1..n, k \in 1..n : SentOf(o, j, k) = SentOf(out, j, k)
  BY SentGrows
<1> HIDE DEF o, n
<1>4. i \in 1..n
  BY DEF n
<1>5. ASSUME NEW j \in Adds(out), SaysOf(out, i, j)
      PROVE  j \in Adds(o) /\ SaysOf(o, i, j)
  <2>1. o[j] = out[j] /\ o[i] = out[i] /\ SentOf(o, j, i) = SentOf(out, j, i)
    BY <1>1, <1>2, <1>3, <1>4
  <2> QED BY <1>2, <1>5, <2>1 DEF SaysOf
<1>6. ASSUME NEW k \in Ends(o), k < i
      PROVE  k \in Ends(out) /\ o[k] = out[k]
  BY <1>1, <1>2, <1>4, <1>6
<1>7. o[i] = out[i]
  BY <1>1, <1>4
<1>8. EventFits(o, i)
  BY <1>5, <1>6, <1>7, EventFits(out, i) DEF EventFits
<1> QED BY <1>8 DEF o

\* An event that adds no item keeps the numbers of the items and their ids.
LEMMA AddsKept ==
  ASSUME NEW out, NEW e, AllFit(out), IsSeq(e.body), e.ev # "item_added"
  PROVE  AddsFit(Append(out, e))
<1> DEFINE o == Append(out, e)
           n == Len(out)
<1>1. /\ IsSeq(out) /\ n \in Nat /\ Len(o) = n + 1 /\ AddsFit(out)
  BY Appended DEF AllFit
<1>2. Adds(o) = Adds(out) /\ Adds(out) \subseteq 1..n /\ \A i \in Adds(out) : o[i] = out[i]
  BY <1>1, SetsGrow
<1>3. ASSUME NEW i \in Adds(out)
      PROVE  IsSeq(SentOf(o, i, n + 1))
  <2> DEFINE x == IF e.at = out[i].at /\ e.ev \in Deltas THEN e.body ELSE <<>>
  <2>1. SentOf(o, i, n + 1) = SentOf(out, i, n) \o x
    BY <1>1, <1>2, SentGrows
  <2>2. IsSeq(SentOf(out, i, n))
    BY <1>1 DEF AddsFit
  <2>3. IsSeq(x)
    <3>1. <<>> \in Seq({})
      OBVIOUS
    <3> QED BY <3>1 DEF IsSeq
  <2> HIDE DEF x, o, n
  <2> QED BY <2>1, <2>2, <2>3, Concatenated
<1> HIDE DEF o, n
<1>4. \A i \in Adds(out) : {j \in Adds(o) : j < i} = {j \in Adds(out) : j < i}
  BY <1>2
<1>5. AddsFit(o)
  BY <1>1, <1>2, <1>3, <1>4 DEF AddsFit, n
<1> QED BY <1>5 DEF o

\* An event that fits, after events that fit.
LEMMA FitsGrow ==
  ASSUME NEW out, NEW e, AllFit(out), IsSeq(e.body),
         EventFits(Append(out, e), Len(out) + 1), AddsFit(Append(out, e))
  PROVE  AllFit(Append(out, e))
<1> DEFINE o == Append(out, e)
           n == Len(out)
<1>1. IsSeq(out) /\ n \in Nat /\ IsSeq(o) /\ Len(o) = n + 1
  BY Appended DEF AllFit
<1>2. \A i \in 1..n : EventFits(o, i)
  BY <1>1, FitsKept DEF AllFit
<1> HIDE DEF o, n
<1>3. \A i \in 1..(n + 1) : i \in 1..n \/ i = n + 1
  BY <1>1
<1>4. EventFits(o, n + 1) /\ AddsFit(o)
  BY DEF o, n
<1>5. AllFit(o)
  BY <1>1, <1>2, <1>3, <1>4 DEF AllFit
<1> QED BY <1>5 DEF o

\* The item an event is about, and what is sent of it.
LEMMA TheItem ==
  ASSUME NEW out, NEW r \in OpenItems(out)
  PROVE  \E j \in Adds(out) : ~Over(out, j) /\ r = Rec(out, j)
BY DEF OpenItems, OpenAdds

\* One event more, and what was sent of an item.
LEMMA RecGrows ==
  ASSUME NEW out, NEW e, AllFit(out), IsSeq(e.body), NEW j \in Adds(out)
  PROVE  LET o == Append(out, e)
         IN  /\ Rec(o, j) = [at |-> Rec(out, j).at, item |-> Rec(out, j).item,
                             body |-> IF e.at = Rec(out, j).at /\ e.ev \in Deltas
                                      THEN Rec(out, j).body \o e.body ELSE Rec(out, j).body]
             /\ ~(e.at = Rec(out, j).at /\ e.ev \in Deltas) => Rec(o, j) = Rec(out, j)
<1> DEFINE o == Append(out, e)
           n == Len(out)
           x == IF e.at = out[j].at /\ e.ev \in Deltas THEN e.body ELSE <<>>
<1>1. IsSeq(out) /\ n \in Nat /\ Len(o) = n + 1 /\ j \in 1..n /\ o[j] = out[j]
  BY Appended, SetsGrow DEF AllFit
<1>2. SentOf(o, j, n + 1) = SentOf(out, j, n) \o x
  BY <1>1, SentGrows
<1>3. SentOf(out, j, n) \o <<>> = SentOf(out, j, n)
  <2>1. IsSeq(SentOf(out, j, n))
    BY DEF AllFit, AddsFit
  <2> QED BY <2>1, Concatenated
<1>4. Rec(o, j) = [at |-> out[j].at, item |-> out[j].item, body |-> SentOf(out, j, n) \o x]
  <2> HIDE DEF x, o
  <2>1. Rec(o, j) = [at |-> o[j].at, item |-> o[j].item, body |-> SentOf(o, j, n + 1)]
    BY <1>1 DEF Rec
  <2> QED BY <1>1, <1>2, <2>1
<1>5. Rec(out, j) = [at |-> out[j].at, item |-> out[j].item, body |-> SentOf(out, j, n)]
  BY DEF Rec
<1> HIDE DEF o, n
<1>6. Rec(out, j).at = out[j].at /\ Rec(out, j).item = out[j].item
      /\ Rec(out, j).body = SentOf(out, j, n)
  BY <1>5
<1>7. CASE e.at = out[j].at /\ e.ev \in Deltas
  BY <1>4, <1>6, <1>7 DEF o
<1>8. CASE ~(e.at = out[j].at /\ e.ev \in Deltas)
  <2>1. x = <<>>
    BY <1>8
  <2>2. Rec(o, j) = Rec(out, j)
    BY <1>3, <1>4, <1>5, <2>1
  <2> QED BY <1>5, <1>6, <1>8, <2>2 DEF o
<1> QED BY <1>7, <1>8

\* Different items have different numbers and ids.
LEMMA RecApart ==
  ASSUME NEW out, AllFit(out), NEW i \in Adds(out), NEW j \in Adds(out), i # j
  PROVE  /\ Rec(out, i).at # Rec(out, j).at /\ Rec(out, i) # Rec(out, j)
         /\ Rec(out, i).item.id # Rec(out, j).item.id
<1>1. Rec(out, i).at = out[i].at /\ Rec(out, j).at = out[j].at
      /\ Rec(out, i).item = out[i].item /\ Rec(out, j).item = out[j].item
  BY DEF Rec
<1>2. out[i].at # out[j].at /\ out[i].item.id # out[j].item.id
  BY DEF AllFit, AddsFit
<1> QED BY <1>1, <1>2

\* An event about the item r that is open, after n others; it does not end it.
PutOf(e, r, n) ==
  /\ e.seq = n + 1 /\ e.at = r.at /\ e.id = r.item.id /\ IsSeq(e.body)
  /\ e.ev \in Deltas \cup Dones \cup {"part_added", "summary_added"}
  /\ e.ev \in Dones => e.body = r.body
SentMore(e, r) ==
  [at |-> r.at, item |-> r.item, body |-> IF e.ev \in Deltas THEN r.body \o e.body ELSE r.body]

\* A piece of an open item, or the news that its pieces are complete.
LEMMA PutFits ==
  ASSUME NEW out, NEW r, NEW e, AllFit(out), r \in OpenItems(out), PutOf(e, r, Len(out))
  PROVE  /\ AllFit(Append(out, e))
         /\ OpenItems(Append(out, e)) = (OpenItems(out) \ {r}) \cup {SentMore(e, r)}
<1> DEFINE o == Append(out, e)
           n == Len(out)
<1>1. PICK j \in Adds(out) : ~Over(out, j) /\ r = Rec(out, j)
  BY TheItem
<1>2. /\ IsSeq(out) /\ n \in Nat /\ o[n + 1] = e /\ j \in 1..n /\ o[j] = out[j]
  BY <1>1, Appended, SetsGrow DEF AllFit
<1>3. /\ e.ev \notin {"item_added", "item_done"} /\ IsSeq(e.body)
      /\ (e.ev \in Dones => e.ev \notin Deltas)
  BY DEF PutOf, Deltas, Dones
<1>4. /\ Adds(o) = Adds(out) /\ Ends(o) = Ends(out)
      /\ \A i \in Ends(out) : o[i] = out[i]
      /\ \A i \in Adds(out) : o[i] = out[i]
  BY <1>2, <1>3, SetsGrow
<1>5. r.at = out[j].at /\ r.item = out[j].item /\ r.body = SentOf(out, j, n)
  BY <1>1 DEF Rec
<1>6. e.ev \in Dones => e.body = SentOf(o, j, n + 1)
  <2>1. e.ev \in Dones => SentOf(o, j, n + 1) = SentOf(out, j, n) \o <<>>
    BY <1>2, <1>3, SentGrows
  <2>2. IsSeq(SentOf(out, j, n))
    BY <1>1 DEF AllFit, AddsFit
  <2> QED BY <1>5, <2>1, <2>2, Concatenated DEF PutOf
<1> HIDE DEF o, n
<1>7. EventFits(o, n + 1)
  <2>1. SaysOf(o, n + 1, j)
    <3>1. j <= n + 1 /\ out[j].item.id = out[j].id
      <4>1. j <= n + 1
        BY <1>2
      <4>2. out[j].item.id = out[j].id
        BY <1>1 DEF AllFit, AddsFit
      <4> QED BY <4>1, <4>2
    <3> QED BY <1>2, <1>3, <1>5, <1>6, <3>1 DEF SaysOf, PutOf
  <2>2. \A k \in Ends(o) : o[k].at # e.at
    BY <1>1, <1>4, <1>5 DEF Over, PutOf
  <2> QED BY <1>1, <1>2, <1>3, <1>4, <2>1, <2>2 DEF EventFits, PutOf, n
<1>8. AllFit(o)
  BY <1>3, <1>7, AddsKept, FitsGrow DEF o, n
<1>9. OpenAdds(o) = OpenAdds(out)
  BY <1>4 DEF OpenAdds, Over
<1>10. Rec(o, j) = SentMore(e, r)
  BY <1>1, <1>3, RecGrows DEF SentMore, o, PutOf
<1>11. ASSUME NEW i \in Adds(out), i # j
       PROVE  Rec(o, i) = Rec(out, i) /\ Rec(out, i) # r
  <2>1. Rec(out, i).at # e.at /\ Rec(out, i) # r
    BY <1>1, <1>11, RecApart DEF PutOf
  <2> QED BY <1>3, <2>1, RecGrows DEF o
<1>12. j \in OpenAdds(out) /\ OpenAdds(out) \subseteq Adds(out)
  BY <1>1 DEF OpenAdds
<1>13. OpenItems(o) = (OpenItems(out) \ {r}) \cup {SentMore(e, r)}
  BY <1>1, <1>9, <1>10, <1>11, <1>12 DEF OpenItems
<1> QED BY <1>8, <1>13 DEF o

\* The event that ends the item r.
EndOf(e, r, n) ==
  /\ e.seq = n + 1 /\ e.at = r.at /\ e.id = r.item.id /\ IsSeq(e.body) /\ e.ev = "item_done"
  /\ e.item = [r.item EXCEPT !.body = r.body]

\* An item that is done is not open any more.
LEMMA EndFits ==
  ASSUME NEW out, NEW r, NEW e, AllFit(out), r \in OpenItems(out), EndOf(e, r, Len(out)), r.at # None
  PROVE  /\ AllFit(Append(out, e))
         /\ OpenItems(Append(out, e)) = OpenItems(out) \ {r}
<1> DEFINE o == Append(out, e)
           n == Len(out)
<1>1. PICK j \in Adds(out) : ~Over(out, j) /\ r = Rec(out, j)
  BY TheItem
<1>2. /\ IsSeq(out) /\ n \in Nat /\ o[n + 1] = e /\ j \in 1..n /\ o[j] = out[j]
  BY <1>1, Appended, SetsGrow DEF AllFit
<1>3. e.ev = "item_done" /\ e.ev \notin {"item_added"} \cup Deltas \cup Dones /\ IsSeq(e.body)
  BY DEF EndOf, Deltas, Dones
<1>4. /\ Adds(o) = Adds(out) /\ Ends(o) = Ends(out) \cup {n + 1} /\ Ends(out) \subseteq 1..n
      /\ \A i \in Ends(out) : o[i] = out[i]
      /\ \A i \in Adds(out) : o[i] = out[i]
  BY <1>2, <1>3, SetsGrow
<1>5. r.at = out[j].at /\ r.item = out[j].item /\ r.body = SentOf(out, j, n)
  BY <1>1 DEF Rec
<1>6. SentOf(o, j, n + 1) = r.body
  <2>1. SentOf(o, j, n + 1) = SentOf(out, j, n) \o <<>>
    BY <1>2, <1>3, SentGrows
  <2>2. IsSeq(SentOf(out, j, n))
    BY <1>1 DEF AllFit, AddsFit
  <2> QED BY <1>5, <2>1, <2>2, Concatenated
<1> HIDE DEF o, n
<1>7. EventFits(o, n + 1)
  <2>1. SaysOf(o, n + 1, j)
    <3>1. j <= n + 1 /\ out[j].item.id = out[j].id
      <4>1. j <= n + 1
        BY <1>2
      <4>2. out[j].item.id = out[j].id
        BY <1>1 DEF AllFit, AddsFit
      <4> QED BY <4>1, <4>2
    <3> QED BY <1>2, <1>3, <1>5, <1>6, <3>1 DEF SaysOf, EndOf
  <2>2. \A k \in Ends(o) : k < n + 1 => o[k].at # e.at
    BY <1>1, <1>2, <1>4, <1>5 DEF Over, EndOf
  <2> QED BY <1>1, <1>2, <1>3, <1>4, <2>1, <2>2 DEF EventFits, EndOf, n
<1>8. AllFit(o)
  BY <1>3, <1>7, AddsKept, FitsGrow DEF o, n
<1>9. \A i \in Adds(out) : i # j => out[i].at # out[j].at
  BY <1>1 DEF AllFit, AddsFit
<1>10. OpenAdds(o) = OpenAdds(out) \ {j}
  <2>1. Over(o, j)
    BY <1>2, <1>4, <1>5 DEF Over, EndOf
  <2>2. ASSUME NEW i \in Adds(out), i # j
        PROVE  Over(o, i) <=> Over(out, i)
    <3>1. o[i].at = out[i].at /\ o[n + 1].at # out[i].at
      <4>1. o[i] = out[i] /\ out[i].at # out[j].at
        BY <1>4, <1>9, <2>2
      <4>2. o[n + 1] = e /\ e.at = r.at
        BY <1>2 DEF EndOf
      <4> QED BY <1>5, <4>1, <4>2
    <3> QED BY <1>4, <3>1 DEF Over
  <2> QED BY <1>4, <2>1, <2>2 DEF OpenAdds
<1>11. ASSUME NEW i \in Adds(out)
       PROVE  Rec(o, i) = Rec(out, i) /\ (i # j => Rec(out, i) # r)
  <2>1. i # j => Rec(out, i) # r
    BY <1>1, RecApart
  <2> QED BY <1>3, <2>1, RecGrows DEF o
<1>12. j \in OpenAdds(out) /\ OpenAdds(out) \subseteq Adds(out)
  BY <1>1 DEF OpenAdds
<1>13. OpenItems(o) = OpenItems(out) \ {r}
  BY <1>1, <1>10, <1>11, <1>12 DEF OpenItems
<1> QED BY <1>8, <1>13 DEF o

\* The event that adds an item whose id no other has.
AddOf(e, out) ==
  /\ e.seq = Len(out) + 1 /\ e.at = Cardinality(Adds(out)) /\ e.id = e.item.id
  /\ IsSeq(e.body) /\ e.ev = "item_added"
  /\ \A i \in Adds(out) : out[i].id # e.id

\* An item that is added is open, and nothing was sent of it.
LEMMA AddFits ==
  ASSUME NEW out, NEW e, AllFit(out), AddOf(e, out)
  PROVE  /\ AllFit(Append(out, e))
         /\ OpenItems(Append(out, e)) =
              OpenItems(out) \cup {[at |-> e.at, item |-> e.item, body |-> <<>>]}
         /\ Cardinality(Adds(Append(out, e))) = Cardinality(Adds(out)) + 1
<1> DEFINE o == Append(out, e)
           n == Len(out)
           c == Cardinality(Adds(out))
           l == n + 1
<1>1. /\ IsSeq(out) /\ n \in Nat /\ o[l] = e /\ Len(o) = l /\ l \in Nat
      /\ AddsFit(out)
  BY Appended DEF AllFit
<1>2. e.ev = "item_added" /\ e.ev \notin {"item_done"} \cup Deltas \cup Dones /\ IsSeq(e.body)
  BY DEF AddOf, Deltas, Dones
<1>3. /\ Adds(o) = Adds(out) \cup {l} /\ Ends(o) = Ends(out) /\ Ends(out) \subseteq 1..n
      /\ Adds(out) \subseteq 1..n /\ l \notin Adds(out)
      /\ \A i \in Ends(out) : o[i] = out[i]
      /\ \A i \in Adds(out) : o[i] = out[i]
  BY <1>1, <1>2, SetsGrow
<1>4. c \in Nat /\ Cardinality(Adds(o)) = c + 1 /\ IsFiniteSet(Adds(o))
  <2>1. IsFiniteSet(Adds(out))
    BY <1>1 DEF AddsFit
  <2> HIDE DEF l, o
  <2> QED BY <1>3, <2>1, FS_AddElement, FS_CardinalityType
<1>5. \A i \in Adds(out) : out[i].at \in 0..(c - 1)
  BY <1>1 DEF AddsFit
<1>6. SentOf(o, l, l) = <<>>
  BY <1>1, SentNone
<1>7. \A k \in Ends(out) : out[k].at \in 0..(c - 1)
  <2> SUFFICES ASSUME NEW k \in Ends(out)
               PROVE  out[k].at \in 0..(c - 1)
    OBVIOUS
  <2>1. k \in 1..n /\ out[k].ev = "item_done"
    BY <1>3 DEF Ends
  <2>2. EventFits(out, k)
    BY <2>1 DEF AllFit
  <2>3. PICK j \in Adds(out) : SaysOf(out, k, j)
    BY <2>1, <2>2 DEF EventFits
  <2> QED BY <1>5, <2>3 DEF SaysOf
<1> HIDE DEF o, n, l, c
<1>8. e.at = c /\ c \notin 0..(c - 1) /\ e.at # None
  BY <1>4, StreamAssumption DEF AddOf, c
<1>9. \A k \in Ends(out) : o[k].at # e.at
  BY <1>3, <1>7, <1>8
<1>10. EventFits(o, l)
  <2>1. SaysOf(o, l, l)
    BY <1>1, <1>2 DEF SaysOf
  <2>2. l \in Adds(o)
    BY <1>3
  <2>3. o[l].seq = l
    BY <1>1 DEF AddOf, l, n
  <2> QED BY <1>1, <1>2, <1>3, <1>8, <1>9, <2>1, <2>2, <2>3 DEF EventFits
<1>11. AddsFit(o)
  <2>1. ASSUME NEW i \in Adds(out)
        PROVE  /\ o[i].at = Cardinality({j \in Adds(o) : j < i})
               /\ o[i].at \in 0..((c + 1) - 1)
               /\ o[i].item.id = o[i].id /\ IsSeq(SentOf(o, i, l))
    <3>1. {j \in Adds(o) : j < i} = {j \in Adds(out) : j < i}
      BY <1>1, <1>3 DEF l
    <3>2. o[i] = out[i] /\ i \in 1..n
      BY <1>3
    <3>3. SentOf(o, i, l) = SentOf(out, i, n) \o <<>>
      BY <1>1, <1>2, <3>2, SentGrows DEF o, l, n
    <3>4. IsSeq(SentOf(out, i, n))
      BY <1>1 DEF AddsFit, n
    <3>5. IsSeq(SentOf(o, i, l))
      BY <3>3, <3>4, Concatenated
    <3>6. /\ out[i].at = Cardinality({j \in Adds(out) : j < i}) /\ out[i].item.id = out[i].id
      BY <1>1 DEF AddsFit
    <3>7. out[i].at \in 0..((c + 1) - 1)
      BY <1>4, <1>5
    <3> QED BY <3>1, <3>2, <3>5, <3>6, <3>7
  <2>2. /\ o[l].at = Cardinality({j \in Adds(o) : j < l})
        /\ o[l].at \in 0..((c + 1) - 1)
        /\ o[l].item.id = o[l].id /\ IsSeq(SentOf(o, l, l))
    <3>1. {j \in Adds(o) : j < l} = Adds(out)
      BY <1>1, <1>3 DEF l
    <3>2. <<>> \in Seq({})
      OBVIOUS
    <3>3. c \in 0..((c + 1) - 1)
      BY <1>4
    <3> QED BY <1>1, <1>6, <1>8, <3>1, <3>2, <3>3 DEF AddOf, IsSeq, c
  <2>3. ASSUME NEW i \in Adds(o), NEW j \in Adds(o), i # j
        PROVE  o[i].at # o[j].at /\ o[i].id # o[j].id
    <3>1. CASE i \in Adds(out) /\ j \in Adds(out)
      BY <1>1, <1>3, <2>3, <3>1 DEF AddsFit
    <3>2. CASE i = l /\ j \in Adds(out)
      BY <1>1, <1>3, <1>5, <1>8, <3>2 DEF AddOf
    <3>3. CASE j = l /\ i \in Adds(out)
      BY <1>1, <1>3, <1>5, <1>8, <3>3 DEF AddOf
    <3> QED BY <1>3, <2>3, <3>1, <3>2, <3>3
  <2>4. \A i \in Adds(o) : /\ o[i].at = Cardinality({j \in Adds(o) : j < i})
                           /\ o[i].at \in 0..(Cardinality(Adds(o)) - 1)
                           /\ o[i].item.id = o[i].id
                           /\ IsSeq(SentOf(o, i, Len(o)))
    BY <1>1, <1>3, <1>4, <2>1, <2>2
  <2> QED BY <1>4, <2>3, <2>4 DEF AddsFit
<1>12. AllFit(o)
  BY <1>2, <1>10, <1>11, FitsGrow DEF o, l, n
<1>13. OpenAdds(o) = OpenAdds(out) \cup {l}
  <2>1. ~Over(o, l)
    BY <1>1, <1>3, <1>9 DEF Over
  <2>2. ASSUME NEW i \in Adds(out)
        PROVE  Over(o, i) <=> Over(out, i)
    BY <1>3 DEF Over
  <2> QED BY <1>3, <2>1, <2>2 DEF OpenAdds
<1>14. \A i \in Adds(out) : Rec(o, i) = Rec(out, i)
  BY <1>2, RecGrows DEF o
<1>15. Rec(o, l) = [at |-> e.at, item |-> e.item, body |-> <<>>]
  BY <1>1, <1>6 DEF Rec
<1>16. OpenItems(o) = OpenItems(out) \cup {[at |-> e.at, item |-> e.item, body |-> <<>>]}
  <2>1. OpenAdds(out) \subseteq Adds(out)
    BY DEF OpenAdds
  <2> QED BY <1>13, <1>14, <1>15, <2>1 DEF OpenItems
<1> QED BY <1>4, <1>12, <1>16 DEF o, c

\* An event about no item changes nothing of the items.
LEMMA NoteFits ==
  ASSUME NEW out, NEW e, AllFit(out), e.seq = Len(out) + 1, e.at = None, IsSeq(e.body),
         e.ev \notin {"item_added", "item_done"} \cup Deltas
  PROVE  /\ AllFit(Append(out, e)) /\ OpenItems(Append(out, e)) = OpenItems(out)
         /\ Adds(Append(out, e)) = Adds(out) /\ Ends(Append(out, e)) = Ends(out)
<1> DEFINE o == Append(out, e)
           n == Len(out)
<1>1. IsSeq(out) /\ n \in Nat /\ o[n + 1] = e
  BY Appended DEF AllFit
<1>2. /\ Adds(o) = Adds(out) /\ Ends(o) = Ends(out)
      /\ \A i \in Ends(out) : o[i] = out[i]
      /\ \A i \in Adds(out) : o[i] = out[i]
  BY <1>1, SetsGrow
<1> HIDE DEF o, n
<1>3. EventFits(o, n + 1)
  BY <1>1 DEF EventFits, n
<1>4. AllFit(o)
  BY <1>3, AddsKept, FitsGrow DEF o, n
<1>5. OpenAdds(o) = OpenAdds(out) /\ OpenAdds(out) \subseteq Adds(out)
  BY <1>2 DEF OpenAdds, Over
<1>6. \A i \in Adds(out) : Rec(o, i) = Rec(out, i)
  BY RecGrows DEF o
<1>7. OpenItems(o) = OpenItems(out)
  BY <1>5, <1>6 DEF OpenItems
<1> QED BY <1>2, <1>4, <1>7 DEF o

-----------------------------------------------------------------------------
(* The events as the state counts and lists them. *)

ResponsesFields == {"out", "seq", "next", "messageAt", "text", "thinking", "part", "thinkingAt",
                    "thoughts", "rid", "reasoning", "tools", "itemOf", "done", "usage", "failed"}

Ids(out) == {out[i].id : i \in Adds(out)}
Ats(out) == {out[i].at : i \in Adds(out)}

\* The list of the items that are done.
Listed(done, out) ==
  /\ IsSeq(done)
  /\ \A k \in DOMAIN done : \E i \in Ends(out) : done[k].at = out[i].at
  /\ \A i \in Ends(out) : \E k \in DOMAIN done : done[k].at = out[i].at /\ done[k].item = out[i].item
  /\ \A k, l \in DOMAIN done : k # l => done[k].at # done[l].at

LogOK(s) ==
  /\ DOMAIN s = ResponsesFields
  /\ AllFit(s.out) /\ s.seq = Len(s.out)
  /\ s.next = Cardinality(Adds(s.out)) /\ s.next \in Nat /\ Ats(s.out) = 0..(s.next - 1)
  /\ \A i \in 1..Len(s.out) : s.out[i].ev \notin {"completed", "failed"}
  /\ Listed(s.done, s.out)

\* What an event leaves as it was.
Frame(q, s) ==
  /\ q.next = s.next /\ q.messageAt = s.messageAt /\ q.text = s.text
  /\ q.thinking = s.thinking /\ q.part = s.part /\ q.thinkingAt = s.thinkingAt
  /\ q.thoughts = s.thoughts /\ q.rid = s.rid /\ q.reasoning = s.reasoning
  /\ q.tools = s.tools /\ q.itemOf = s.itemOf /\ q.failed = s.failed

\* The state that has written e.
LEMMA PutIs ==
  ASSUME NEW s, NEW e, DOMAIN s = ResponsesFields, DOMAIN e = DOMAIN ResponseEvent
  PROVE  LET q == PutEvent(s, e)
             f == [e EXCEPT !.seq = s.seq + 1]
         IN  /\ DOMAIN q = ResponsesFields /\ Frame(q, s) /\ q.done = s.done
             /\ q.seq = s.seq + 1 /\ q.out = Append(s.out, f) /\ q.usage = s.usage
             /\ f.seq = s.seq + 1 /\ f.ev = e.ev /\ f.at = e.at /\ f.id = e.id
             /\ f.item = e.item /\ f.body = e.body /\ f.output = e.output
             /\ f.usage = e.usage
BY DEF PutEvent, ResponsesFields, Frame, ResponseEvent

\* The items that are open have a number and a sequence of pieces.
LEMMA OpenSeq ==
  ASSUME NEW out, AllFit(out), NEW r \in OpenItems(out)
  PROVE  IsSeq(r.body) /\ r.at \in Nat /\ r.at # None
<1>1. PICK j \in Adds(out) : r = Rec(out, j)
  BY TheItem
<1>2. out[j].at \in 0..(Cardinality(Adds(out)) - 1) /\ IsSeq(SentOf(out, j, Len(out)))
  BY <1>1 DEF AllFit, AddsFit
<1>3. Cardinality(Adds(out)) \in Nat
  BY FS_CardinalityType DEF AllFit, AddsFit
<1>4. r.at = out[j].at /\ r.body = SentOf(out, j, Len(out))
  BY <1>1 DEF Rec
<1> QED BY <1>2, <1>3, <1>4, StreamAssumption

\* A state with the same events and the same list.
LEMMA SameLog ==
  ASSUME NEW s, NEW m, LogOK(s), DOMAIN m = ResponsesFields, m.out = s.out, m.seq = s.seq,
         m.next = s.next, m.done = s.done
  PROVE  LogOK(m)
BY DEF LogOK

\* A list goes on being right when no item is done.
LEMMA ListedKept ==
  ASSUME NEW done, NEW out, NEW e, IsSeq(out), Listed(done, out), e.ev # "item_done"
  PROVE  Listed(done, Append(out, e))
BY SetsGrow DEF Listed

\* What an event about an item does: b is what was sent of the item with it.
PutDone(q, s, r, b) ==
  /\ LogOK(q) /\ Frame(q, s) /\ Ids(q.out) = Ids(s.out)
  /\ OpenItems(q.out) = (OpenItems(s.out) \ {r}) \cup {[at |-> r.at, item |-> r.item, body |-> b]}
EndDone(q, s, r) ==
  /\ LogOK(q) /\ Frame(q, s) /\ Ids(q.out) = Ids(s.out)
  /\ OpenItems(q.out) = OpenItems(s.out) \ {r}
AddDone(q, m, s, item) ==
  /\ LogOK(q) /\ Frame(q, m) /\ Ids(q.out) = Ids(s.out) \cup {item.id}
  /\ OpenItems(q.out) = OpenItems(s.out) \cup {[at |-> s.next, item |-> item, body |-> <<>>]}

\* A piece of an open item in the log.
LEMMA LogPut ==
  ASSUME NEW s, LogOK(s), NEW r \in OpenItems(s.out), NEW ev, NEW body,
         ev \in Deltas \cup Dones \cup {"part_added", "summary_added"},
         IsSeq(body), ev \in Dones => body = r.body
  PROVE  PutDone(PutPiece(s, ev, r.at, r.item.id, body), s, r,
                 IF ev \in Deltas THEN r.body \o body ELSE r.body)
<1> DEFINE e == [ResponseEvent EXCEPT !.ev = ev, !.at = r.at, !.id = r.item.id, !.body = body]
           f == [e EXCEPT !.seq = s.seq + 1]
           q == PutPiece(s, ev, r.at, r.item.id, body)
           n == Len(s.out)
<1>1. /\ DOMAIN e = DOMAIN ResponseEvent /\ e.ev = ev /\ e.at = r.at /\ e.id = r.item.id
      /\ e.body = body
  BY DEF ResponseEvent
<1>2. q = PutEvent(s, e)
  BY DEF PutPiece
<1> HIDE DEF e, q
<1>3. /\ DOMAIN q = ResponsesFields /\ Frame(q, s) /\ q.done = s.done
      /\ q.seq = s.seq + 1 /\ q.out = Append(s.out, f) /\ f.seq = s.seq + 1
      /\ f.ev = ev /\ f.at = r.at /\ f.id = r.item.id /\ f.body = body
  BY <1>1, <1>2, PutIs DEF LogOK
<1> HIDE DEF f
<1>4. PutOf(f, r, n)
  BY <1>3 DEF PutOf, LogOK
<1>5. /\ AllFit(q.out)
      /\ OpenItems(q.out) = (OpenItems(s.out) \ {r}) \cup {SentMore(f, r)}
  BY <1>3, <1>4, PutFits DEF LogOK
<1>6. /\ IsSeq(s.out) /\ n \in Nat /\ Len(q.out) = n + 1 /\ q.out[n + 1] = f
      /\ \A i \in 1..n : q.out[i] = s.out[i]
  BY <1>3, Appended DEF LogOK, AllFit
<1>7. ev \notin {"item_added", "item_done", "completed", "failed"}
  BY DEF Deltas, Dones
<1>8. Adds(q.out) = Adds(s.out) /\ \A i \in Adds(s.out) : q.out[i] = s.out[i]
  <2>1. f.ev # "item_added"
    BY <1>3, <1>7
  <2>2. /\ Adds(Append(s.out, f)) = Adds(s.out)
        /\ \A i \in Adds(s.out) : Append(s.out, f)[i] = s.out[i]
    BY <1>6, <2>1, SameAdds
  <2> QED BY <1>3, <2>2
<1>9. Ids(q.out) = Ids(s.out) /\ Ats(q.out) = Ats(s.out)
  BY <1>8 DEF Ids, Ats
<1>10. Listed(q.done, q.out)
  BY <1>3, <1>6, <1>7, ListedKept DEF LogOK
<1>11. LogOK(q)
  <2>1. \A i \in 1..Len(q.out) : q.out[i].ev \notin {"completed", "failed"}
    <3>1. \A i \in 1..(n + 1) : i \in 1..n \/ i = n + 1
      BY <1>6
    <3> QED BY <1>3, <1>6, <1>7, <3>1 DEF LogOK
  <2>2. q.seq = Len(q.out)
    BY <1>3, <1>6 DEF LogOK
  <2> QED BY <1>3, <1>5, <1>8, <1>9, <1>10, <2>1, <2>2 DEF LogOK, Frame
<1>12. SentMore(f, r) = [at |-> r.at, item |-> r.item,
                         body |-> IF ev \in Deltas THEN r.body \o body ELSE r.body]
  BY <1>3 DEF SentMore
<1> QED BY <1>3, <1>5, <1>9, <1>11, <1>12 DEF PutDone, q

\* The end of an open item in the log, and in the list of those that are done.
LEMMA LogEnd ==
  ASSUME NEW s, LogOK(s), NEW r \in OpenItems(s.out), NEW item,
         item = [r.item EXCEPT !.body = r.body], item.id = r.item.id
  PROVE  EndDone(FinishItem(s, r.at, item), s, r)
<1> DEFINE e == [ResponseEvent EXCEPT !.ev = "item_done", !.at = r.at, !.id = item.id, !.item = item]
           f == [e EXCEPT !.seq = s.seq + 1]
           p == PutEvent(s, e)
           d == [at |-> r.at, item |-> item]
           q == FinishItem(s, r.at, item)
           n == Len(s.out)
           l == n + 1
<1>1. /\ DOMAIN e = DOMAIN ResponseEvent /\ e.ev = "item_done" /\ e.at = r.at /\ e.id = item.id
      /\ e.item = item /\ e.body = <<>>
  BY DEF ResponseEvent
<1>2. q = [p EXCEPT !.done = Append(@, d)]
  BY DEF FinishItem
<1>d. d.at = r.at /\ d.item = item
  OBVIOUS
<1> HIDE DEF e, p, d
<1>3. /\ DOMAIN p = ResponsesFields /\ Frame(p, s) /\ p.done = s.done
      /\ p.seq = s.seq + 1 /\ p.out = Append(s.out, f) /\ f.seq = s.seq + 1
      /\ f.ev = "item_done" /\ f.at = r.at /\ f.id = r.item.id /\ f.item = item /\ f.body = <<>>
  BY <1>1, PutIs DEF LogOK, p
<1> HIDE DEF f
<1>4. /\ DOMAIN q = ResponsesFields /\ Frame(q, s) /\ q.done = Append(s.done, d)
      /\ q.seq = s.seq + 1 /\ q.out = Append(s.out, f)
  BY <1>2, <1>3 DEF ResponsesFields, Frame
<1> HIDE DEF q
<1>5. EndOf(f, r, n)
  <2>1. IsSeq(f.body)
    <3>1. <<>> \in Seq({})
      OBVIOUS
    <3> QED BY <1>3, <3>1 DEF IsSeq
  <2> QED BY <1>3, <2>1 DEF EndOf, LogOK
<1>6. r.at \in Nat /\ r.at # None
  BY OpenSeq DEF LogOK
<1>7. AllFit(q.out) /\ OpenItems(q.out) = OpenItems(s.out) \ {r}
  BY <1>4, <1>5, <1>6, EndFits DEF LogOK
<1>8. /\ IsSeq(s.out) /\ n \in Nat /\ Len(q.out) = l /\ q.out[l] = f
      /\ \A i \in 1..n : q.out[i] = s.out[i]
  BY <1>4, Appended DEF LogOK, AllFit
<1>9. /\ Adds(q.out) = Adds(s.out) /\ \A i \in Adds(s.out) : q.out[i] = s.out[i]
      /\ Ends(q.out) = Ends(s.out) \cup {l} /\ \A i \in Ends(s.out) : q.out[i] = s.out[i]
  <2>1. f.ev # "item_added" /\ f.ev = "item_done"
    BY <1>3
  <2>2. /\ Adds(Append(s.out, f)) = Adds(s.out)
        /\ \A i \in Adds(s.out) : Append(s.out, f)[i] = s.out[i]
    BY <1>8, <2>1, SameAdds
  <2>3. /\ Ends(Append(s.out, f)) = Ends(s.out) \cup {Len(s.out) + 1}
        /\ \A i \in Ends(s.out) : Append(s.out, f)[i] = s.out[i]
    BY <1>8, <2>1, OneEndMore
  <2> QED BY <1>4, <2>2, <2>3
<1>10. Ids(q.out) = Ids(s.out) /\ Ats(q.out) = Ats(s.out)
  BY <1>9 DEF Ids, Ats
<1>11. \A i \in Ends(s.out) : s.out[i].at # r.at
  <2>1. PICK j \in Adds(s.out) : ~Over(s.out, j) /\ r = Rec(s.out, j)
    BY TheItem
  <2> QED BY <2>1 DEF Over, Rec
<1> HIDE DEF l
<1>12. Listed(q.done, q.out)
  <2> DEFINE k == Len(s.done) + 1
  <2>1. /\ IsSeq(q.done) /\ q.done[k] = d /\ DOMAIN q.done = 1..k /\ DOMAIN s.done = 1..Len(s.done)
        /\ \A i \in 1..Len(s.done) : q.done[i] = s.done[i]
        /\ Len(s.done) \in Nat
    BY <1>4, Appended DEF LogOK, Listed
  <2>2. \A i \in 1..k : i \in DOMAIN s.done \/ i = k
    BY <2>1
  <2>3. k \notin DOMAIN s.done /\ DOMAIN s.done \subseteq 1..k /\ k \in 1..k
    BY <2>1
  <2> HIDE DEF k
  <2>4. Listed(s.done, s.out)
    BY DEF LogOK
  <2>5. \A i \in DOMAIN q.done : \E j \in Ends(q.out) : q.done[i].at = q.out[j].at
    <3> SUFFICES ASSUME NEW i \in DOMAIN q.done
                 PROVE  \E j \in Ends(q.out) : q.done[i].at = q.out[j].at
      OBVIOUS
    <3>1. CASE i = k
      BY <1>3, <1>8, <1>9, <1>d, <2>1, <3>1
    <3>2. CASE i \in DOMAIN s.done
      BY <1>9, <2>1, <2>4, <3>2 DEF Listed
    <3> QED BY <2>1, <2>2, <3>1, <3>2
  <2>6. \A j \in Ends(q.out) : \E i \in DOMAIN q.done :
          q.done[i].at = q.out[j].at /\ q.done[i].item = q.out[j].item
    <3> SUFFICES ASSUME NEW j \in Ends(q.out)
                 PROVE  \E i \in DOMAIN q.done :
                          q.done[i].at = q.out[j].at /\ q.done[i].item = q.out[j].item
      OBVIOUS
    <3>1. CASE j = l
      BY <1>3, <1>8, <1>d, <2>1, <2>3, <3>1
    <3>2. CASE j \in Ends(s.out)
      BY <1>9, <2>1, <2>3, <2>4, <3>2 DEF Listed
    <3> QED BY <1>9, <3>1, <3>2
  <2>7. \A i \in DOMAIN s.done : s.done[i].at # r.at
    BY <1>11, <2>4 DEF Listed
  <2>8. \A i, j \in DOMAIN q.done : i # j => q.done[i].at # q.done[j].at
    BY <1>d, <2>1, <2>2, <2>4, <2>7 DEF Listed
  <2> QED BY <2>1, <2>5, <2>6, <2>8 DEF Listed
<1>13. LogOK(q)
  <2>1. \A i \in 1..Len(q.out) : q.out[i].ev \notin {"completed", "failed"}
    <3>1. \A i \in 1..l : i \in 1..n \/ i = l
      BY <1>8 DEF l
    <3> QED BY <1>3, <1>8, <3>1 DEF LogOK
  <2>2. q.seq = Len(q.out)
    BY <1>4, <1>8 DEF LogOK, l
  <2> QED BY <1>4, <1>7, <1>9, <1>10, <1>12, <2>1, <2>2 DEF LogOK, Frame
<1> QED BY <1>4, <1>7, <1>10, <1>13 DEF EndDone, q

\* A new item in the log.
LEMMA LogAdd ==
  ASSUME NEW s, LogOK(s), NEW m, DOMAIN m = ResponsesFields, m.out = s.out, m.seq = s.seq,
         m.done = s.done, m.next = s.next + 1, NEW item, item.id \notin Ids(s.out)
  PROVE  AddDone(AddItem(m, s.next, item), m, s, item)
<1> DEFINE e == [ResponseEvent EXCEPT !.ev = "item_added", !.at = s.next, !.id = item.id,
                                      !.item = item]
           f == [e EXCEPT !.seq = m.seq + 1]
           q == AddItem(m, s.next, item)
           n == Len(s.out)
           l == n + 1
<1>1. /\ DOMAIN e = DOMAIN ResponseEvent /\ e.ev = "item_added" /\ e.at = s.next
      /\ e.id = item.id /\ e.item = item /\ e.body = <<>>
  BY DEF ResponseEvent
<1>2. q = PutEvent(m, e)
  BY DEF AddItem
<1> HIDE DEF e, q
<1>3. /\ DOMAIN q = ResponsesFields /\ Frame(q, m) /\ q.done = s.done
      /\ q.seq = s.seq + 1 /\ q.out = Append(s.out, f) /\ f.seq = s.seq + 1
      /\ f.ev = "item_added" /\ f.at = s.next /\ f.id = item.id /\ f.item = item /\ f.body = <<>>
  BY <1>1, <1>2, PutIs
<1> HIDE DEF f
<1>4. AddOf(f, s.out)
  <2>1. IsSeq(f.body)
    <3>1. <<>> \in Seq({})
      OBVIOUS
    <3> QED BY <1>3, <3>1 DEF IsSeq
  <2> QED BY <1>3, <2>1 DEF AddOf, LogOK, Ids
<1>5. /\ AllFit(q.out)
      /\ OpenItems(q.out) = OpenItems(s.out) \cup {[at |-> s.next, item |-> item, body |-> <<>>]}
      /\ Cardinality(Adds(q.out)) = s.next + 1
  BY <1>3, <1>4, AddFits DEF LogOK
<1>6. /\ IsSeq(s.out) /\ n \in Nat /\ Len(q.out) = l /\ q.out[l] = f
      /\ \A i \in 1..n : q.out[i] = s.out[i]
  BY <1>3, Appended DEF LogOK, AllFit
<1>7. Adds(q.out) = Adds(s.out) \cup {l} /\ \A i \in Adds(s.out) : q.out[i] = s.out[i]
  BY <1>3, <1>6, SetsGrow
<1> HIDE DEF l
<1>8. Ids(q.out) = Ids(s.out) \cup {item.id} /\ Ats(q.out) = Ats(s.out) \cup {s.next}
  <2>1. \A i \in Adds(s.out) : q.out[i].id = s.out[i].id /\ q.out[i].at = s.out[i].at
    BY <1>7
  <2>2. q.out[l].id = item.id /\ q.out[l].at = s.next
    BY <1>3, <1>6
  <2>3. Ids(q.out) = Ids(s.out) \cup {item.id}
    <3>1. Ids(q.out) = {q.out[i].id : i \in Adds(s.out) \cup {l}}
      BY <1>7 DEF Ids
    <3>2. {q.out[i].id : i \in Adds(s.out) \cup {l}} = {s.out[i].id : i \in Adds(s.out)} \cup {item.id}
      BY <2>1, <2>2
    <3> QED BY <3>1, <3>2 DEF Ids
  <2>4. Ats(q.out) = Ats(s.out) \cup {s.next}
    <3>1. Ats(q.out) = {q.out[i].at : i \in Adds(s.out) \cup {l}}
      BY <1>7 DEF Ats
    <3>2. {q.out[i].at : i \in Adds(s.out) \cup {l}} = {s.out[i].at : i \in Adds(s.out)} \cup {s.next}
      BY <2>1, <2>2
    <3> QED BY <3>1, <3>2 DEF Ats
  <2> QED BY <2>3, <2>4
<1>9. Ats(q.out) = 0..(q.next - 1) /\ q.next = s.next + 1 /\ q.next \in Nat
  <2>1. Ats(s.out) = 0..(s.next - 1) /\ s.next \in Nat
    BY DEF LogOK
  <2>2. q.next = s.next + 1
    BY <1>3 DEF Frame
  <2> QED BY <1>8, <2>1, <2>2
<1>10. Listed(q.done, q.out)
  BY <1>3, <1>6, ListedKept DEF LogOK
<1>11. LogOK(q)
  <2>1. \A i \in 1..Len(q.out) : q.out[i].ev \notin {"completed", "failed"}
    <3>1. \A i \in 1..l : i \in 1..n \/ i = l
      BY <1>6 DEF l
    <3> QED BY <1>3, <1>6, <3>1 DEF LogOK
  <2>2. q.seq = Len(q.out)
    BY <1>3, <1>6 DEF LogOK, l
  <2> QED BY <1>3, <1>5, <1>9, <1>10, <2>1, <2>2 DEF LogOK
<1> QED BY <1>3, <1>5, <1>8, <1>11 DEF AddDone, q

-----------------------------------------------------------------------------
(* What is open, by the state. *)

MessageItem == [OutputItem EXCEPT !.type = "message", !.id = MessageId]
ReasoningItem(id) == [OutputItem EXCEPT !.type = "reasoning", !.id = id]
CallItem(id, name, call) ==
  [OutputItem EXCEPT !.type = "function_call", !.name = name, !.id = id, !.call_id = call]

MessageRec(s) == [at |-> s.messageAt, item |-> MessageItem, body |-> s.text]
ThoughtRec(s) == [at |-> s.thinkingAt, item |-> ReasoningItem(s.rid), body |-> s.reasoning]
CallRec(s, k) ==
  [at |-> s.itemOf[k].at,
   item |-> CallItem(s.itemOf[k].id, s.tools[k].name, Default(s.tools[k].id, "call", k)),
   body |-> s.tools[k].args]

\* The message if it is not done, the reasoning that goes on, the calls of C.
Books(s, speaking, C) ==
  {MessageRec(s) : b \in {TRUE} \cap {speaking}}
  \cup {ThoughtRec(s) : b \in {TRUE} \cap {s.thinking}}
  \cup {CallRec(s, k) : k \in C}

\* The n calls begun each have an item, and an id of the item of its own.
CallsOK(s, n) ==
  /\ n \in Nat /\ DOMAIN s.tools = 0..(n - 1) /\ DOMAIN s.itemOf = 0..(n - 1)
  /\ \A k \in 0..(n - 1) :
       /\ s.tools[k].name # None /\ IsSeq(s.tools[k].args)
       /\ s.tools[k].id = <<>> \/ \E p : s.tools[k].id = <<"id", p, k>>
       /\ s.itemOf[k].id = <<"fc", Default(s.tools[k].id, "index", k)>>

\* The ids that the state says were given out.
KnownIds(s) ==
  {MessageId : b \in {TRUE} \cap {s.messageAt # None}}
  \cup {ReasoningId(k) : k \in 0..(s.thoughts - 1)}
  \cup {s.itemOf[k].id : k \in DOMAIN s.itemOf}

Holds(s, n) ==
  /\ CallsOK(s, n) /\ s.thoughts \in Nat /\ s.thinking \in BOOLEAN
  /\ s.thoughts = 0 => s.rid = ReasoningId(0)
  /\ s.messageAt = None => s.text = <<>>

\* The state and the events say the same.
Tracks(s, n, speaking, C) ==
  /\ LogOK(s) /\ Holds(s, n) /\ Ids(s.out) \subseteq KnownIds(s)
  /\ OpenItems(s.out) = Books(s, speaking, C)

\* As long as lines are read the message, once begun, and all the calls are open.
Tracked(s, n) == Tracks(s, n, s.messageAt # None, 0..(n - 1))

\* The books hold what they say.
LEMMA InBooks ==
  ASSUME NEW s, NEW speaking, NEW C
  PROVE  /\ speaking = TRUE => MessageRec(s) \in Books(s, speaking, C)
         /\ s.thinking = TRUE => ThoughtRec(s) \in Books(s, speaking, C)
         /\ \A k \in C : CallRec(s, k) \in Books(s, speaking, C)
BY DEF Books

\* The fields of the items.
LEMMA ItemFields ==
  ASSUME NEW id, NEW name, NEW call
  PROVE  /\ MessageItem.type = "message" /\ MessageItem.id = MessageId
         /\ ReasoningItem(id).type = "reasoning" /\ ReasoningItem(id).id = id
         /\ CallItem(id, name, call).type = "function_call" /\ CallItem(id, name, call).id = id
BY DEF MessageItem, ReasoningItem, CallItem, OutputItem

\* Nothing is in the books twice.
LEMMA RecsApart ==
  ASSUME NEW s, NEW k
  PROVE  /\ MessageRec(s) # ThoughtRec(s) /\ MessageRec(s) # CallRec(s, k)
         /\ ThoughtRec(s) # CallRec(s, k)
<1>1. /\ MessageRec(s).item.type = "message" /\ ThoughtRec(s).item.type = "reasoning"
      /\ CallRec(s, k).item.type = "function_call"
  BY ItemFields DEF MessageRec, ThoughtRec, CallRec
<1> QED BY <1>1

\* The ids of the items of two calls differ.
LEMMA CallIdsDiffer ==
  ASSUME NEW k \in Int, NEW l \in Int, k # l, NEW x, NEW y,
         x = <<>> \/ \E p : x = <<"id", p, k>>,
         y = <<>> \/ \E p : y = <<"id", p, l>>
  PROVE  <<"fc", Default(x, "index", k)>> # <<"fc", Default(y, "index", l)>>
<1>1. x = <<>> => Default(x, "index", k) = <<"index", k>>
  BY DEF Default
<1>2. \A p : x = <<"id", p, k>> => Default(x, "index", k) = <<"id", p, k>>
  BY DEF Default
<1>3. y = <<>> => Default(y, "index", l) = <<"index", l>>
  BY DEF Default
<1>4. \A p : y = <<"id", p, l>> => Default(y, "index", l) = <<"id", p, l>>
  BY DEF Default
<1>5. Default(x, "index", k) # Default(y, "index", l)
  BY <1>1, <1>2, <1>3, <1>4
<1> QED BY <1>5

\* Two calls have items of their own.
LEMMA CallsApart ==
  ASSUME NEW s, NEW n, CallsOK(s, n), NEW k \in 0..(n - 1), NEW l \in 0..(n - 1), k # l
  PROVE  CallRec(s, k) # CallRec(s, l) /\ s.itemOf[k].id # s.itemOf[l].id
<1>1. CallRec(s, k).item.id = s.itemOf[k].id /\ CallRec(s, l).item.id = s.itemOf[l].id
  BY ItemFields DEF CallRec
<1>2. s.itemOf[k].id # s.itemOf[l].id
  <2>1. \A i \in 0..(n - 1) :
          /\ i \in Int /\ s.itemOf[i].id = <<"fc", Default(s.tools[i].id, "index", i)>>
          /\ s.tools[i].id = <<>> \/ \E p : s.tools[i].id = <<"id", p, i>>
    BY DEF CallsOK
  <2>2. <<"fc", Default(s.tools[k].id, "index", k)>> # <<"fc", Default(s.tools[l].id, "index", l)>>
    BY <2>1, CallIdsDiffer
  <2> QED BY <2>1, <2>2
<1> QED BY <1>1, <1>2

\* What only writes an event keeps what the state says.
LEMMA Framed ==
  ASSUME NEW q, NEW m, NEW n, NEW speaking, NEW C, Frame(q, m), Holds(m, n), LogOK(q),
         Ids(q.out) \subseteq KnownIds(m), OpenItems(q.out) = Books(m, speaking, C)
  PROVE  Tracks(q, n, speaking, C)
<1>1. Holds(q, n)
  BY DEF Holds, CallsOK, Frame
<1>2. KnownIds(q) = KnownIds(m)
  BY DEF KnownIds, Frame
<1>3. /\ MessageRec(q) = MessageRec(m) /\ ThoughtRec(q) = ThoughtRec(m)
      /\ \A k \in C : CallRec(q, k) = CallRec(m, k)
  BY DEF MessageRec, ThoughtRec, CallRec, Frame
<1>4. q.thinking = m.thinking
  BY DEF Frame
<1>5. Books(q, speaking, C) = Books(m, speaking, C)
  BY <1>3, <1>4 DEF Books
<1> QED BY <1>1, <1>2, <1>5 DEF Tracks

\* The news of an open item that is no piece of it.
LEMMA NoteKeeps ==
  ASSUME NEW s, NEW n, NEW speaking, NEW C, Tracks(s, n, speaking, C),
         NEW r \in OpenItems(s.out), NEW ev, NEW body,
         ev \in Dones \cup {"part_added", "summary_added"},
         IsSeq(body), ev \in Dones => body = r.body
  PROVE  LET q == PutPiece(s, ev, r.at, r.item.id, body)
         IN  Tracks(q, n, speaking, C) /\ Frame(q, s)
<1> DEFINE q == PutPiece(s, ev, r.at, r.item.id, body)
<1>1. ev \notin Deltas
  BY DEF Dones, Deltas
<1>2. LogOK(s)
  BY DEF Tracks
<1>3. [at |-> r.at, item |-> r.item, body |-> r.body] = r
  <2>1. PICK j \in Adds(s.out) : r = Rec(s.out, j)
    BY TheItem
  <2> QED BY <2>1 DEF Rec
<1>4. /\ LogOK(q) /\ Frame(q, s) /\ Ids(q.out) = Ids(s.out)
      /\ OpenItems(q.out) = (OpenItems(s.out) \ {r})
           \cup {[at |-> r.at, item |-> r.item,
                  body |-> IF ev \in Deltas THEN r.body \o body ELSE r.body]}
  <2>1. ev \in Deltas \cup Dones \cup {"part_added", "summary_added"}
    OBVIOUS
  <2>2. PutDone(q, s, r, IF ev \in Deltas THEN r.body \o body ELSE r.body)
    BY <1>2, <2>1, LogPut
  <2> HIDE DEF q
  <2> QED BY <2>2 DEF PutDone
<1> HIDE DEF q
<1>5. OpenItems(q.out) = OpenItems(s.out)
  BY <1>1, <1>3, <1>4
<1>6. Tracks(q, n, speaking, C)
  BY <1>4, <1>5, Framed DEF Tracks
<1> QED BY <1>4, <1>6 DEF q

-----------------------------------------------------------------------------
(* The items. *)

\* Nothing is a sequence.
LEMMA NothingIsSeq == IsSeq(<<>>)
<1>1. <<>> \in Seq({})
  OBVIOUS
<1> QED BY <1>1 DEF IsSeq

\* An id that the state does not know was given to no item.
LEMMA NewIds ==
  ASSUME NEW s, NEW n, CallsOK(s, n), s.thoughts \in Nat
  PROVE  /\ s.messageAt = None => MessageId \notin KnownIds(s)
         /\ ReasoningId(s.thoughts) \notin KnownIds(s)
         /\ \A x : (x = <<>> \/ \E p : x = <<"id", p, n>>) =>
                     <<"fc", Default(x, "index", n)>> \notin KnownIds(s)
<1>1. \A k \in 0..(n - 1) : \E x : s.itemOf[k].id = <<"fc", x>>
  BY DEF CallsOK
<1>2. DOMAIN s.itemOf = 0..(n - 1) /\ n \in Nat
  BY DEF CallsOK
<1>3. \A k : ReasoningId(k) = <<"rs">> \/ ReasoningId(k) = <<"rs", k>>
  BY DEF ReasoningId
<1>4. s.messageAt = None => MessageId \notin KnownIds(s)
  <2>1. \A k \in DOMAIN s.itemOf : s.itemOf[k].id # MessageId
    BY <1>1, <1>2 DEF MessageId
  <2>2. \A k : ReasoningId(k) # MessageId
    BY <1>3 DEF MessageId
  <2> QED BY <2>1, <2>2 DEF KnownIds
<1>5. ReasoningId(s.thoughts) \notin KnownIds(s)
  <2>1. \A k \in DOMAIN s.itemOf : s.itemOf[k].id # ReasoningId(s.thoughts)
    <3> SUFFICES ASSUME NEW k \in DOMAIN s.itemOf
                 PROVE  s.itemOf[k].id # ReasoningId(s.thoughts)
      OBVIOUS
    <3>1. PICK x : s.itemOf[k].id = <<"fc", x>>
      BY <1>1, <1>2
    <3> QED BY <1>3, <3>1
  <2>2. MessageId # ReasoningId(s.thoughts)
    BY <1>3 DEF MessageId
  <2>3. \A k \in 0..(s.thoughts - 1) : ReasoningId(k) # ReasoningId(s.thoughts)
    <3> SUFFICES ASSUME NEW k \in 0..(s.thoughts - 1)
                 PROVE  ReasoningId(k) # ReasoningId(s.thoughts)
      OBVIOUS
    <3>1. k # s.thoughts /\ s.thoughts # 0
      OBVIOUS
    <3>2. ReasoningId(s.thoughts) = <<"rs", s.thoughts>>
      BY <3>1 DEF ReasoningId
    <3> QED BY <1>3, <3>1, <3>2
  <2> QED BY <2>1, <2>2, <2>3 DEF KnownIds
<1>6. ASSUME NEW x, x = <<>> \/ \E p : x = <<"id", p, n>>
      PROVE  <<"fc", Default(x, "index", n)>> \notin KnownIds(s)
  <2> DEFINE id == <<"fc", Default(x, "index", n)>>
  <2>1. \A k \in DOMAIN s.itemOf : s.itemOf[k].id # id
    <3> SUFFICES ASSUME NEW k \in 0..(n - 1)
                 PROVE  s.itemOf[k].id # id
      BY <1>2
    <3>1. k \in Int /\ n \in Int /\ k # n
      BY <1>2
    <3>2. /\ s.itemOf[k].id = <<"fc", Default(s.tools[k].id, "index", k)>>
          /\ s.tools[k].id = <<>> \/ \E p : s.tools[k].id = <<"id", p, k>>
      BY DEF CallsOK
    <3> QED BY <1>6, <3>1, <3>2, CallIdsDiffer
  <2>2. MessageId # id
    BY DEF MessageId
  <2>3. \A k : ReasoningId(k) # id
    <3> SUFFICES ASSUME NEW k
                 PROVE  ReasoningId(k) # id
      OBVIOUS
    <3> QED BY <1>3
  <2> HIDE DEF id
  <2>4. id \notin KnownIds(s)
    BY <2>1, <2>2, <2>3 DEF KnownIds
  <2> QED BY <2>4 DEF id
<1> QED BY <1>4, <1>5, <1>6

\* The message is begun.
LEMMA OpenMessageKeeps ==
  ASSUME NEW s, NEW n, Tracked(s, n)
  PROVE  LET q == OpenMessage(s)
         IN  Tracked(q, n) /\ q.messageAt # None /\ q.failed = s.failed
<1>1. CASE s.messageAt # None
  BY <1>1 DEF OpenMessage
<1>2. CASE s.messageAt = None
  <2> DEFINE C == 0..(n - 1)
             m == [s EXCEPT !.messageAt = s.next, !.next = @ + 1]
             a == AddItem(m, s.next, MessageItem)
             q == PutPiece(a, "part_added", s.next, MessageId, <<>>)
  <2>1. OpenMessage(s) = q
    BY <1>2 DEF OpenMessage, MessageItem
  <2>2. LogOK(s) /\ Holds(s, n) /\ DOMAIN s = ResponsesFields /\ s.next \in Nat
        /\ Ids(s.out) \subseteq KnownIds(s) /\ OpenItems(s.out) = Books(s, FALSE, C)
    BY <1>2 DEF Tracked, Tracks, LogOK
  <2>3. /\ DOMAIN m = ResponsesFields /\ m.out = s.out /\ m.seq = s.seq /\ m.done = s.done
        /\ m.next = s.next + 1 /\ m.messageAt = s.next /\ m.text = s.text
        /\ m.thinking = s.thinking /\ m.thinkingAt = s.thinkingAt /\ m.thoughts = s.thoughts
        /\ m.rid = s.rid /\ m.reasoning = s.reasoning /\ m.tools = s.tools
        /\ m.itemOf = s.itemOf /\ m.failed = s.failed
    BY <2>2 DEF ResponsesFields
  <2> HIDE DEF m
  <2>4. m.messageAt # None
    BY <2>2, <2>3, StreamAssumption
  <2>5. MessageItem.id = MessageId /\ MessageId \notin Ids(s.out)
    BY <1>2, <2>2, ItemFields, NewIds DEF Holds
  <2>6. /\ LogOK(a) /\ Frame(a, m) /\ Ids(a.out) = Ids(s.out) \cup {MessageId}
        /\ OpenItems(a.out) = Books(s, FALSE, C)
                                \cup {[at |-> s.next, item |-> MessageItem, body |-> <<>>]}
    <3>1. AddDone(a, m, s, MessageItem)
      BY <2>2, <2>3, <2>5, LogAdd
    <3> HIDE DEF a, C
    <3> QED BY <2>2, <2>5, <3>1 DEF AddDone
  <2> HIDE DEF a, C
  <2>7. [at |-> s.next, item |-> MessageItem, body |-> <<>>] = MessageRec(m)
    BY <1>2, <2>2, <2>3 DEF MessageRec, Holds
  <2>8. OpenItems(a.out) = Books(m, TRUE, C)
    <3>1. ThoughtRec(m) = ThoughtRec(s) /\ \A k \in C : CallRec(m, k) = CallRec(s, k)
      BY <2>3 DEF ThoughtRec, CallRec
    <3> QED BY <2>3, <2>6, <2>7, <3>1 DEF Books
  <2>9. Holds(m, n)
    BY <2>2, <2>3, <2>4 DEF Holds, CallsOK
  <2>10. Ids(a.out) \subseteq KnownIds(m)
    <3>1. MessageId \in KnownIds(m)
      BY <2>4 DEF KnownIds
    <3>2. KnownIds(s) \subseteq KnownIds(m)
      <4>1. m.thoughts = s.thoughts /\ m.itemOf = s.itemOf
        BY <2>3
      <4> QED BY <1>2, <4>1 DEF KnownIds
    <3> QED BY <2>2, <2>6, <3>1, <3>2
  <2>11. Tracks(a, n, TRUE, C)
    BY <2>6, <2>8, <2>9, <2>10, Framed
  <2>12. /\ MessageRec(a) \in OpenItems(a.out) /\ MessageRec(a).at = s.next
         /\ MessageRec(a).item.id = MessageId
    <3>1. MessageRec(a) \in OpenItems(a.out)
      BY <2>11, InBooks DEF Tracks
    <3> QED BY <2>3, <2>5, <2>6, <3>1 DEF MessageRec, Frame
  <2>13. Tracks(q, n, TRUE, C) /\ Frame(q, a)
    <3>1. "part_added" \in Dones \cup {"part_added", "summary_added"} /\ "part_added" \notin Dones
      BY DEF Dones
    <3> QED BY <2>11, <2>12, <3>1, NoteKeeps, NothingIsSeq
  <2> HIDE DEF q
  <2>14. q.messageAt # None /\ q.failed = s.failed
    BY <2>3, <2>4, <2>6, <2>13 DEF Frame
  <2> QED BY <2>1, <2>13, <2>14 DEF Tracked, C
<1> QED BY <1>1, <1>2

\* A reasoning is begun, with an id of its own.
LEMMA OpenReasoningKeeps ==
  ASSUME NEW s, NEW n, Tracked(s, n)
  PROVE  LET q == OpenReasoning(s)
         IN  Tracked(q, n) /\ q.thinking = TRUE /\ q.failed = s.failed
<1>b. s.thinking \in BOOLEAN
  BY DEF Tracked, Tracks, Holds
<1>1. CASE s.thinking
  <2>1. OpenReasoning(s) = s
    BY <1>1 DEF OpenReasoning
  <2> QED BY <1>1, <1>b, <2>1
<1>2. CASE ~s.thinking
  <2> DEFINE C == 0..(n - 1)
             speaking == s.messageAt # None
             rid == IF s.thoughts = 0 THEN s.rid ELSE ReasoningId(s.thoughts)
             m == [s EXCEPT !.thinking = TRUE, !.part = FALSE, !.reasoning = <<>>,
                            !.thinkingAt = s.next, !.next = @ + 1,
                            !.thoughts = @ + 1, !.rid = rid]
             q == AddItem(m, s.next, ReasoningItem(rid))
  <2>1. OpenReasoning(s) = q
    BY <1>2 DEF OpenReasoning, ReasoningItem
  <2>2. LogOK(s) /\ Holds(s, n) /\ DOMAIN s = ResponsesFields /\ s.next \in Nat
        /\ Ids(s.out) \subseteq KnownIds(s) /\ OpenItems(s.out) = Books(s, speaking, C)
        /\ s.thoughts \in Nat
    BY DEF Tracked, Tracks, LogOK, Holds
  <2>3. rid = ReasoningId(s.thoughts)
    BY <2>2 DEF Holds
  <2> HIDE DEF rid
  <2>4. /\ DOMAIN m = ResponsesFields /\ m.out = s.out /\ m.seq = s.seq /\ m.done = s.done
        /\ m.next = s.next + 1 /\ m.messageAt = s.messageAt /\ m.text = s.text
        /\ m.thinking = TRUE /\ m.thinkingAt = s.next /\ m.thoughts = s.thoughts + 1
        /\ m.rid = rid /\ m.reasoning = <<>> /\ m.tools = s.tools
        /\ m.itemOf = s.itemOf /\ m.failed = s.failed
    BY <2>2 DEF ResponsesFields
  <2> HIDE DEF m
  <2>5. ReasoningItem(rid).id = rid /\ rid \notin Ids(s.out)
    BY <2>2, <2>3, ItemFields, NewIds DEF Holds
  <2>6. /\ LogOK(q) /\ Frame(q, m) /\ Ids(q.out) = Ids(s.out) \cup {rid}
        /\ OpenItems(q.out) = Books(s, speaking, C)
                                \cup {[at |-> s.next, item |-> ReasoningItem(rid), body |-> <<>>]}
    <3>1. AddDone(q, m, s, ReasoningItem(rid))
      BY <2>2, <2>4, <2>5, LogAdd
    <3> HIDE DEF q, C, speaking
    <3> QED BY <2>2, <2>5, <3>1 DEF AddDone
  <2> HIDE DEF q, C, speaking
  <2>7. [at |-> s.next, item |-> ReasoningItem(rid), body |-> <<>>] = ThoughtRec(m)
    BY <2>4 DEF ThoughtRec
  <2>8. OpenItems(q.out) = Books(m, speaking, C)
    <3>1. MessageRec(m) = MessageRec(s) /\ \A k \in C : CallRec(m, k) = CallRec(s, k)
      BY <2>4 DEF MessageRec, CallRec
    <3>2. s.thinking = FALSE /\ m.thinking = TRUE
      BY <1>2, <1>b, <2>4
    <3>3. Books(m, speaking, C) = Books(s, speaking, C) \cup {ThoughtRec(m)}
      BY <3>1, <3>2 DEF Books
    <3> QED BY <2>6, <2>7, <3>3
  <2>9. Holds(m, n)
    <3>1. CallsOK(m, n)
      BY <2>2, <2>4 DEF Holds, CallsOK
    <3>2. m.thoughts \in Nat /\ m.thoughts # 0
      BY <2>2, <2>4
    <3>3. m.thinking \in BOOLEAN
      BY <2>4
    <3>4. m.messageAt = None => m.text = <<>>
      <4>1. s.messageAt = None => s.text = <<>>
        BY <2>2 DEF Holds
      <4> QED BY <2>4, <4>1
    <3> QED BY <3>1, <3>2, <3>3, <3>4 DEF Holds
  <2>10. Ids(q.out) \subseteq KnownIds(m)
    <3>1. 0..((s.thoughts + 1) - 1) = 0..(s.thoughts - 1) \cup {s.thoughts}
      BY <2>2
    <3>2. KnownIds(m) = KnownIds(s) \cup {rid}
      BY <2>3, <2>4, <3>1 DEF KnownIds
    <3> QED BY <2>2, <2>6, <3>2
  <2>11. Tracks(q, n, speaking, C)
    BY <2>6, <2>8, <2>9, <2>10, Framed
  <2>12. q.thinking = TRUE /\ q.failed = s.failed /\ q.messageAt = s.messageAt
    BY <2>4, <2>6 DEF Frame
  <2> QED BY <2>1, <2>11, <2>12 DEF Tracked, C, speaking
<1> QED BY <1>1, <1>2

\* Its summary part is begun.
LEMMA OpenPartKeeps ==
  ASSUME NEW s, NEW n, Tracked(s, n), s.thinking = TRUE
  PROVE  LET q == OpenPart(s)
         IN  Tracked(q, n) /\ q.thinking = TRUE /\ q.failed = s.failed
<1>1. CASE s.part
  BY <1>1 DEF OpenPart
<1>2. CASE ~s.part
  <2> DEFINE C == 0..(n - 1)
             speaking == s.messageAt # None
             m == [s EXCEPT !.part = TRUE]
             q == PutPiece(m, "summary_added", m.thinkingAt, m.rid, <<>>)
  <2>1. LogOK(s) /\ DOMAIN s = ResponsesFields /\ Tracks(s, n, speaking, C)
    BY DEF Tracked, Tracks, LogOK
  <2>2. /\ DOMAIN m = ResponsesFields /\ m.out = s.out /\ m.seq = s.seq /\ m.done = s.done
        /\ m.next = s.next /\ m.messageAt = s.messageAt /\ m.text = s.text
        /\ m.thinking = s.thinking /\ m.thinkingAt = s.thinkingAt /\ m.thoughts = s.thoughts
        /\ m.rid = s.rid /\ m.reasoning = s.reasoning /\ m.tools = s.tools
        /\ m.itemOf = s.itemOf /\ m.failed = s.failed
    BY <2>1 DEF ResponsesFields
  <2>3. OpenPart(s) = q
    BY <1>2, <2>2 DEF OpenPart
  <2> HIDE DEF m
  <2>4. Tracks(m, n, speaking, C)
    <3>1. LogOK(m)
      BY <2>1, <2>2, SameLog
    <3>2. Holds(m, n) /\ KnownIds(m) = KnownIds(s)
      BY <2>1, <2>2 DEF Tracks, Holds, CallsOK, KnownIds
    <3>3. Books(m, speaking, C) = Books(s, speaking, C)
      BY <2>2 DEF Books, MessageRec, ThoughtRec, CallRec
    <3> QED BY <2>1, <2>2, <3>1, <3>2, <3>3 DEF Tracks
  <2>5. /\ ThoughtRec(m) \in OpenItems(m.out) /\ ThoughtRec(m).at = m.thinkingAt
        /\ ThoughtRec(m).item.id = m.rid
    <3>1. ThoughtRec(m) \in OpenItems(m.out)
      BY <2>2, <2>4, InBooks DEF Tracks
    <3> QED BY <3>1, ItemFields DEF ThoughtRec
  <2>6. Tracks(q, n, speaking, C) /\ Frame(q, m)
    <3>1. "summary_added" \in Dones \cup {"part_added", "summary_added"}
          /\ "summary_added" \notin Dones
      BY DEF Dones
    <3> QED BY <2>4, <2>5, <3>1, NoteKeeps, NothingIsSeq
  <2> HIDE DEF q
  <2>7. q.thinking = TRUE /\ q.failed = s.failed /\ q.messageAt = s.messageAt
    BY <2>2, <2>6 DEF Frame
  <2> QED BY <2>3, <2>6, <2>7 DEF Tracked, C, speaking
<1> QED BY <1>1, <1>2

\* A reasoning that is over is done, with all that was sent of it.
LEMMA CloseReasoningKeeps ==
  ASSUME NEW s, NEW n, Tracked(s, n)
  PROVE  LET q == CloseReasoning(s)
         IN  /\ Tracked(q, n) /\ q.thinking = FALSE /\ q.failed = s.failed
             /\ q.tools = s.tools
<1>b. s.thinking \in BOOLEAN
  BY DEF Tracked, Tracks, Holds
<1>1. CASE ~s.thinking
  <2>1. CloseReasoning(s) = s
    BY <1>1 DEF CloseReasoning
  <2> QED BY <1>1, <1>b, <2>1
<1>2. CASE s.thinking
  <2> DEFINE C == 0..(n - 1)
             speaking == s.messageAt # None
             r == ThoughtRec(s)
             t == PutPiece(s, "summary_text_done", s.thinkingAt, s.rid, s.reasoning)
             d == PutPiece(t, "summary_done", s.thinkingAt, s.rid, s.reasoning)
             p == IF ~s.part THEN t ELSE [d EXCEPT !.part = FALSE]
             item == [OutputItem EXCEPT !.type = "reasoning", !.id = s.rid, !.body = s.reasoning]
             f == FinishItem(p, s.thinkingAt, item)
             q == [f EXCEPT !.thinking = FALSE]
  <2>1. CloseReasoning(s) = q
    BY <1>2 DEF CloseReasoning
  <2>2. LogOK(s) /\ DOMAIN s = ResponsesFields /\ Tracks(s, n, speaking, C) /\ s.thinking = TRUE
    BY <1>2, <1>b DEF Tracked, Tracks, LogOK
  <2>3. /\ r.at = s.thinkingAt /\ r.item = ReasoningItem(s.rid) /\ r.item.id = s.rid
        /\ r.body = s.reasoning
    BY ItemFields DEF ThoughtRec
  <2>4. r \in OpenItems(s.out) /\ IsSeq(s.reasoning)
    <3>1. r \in OpenItems(s.out)
      BY <2>2, InBooks DEF Tracks
    <3> QED BY <2>2, <2>3, <3>1, OpenSeq DEF LogOK
  <2>5. item = [r.item EXCEPT !.body = r.body] /\ item.id = r.item.id
    BY <2>3 DEF ReasoningItem, OutputItem
  <2> HIDE DEF r, item
  <2>6. {"summary_text_done", "summary_done"} \subseteq Dones
    BY DEF Dones
  <2>7. Tracks(t, n, speaking, C) /\ Frame(t, s)
    BY <2>2, <2>3, <2>4, <2>6, NoteKeeps
  <2> HIDE DEF t
  <2>8. ThoughtRec(t) = r /\ r \in OpenItems(t.out)
    <3>1. ThoughtRec(t) = r /\ t.thinking = TRUE
      BY <2>2, <2>7 DEF ThoughtRec, Frame, r
    <3> QED BY <2>7, <3>1, InBooks DEF Tracks
  <2>9. Tracks(d, n, speaking, C) /\ Frame(d, t)
    BY <2>3, <2>4, <2>6, <2>7, <2>8, NoteKeeps
  <2> HIDE DEF d
  <2>10. /\ LogOK(p) /\ Holds(p, n) /\ Ids(p.out) \subseteq KnownIds(p)
         /\ OpenItems(p.out) = Books(s, speaking, C) /\ p.thinking = s.thinking
         /\ p.messageAt = s.messageAt /\ p.text = s.text
         /\ p.tools = s.tools /\ p.itemOf = s.itemOf /\ p.failed = s.failed
    <3>1. ASSUME NEW x, Tracks(x, n, speaking, C), Frame(x, s)
          PROVE  /\ LogOK(x) /\ Holds(x, n) /\ Ids(x.out) \subseteq KnownIds(x)
                 /\ OpenItems(x.out) = Books(s, speaking, C) /\ x.thinking = s.thinking
                 /\ x.messageAt = s.messageAt /\ x.text = s.text
                 /\ x.tools = s.tools /\ x.itemOf = s.itemOf /\ x.failed = s.failed
      <4>1. Books(x, speaking, C) = Books(s, speaking, C)
        BY <3>1 DEF Frame, Books, MessageRec, ThoughtRec, CallRec
      <4> QED BY <3>1, <4>1 DEF Tracks, Frame
    <3>2. CASE ~s.part
      BY <2>7, <3>1, <3>2
    <3>3. CASE s.part
      <4> DEFINE y == [d EXCEPT !.part = FALSE]
      <4>1. p = y
        BY <3>3
      <4>2. Frame(d, s) /\ LogOK(d) /\ DOMAIN d = ResponsesFields
        BY <2>7, <2>9 DEF Frame, Tracks, LogOK
      <4>3. /\ DOMAIN y = ResponsesFields /\ y.out = d.out /\ y.seq = d.seq /\ y.done = d.done
            /\ y.next = d.next /\ y.messageAt = d.messageAt /\ y.text = d.text
            /\ y.thinking = d.thinking /\ y.thoughts = d.thoughts /\ y.rid = d.rid /\ y.tools = d.tools
            /\ y.itemOf = d.itemOf /\ y.failed = d.failed
        BY <4>2 DEF ResponsesFields
      <4> HIDE DEF y, p
      <4>4. LogOK(y)
        BY <4>2, <4>3, SameLog
      <4>5. /\ LogOK(d) /\ Holds(d, n) /\ Ids(d.out) \subseteq KnownIds(d)
            /\ OpenItems(d.out) = Books(s, speaking, C) /\ d.thinking = s.thinking
            /\ d.messageAt = s.messageAt /\ d.text = s.text
            /\ d.tools = s.tools /\ d.itemOf = s.itemOf /\ d.failed = s.failed
        BY <2>9, <3>1, <4>2
      <4>6. Holds(y, n) /\ KnownIds(y) = KnownIds(d)
        BY <4>3, <4>5 DEF Holds, CallsOK, KnownIds
      <4> QED BY <4>1, <4>3, <4>4, <4>5, <4>6
    <3> QED BY <3>2, <3>3
  <2> HIDE DEF p
  <2>11. r \in OpenItems(p.out)
    BY <2>2, <2>10, InBooks DEF r
  <2>12. /\ LogOK(f) /\ Frame(f, p) /\ Ids(f.out) = Ids(p.out)
         /\ OpenItems(f.out) = Books(s, speaking, C) \ {r}
    <3>1. EndDone(f, p, r)
      BY <2>3, <2>5, <2>10, <2>11, LogEnd
    <3> HIDE DEF f, C, speaking
    <3> QED BY <2>10, <3>1 DEF EndDone
  <2> HIDE DEF f
  <2>13. /\ DOMAIN q = ResponsesFields /\ q.out = f.out /\ q.seq = f.seq /\ q.done = f.done
         /\ q.next = f.next /\ q.messageAt = f.messageAt /\ q.text = f.text
         /\ q.thinking = FALSE /\ q.thoughts = f.thoughts
         /\ q.rid = f.rid /\ q.tools = f.tools
         /\ q.itemOf = f.itemOf /\ q.failed = f.failed
    BY <2>12 DEF ResponsesFields, LogOK
  <2> HIDE DEF q
  <2>14. LogOK(q)
    BY <2>12, <2>13, SameLog
  <2>15. Holds(q, n) /\ KnownIds(q) = KnownIds(p)
    <3>1. /\ q.tools = p.tools /\ q.itemOf = p.itemOf /\ q.thoughts = p.thoughts
          /\ q.thinking = FALSE /\ q.rid = p.rid /\ q.messageAt = p.messageAt /\ q.text = p.text
      BY <2>12, <2>13 DEF Frame
    <3>2. KnownIds(q) = KnownIds(p)
      BY <3>1 DEF KnownIds
    <3>3. CallsOK(q, n)
      BY <2>10, <3>1 DEF Holds, CallsOK
    <3> QED BY <2>10, <3>1, <3>2, <3>3 DEF Holds
  <2>16. Books(q, speaking, C) = Books(s, speaking, C) \ {r}
    <3>1. MessageRec(q) = MessageRec(s) /\ \A k \in C : CallRec(q, k) = CallRec(s, k)
      BY <2>10, <2>12, <2>13 DEF MessageRec, CallRec, Frame
    <3>2. MessageRec(s) # r /\ \A k \in C : CallRec(s, k) # r
      BY RecsApart DEF r
    <3> QED BY <2>2, <2>13, <3>1, <3>2 DEF Books, r
  <2>17. Tracks(q, n, speaking, C)
    BY <2>10, <2>12, <2>13, <2>14, <2>15, <2>16 DEF Tracks
  <2>18. q.messageAt = s.messageAt /\ q.failed = s.failed /\ q.tools = s.tools
    BY <2>10, <2>12, <2>13 DEF Frame
  <2> QED BY <2>1, <2>13, <2>17, <2>18 DEF Tracked, C, speaking
<1> QED BY <1>1, <1>2

\* A piece of the reasoning.
LEMMA PutReasoningKeeps ==
  ASSUME NEW s, NEW n, Tracked(s, n), NEW piece, IsSeq(piece)
  PROVE  LET q == PutReasoning(s, piece)
         IN  Tracked(q, n) /\ q.failed = s.failed
<1> DEFINE C == 0..(n - 1)
           o == OpenPart(OpenReasoning(s))
           speaking == o.messageAt # None
           r == ThoughtRec(o)
           m == [o EXCEPT !.reasoning = @ \o piece]
           q == PutPiece(m, "summary_delta", o.thinkingAt, o.rid, piece)
<1>1. PutReasoning(s, piece) = q
  BY DEF PutReasoning
<1>2. Tracked(o, n) /\ o.thinking = TRUE /\ o.failed = s.failed
  <2>1. /\ Tracked(OpenReasoning(s), n) /\ OpenReasoning(s).thinking = TRUE
        /\ OpenReasoning(s).failed = s.failed
    BY OpenReasoningKeeps
  <2> QED BY <2>1, OpenPartKeeps
<1> HIDE DEF o
<1>3. LogOK(o) /\ DOMAIN o = ResponsesFields /\ Holds(o, n) /\ Ids(o.out) \subseteq KnownIds(o)
      /\ OpenItems(o.out) = Books(o, speaking, C)
  BY <1>2 DEF Tracked, Tracks, LogOK
<1>4. /\ DOMAIN m = ResponsesFields /\ m.out = o.out /\ m.seq = o.seq /\ m.done = o.done
      /\ m.next = o.next /\ m.messageAt = o.messageAt /\ m.text = o.text
      /\ m.thinking = o.thinking /\ m.thinkingAt = o.thinkingAt /\ m.thoughts = o.thoughts
      /\ m.rid = o.rid /\ m.reasoning = o.reasoning \o piece /\ m.tools = o.tools
      /\ m.itemOf = o.itemOf /\ m.failed = o.failed
  BY <1>3 DEF ResponsesFields
<1> HIDE DEF m
<1>5. LogOK(m) /\ Holds(m, n) /\ KnownIds(m) = KnownIds(o)
  <2>1. LogOK(m)
    BY <1>3, <1>4, SameLog
  <2> QED BY <1>3, <1>4, <2>1 DEF Holds, CallsOK, KnownIds
<1>6. /\ r.at = o.thinkingAt /\ r.item.id = o.rid /\ r.body = o.reasoning
      /\ ThoughtRec(m) = [at |-> r.at, item |-> r.item, body |-> r.body \o piece]
  BY <1>4, ItemFields DEF ThoughtRec
<1>7. r \in OpenItems(m.out)
  <2> HIDE DEF C, speaking
  <2>1. ThoughtRec(o) \in Books(o, speaking, C)
    BY <1>2, InBooks
  <2> QED BY <1>3, <1>4, <2>1
<1> HIDE DEF r
<1>8. "summary_delta" \in Deltas /\ "summary_delta" \notin Dones
  BY DEF Deltas, Dones
<1>9. /\ LogOK(q) /\ Frame(q, m) /\ Ids(q.out) = Ids(m.out)
      /\ OpenItems(q.out) = (OpenItems(m.out) \ {r}) \cup {ThoughtRec(m)}
  <2>1. PutDone(q, m, r, r.body \o piece)
    <3>1. PutDone(q, m, r, IF "summary_delta" \in Deltas THEN r.body \o piece ELSE r.body)
      BY <1>5, <1>6, <1>7, <1>8, LogPut
    <3> QED BY <1>8, <3>1
  <2> HIDE DEF q
  <2> QED BY <1>6, <2>1 DEF PutDone
<1> HIDE DEF q, speaking, C
<1>10. OpenItems(q.out) = Books(m, speaking, C)
  <2>1. MessageRec(m) = MessageRec(o) /\ \A k \in C : CallRec(m, k) = CallRec(o, k)
    BY <1>4 DEF MessageRec, CallRec
  <2>2. MessageRec(o) # r /\ \A k \in C : CallRec(o, k) # r
    BY RecsApart DEF r
  <2>3. m.thinking = TRUE /\ OpenItems(m.out) = Books(o, speaking, C)
    BY <1>2, <1>3, <1>4
  <2> QED BY <1>2, <1>9, <2>1, <2>2, <2>3 DEF Books, r
<1>11. Tracks(q, n, speaking, C)
  BY <1>3, <1>4, <1>5, <1>9, <1>10, Framed
<1>12. q.messageAt = o.messageAt /\ q.failed = s.failed
  BY <1>2, <1>4, <1>9 DEF Frame
<1> QED BY <1>1, <1>11, <1>12 DEF Tracked, speaking, C

\* A piece of the text: the reasoning before it is over.
LEMMA PutMessageKeeps ==
  ASSUME NEW s, NEW n, Tracked(s, n), NEW piece, IsSeq(piece)
  PROVE  LET q == PutMessage(s, piece)
         IN  Tracked(q, n) /\ q.failed = s.failed
<1> DEFINE C == 0..(n - 1)
           o == OpenMessage(CloseReasoning(s))
           r == MessageRec(o)
           m == [o EXCEPT !.text = @ \o piece]
           q == PutPiece(m, "text_delta", o.messageAt, MessageId, piece)
<1>1. PutMessage(s, piece) = q
  BY DEF PutMessage
<1>2. Tracked(o, n) /\ o.messageAt # None /\ o.failed = s.failed
  <2>1. Tracked(CloseReasoning(s), n) /\ CloseReasoning(s).failed = s.failed
    BY CloseReasoningKeeps
  <2> QED BY <2>1, OpenMessageKeeps
<1> HIDE DEF o
<1>3. LogOK(o) /\ DOMAIN o = ResponsesFields /\ Holds(o, n) /\ Ids(o.out) \subseteq KnownIds(o)
      /\ OpenItems(o.out) = Books(o, TRUE, C)
  BY <1>2 DEF Tracked, Tracks, LogOK
<1>4. /\ DOMAIN m = ResponsesFields /\ m.out = o.out /\ m.seq = o.seq /\ m.done = o.done
      /\ m.next = o.next /\ m.messageAt = o.messageAt /\ m.text = o.text \o piece
      /\ m.thinking = o.thinking /\ m.thinkingAt = o.thinkingAt /\ m.thoughts = o.thoughts
      /\ m.rid = o.rid /\ m.reasoning = o.reasoning /\ m.tools = o.tools
      /\ m.itemOf = o.itemOf /\ m.failed = o.failed
  BY <1>3 DEF ResponsesFields
<1> HIDE DEF m
<1>5. LogOK(m) /\ Holds(m, n) /\ KnownIds(m) = KnownIds(o)
  <2>1. LogOK(m)
    BY <1>3, <1>4, SameLog
  <2>2. CallsOK(m, n)
    BY <1>3, <1>4 DEF Holds, CallsOK
  <2>3. Holds(m, n)
    BY <1>2, <1>3, <1>4, <2>2 DEF Holds
  <2>4. KnownIds(m) = KnownIds(o)
    BY <1>4 DEF KnownIds
  <2> QED BY <2>1, <2>3, <2>4
<1>6. /\ r.at = o.messageAt /\ r.item.id = MessageId /\ r.body = o.text
      /\ MessageRec(m) = [at |-> r.at, item |-> r.item, body |-> r.body \o piece]
  BY <1>4, ItemFields DEF MessageRec
<1>7. r \in OpenItems(m.out)
  <2> HIDE DEF C
  <2>1. MessageRec(o) \in Books(o, TRUE, C)
    BY InBooks
  <2> QED BY <1>3, <1>4, <2>1
<1> HIDE DEF r
<1>8. "text_delta" \in Deltas /\ "text_delta" \notin Dones
  BY DEF Deltas, Dones
<1>9. /\ LogOK(q) /\ Frame(q, m) /\ Ids(q.out) = Ids(m.out)
      /\ OpenItems(q.out) = (OpenItems(m.out) \ {r}) \cup {MessageRec(m)}
  <2>1. PutDone(q, m, r, r.body \o piece)
    <3>1. PutDone(q, m, r, IF "text_delta" \in Deltas THEN r.body \o piece ELSE r.body)
      BY <1>5, <1>6, <1>7, <1>8, LogPut
    <3> QED BY <1>8, <3>1
  <2> HIDE DEF q
  <2> QED BY <1>6, <2>1 DEF PutDone
<1> HIDE DEF q, C
<1>10. OpenItems(q.out) = Books(m, TRUE, C)
  <2>1. ThoughtRec(m) = ThoughtRec(o) /\ \A k \in C : CallRec(m, k) = CallRec(o, k)
    BY <1>4 DEF ThoughtRec, CallRec
  <2>2. ThoughtRec(o) # r /\ \A k \in C : CallRec(o, k) # r
    BY RecsApart DEF r
  <2>3. m.thinking = o.thinking /\ OpenItems(m.out) = Books(o, TRUE, C)
    BY <1>3, <1>4
  <2> QED BY <1>9, <2>1, <2>2, <2>3 DEF Books, r
<1>11. Tracks(q, n, TRUE, C)
  BY <1>3, <1>4, <1>5, <1>9, <1>10, Framed
<1>12. q.messageAt # None /\ q.failed = s.failed
  BY <1>2, <1>4, <1>9 DEF Frame
<1> QED BY <1>1, <1>11, <1>12 DEF Tracked, C

\* c is what a delta makes of the calls.
Ingested(c, calls, d) ==
  /\ DOMAIN c = DOMAIN calls \cup {d.index}
  /\ \A k \in DOMAIN calls \ {d.index} : c[k] = calls[k]
  /\ d.index \notin DOMAIN calls =>
       c[d.index].id = d.id /\ c[d.index].name = d.name /\ c[d.index].args = d.args
  /\ d.index \in DOMAIN calls /\ d.id = <<>> /\ d.name = None =>
       /\ c[d.index].id = calls[d.index].id /\ c[d.index].name = calls[d.index].name
       /\ c[d.index].args = calls[d.index].args \o d.args
  /\ IsSeq(c[d.index].args)

\* What a delta makes of the calls.
LEMMA IngestIs ==
  ASSUME NEW calls, NEW d, IsSeq(d.args), d.index \in DOMAIN calls => IsSeq(calls[d.index].args)
  PROVE  Ingested(Ingest(calls, d), calls, d)
<1> DEFINE old == IF d.index \in DOMAIN calls THEN calls[d.index] ELSE NewCall
           new == Merge(old, d)
           c == Ingest(calls, d)
<1>1. /\ DOMAIN c = DOMAIN calls \cup {d.index} /\ c[d.index] = new
      /\ \A k \in DOMAIN calls \ {d.index} : c[k] = calls[k]
  BY DEF Ingest, With
<1>2. /\ new.id = (IF d.id # <<>> THEN d.id ELSE old.id)
      /\ new.name = (IF d.name # None THEN d.name ELSE old.name)
      /\ new.args = old.args \o d.args
  BY DEF Merge
<1> HIDE DEF new, c
<1>3. CASE d.index \notin DOMAIN calls
  <2>1. old.id = <<>> /\ old.name = None /\ old.args = <<>>
    BY <1>3 DEF NewCall
  <2>2. <<>> \o d.args = d.args
    BY Concatenated
  <2> HIDE DEF old
  <2>3. new.id = d.id /\ new.name = d.name /\ new.args = d.args
    BY <1>2, <2>1, <2>2
  <2> QED BY <1>1, <1>3, <2>3 DEF c, Ingested
<1>4. CASE d.index \in DOMAIN calls
  <2>1. old = calls[d.index] /\ IsSeq(old.args)
    BY <1>4
  <2> HIDE DEF old
  <2>2. IsSeq(new.args)
    BY <1>2, <2>1, Concatenated
  <2> QED BY <1>1, <1>2, <1>4, <2>1, <2>2 DEF c, Ingested
<1> QED BY <1>3, <1>4

\* A call begun has an item of its own, and what was sent of its arguments.
LEMMA BeginCallKeeps ==
  ASSUME NEW s, NEW n, Tracked(s, n), NEW d, Begins(d, n), IsSeq(d.args)
  PROVE  LET q == PutCall(s, d)
         IN  Tracked(q, n + 1) /\ q.failed = s.failed
<1> DEFINE C == 0..(n - 1)
           speaking == s.messageAt # None
           c == Ingest(s.tools, d)
           m == [s EXCEPT !.tools = c]
           id == <<"fc", Default(c[n].id, "index", n)>>
           item == [OutputItem EXCEPT !.type = "function_call", !.name = c[n].name, !.id = id,
                                      !.call_id = Default(c[n].id, "call", n)]
           x == [m EXCEPT !.next = @ + 1, !.itemOf = With(@, n, [id |-> id, at |-> s.next])]
           o == AddItem(x, s.next, item)
           q == IF d.args = <<>> THEN o
                ELSE PutPiece(o, "args_delta", o.itemOf[n].at, o.itemOf[n].id, d.args)
<1>1. /\ LogOK(s) /\ DOMAIN s = ResponsesFields /\ Holds(s, n) /\ Ids(s.out) \subseteq KnownIds(s)
      /\ OpenItems(s.out) = Books(s, speaking, C) /\ s.next \in Nat
      /\ CallsOK(s, n) /\ s.thoughts \in Nat
  BY DEF Tracked, Tracks, LogOK, Holds
<1>2. /\ n \in Nat /\ DOMAIN s.tools = 0..(n - 1) /\ DOMAIN s.itemOf = 0..(n - 1)
      /\ n \notin 0..(n - 1) /\ 0..(n - 1) \cup {n} = 0..((n + 1) - 1)
      /\ (n + 1) - 1 = n
  BY <1>1 DEF CallsOK
<1>3. d.index = n /\ d.name # None /\ (d.id = <<>> \/ \E p : d.id = <<"id", p, n>>)
  BY DEF Begins
<1>4. /\ DOMAIN c = 0..((n + 1) - 1) /\ \A k \in 0..(n - 1) : c[k] = s.tools[k]
      /\ c[n].id = d.id /\ c[n].name # None /\ c[n].args = d.args
  <2>1. d.index \notin DOMAIN s.tools
    BY <1>2, <1>3
  <2>2. Ingested(c, s.tools, d)
    BY <2>1, IngestIs
  <2> HIDE DEF c
  <2> QED BY <1>2, <1>3, <2>1, <2>2 DEF Ingested
<1> HIDE DEF c
<1>5. /\ DOMAIN m = ResponsesFields /\ m.next = s.next /\ m.tools = c /\ m.itemOf = s.itemOf
  BY <1>1 DEF ResponsesFields
<1>6. PutCall(s, d) = q
  <2>1. m.tools = Ingest(s.tools, d)
    BY <1>5 DEF c
  <2>2. /\ n \notin DOMAIN m.itemOf /\ m.tools[n].name # None /\ m.next = s.next
        /\ m.tools[n] = c[n]
    BY <1>2, <1>4, <1>5
  <2>3. PutCall(s, d) =
          LET call == m.tools[n]
              i2 == [OutputItem EXCEPT !.type = "function_call", !.name = call.name,
                       !.id = <<"fc", Default(call.id, "index", n)>>,
                       !.call_id = Default(call.id, "call", n)]
              o2 == IF n \in DOMAIN m.itemOf THEN m
                    ELSE AddItem([m EXCEPT !.next = @ + 1,
                                           !.itemOf = With(@, n, [id |-> i2.id, at |-> m.next])],
                                 m.next, i2)
          IN  IF n \notin DOMAIN m.itemOf /\ call.name = None THEN m
              ELSE IF d.args = <<>> THEN o2
              ELSE PutPiece(o2, "args_delta", o2.itemOf[n].at, o2.itemOf[n].id, d.args)
    BY <1>3 DEF PutCall, c
  <2>4. item.id = id
    BY DEF OutputItem
  <2> HIDE DEF m
  <2> QED BY <2>2, <2>3, <2>4
<1>7. item = CallItem(id, c[n].name, Default(c[n].id, "call", n)) /\ item.id = id
      /\ item.type = "function_call"
  <2>1. item = CallItem(id, c[n].name, Default(c[n].id, "call", n))
    BY DEF CallItem
  <2> HIDE DEF item, id
  <2> QED BY <2>1, ItemFields
<1>8. id \notin KnownIds(s)
  BY <1>1, <1>3, <1>4, NewIds
<1> HIDE DEF item
<1>9. /\ DOMAIN x = ResponsesFields /\ x.out = s.out /\ x.seq = s.seq /\ x.done = s.done
      /\ x.next = s.next + 1 /\ x.messageAt = s.messageAt /\ x.text = s.text
      /\ x.thinking = s.thinking /\ x.thinkingAt = s.thinkingAt /\ x.thoughts = s.thoughts
      /\ x.rid = s.rid /\ x.reasoning = s.reasoning /\ x.tools = c
      /\ x.itemOf = With(s.itemOf, n, [id |-> id, at |-> s.next]) /\ x.failed = s.failed
  BY <1>1 DEF ResponsesFields
<1> HIDE DEF x, m
<1>10. /\ DOMAIN x.itemOf = 0..((n + 1) - 1) /\ \A k \in 0..(n - 1) : x.itemOf[k] = s.itemOf[k]
       /\ x.itemOf[n].id = id /\ x.itemOf[n].at = s.next
  BY <1>2, <1>9 DEF With
<1>i. id = <<"fc", Default(c[n].id, "index", n)>>
  OBVIOUS
<1> HIDE DEF id
<1> DEFINE r == [at |-> s.next, item |-> item, body |-> <<>>]
<1>11. /\ LogOK(o) /\ Frame(o, x) /\ Ids(o.out) = Ids(s.out) \cup {id}
       /\ OpenItems(o.out) = Books(s, speaking, C) \cup {r}
  <2>1. item.id \notin Ids(s.out)
    BY <1>1, <1>7, <1>8
  <2>2. AddDone(o, x, s, item)
    BY <1>1, <1>9, <2>1, LogAdd
  <2> HIDE DEF o, C, speaking
  <2> QED BY <1>1, <1>7, <2>2 DEF AddDone
<1>12. Holds(x, n + 1)
  <2>1. CallsOK(x, n + 1)
    <3> SUFFICES ASSUME NEW k \in 0..((n + 1) - 1)
                 PROVE  /\ x.tools[k].name # None /\ IsSeq(x.tools[k].args)
                        /\ x.tools[k].id = <<>> \/ \E p : x.tools[k].id = <<"id", p, k>>
                        /\ x.itemOf[k].id = <<"fc", Default(x.tools[k].id, "index", k)>>
      BY <1>2, <1>4, <1>9, <1>10 DEF CallsOK
    <3>1. CASE k = n
      BY <1>3, <1>4, <1>9, <1>10, <1>i, <3>1
    <3>2. CASE k \in 0..(n - 1)
      BY <1>1, <1>4, <1>9, <1>10, <3>2 DEF CallsOK
    <3> QED BY <1>2, <3>1, <3>2
  <2> QED BY <1>1, <1>9, <2>1 DEF Holds
<1>13. KnownIds(x) = KnownIds(s) \cup {id}
  <2>1. {x.itemOf[k].id : k \in 0..((n + 1) - 1)} = {s.itemOf[k].id : k \in 0..(n - 1)} \cup {id}
    <3> DEFINE P == 0..((n + 1) - 1)
    <3>1. P = 0..(n - 1) \cup {n} /\ DOMAIN s.itemOf = 0..(n - 1)
      BY <1>2
    <3> HIDE DEF P
    <3>2. \A k \in 0..(n - 1) : x.itemOf[k].id = s.itemOf[k].id
      BY <1>10
    <3>3. x.itemOf[n].id = id
      BY <1>10
    <3>4. {x.itemOf[k].id : k \in P} = {s.itemOf[k].id : k \in 0..(n - 1)} \cup {id}
      BY <3>1, <3>2, <3>3
    <3> QED BY <3>4 DEF P
  <2> QED BY <1>2, <1>9, <1>10, <2>1 DEF KnownIds
<1>14. CallRec(x, n) = [at |-> s.next, item |-> item, body |-> d.args]
  BY <1>4, <1>7, <1>9, <1>10 DEF CallRec
<1>15. Books(x, speaking, 0..((n + 1) - 1)) = Books(s, speaking, C) \cup {CallRec(x, n)}
  <2>1. /\ MessageRec(x) = MessageRec(s) /\ ThoughtRec(x) = ThoughtRec(s)
        /\ \A k \in C : CallRec(x, k) = CallRec(s, k)
    BY <1>4, <1>9, <1>10 DEF MessageRec, ThoughtRec, CallRec
  <2>2. {CallRec(x, k) : k \in 0..((n + 1) - 1)} = {CallRec(s, k) : k \in C} \cup {CallRec(x, n)}
    BY <1>2, <2>1
  <2> HIDE DEF C
  <2> QED BY <1>9, <2>1, <2>2 DEF Books
<1>16. r \notin Books(s, speaking, C)
  <2>1. r.item.type = "function_call" /\ r.item.id = id
    BY <1>7
  <2>2. MessageRec(s).item.type = "message" /\ ThoughtRec(s).item.type = "reasoning"
    BY ItemFields DEF MessageRec, ThoughtRec
  <2>3. \A k \in C : CallRec(s, k).item.id # id
    <3>1. \A k \in C : s.itemOf[k].id # id
      BY <1>2, <1>8 DEF KnownIds
    <3> QED BY <3>1, ItemFields DEF CallRec
  <2> HIDE DEF r, C
  <2> QED BY <2>1, <2>2, <2>3 DEF Books
<1> HIDE DEF o, speaking, C
<1>17. /\ LogOK(q) /\ Frame(q, x) /\ Ids(q.out) = Ids(s.out) \cup {id}
       /\ OpenItems(q.out) = Books(s, speaking, C) \cup {CallRec(x, n)}
  <2>1. CASE d.args = <<>>
    <3>1. r = CallRec(x, n) /\ q = o
      BY <1>14, <2>1
    <3> HIDE DEF r, q
    <3> QED BY <1>11, <3>1
  <2>2. CASE d.args # <<>>
    <3> DEFINE y == PutPiece(o, "args_delta", s.next, id, d.args)
    <3>1. q = y
      BY <1>10, <1>11, <2>2 DEF Frame
    <3>2. r.at = s.next /\ r.item.id = id /\ r.item = item /\ r.body = <<>>
      BY <1>7
    <3>3. r \in OpenItems(o.out)
      BY <1>11
    <3>4. <<>> \o d.args = d.args
      BY Concatenated
    <3>5. "args_delta" \in Deltas /\ "args_delta" \notin Dones
      BY DEF Deltas, Dones
    <3> HIDE DEF r, q
    <3>6. /\ LogOK(y) /\ Frame(y, o) /\ Ids(y.out) = Ids(o.out)
          /\ OpenItems(y.out) = (OpenItems(o.out) \ {r})
               \cup {[at |-> r.at, item |-> r.item, body |-> r.body \o d.args]}
      <4>1. LogOK(o) /\ IsSeq(d.args)
        BY <1>11
      <4>2. PutDone(PutPiece(o, "args_delta", r.at, r.item.id, d.args), o, r,
                    IF "args_delta" \in Deltas THEN r.body \o d.args ELSE r.body)
        BY <3>3, <3>5, <4>1, LogPut
      <4>3. PutDone(y, o, r, r.body \o d.args)
        BY <3>2, <3>5, <4>2
      <4> HIDE DEF y
      <4> QED BY <4>3 DEF PutDone
    <3>7. [at |-> r.at, item |-> r.item, body |-> r.body \o d.args] = CallRec(x, n)
      BY <1>14, <3>2, <3>4
    <3> HIDE DEF y
    <3>8. OpenItems(y.out) = Books(s, speaking, C) \cup {CallRec(x, n)}
      BY <1>11, <1>16, <3>6, <3>7
    <3>9. Frame(y, x)
      BY <1>11, <3>6 DEF Frame
    <3> QED BY <1>11, <3>1, <3>6, <3>8, <3>9
  <2> QED BY <2>1, <2>2
<1> HIDE DEF q, r
<1>18. Tracks(q, n + 1, speaking, 0..((n + 1) - 1))
  <2>1. Ids(q.out) \subseteq KnownIds(x)
    BY <1>1, <1>13, <1>17
  <2>2. OpenItems(q.out) = Books(x, speaking, 0..((n + 1) - 1))
    BY <1>15, <1>17
  <2> QED BY <1>12, <1>17, <2>1, <2>2, Framed
<1>19. q.messageAt = s.messageAt /\ q.failed = s.failed
  BY <1>9, <1>17 DEF Frame
<1> QED BY <1>6, <1>18, <1>19 DEF Tracked, speaking

\* A call goes on: its item is sent the piece of its arguments.
LEMMA ContinueCallKeeps ==
  ASSUME NEW s, NEW n, Tracked(s, n), NEW d, NEW i \in 0..(n - 1), Continues(d, i), IsSeq(d.args)
  PROVE  LET q == PutCall(s, d)
         IN  Tracked(q, n) /\ q.failed = s.failed
<1> DEFINE C == 0..(n - 1)
           speaking == s.messageAt # None
           c == Ingest(s.tools, d)
           m == [s EXCEPT !.tools = c]
           q == IF d.args = <<>> THEN m
                ELSE PutPiece(m, "args_delta", m.itemOf[i].at, m.itemOf[i].id, d.args)
           r == CallRec(s, i)
<1>1. /\ LogOK(s) /\ DOMAIN s = ResponsesFields /\ Holds(s, n) /\ Ids(s.out) \subseteq KnownIds(s)
      /\ OpenItems(s.out) = Books(s, speaking, C) /\ CallsOK(s, n)
  BY DEF Tracked, Tracks, LogOK, Holds
<1>2. /\ DOMAIN s.tools = C /\ DOMAIN s.itemOf = C /\ i \in C /\ IsSeq(s.tools[i].args)
      /\ s.tools[i].name # None
  BY <1>1 DEF CallsOK
<1>3. d.index = i /\ d.name = None /\ d.id = <<>>
  BY DEF Continues
<1>4. /\ DOMAIN c = C /\ \A k \in C \ {i} : c[k] = s.tools[k]
      /\ c[i].id = s.tools[i].id /\ c[i].name = s.tools[i].name
      /\ c[i].args = s.tools[i].args \o d.args /\ IsSeq(c[i].args)
  <2>1. d.index \in DOMAIN s.tools /\ IsSeq(s.tools[d.index].args)
    BY <1>2, <1>3
  <2>2. Ingested(c, s.tools, d)
    BY <2>1, IngestIs
  <2> HIDE DEF c, C
  <2> QED BY <1>2, <1>3, <2>1, <2>2 DEF Ingested
<1>5. /\ DOMAIN m = ResponsesFields /\ m.out = s.out /\ m.seq = s.seq /\ m.done = s.done
      /\ m.next = s.next /\ m.messageAt = s.messageAt /\ m.text = s.text
      /\ m.thinking = s.thinking /\ m.thinkingAt = s.thinkingAt /\ m.thoughts = s.thoughts
      /\ m.rid = s.rid /\ m.reasoning = s.reasoning /\ m.tools = c
      /\ m.itemOf = s.itemOf /\ m.failed = s.failed
  BY <1>1 DEF ResponsesFields
<1>6. PutCall(s, d) = q
  <2>1. PutCall(s, d) =
          LET call == m.tools[i]
              i2 == [OutputItem EXCEPT !.type = "function_call", !.name = call.name,
                       !.id = <<"fc", Default(call.id, "index", i)>>,
                       !.call_id = Default(call.id, "call", i)]
              o2 == IF i \in DOMAIN m.itemOf THEN m
                    ELSE AddItem([m EXCEPT !.next = @ + 1,
                                           !.itemOf = With(@, i, [id |-> i2.id, at |-> m.next])],
                                 m.next, i2)
          IN  IF i \notin DOMAIN m.itemOf /\ call.name = None THEN m
              ELSE IF d.args = <<>> THEN o2
              ELSE PutPiece(o2, "args_delta", o2.itemOf[i].at, o2.itemOf[i].id, d.args)
    BY <1>3 DEF PutCall
  <2>2. i \in DOMAIN m.itemOf
    BY <1>2, <1>5
  <2> HIDE DEF m
  <2> QED BY <2>1, <2>2
<1> HIDE DEF c, m, C, speaking
<1>7. LogOK(m)
  BY <1>1, <1>5, SameLog
<1>8. Holds(m, n) /\ KnownIds(m) = KnownIds(s)
  <2>1. \A k \in C : /\ m.tools[k].name # None /\ IsSeq(m.tools[k].args)
                     /\ m.tools[k].id = s.tools[k].id
    BY <1>1, <1>2, <1>4, <1>5 DEF CallsOK, C
  <2>2. CallsOK(m, n)
    BY <1>1, <1>2, <1>4, <1>5, <2>1 DEF CallsOK, C
  <2> QED BY <1>1, <1>5, <2>2 DEF Holds, KnownIds
<1>9. /\ MessageRec(m) = MessageRec(s) /\ ThoughtRec(m) = ThoughtRec(s)
      /\ \A k \in C \ {i} : CallRec(m, k) = CallRec(s, k)
  BY <1>4, <1>5 DEF MessageRec, ThoughtRec, CallRec
<1>10. /\ r.at = s.itemOf[i].at /\ r.item.id = s.itemOf[i].id /\ r.body = s.tools[i].args
       /\ CallRec(m, i) = [at |-> r.at, item |-> r.item, body |-> r.body \o d.args]
  <2>1. r.at = s.itemOf[i].at /\ r.item.id = s.itemOf[i].id /\ r.body = s.tools[i].args
        /\ r.item = CallItem(s.itemOf[i].id, s.tools[i].name, Default(s.tools[i].id, "call", i))
    BY ItemFields DEF CallRec
  <2> HIDE DEF r
  <2>2. m.tools[i] = c[i] /\ m.itemOf[i] = s.itemOf[i]
    BY <1>5
  <2>3. CallRec(m, i) = [at |-> m.itemOf[i].at,
                         item |-> CallItem(m.itemOf[i].id, m.tools[i].name,
                                           Default(m.tools[i].id, "call", i)),
                         body |-> m.tools[i].args]
    BY DEF CallRec
  <2> QED BY <1>4, <2>1, <2>2, <2>3
<1>11. r \in OpenItems(m.out)
  <2>1. r \in Books(s, speaking, C)
    BY <1>2, InBooks
  <2> QED BY <1>1, <1>5, <2>1
<1>12. Books(m, speaking, C) = (Books(s, speaking, C) \ {r}) \cup {CallRec(m, i)}
  <2>1. MessageRec(s) # r /\ ThoughtRec(s) # r /\ \A k \in C \ {i} : CallRec(s, k) # r
    BY <1>1, RecsApart, CallsApart DEF C
  <2>2. {CallRec(m, k) : k \in C} = ({CallRec(s, k) : k \in C} \ {r}) \cup {CallRec(m, i)}
    BY <1>2, <1>9, <2>1
  <2> HIDE DEF r
  <2> QED BY <1>5, <1>9, <2>1, <2>2 DEF Books
<1>13. LogOK(q) /\ Frame(q, m) /\ Ids(q.out) = Ids(m.out)
       /\ OpenItems(q.out) = (OpenItems(m.out) \ {r}) \cup {CallRec(m, i)}
  <2>1. CASE d.args = <<>>
    <3>1. q = m
      BY <2>1
    <3>2. CallRec(m, i) = r
      <4>1. r.body \o <<>> = r.body
        BY <1>2, <1>10, Concatenated
      <4>2. CallRec(m, i) = [at |-> r.at, item |-> r.item, body |-> r.body]
        BY <1>10, <2>1, <4>1
      <4>3. r = [at |-> r.at, item |-> r.item, body |-> r.body]
        BY DEF CallRec
      <4> HIDE DEF r
      <4> QED BY <4>2, <4>3
    <3> HIDE DEF r, q
    <3>3. Frame(m, m)
      BY DEF Frame
    <3> QED BY <1>7, <1>11, <3>1, <3>2, <3>3
  <2>2. CASE d.args # <<>>
    <3>1. q = PutPiece(m, "args_delta", r.at, r.item.id, d.args)
      BY <1>5, <1>10, <2>2
    <3>2. "args_delta" \in Deltas /\ "args_delta" \notin Dones
      BY DEF Deltas, Dones
    <3> HIDE DEF r, q
    <3>3. LET y == PutPiece(m, "args_delta", r.at, r.item.id, d.args)
          IN  /\ LogOK(y) /\ Frame(y, m) /\ Ids(y.out) = Ids(m.out)
              /\ OpenItems(y.out) = (OpenItems(m.out) \ {r})
                   \cup {[at |-> r.at, item |-> r.item, body |-> r.body \o d.args]}
      <4>1. PutDone(PutPiece(m, "args_delta", r.at, r.item.id, d.args), m, r,
                    IF "args_delta" \in Deltas THEN r.body \o d.args ELSE r.body)
        BY <1>7, <1>11, <3>2, LogPut
      <4>2. PutDone(PutPiece(m, "args_delta", r.at, r.item.id, d.args), m, r, r.body \o d.args)
        BY <3>2, <4>1
      <4> QED BY <4>2 DEF PutDone
    <3> QED BY <1>10, <3>1, <3>3
  <2> QED BY <2>1, <2>2
<1> HIDE DEF q, r
<1>14. Tracks(q, n, speaking, C)
  <2>1. Ids(q.out) \subseteq KnownIds(m)
    BY <1>1, <1>5, <1>8, <1>13
  <2>2. OpenItems(q.out) = Books(m, speaking, C)
    BY <1>1, <1>5, <1>12, <1>13
  <2> QED BY <1>8, <1>13, <2>1, <2>2, Framed
<1>15. q.messageAt = s.messageAt /\ q.failed = s.failed
  BY <1>5, <1>13 DEF Frame
<1> QED BY <1>6, <1>14, <1>15 DEF Tracked, speaking, C

-----------------------------------------------------------------------------
(* The lines of a response. *)

\* The calls of a line, one or two.
LEMMA PutCalls ==
  ASSUME NEW b, NEW t, DOMAIN t = {} \/ DOMAIN t = {1} \/ DOMAIN t = {1, 2}
  PROVE  FoldLeft(PutCall, b, t) = CASE DOMAIN t = {} -> b
                                  [] DOMAIN t = {1} -> PutCall(b, t[1])
                                  [] OTHER -> PutCall(PutCall(b, t[1]), t[2])
<1> DEFINE S == DOMAIN t
           Step(g, s) == IF s = {} THEN b ELSE PutCall(g[s \ {Max(s)}], t[Max(s)])
           F == [s \in SUBSET S |-> CASE s = {} -> b
                                      [] s = {1} -> PutCall(b, t[1])
                                      [] s = {2} -> PutCall(b, t[2])
                                      [] OTHER -> PutCall(PutCall(b, t[1]), t[2])]
           G == CHOOSE g : g = [s \in SUBSET S |-> Step(g, s)]
<1>1. \A s \in SUBSET S : s = {} \/ s = {1} \/ s = {2} \/ s = {1, 2}
  OBVIOUS
<1>2. FoldLeft(PutCall, b, t) = G[S]
  BY DEF FoldLeft, MapThenFoldSet
<1>3. {1} # {} /\ {2} # {} /\ {1, 2} # {} /\ {2} # {1} /\ {1, 2} # {1} /\ {1, 2} # {2}
  OBVIOUS
<1>4. \A s \in SUBSET S : F[s] = Step(F, s)
  <2> SUFFICES ASSUME NEW s \in SUBSET S
               PROVE  F[s] = Step(F, s)
    OBVIOUS
  <2>1. CASE s = {}
    BY <2>1
  <2>2. CASE s = {1}
    <3>1. F[s] = PutCall(b, t[1]) /\ F[{}] = b
      BY <1>3, <2>2
    <3> HIDE DEF F
    <3>2. Step(F, s) = PutCall(F[{1} \ {1}], t[1]) /\ {1} \ {1} = {}
      BY <1>3, <2>2, MaxOfTwo
    <3> QED BY <3>1, <3>2
  <2>3. CASE s = {2}
    <3>1. F[s] = PutCall(b, t[2]) /\ F[{}] = b
      BY <1>3, <2>3
    <3> HIDE DEF F
    <3>2. Step(F, s) = PutCall(F[{2} \ {2}], t[2]) /\ {2} \ {2} = {}
      BY <1>3, <2>3, MaxOfTwo
    <3> QED BY <3>1, <3>2
  <2>4. CASE s = {1, 2}
    <3>1. F[s] = PutCall(PutCall(b, t[1]), t[2]) /\ F[{1}] = PutCall(b, t[1])
      BY <1>3, <2>4
    <3> HIDE DEF F
    <3>2. Step(F, s) = PutCall(F[{1, 2} \ {2}], t[2]) /\ {1, 2} \ {2} = {1}
      BY <1>3, <2>4, MaxOfTwo
    <3> QED BY <3>1, <3>2
  <2> QED BY <1>1, <2>1, <2>2, <2>3, <2>4
<1>5. G = [s \in SUBSET S |-> Step(G, s)]
  <2>1. F = [s \in SUBSET S |-> Step(F, s)]
    <3>1. F = [s \in SUBSET S |-> F[s]]
      OBVIOUS
    <3> HIDE DEF F, Step
    <3> QED BY <1>4, <3>1
  <2> HIDE DEF F, Step, S
  <2> QED BY <2>1
<1> HIDE DEF F, G
<1>6. \A s \in SUBSET S : G[s] = Step(G, s)
  <2> HIDE DEF Step, S
  <2> QED BY <1>5
<1>7. G[{}] = b
  BY <1>6
<1>8. {1} \in SUBSET S => G[{1}] = PutCall(b, t[1])
  <2>1. {1} \ {1} = {}
    OBVIOUS
  <2> QED BY <1>3, <1>6, <1>7, <2>1, MaxOfTwo
<1>9. {1, 2} \in SUBSET S => G[{1, 2}] = PutCall(PutCall(b, t[1]), t[2])
  <2>1. {1, 2} \ {2} = {1}
    OBVIOUS
  <2> QED BY <1>3, <1>6, <1>8, <2>1, MaxOfTwo
<1> QED BY <1>2, <1>3, <1>7, <1>8, <1>9

\* A line of whole pieces.
Whole(l) ==
  /\ l.kind \in {"chunk", "noise", "error"} /\ IsSeq(l.reasoning) /\ IsSeq(l.text)
  /\ \A k \in DOMAIN l.tools : IsSeq(l.tools[k].args)

\* The parser takes out of such a line all that it tells.
LEMMA ParsedWhole ==
  ASSUME NEW l, NEW n, NEW m, NEW calling, Sent(l, n, m, calling), Whole(l)
  PROVE  LET p == Parse(l)
         IN  /\ p.reasoning = l.reasoning /\ p.text = l.text /\ p.tools = l.tools
             /\ p.kind = "error" <=> l.kind = "error"
             /\ p.kind = "noise" => l.tools = <<>>
<1>1. CASE l.kind # "chunk"
  BY <1>1 DEF Parse, BlankLine, Whole, Sent
<1>2. CASE l.kind = "chunk" /\ ~IsEmpty(l)
  BY <1>2 DEF Parse
<1>3. CASE l.kind = "chunk" /\ IsEmpty(l)
  <2> DEFINE b == [l EXCEPT !.model = BlankLine.model, !.twin = FALSE]
  <2>1. b.reasoning = l.reasoning /\ b.text = l.text /\ b.tools = l.tools
    BY DEF Sent, LineFields
  <2>2. b = BlankLine
    BY <1>3 DEF IsEmpty
  <2> HIDE DEF b
  <2>3. l.reasoning = <<>> /\ l.text = <<>> /\ l.tools = <<>>
    BY <2>1, <2>2 DEF BlankLine
  <2> QED BY <1>3, <2>3 DEF Parse, BlankLine
<1> QED BY <1>1, <1>2, <1>3

\* What touches neither the items nor the events.
LEMMA SameTracked ==
  ASSUME NEW s, NEW n, Tracked(s, n), NEW m, DOMAIN m = ResponsesFields, Frame(m, s),
         m.out = s.out, m.seq = s.seq, m.done = s.done
  PROVE  Tracked(m, n)
<1>1. LogOK(m)
  BY SameLog DEF Tracked, Tracks, Frame
<1>2. Tracks(m, n, s.messageAt # None, 0..(n - 1))
  BY <1>1, Framed DEF Tracked, Tracks
<1> QED BY <1>2 DEF Tracked, Frame

\* The error that ends a stream.
Broken(out) ==
  /\ AllFit(out)
  /\ \A i \in 1..Len(out) : out[i].ev # "completed" /\ (out[i].ev = "failed" => i = Len(out))

\* The news of an error is the last event, and no response is completed.
LEMMA ErrorBreaks ==
  ASSUME NEW s, LogOK(s)
  PROVE  LET q == PutEvent([s EXCEPT !.failed = TRUE], [ResponseEvent EXCEPT !.ev = "failed"])
         IN  q.failed = TRUE /\ Broken(q.out)
<1> DEFINE m == [s EXCEPT !.failed = TRUE]
           e == [ResponseEvent EXCEPT !.ev = "failed"]
           f == [e EXCEPT !.seq = m.seq + 1]
           q == PutEvent(m, e)
           n == Len(s.out)
<1>1. /\ DOMAIN e = DOMAIN ResponseEvent /\ e.ev = "failed" /\ e.at = None /\ e.body = <<>>
  BY DEF ResponseEvent
<1>2. /\ DOMAIN m = ResponsesFields /\ m.out = s.out /\ m.seq = s.seq /\ m.failed = TRUE
  BY DEF LogOK, ResponsesFields
<1> HIDE DEF e, m
<1>3. /\ q.out = Append(s.out, f) /\ q.failed = TRUE /\ f.seq = s.seq + 1
      /\ f.ev = "failed" /\ f.at = None /\ f.body = <<>>
  BY <1>1, <1>2, PutIs DEF Frame
<1> HIDE DEF f, q
<1>4. f.ev \notin {"item_added", "item_done"} \cup Deltas
  BY <1>3 DEF Deltas
<1>5. AllFit(q.out)
  BY <1>3, <1>4, NoteFits, NothingIsSeq DEF LogOK
<1>6. /\ IsSeq(s.out) /\ n \in Nat /\ Len(q.out) = n + 1 /\ q.out[n + 1] = f
      /\ \A i \in 1..n : q.out[i] = s.out[i]
  BY <1>3, Appended DEF LogOK, AllFit
<1>7. \A i \in 1..(n + 1) : i \in 1..n \/ i = n + 1
  BY <1>6
<1>8. \A i \in 1..Len(q.out) : q.out[i].ev # "completed" /\ (q.out[i].ev = "failed" => i = Len(q.out))
  BY <1>3, <1>6, <1>7 DEF LogOK
<1> QED BY <1>3, <1>5, <1>8 DEF Broken, q, m, e

\* A line keeps what was said in step with the events, or it breaks the stream.
LEMMA ResponsesLineKeeps ==
  ASSUME NEW s, NEW n \in Nat, NEW m \in Nat, NEW l, NEW calling, Tracked(s, n),
         s.failed = FALSE, Sent(l, n, m, calling), Whole(l)
  PROVE  LET r == ResponsesLine(s, l)
         IN  /\ l.kind # "error" => Tracked(r, m) /\ r.failed = FALSE
             /\ l.kind = "error" => r.failed = TRUE /\ Broken(r.out)
<1> DEFINE p == Parse(l)
           noted == [s EXCEPT !.usage = IF p.usage # None THEN p.usage ELSE @]
           thought == IF p.reasoning # <<>> THEN PutReasoning(noted, p.reasoning) ELSE noted
           spoken == IF p.text # <<>> THEN PutMessage(thought, p.text) ELSE thought
           closed == CloseReasoning(spoken)
           r == ResponsesLine(s, l)
<1>1. /\ p.reasoning = l.reasoning /\ p.text = l.text /\ p.tools = l.tools
      /\ p.kind = "error" <=> l.kind = "error"
      /\ p.kind = "noise" => l.tools = <<>>
  BY ParsedWhole
<1>2. r = IF s.failed \/ p.kind = "noise" THEN s
          ELSE IF p.kind = "error"
               THEN PutEvent([s EXCEPT !.failed = TRUE], [ResponseEvent EXCEPT !.ev = "failed"])
          ELSE IF p.tools = <<>> THEN spoken
          ELSE FoldLeft(PutCall, closed, p.tools)
  BY DEF ResponsesLine
<1>3. l.tools = <<>> => m = n
  BY DEF Sent, Tells
<1>4. LogOK(s) /\ DOMAIN s = ResponsesFields
  BY DEF Tracked, Tracks, LogOK
<1>5. /\ DOMAIN noted = ResponsesFields /\ Frame(noted, s) /\ noted.out = s.out
      /\ noted.seq = s.seq /\ noted.done = s.done
  <2> HIDE DEF p
  <2> QED BY <1>4 DEF Frame, ResponsesFields
<1>w. IsSeq(l.reasoning) /\ IsSeq(l.text) /\ \A k \in DOMAIN l.tools : IsSeq(l.tools[k].args)
  BY DEF Whole
<1> HIDE DEF noted, p, r
<1>6. Tracked(noted, n) /\ noted.failed = FALSE
  <2>1. noted.failed = FALSE
    BY <1>5 DEF Frame
  <2> QED BY <1>5, <2>1, SameTracked
<1>7. Tracked(thought, n) /\ thought.failed = FALSE
  BY <1>1, <1>w, <1>6, PutReasoningKeeps
<1> HIDE DEF thought
<1>8. Tracked(spoken, n) /\ spoken.failed = FALSE
  BY <1>1, <1>w, <1>7, PutMessageKeeps
<1> HIDE DEF spoken
<1>9. Tracked(closed, n) /\ closed.failed = FALSE
  BY <1>8, CloseReasoningKeeps
<1> HIDE DEF closed
<1>10. CASE p.kind = "noise"
  <2>1. r = s /\ m = n /\ l.kind # "error"
    BY <1>1, <1>2, <1>3, <1>10
  <2> QED BY <2>1 DEF r
<1>11. CASE p.kind = "error"
  <2>1. r = PutEvent([s EXCEPT !.failed = TRUE], [ResponseEvent EXCEPT !.ev = "failed"])
    BY <1>2, <1>11
  <2>2. r.failed = TRUE /\ Broken(r.out)
    BY <1>4, <2>1, ErrorBreaks
  <2> QED BY <1>1, <1>11, <2>2 DEF r
<1>12. CASE p.kind \notin {"noise", "error"} /\ l.tools = <<>>
  <2>1. r = spoken
    BY <1>1, <1>2, <1>12
  <2> QED BY <1>1, <1>3, <1>8, <1>12, <2>1 DEF r
<1>13. ASSUME p.kind \notin {"noise", "error"}, l.tools # <<>>
       PROVE  Tracked(r, m) /\ r.failed = FALSE
  <2>1. r = FoldLeft(PutCall, closed, l.tools)
    BY <1>1, <1>2, <1>13
  <2>2. ASSUME NEW d, l.tools = <<d>>
        PROVE  r = PutCall(closed, d) /\ IsSeq(d.args)
    <3>1. DOMAIN <<d>> = {1} /\ {1} # {} /\ <<d>>[1] = d
      OBVIOUS
    <3>2. r = PutCall(closed, d)
      BY <2>1, <2>2, <3>1, PutCalls
    <3> QED BY <1>w, <2>2, <3>1, <3>2
  <2>3. ASSUME NEW d, l.tools = <<d>>, Begins(d, n), m = n + 1
        PROVE  Tracked(r, m) /\ r.failed = FALSE
    BY <1>9, <2>2, <2>3, BeginCallKeeps
  <2>4. ASSUME NEW d, NEW e, l.tools = <<d, e>>, Begins(d, n), Begins(e, n + 1), m = n + 2
        PROVE  Tracked(r, m) /\ r.failed = FALSE
    <3> DEFINE x == PutCall(closed, d)
    <3>1. /\ DOMAIN <<d, e>> = {1, 2} /\ {1, 2} # {} /\ {1, 2} # {1}
          /\ <<d, e>>[1] = d /\ <<d, e>>[2] = e
      OBVIOUS
    <3>2. r = PutCall(x, e)
      BY <2>1, <2>4, <3>1, PutCalls
    <3>3. IsSeq(d.args) /\ IsSeq(e.args)
      BY <1>w, <2>4, <3>1
    <3>4. Tracked(x, n + 1) /\ x.failed = FALSE
      BY <1>9, <2>4, <3>3, BeginCallKeeps
    <3> HIDE DEF x
    <3>5. Tracked(r, (n + 1) + 1) /\ r.failed = FALSE
      BY <2>4, <3>2, <3>3, <3>4, BeginCallKeeps
    <3>6. (n + 1) + 1 = m
      BY <2>4
    <3> QED BY <3>5, <3>6
  <2>5. ASSUME NEW d, l.tools = <<d>>, Continues(d, n - 1), n >= 1, m = n
        PROVE  Tracked(r, m) /\ r.failed = FALSE
    <3>1. n - 1 \in 0..(n - 1)
      BY <2>5
    <3> QED BY <1>9, <2>2, <2>5, <3>1, ContinueCallKeeps
  <2> QED BY <1>13, <2>3, <2>4, <2>5 DEF Sent, Tells
<1> QED BY <1>1, <1>10, <1>11, <1>12, <1>13 DEF r

-----------------------------------------------------------------------------
(* The end of a response. *)

\* The completed calls are the calls begun, in the order of their indexes.
LEMMA CallsInOrder ==
  ASSUME NEW s, NEW n, CallsOK(s, n)
  PROVE  LET c == CompletedCalls(s.tools)
         IN  /\ DOMAIN c = 1..n
             /\ \A k \in 1..n :
                  /\ c[k].index = k - 1 /\ c[k].id = Default(s.tools[k - 1].id, "call", k - 1)
                  /\ c[k].name = s.tools[k - 1].name /\ c[k].args = s.tools[k - 1].args
<1> DEFINE D == 0..(n - 1)
           named == {i \in DOMAIN s.tools : s.tools[i].name # None}
           c == CompletedCalls(s.tools)
<1>1. n \in Nat /\ named = D
  BY DEF CallsOK
<1>2. \A a \in Nat : Cardinality(0..a) = a + 1
  BY FS_Interval
<1>3. Cardinality(D) = n
  <2>1. CASE n = 0
    <3>1. 0..(n - 1) = {}
      BY <2>1
    <3> QED BY <2>1, <3>1, FS_EmptySet
  <2>2. CASE n # 0
    <3>1. n - 1 \in Nat /\ (n - 1) + 1 = n
      BY <1>1, <2>2
    <3> QED BY <1>2, <3>1
  <2> QED BY <2>1, <2>2
<1>4. ASSUME NEW k \in 1..n
      PROVE  Nth(D, k) = k - 1
  <2>1. \A i \in D : {j \in D : j <= i} = 0..i /\ i \in Nat
    BY <1>1
  <2>2. \A i \in D : Cardinality({j \in D : j <= i}) = i + 1 /\ i \in Nat
    BY <1>2, <2>1
  <2>3. k - 1 \in D /\ (k - 1) + 1 = k
    BY <1>1, <1>4
  <2>4. \A i \in Nat : i + 1 = k => i = k - 1
    BY <1>1, <1>4
  <2> HIDE DEF D
  <2> QED BY <2>2, <2>3, <2>4 DEF Nth
<1>5. c = [k \in 1..n |-> LET i == Nth(D, k)
                          IN  [index |-> i, id |-> Default(s.tools[i].id, "call", i),
                               name |-> s.tools[i].name, args |-> s.tools[i].args]]
  <2>1. c = [k \in 1..Cardinality(named) |->
               LET i == Nth(named, k)
               IN  [index |-> i, id |-> Default(s.tools[i].id, "call", i),
                    name |-> s.tools[i].name, args |-> s.tools[i].args]]
    BY DEF CompletedCalls
  <2> HIDE DEF c, named, D
  <2> QED BY <1>1, <1>3, <2>1
<1> HIDE DEF c, D
<1> QED BY <1>4, <1>5 DEF c

\* The message is done, with all that was sent of it.
LEMMA CloseMessageKeeps ==
  ASSUME NEW s, NEW n, Tracked(s, n), s.thinking = FALSE
  PROVE  LET q == CloseMessage(s)
         IN  /\ Tracks(q, n, FALSE, 0..(n - 1)) /\ q.thinking = FALSE
             /\ q.failed = s.failed /\ q.tools = s.tools
<1> DEFINE C == 0..(n - 1)
<1>1. CASE s.messageAt = None
  <2>1. CloseMessage(s) = s
    BY <1>1 DEF CloseMessage
  <2>2. (s.messageAt # None) = FALSE
    BY <1>1
  <2>3. Tracks(s, n, FALSE, 0..(n - 1))
    BY <2>2 DEF Tracked
  <2> QED BY <2>1, <2>3
<1>2. CASE s.messageAt # None
  <2> DEFINE r == MessageRec(s)
             t == PutPiece(s, "text_done", s.messageAt, MessageId, s.text)
             p == PutPiece(t, "part_done", s.messageAt, MessageId, s.text)
             item == [OutputItem EXCEPT !.type = "message", !.id = MessageId, !.body = s.text]
             q == FinishItem(p, s.messageAt, item)
  <2>1. CloseMessage(s) = q
    BY <1>2 DEF CloseMessage
  <2>2. LogOK(s) /\ Tracks(s, n, TRUE, C)
    <3>1. (s.messageAt # None) = TRUE
      BY <1>2
    <3> QED BY <3>1 DEF Tracked, Tracks
  <2>3. /\ r.at = s.messageAt /\ r.item = MessageItem /\ r.item.id = MessageId
        /\ r.body = s.text
    BY ItemFields DEF MessageRec
  <2>4. r \in OpenItems(s.out) /\ IsSeq(s.text)
    <3>1. r \in OpenItems(s.out)
      BY <2>2, InBooks DEF Tracks
    <3> QED BY <2>2, <2>3, <3>1, OpenSeq DEF LogOK
  <2>5. item = [r.item EXCEPT !.body = r.body] /\ item.id = r.item.id
    BY <2>3 DEF MessageItem, OutputItem
  <2> HIDE DEF r, item
  <2>6. {"text_done", "part_done"} \subseteq Dones
    BY DEF Dones
  <2>7. Tracks(t, n, TRUE, C) /\ Frame(t, s)
    BY <2>2, <2>3, <2>4, <2>6, NoteKeeps
  <2> HIDE DEF t
  <2>8. MessageRec(t) = r /\ r \in OpenItems(t.out)
    <3>1. MessageRec(t) = r
      BY <2>7 DEF MessageRec, Frame, r
    <3> QED BY <2>7, <3>1, InBooks DEF Tracks
  <2>9. Tracks(p, n, TRUE, C) /\ Frame(p, t)
    BY <2>3, <2>4, <2>6, <2>7, <2>8, NoteKeeps
  <2> HIDE DEF p
  <2>10. MessageRec(p) = r /\ r \in OpenItems(p.out) /\ p.thinking = FALSE
         /\ p.failed = s.failed /\ p.tools = s.tools
    <3>1. MessageRec(p) = r
      BY <2>8, <2>9 DEF MessageRec, Frame
    <3>2. p.thinking = FALSE /\ p.failed = s.failed /\ p.tools = s.tools
      BY <2>7, <2>9 DEF Frame
    <3> QED BY <2>9, <3>1, <3>2, InBooks DEF Tracks
  <2>11. /\ LogOK(q) /\ Frame(q, p) /\ Ids(q.out) = Ids(p.out)
         /\ OpenItems(q.out) = OpenItems(p.out) \ {r}
    <3>1. LogOK(p)
      BY <2>9 DEF Tracks
    <3>2. EndDone(FinishItem(p, r.at, item), p, r)
      BY <2>5, <2>10, <3>1, LogEnd
    <3>3. EndDone(q, p, r)
      BY <2>3, <3>2
    <3> HIDE DEF q
    <3> QED BY <3>3 DEF EndDone
  <2> HIDE DEF q
  <2>12. OpenItems(p.out) \ {r} = Books(p, FALSE, C)
    <3>1. OpenItems(p.out) = Books(p, TRUE, C)
      BY <2>9 DEF Tracks
    <3>2. \A k \in C : r # CallRec(p, k)
      BY <2>10, RecsApart
    <3>3. Books(p, TRUE, C) = {r} \cup {CallRec(p, k) : k \in C}
      BY <2>10 DEF Books
    <3>4. Books(p, FALSE, C) = {CallRec(p, k) : k \in C}
      BY <2>10 DEF Books
    <3> QED BY <3>1, <3>2, <3>3, <3>4
  <2>13. Tracks(q, n, FALSE, C)
    <3>1. Holds(p, n) /\ Ids(p.out) \subseteq KnownIds(p)
      BY <2>9 DEF Tracks
    <3> QED BY <2>11, <2>12, <3>1, Framed
  <2>14. q.thinking = FALSE /\ q.failed = s.failed /\ q.tools = s.tools
    BY <2>10, <2>11 DEF Frame
  <2> QED BY <2>1, <2>13, <2>14
<1> QED BY <1>1, <1>2

\* The state x, that s became, has the calls from k on open and nothing else.
ClosedTo(x, s, n, k) ==
  /\ Tracks(x, n, FALSE, k..(n - 1)) /\ x.thinking = FALSE
  /\ x.failed = s.failed /\ x.tools = s.tools

\* The next call is done, with all that was sent of its arguments.
LEMMA CloseCallKeeps ==
  ASSUME NEW s, NEW n, NEW i \in 0..(n - 1), Tracks(s, n, FALSE, i..(n - 1)), s.thinking = FALSE,
         NEW call, call.index = i, call.id = Default(s.tools[i].id, "call", i),
         call.name = s.tools[i].name, call.args = s.tools[i].args
  PROVE  ClosedTo(CloseCall(s, call), s, n, i + 1)
<1> DEFINE C == i..(n - 1)
           r == CallRec(s, i)
           p == PutPiece(s, "args_done", r.at, r.item.id, r.body)
           item == [type |-> "function_call", id |-> r.item.id, call_id |-> call.id,
                    name |-> call.name, body |-> call.args]
           q == FinishItem(p, r.at, item)
<1>1. LogOK(s) /\ Holds(s, n) /\ CallsOK(s, n) /\ n \in Nat /\ i \in DOMAIN s.itemOf
  BY DEF Tracks, Holds, CallsOK
<1>2. /\ r.at = s.itemOf[i].at /\ r.item.id = s.itemOf[i].id /\ r.body = s.tools[i].args
      /\ r.item = CallItem(s.itemOf[i].id, s.tools[i].name, Default(s.tools[i].id, "call", i))
  BY ItemFields DEF CallRec
<1>3. item = [r.item EXCEPT !.body = r.body] /\ item.id = r.item.id
  <2> DEFINE id == s.itemOf[i].id
             name == s.tools[i].name
             of == Default(s.tools[i].id, "call", i)
             args == s.tools[i].args
  <2>1. r.item = CallItem(id, name, of) /\ r.item.id = id /\ r.body = args
    BY <1>2
  <2>2. item = [type |-> "function_call", id |-> id, call_id |-> of, name |-> name, body |-> args]
    BY <2>1
  <2> HIDE DEF id, name, of, args, r, item
  <2>3. CallItem(id, name, of) = [type |-> "function_call", id |-> id, call_id |-> of,
                                  name |-> name, body |-> <<>>]
    <3> DEFINE y == CallItem(id, name, of)
               F == {"type", "id", "call_id", "name", "body"}
               z == [type |-> "function_call", id |-> id, call_id |-> of, name |-> name,
                     body |-> <<>>]
    <3>1. /\ y = [f \in F |-> y[f]] /\ y["type"] = "function_call" /\ y["id"] = id
          /\ y["call_id"] = of /\ y["name"] = name /\ y["body"] = <<>>
      BY DEF CallItem, OutputItem
    <3>2. /\ z = [f \in F |-> z[f]] /\ z["type"] = "function_call" /\ z["id"] = id
          /\ z["call_id"] = of /\ z["name"] = name /\ z["body"] = <<>>
      OBVIOUS
    <3> HIDE DEF y, z
    <3>3. \A f \in F : y[f] = z[f]
      BY <3>1, <3>2
    <3>4. [f \in F |-> y[f]] = [f \in F |-> z[f]]
      BY <3>3
    <3>5. y = z
      BY <3>1, <3>2, <3>4
    <3> QED BY <3>5 DEF y, z
  <2>4. [CallItem(id, name, of) EXCEPT !.body = args]
          = [type |-> "function_call", id |-> id, call_id |-> of, name |-> name, body |-> args]
    BY <2>3
  <2>5. item.id = id
    BY <2>2
  <2> QED BY <2>1, <2>2, <2>4, <2>5
<1>4. CloseCall(s, call) = q
  BY <1>1, <1>2 DEF CloseCall
<1>5. i \in C /\ C \ {i} = (i + 1)..(n - 1)
  BY <1>1
<1> HIDE DEF r, item, C
<1>6. r \in OpenItems(s.out)
  <2>1. CallRec(s, i) \in Books(s, FALSE, C)
    BY <1>5, InBooks
  <2>2. OpenItems(s.out) = Books(s, FALSE, C)
    BY DEF Tracks, C
  <2> QED BY <2>1, <2>2 DEF r
<1>7. IsSeq(r.body)
  BY <1>1, <1>6, OpenSeq DEF LogOK
<1>8. Tracks(p, n, FALSE, C) /\ Frame(p, s)
  <2>1. Tracks(s, n, FALSE, C) /\ "args_done" \in Dones
    BY DEF C, Dones
  <2> QED BY <1>6, <1>7, <2>1, NoteKeeps
<1> HIDE DEF p
<1>9. CallRec(p, i) = r /\ r \in OpenItems(p.out) /\ p.thinking = FALSE
  <2>1. CallRec(p, i) = r /\ p.thinking = FALSE
    BY <1>8 DEF CallRec, Frame, r
  <2>2. CallRec(p, i) \in Books(p, FALSE, C)
    BY <1>5, InBooks
  <2>3. OpenItems(p.out) = Books(p, FALSE, C)
    BY <1>8 DEF Tracks
  <2> QED BY <2>1, <2>2, <2>3
<1>10. LogOK(p) /\ Holds(p, n) /\ CallsOK(p, n) /\ Ids(p.out) \subseteq KnownIds(p)
  BY <1>8 DEF Tracks, Holds
<1>11. /\ LogOK(q) /\ Frame(q, p) /\ Ids(q.out) = Ids(p.out)
       /\ OpenItems(q.out) = OpenItems(p.out) \ {r}
  <2>1. EndDone(q, p, r)
    BY <1>3, <1>9, <1>10, LogEnd
  <2> HIDE DEF q
  <2> QED BY <2>1 DEF EndDone
<1> HIDE DEF q
<1>12. OpenItems(p.out) \ {r} = Books(p, FALSE, C \ {i})
  <2>1. OpenItems(p.out) = Books(p, FALSE, C)
    BY <1>8 DEF Tracks
  <2>2. \A k \in C \ {i} : CallRec(p, k) # r
    <3>1. C \subseteq 0..(n - 1)
      BY <1>1 DEF C
    <3> QED BY <1>9, <1>10, <3>1, CallsApart
  <2>3. Books(p, FALSE, C) = {CallRec(p, k) : k \in C}
    BY <1>9 DEF Books
  <2>4. Books(p, FALSE, C \ {i}) = {CallRec(p, k) : k \in C \ {i}}
    BY <1>9 DEF Books
  <2>5. \A k \in C : k = i \/ k \in C \ {i}
    OBVIOUS
  <2>6. {CallRec(p, k) : k \in C} \ {r} = {CallRec(p, k) : k \in C \ {i}}
    BY <1>9, <2>2, <2>5
  <2> QED BY <2>1, <2>3, <2>4, <2>6
<1>13. Tracks(q, n, FALSE, C \ {i})
  BY <1>10, <1>11, <1>12, Framed
<1>14. q.thinking = FALSE /\ q.failed = s.failed /\ q.tools = s.tools
  BY <1>8, <1>9, <1>11 DEF Frame
<1>15. ClosedTo(q, s, n, i + 1)
  BY <1>5, <1>13, <1>14 DEF ClosedTo
<1> QED BY <1>4, <1>15
\* The function that the fold over the calls t is defined with.
FoldStep(b, t, g, S) == IF S = {} THEN b ELSE CloseCall(g[S \ {Max(S)}], t[Max(S)])
Folds(b, t, g, m) == g = [S \in SUBSET (1..m) |-> FoldStep(b, t, g, S)]

\* The greatest number of a set.
LEMMA MaxIs ==
  ASSUME NEW S \in SUBSET Nat, NEW m \in S, \A i \in S : i <= m
  PROVE  Max(S) = m
<1>1. \A x \in S : (\A y \in S : x >= y) => x = m
  OBVIOUS
<1>2. \A y \in S : m >= y
  OBVIOUS
<1> QED BY <1>1, <1>2 DEF Max

\* It exists.
LEMMA FoldsExists ==
  ASSUME NEW b, NEW t, NEW n \in Nat
  PROVE  \E g : Folds(b, t, g, n)
<1> DEFINE M == {m \in Nat : \E g : Folds(b, t, g, m)}
<1>1. 0 \in M
  <2> DEFINE g == [S \in SUBSET (1..0) |-> b]
  <2>1. \A S \in SUBSET (1..0) : S = {}
    OBVIOUS
  <2>2. \A S \in SUBSET (1..0) : FoldStep(b, t, g, S) = b
    BY <2>1 DEF FoldStep
  <2>3. g = [S \in SUBSET (1..0) |-> FoldStep(b, t, g, S)]
    BY <2>2
  <2> HIDE DEF g
  <2>4. Folds(b, t, g, 0)
    BY <2>3 DEF Folds
  <2> QED BY <2>4
<1>2. ASSUME NEW m \in Nat, m \in M
      PROVE  m + 1 \in M
  <2>1. PICK g : Folds(b, t, g, m)
    BY <1>2
  <2> DEFINE A == SUBSET (1..m)
             B == SUBSET (1..(m + 1))
             h == [S \in B |-> IF m + 1 \in S THEN CloseCall(g[S \ {m + 1}], t[m + 1]) ELSE g[S]]
  <2>2. A \subseteq B /\ \A S \in B : S \ {m + 1} \in A /\ (m + 1 \notin S => S \in A)
    OBVIOUS
  <2>3. \A S \in A : m + 1 \notin S
    OBVIOUS
  <2>4. \A S \in A : g[S] = FoldStep(b, t, g, S)
    <3>1. g = [S \in A |-> FoldStep(b, t, g, S)]
      BY <2>1 DEF Folds
    <3> HIDE DEF A
    <3> QED BY <3>1
  <2>n. A \subseteq SUBSET Nat /\ B \subseteq SUBSET Nat /\ \A S \in B : \A i \in S : i <= m + 1
    OBVIOUS
  <2> HIDE DEF A, B
  <2>5. \A S \in A : h[S] = g[S]
    BY <2>2, <2>3
  <2>6. \A S \in B : m + 1 \in S => h[S] = CloseCall(g[S \ {m + 1}], t[m + 1])
    OBVIOUS
  <2>7. h = [S \in B |-> h[S]]
    OBVIOUS
  <2> HIDE DEF h
  <2>8. ASSUME NEW S \in B
        PROVE  h[S] = FoldStep(b, t, h, S)
    <3>1. CASE m + 1 \in S
      <4>1. Max(S) = m + 1
        BY <2>n, <3>1, MaxIs
      <4>2. h[S \ {m + 1}] = g[S \ {m + 1}] /\ S # {}
        BY <2>2, <2>5, <3>1
      <4> QED BY <2>6, <3>1, <4>1, <4>2 DEF FoldStep
    <3>2. CASE m + 1 \notin S
      <4>1. S \in A /\ S \ {Max(S)} \in A
        <5>1. S \in A
          BY <2>2, <3>2
        <5> QED BY <5>1 DEF A
      <4>2. h[S] = g[S] /\ h[S \ {Max(S)}] = g[S \ {Max(S)}]
        BY <2>5, <4>1
      <4> QED BY <2>4, <4>1, <4>2 DEF FoldStep
    <3> QED BY <3>1, <3>2
  <2>9. Folds(b, t, h, m + 1)
    BY <2>7, <2>8 DEF Folds, B
  <2> QED BY <2>9
<1>3. n \in M
  <2> HIDE DEF M
  <2> QED BY <1>1, <1>2, SetInduction
<1> QED BY <1>3

\* G goes from b to q by closing the calls t.
ClosesAll(G, b, t, n, q) ==
  /\ q = G[n] /\ G[0] = b
  /\ \A k \in 0..(n - 1) : G[k + 1] = CloseCall(G[k], t[k + 1])

\* The calls are closed one after the other.
LEMMA FoldCalls ==
  ASSUME NEW b, NEW t, NEW n \in Nat, DOMAIN t = 1..n
  PROVE  \E G : ClosesAll(G, b, t, n, FoldLeft(CloseCall, b, t))
<1> DEFINE g == CHOOSE f : Folds(b, t, f, n)
           G == [k \in 0..n |-> g[1..k]]
<1>1. FoldLeft(CloseCall, b, t) = g[1..n]
  <2>1. FoldLeft(CloseCall, b, t) = (CHOOSE f : Folds(b, t, f, n))[DOMAIN t]
    BY DEF FoldLeft, MapThenFoldSet, Folds, FoldStep
  <2> QED BY <2>1
<1>2. Folds(b, t, g, n)
  BY FoldsExists
<1> HIDE DEF g
<1>3. \A S \in SUBSET (1..n) : g[S] = FoldStep(b, t, g, S)
  <2>1. g = [S \in SUBSET (1..n) |-> FoldStep(b, t, g, S)]
    BY <1>2 DEF Folds
  <2> QED BY <2>1
<1>4. G[n] = g[1..n] /\ G[0] = g[1..0] /\ 1..0 = {}
  OBVIOUS
<1>5. G[0] = b
  BY <1>3, <1>4 DEF FoldStep
<1>6. ASSUME NEW k \in 0..(n - 1)
      PROVE  G[k + 1] = CloseCall(G[k], t[k + 1])
  <2>1. /\ k + 1 \in 1..(k + 1) /\ \A i \in 1..(k + 1) : i <= k + 1
        /\ 1..(k + 1) \in SUBSET Nat /\ 1..(k + 1) \in SUBSET (1..n) /\ 1..(k + 1) # {}
        /\ (1..(k + 1)) \ {k + 1} = 1..k
    <3>1. k \in Nat /\ k + 1 \in Nat /\ k + 1 <= n /\ k <= n /\ k + 1 \in 1..(k + 1)
      OBVIOUS
    <3>2. \A i \in 1..(k + 1) : i <= k + 1 /\ i \in Nat /\ i \in 1..n
      BY <3>1
    <3>3. (1..(k + 1)) \ {k + 1} = 1..k
      BY <3>1
    <3> QED BY <3>1, <3>2, <3>3
  <2>2. Max(1..(k + 1)) = k + 1
    BY <2>1, MaxIs
  <2>3. G[k + 1] = g[1..(k + 1)] /\ G[k] = g[1..k]
    OBVIOUS
  <2> HIDE DEF G
  <2> QED BY <1>3, <2>1, <2>2, <2>3 DEF FoldStep
<1> HIDE DEF G
<1>7. ClosesAll(G, b, t, n, FoldLeft(CloseCall, b, t))
  BY <1>1, <1>4, <1>5, <1>6 DEF ClosesAll
<1> QED BY <1>7


\* When all is closed nothing is open.
LEMMA CallsClosed ==
  ASSUME NEW s, NEW n, Tracks(s, n, FALSE, 0..(n - 1)), s.thinking = FALSE
  PROVE  LET q == FoldLeft(CloseCall, s, CompletedCalls(s.tools))
         IN  LogOK(q) /\ OpenItems(q.out) = {} /\ q.failed = s.failed
<1> DEFINE t == CompletedCalls(s.tools)
           q == FoldLeft(CloseCall, s, t)
<1>1. CallsOK(s, n) /\ n \in Nat
  BY DEF Tracks, Holds, CallsOK
<1>2. /\ DOMAIN t = 1..n
      /\ \A k \in 1..n :
           /\ t[k].index = k - 1 /\ t[k].id = Default(s.tools[k - 1].id, "call", k - 1)
           /\ t[k].name = s.tools[k - 1].name /\ t[k].args = s.tools[k - 1].args
  BY <1>1, CallsInOrder
<1> HIDE DEF t
<1>3. PICK G : /\ q = G[n] /\ G[0] = s
               /\ \A k \in 0..(n - 1) : G[k + 1] = CloseCall(G[k], t[k + 1])
  <2>1. \E G : ClosesAll(G, s, t, n, q)
    BY <1>1, <1>2, FoldCalls
  <2> HIDE DEF q
  <2> QED BY <2>1 DEF ClosesAll
<1> DEFINE S == {k \in Nat : k <= n => ClosedTo(G[k], s, n, k)}
<1>4. 0 \in S
  <2>1. ClosedTo(G[0], s, n, 0)
    BY <1>3 DEF ClosedTo
  <2> QED BY <2>1
<1>5. ASSUME NEW k \in Nat, k \in S
      PROVE  k + 1 \in S
  <2>1. CASE k + 1 <= n
    <3>1. /\ k \in 0..(n - 1) /\ k + 1 \in 1..n /\ (k + 1) - 1 = k /\ k + 1 \in Nat
      BY <1>1, <2>1
    <3>2. ClosedTo(G[k], s, n, k)
      BY <1>1, <1>5, <2>1
    <3>3. G[k + 1] = CloseCall(G[k], t[k + 1])
      BY <1>3, <3>1
    <3>4. /\ t[k + 1].index = k /\ t[k + 1].id = Default(s.tools[k].id, "call", k)
          /\ t[k + 1].name = s.tools[k].name /\ t[k + 1].args = s.tools[k].args
      BY <1>2, <3>1
    <3> DEFINE x == G[k]
               call == t[k + 1]
    <3>5. Tracks(x, n, FALSE, k..(n - 1)) /\ x.thinking = FALSE /\ x.tools = s.tools
          /\ x.failed = s.failed
      BY <3>2 DEF ClosedTo
    <3>6. /\ call.index = k /\ call.id = Default(x.tools[k].id, "call", k)
          /\ call.name = x.tools[k].name /\ call.args = x.tools[k].args
      BY <3>4, <3>5
    <3> HIDE DEF x, call
    <3>7. ClosedTo(CloseCall(x, call), x, n, k + 1)
      BY <3>1, <3>5, <3>6, CloseCallKeeps
    <3>8. ClosedTo(CloseCall(x, call), s, n, k + 1)
      BY <3>5, <3>7 DEF ClosedTo
    <3>9. ClosedTo(G[k + 1], s, n, k + 1)
      BY <3>3, <3>8 DEF x, call
    <3> QED BY <3>1, <3>9
  <2>2. CASE ~(k + 1 <= n)
    <3>1. k + 1 \in Nat
      OBVIOUS
    <3> QED BY <2>2, <3>1
  <2> QED BY <2>1, <2>2
<1>6. ClosedTo(G[n], s, n, n)
  <2>1. \A k \in Nat : k \in S
    <3> HIDE DEF S
    <3> QED BY <1>4, <1>5, SetInduction
  <2> QED BY <1>1, <2>1
<1>7. n..(n - 1) = {} /\ Books(q, FALSE, {}) = {}
  <2>1. q.thinking = FALSE
    BY <1>3, <1>6 DEF ClosedTo
  <2> HIDE DEF q
  <2> QED BY <1>1, <2>1 DEF Books
<1> HIDE DEF q
<1>8. Tracks(q, n, FALSE, {}) /\ q.failed = s.failed
  BY <1>3, <1>6, <1>7 DEF ClosedTo
<1> QED BY <1>7, <1>8 DEF Tracks, q, t

\* Sets whose elements are matched have as many of them.
LEMMA AsMany ==
  ASSUME NEW S, IsFiniteSet(S), NEW T, NEW f \in [S -> T],
         \A x, y \in S : f[x] = f[y] => x = y, \A z \in T : \E x \in S : f[x] = z
  PROVE  IsFiniteSet(T) /\ Cardinality(T) = Cardinality(S)
<1>1. f \in Bijection(S, T)
  BY DEF Bijection, Injection, Surjection, IsInjective
<1>2. ExistsBijection(S, T)
  BY <1>1 DEF ExistsBijection
<1> QED BY <1>2, FS_Bijection

\* A list of the items from 0 to n - 1 in any order, each of them once.
ListOf(done, n) ==
  /\ IsSeq(done) /\ n \in Nat
  /\ \A k \in DOMAIN done : done[k].at \in 0..(n - 1)
  /\ \A a \in 0..(n - 1) : \E k \in DOMAIN done : done[k].at = a
  /\ \A k, l \in DOMAIN done : k # l => done[k].at # done[l].at

\* The sorted list has every item at its place.
LEMMA OrderedPlaces ==
  ASSUME NEW done, NEW n, ListOf(done, n)
  PROVE  /\ Len(Ordered(done)) = n
         /\ \A k \in DOMAIN done : Ordered(done)[done[k].at + 1] = done[k].item
<1> DEFINE D == DOMAIN done
           Upto(k) == {l \in D : done[l].at < done[k].at \/ (done[l].at = done[k].at /\ l <= k)}
           Place(k) == Cardinality(Upto(k))
           o == Ordered(done)
<1>1. D = 1..Len(done) /\ Len(done) \in Nat /\ n \in Nat /\ IsFiniteSet(D)
      /\ Cardinality(D) = Len(done)
  <2>1. D = 1..Len(done) /\ Len(done) \in Nat
    BY Appended DEF ListOf
  <2>2. IsFiniteSet(1..Len(done)) /\ Cardinality(1..Len(done)) = Len(done)
    <3> DEFINE N == Len(done)
    <3> HIDE DEF N
    <3>1. N \in Nat => IsFiniteSet(1..N) /\ Cardinality(1..N) = N
      BY FS_Interval
    <3> QED BY <2>1, <3>1 DEF N
  <2> QED BY <2>1, <2>2 DEF ListOf
<1>2. /\ \A k \in D : done[k].at \in 0..(n - 1)
      /\ \A a \in 0..(n - 1) : \E k \in D : done[k].at = a
      /\ \A k, l \in D : k # l => done[k].at # done[l].at
  BY DEF ListOf
<1>3. o = [i \in 1..Len(done) |-> done[CHOOSE k \in D : Place(k) = i].item]
  BY DEF Ordered
<1> HIDE DEF D, o
<1>4. ASSUME NEW E \in SUBSET D, NEW N \in 0..n,
             \A l \in D : l \in E <=> done[l].at \in 0..(N - 1)
      PROVE  Cardinality(E) = N
  <2> DEFINE f == [l \in E |-> done[l].at]
  <2>1. IsFiniteSet(E)
    BY <1>1, FS_Subset
  <2>2. f \in [E -> 0..(N - 1)]
    BY <1>4
  <2>3. \A x, y \in E : f[x] = f[y] => x = y
    BY <1>2
  <2>4. \A z \in 0..(N - 1) : \E x \in E : f[x] = z
    <3> SUFFICES ASSUME NEW z \in 0..(N - 1)
                 PROVE  \E x \in E : f[x] = z
      OBVIOUS
    <3>1. PICK l \in D : done[l].at = z
      BY <1>1, <1>2
    <3>2. l \in E /\ f[l] = z
      BY <1>4, <3>1
    <3> QED BY <3>2
  <2> HIDE DEF f
  <2>5. Cardinality(0..(N - 1)) = Cardinality(E)
    BY <2>1, <2>2, <2>3, <2>4, AsMany
  <2>6. N \in Nat => Cardinality(0..(N - 1)) = N
    BY FS_Interval
  <2> QED BY <1>1, <2>5, <2>6
<1>5. Len(done) = n
  <2>1. \A l \in D : done[l].at \in 0..(n - 1)
    BY <1>2
  <2>2. D \in SUBSET D /\ n \in 0..n
    BY <1>1
  <2>3. Cardinality(D) = n
    BY <1>4, <2>1, <2>2
  <2> QED BY <1>1, <2>3
<1>6. ASSUME NEW k \in D
      PROVE  Place(k) = done[k].at + 1
  <2> DEFINE a == done[k].at
  <2>1. a \in 0..(n - 1) /\ a + 1 \in 0..n /\ (a + 1) - 1 = a
    BY <1>1, <1>2
  <2>2. \A l \in D : done[l].at = a => l = k
    BY <1>2
  <2>3. k \in Nat
    BY <1>1
  <2>4. \A l \in D : l \in Upto(k) <=> done[l].at \in 0..((a + 1) - 1)
    <3> SUFFICES ASSUME NEW l \in D
                 PROVE  l \in Upto(k) <=> done[l].at \in 0..a
      BY <2>1
    <3>1. done[l].at \in 0..(n - 1)
      BY <1>2
    <3>2. l \in Upto(k) <=> (done[l].at < a \/ (done[l].at = a /\ l <= k))
      OBVIOUS
    <3> HIDE DEF Upto
    <3> QED BY <1>1, <2>1, <2>2, <2>3, <3>1, <3>2
  <2>5. Upto(k) \in SUBSET D
    OBVIOUS
  <2> HIDE DEF Upto, a
  <2>6. Cardinality(Upto(k)) = a + 1
    BY <1>4, <2>1, <2>4, <2>5
  <2> QED BY <2>6 DEF a
<1> HIDE DEF Place
<1>7. Len(o) = n
  <2>1. DOMAIN o = 1..n
    BY <1>3, <1>5
  <2>2. o = [i \in 1..n |-> o[i]]
    BY <1>3, <1>5
  <2>3. o \in Seq({o[i] : i \in 1..n})
    BY <1>1, <2>2
  <2> QED BY <1>1, <2>1, <2>3
<1>8. ASSUME NEW k \in D
      PROVE  o[done[k].at + 1] = done[k].item
  <2> DEFINE a == done[k].at
             c == CHOOSE l \in D : Place(l) = a + 1
  <2>1. a \in 0..(n - 1) /\ a + 1 \in 1..n
    BY <1>1, <1>2
  <2>2. Place(k) = a + 1
    BY <1>6
  <2>3. c \in D /\ Place(c) = a + 1
    BY <2>2
  <2>4. c = k
    <3>1. done[c].at + 1 = a + 1 /\ done[c].at \in 0..(n - 1)
      BY <1>2, <1>6, <2>3
    <3>2. done[c].at = a
      <4> HIDE DEF a, c
      <4> QED BY <1>1, <2>1, <3>1
    <3> QED BY <1>2, <2>3, <3>2
  <2>5. o[a + 1] = done[c].item
    BY <1>3, <1>5, <2>1
  <2> QED BY <2>4, <2>5
<1> QED BY <1>7, <1>8 DEF o, D

\* When nothing is open the list has all the items.
LEMMA AllListed ==
  ASSUME NEW s, LogOK(s), OpenItems(s.out) = {}
  PROVE  ListOf(s.done, s.next)
<1> DEFINE out == s.out
           done == s.done
           n == s.next
<1>1. /\ AllFit(out) /\ n \in Nat /\ Ats(out) = 0..(n - 1) /\ Listed(done, out)
  BY DEF LogOK
<1>2. DOMAIN out = 1..Len(out)
  BY <1>1, Appended DEF AllFit
<1>3. \A j \in Adds(out) : Over(out, j)
  BY DEF OpenItems, OpenAdds
<1> HIDE DEF out, done, n
<1>4. ASSUME NEW k \in DOMAIN done
      PROVE  done[k].at \in 0..(n - 1)
  <2>1. PICK i \in Ends(out) : done[k].at = out[i].at
    BY <1>1 DEF Listed
  <2>2. i \in 1..Len(out) /\ out[i].ev = "item_done"
    BY <1>2 DEF Ends
  <2>3. EventFits(out, i)
    BY <1>1, <2>2 DEF AllFit
  <2>4. PICK j \in Adds(out) : out[j].at = out[i].at
    BY <2>2, <2>3 DEF EventFits, SaysOf
  <2> QED BY <1>1, <2>1, <2>4 DEF Ats
<1>5. ASSUME NEW a \in 0..(n - 1)
      PROVE  \E k \in DOMAIN done : done[k].at = a
  <2>1. PICK j \in Adds(out) : out[j].at = a
    BY <1>1 DEF Ats
  <2>2. PICK i \in Ends(out) : out[i].at = a
    BY <1>3, <2>1 DEF Over
  <2> QED BY <1>1, <2>2 DEF Listed
<1> QED BY <1>1, <1>4, <1>5 DEF ListOf, Listed, done, n

\* The response that completes a stream.
Completed(out) ==
  LET n == Len(out)
  IN  /\ AllFit(out) /\ n >= 1 /\ out[n].ev = "completed"
      /\ \A i \in 1..n : out[i].ev # "failed" /\ (out[i].ev = "completed" => i = n)
      /\ Len(out[n].output) = Cardinality(Adds(out))
      /\ \A j \in Ends(out) : out[n].output[out[j].at + 1] = out[j].item

\* It lists the items that are done.
LEMMA OutputLists ==
  ASSUME NEW s, LogOK(s), OpenItems(s.out) = {}, NEW usage
  PROVE  Completed(PutEvent(s, [ResponseEvent EXCEPT !.ev = "completed",
                                                     !.output = Ordered(s.done),
                                                     !.usage = usage]).out)
<1> DEFINE e == [ResponseEvent EXCEPT !.ev = "completed", !.output = Ordered(s.done),
                                      !.usage = usage]
           f == [e EXCEPT !.seq = s.seq + 1]
           q == PutEvent(s, e)
           n == Len(s.out)
<1>1. /\ DOMAIN e = DOMAIN ResponseEvent /\ e.ev = "completed" /\ e.at = None /\ e.body = <<>>
      /\ e.output = Ordered(s.done)
  <2> DEFINE o == Ordered(s.done)
  <2> HIDE DEF o
  <2>1. LET x == [ResponseEvent EXCEPT !.ev = "completed", !.output = o, !.usage = usage]
        IN  /\ DOMAIN x = DOMAIN ResponseEvent /\ x.ev = "completed" /\ x.at = None /\ x.body = <<>>
            /\ x.output = o
    BY DEF ResponseEvent
  <2> QED BY <2>1 DEF o
<1>2. DOMAIN s = ResponsesFields /\ AllFit(s.out) /\ s.seq = Len(s.out) /\ Listed(s.done, s.out)
      /\ s.next = Cardinality(Adds(s.out))
  BY DEF LogOK
<1> HIDE DEF e
<1>3. /\ q.out = Append(s.out, f) /\ f.seq = s.seq + 1 /\ f.ev = "completed" /\ f.at = None
      /\ f.body = <<>> /\ f.output = Ordered(s.done)
  BY <1>1, <1>2, PutIs
<1> HIDE DEF f, q
<1>4. f.ev \notin {"item_added", "item_done"} \cup Deltas
  BY <1>3 DEF Deltas
<1>5. AllFit(q.out) /\ Adds(q.out) = Adds(s.out) /\ Ends(q.out) = Ends(s.out)
  BY <1>2, <1>3, <1>4, NoteFits, NothingIsSeq
<1>6. /\ IsSeq(s.out) /\ n \in Nat /\ Len(q.out) = n + 1 /\ q.out[n + 1] = f
      /\ \A i \in 1..n : q.out[i] = s.out[i]
  BY <1>2, <1>3, Appended DEF AllFit
<1>7. \A i \in 1..(n + 1) : i \in 1..n \/ i = n + 1
  BY <1>6
<1>8. \A i \in 1..(n + 1) : q.out[i].ev # "failed" /\ (q.out[i].ev = "completed" => i = n + 1)
  BY <1>3, <1>6, <1>7 DEF LogOK
<1>9. /\ Len(f.output) = s.next
      /\ \A k \in DOMAIN s.done : f.output[s.done[k].at + 1] = s.done[k].item
  BY <1>3, AllListed, OrderedPlaces
<1>10. ASSUME NEW j \in Ends(s.out)
       PROVE  f.output[q.out[j].at + 1] = q.out[j].item
  <2>1. q.out[j] = s.out[j]
    <3>1. j \in 1..n
      BY <1>6, <1>10 DEF Ends
    <3> QED BY <1>6, <3>1
  <2>2. PICK k \in DOMAIN s.done : s.done[k].at = s.out[j].at /\ s.done[k].item = s.out[j].item
    BY <1>2 DEF Listed
  <2> QED BY <1>9, <2>1, <2>2
<1>11. n + 1 >= 1
  BY <1>6
<1>12. Completed(q.out)
  BY <1>2, <1>3, <1>5, <1>6, <1>8, <1>9, <1>10, <1>11 DEF Completed
<1> QED BY <1>12 DEF q, e

\* The events after the end of the stream.
LEMMA CloseCompletes ==
  ASSUME NEW s, NEW n, Tracked(s, n), s.failed = FALSE
  PROVE  Completed(ResponsesClose(s).out)
<1> DEFINE r == CloseReasoning(s)
           m == CloseMessage(r)
           c == FoldLeft(CloseCall, m, CompletedCalls(s.tools))
           usage == ResponsesUsage(s.usage)
<1>1. /\ Tracked(r, n) /\ r.thinking = FALSE /\ r.tools = s.tools
  BY CloseReasoningKeeps
<1> HIDE DEF r
<1>2. Tracks(m, n, FALSE, 0..(n - 1)) /\ m.thinking = FALSE /\ m.tools = s.tools
  BY <1>1, CloseMessageKeeps
<1> HIDE DEF m
<1>3. LogOK(c) /\ OpenItems(c.out) = {}
  <2>1. c = FoldLeft(CloseCall, m, CompletedCalls(m.tools))
    BY <1>2
  <2> HIDE DEF c
  <2> QED BY <1>2, <2>1, CallsClosed
<1>4. ResponsesClose(s) = PutEvent(c, [ResponseEvent EXCEPT !.ev = "completed",
                                                            !.output = Ordered(c.done),
                                                            !.usage = usage])
  BY DEF ResponsesClose, r, m
<1> HIDE DEF c, usage
<1> QED BY <1>3, <1>4, OutputLists

\* Events that fit, an error only at the end, or the whole response there.
FormedResponse(out) ==
  /\ AllFit(out)
  /\ \A i \in 1..Len(out) : out[i].ev \in {"failed", "completed"} => i = Len(out)
  /\ \A i \in 1..Len(out) : out[i].ev = "completed" =>
       /\ Len(out[i].output) = Cardinality(Adds(out))
       /\ \A j \in Ends(out) : out[i].output[out[j].at + 1] = out[j].item

\* The events are those the property asks for.
LEMMA ResponsesForms ==
  ASSUME FormedResponse(stream.out),
         phase = "closed" => (Events("completed") = {} <=> said.error)
  PROVE  ResponsesWellFormed
<1> DEFINE out == stream.out
           A == Events("item_added")
           E == Events("item_done")
           Added(i) == CHOOSE j \in A : out[j].at = out[i].at
<1>1. A = Adds(out) /\ E = Ends(out)
  BY DEF Events, Adds, Ends
<1>2. AllFit(out) /\ AddsFit(out) /\ DOMAIN out = 1..Len(out)
  BY Appended DEF FormedResponse, AllFit
<1>3. \A i \in DOMAIN out : EventFits(out, i)
  BY <1>2 DEF AllFit
<1> HIDE DEF A, E, out
<1>4. \A i \in DOMAIN out : out[i].seq = i
  BY <1>3 DEF EventFits
<1>5. ASSUME NEW i \in A
      PROVE  /\ out[i].at = Cardinality({j \in A : j < i})
             /\ \A j \in A \ {i} : out[j].id # out[i].id
  BY <1>1, <1>2 DEF AddsFit
<1>6. ASSUME NEW i \in DOMAIN out, out[i].at # None
      PROVE  /\ \E j \in A : j <= i /\ out[j].at = out[i].at
             /\ out[i].id = out[Added(i)].id
             /\ \A k \in E : out[k].at = out[i].at => i <= k
             /\ out[i].ev \in Dones => out[i].body = SentOf(out, Added(i), i)
             /\ out[i].ev = "item_done" =>
                  out[i].item = [out[Added(i)].item EXCEPT !.body = SentOf(out, Added(i), i)]
  <2>1. PICK j \in A : SaysOf(out, i, j)
    BY <1>1, <1>3, <1>6 DEF EventFits
  <2>2. out[j].at = out[i].at
    BY <2>1 DEF SaysOf
  <2>3. \A x \in A : out[x].at = out[i].at => x = j
    BY <1>1, <1>2, <2>2 DEF AddsFit
  <2>4. Added(i) = j
    BY <2>2, <2>3
  <2> HIDE DEF Added
  <2>5. ASSUME NEW k \in E, out[k].at = out[i].at
        PROVE  i <= k
    <3>1. ~(k < i)
      BY <1>1, <1>3, <1>6, <2>5 DEF EventFits
    <3>2. k \in 1..Len(out) /\ i \in 1..Len(out)
      BY <1>1, <1>2 DEF Ends
    <3> QED BY <3>1, <3>2
  <2>6. /\ \E x \in A : x <= i /\ out[x].at = out[i].at
        /\ out[i].id = out[j].id
        /\ out[i].ev \in Dones => out[i].body = SentOf(out, j, i)
        /\ out[i].ev = "item_done" => out[i].item = [out[j].item EXCEPT !.body = SentOf(out, j, i)]
    BY <2>1 DEF SaysOf
  <2> QED BY <2>4, <2>5, <2>6
<1>7. /\ \A i \in Events("failed") : i = Len(out)
      /\ \A i \in Events("completed") :
           /\ i = Len(out)
           /\ Len(out[i].output) = Cardinality(A)
           /\ \A j \in E : out[i].output[out[j].at + 1] = out[j].item
  BY <1>1, <1>2 DEF FormedResponse, Events, out
<1> DEFINE DD == {"text_delta", "summary_delta", "args_delta"}
           Said(j, i) == FlattenSeq([k \in 1..(i - j) |->
                           IF out[j + k].at = out[j].at /\ out[j + k].ev \in DD
                           THEN out[j + k].body ELSE <<>>])
<1>8. \A i, j : SentOf(out, j, i) = Said(j, i)
  BY DEF SentOf, SentPieces, Deltas
<1> HIDE DEF Added
<1>9. \A i \in {x \in DOMAIN out : out[x].at # None} :
        /\ \E j \in A : j <= i /\ out[j].at = out[i].at
        /\ out[i].id = out[Added(i)].id
        /\ \A k \in E : out[k].at = out[i].at => i <= k
        /\ out[i].ev \in {"text_done", "part_done", "summary_text_done", "summary_done",
                          "args_done"} => out[i].body = Said(Added(i), i)
        /\ out[i].ev = "item_done" =>
             out[i].item = [out[Added(i)].item EXCEPT !.body = Said(Added(i), i)]
  <2> HIDE DEF Said
  <2> QED BY <1>6, <1>8 DEF Dones
<1> QED BY <1>4, <1>5, <1>7, <1>9 DEF ResponsesWellFormed, A, E, out, Added

\* An open stream, a broken one and a completed one are of the form.
LEMMA FormsOf ==
  ASSUME NEW s, \/ LogOK(s) \/ Broken(s.out) \/ Completed(s.out)
  PROVE  FormedResponse(s.out)
<1>1. CASE LogOK(s)
  BY <1>1 DEF LogOK, FormedResponse
<1>2. CASE Broken(s.out)
  BY <1>2 DEF Broken, FormedResponse
<1>3. CASE Completed(s.out)
  BY <1>3 DEF Completed, FormedResponse
<1> QED BY <1>1, <1>2, <1>3

-----------------------------------------------------------------------------
(* The invariant. *)

\* A broken reply ends in the news of its error, an ended one in the completed
\* response; of a reply that goes on the translator's state and the events
\* agree, and they agree with the calls that were heard.
ResponsesInv ==
  dialect = "responses" =>
    /\ IsSeq(said.calls) /\ DOMAIN said = SaidFields /\ said.error \in BOOLEAN
    /\ said.calling => Len(said.calls) >= 1
    /\ IF said.error THEN stream.failed = TRUE /\ Broken(stream.out)
       ELSE IF phase = "closed" THEN Completed(stream.out)
       ELSE stream.failed = FALSE /\ Tracked(stream, Len(said.calls))

\* A response begins with its created event.
LEMMA ResponsesStartOK ==
  Tracked(ResponsesStart, 0) /\ ResponsesStart.failed = FALSE
<1> DEFINE z == [out |-> <<>>, seq |-> 0, next |-> 0, messageAt |-> None, text |-> <<>>,
                 thinking |-> FALSE, part |-> FALSE, thinkingAt |-> None, thoughts |-> 0,
                 rid |-> ReasoningId(0), reasoning |-> <<>>, tools |-> NoCalls, itemOf |-> <<>>,
                 done |-> <<>>, usage |-> NoUsage, failed |-> FALSE]
           e == [ResponseEvent EXCEPT !.ev = "created"]
           f == [e EXCEPT !.seq = z.seq + 1]
           q == PutEvent(z, e)
<1>1. ResponsesStart = q
  BY DEF ResponsesStart
<1>2. /\ DOMAIN z = ResponsesFields /\ z.out = <<>> /\ z.seq = 0 /\ z.next = 0
      /\ z.messageAt = None /\ z.text = <<>> /\ z.thinking = FALSE /\ z.thoughts = 0
      /\ z.rid = ReasoningId(0) /\ z.tools = <<>> /\ z.itemOf = <<>> /\ z.done = <<>>
      /\ z.failed = FALSE
  BY DEF ResponsesFields, NoCalls
<1>3. DOMAIN e = DOMAIN ResponseEvent /\ e.ev = "created" /\ e.at = None /\ e.body = <<>>
  BY DEF ResponseEvent
<1> HIDE DEF z, e
<1>4. /\ DOMAIN q = ResponsesFields /\ Frame(q, z) /\ q.done = <<>> /\ q.seq = 1
      /\ q.out = Append(<<>>, f) /\ f.seq = 1 /\ f.ev = "created" /\ f.at = None /\ f.body = <<>>
  <2>1. z.seq + 1 = 1
    BY <1>2
  <2> QED BY <1>2, <1>3, <2>1, PutIs
<1> HIDE DEF f, q
<1>5. DOMAIN <<>> = {} /\ Len(<<>>) = 0 /\ IsSeq(<<>>) /\ 0..(0 - 1) = {} /\ 0 + 1 = 1
  BY NothingIsSeq
<1>6. Adds(<<>>) = {} /\ Ends(<<>>) = {} /\ IsFiniteSet({}) /\ Cardinality({}) = 0
  BY <1>5, FS_EmptySet DEF Adds, Ends
<1>7. AllFit(<<>>)
  <2>1. AddsFit(<<>>)
    BY <1>6 DEF AddsFit
  <2>2. \A i \in 1..Len(<<>>) : EventFits(<<>>, i)
    <3>1. 1..0 = {}
      OBVIOUS
    <3> QED BY <1>5, <3>1
  <2>3. Len(<<>>) \in Nat
    BY <1>5
  <2> QED BY <1>5, <2>1, <2>2, <2>3 DEF AllFit
<1>8. f.ev \notin {"item_added", "item_done"} \cup Deltas
  BY <1>4 DEF Deltas
<1>9. /\ AllFit(q.out) /\ OpenItems(q.out) = OpenItems(<<>>)
      /\ Adds(q.out) = {} /\ Ends(q.out) = {}
  <2> DEFINE b == <<>>
  <2>1. AllFit(b) /\ f.seq = Len(b) + 1 /\ f.at = None /\ IsSeq(f.body) /\ q.out = Append(b, f)
    BY <1>4, <1>5, <1>7
  <2>2. Adds(b) = {} /\ Ends(b) = {}
    BY <1>6
  <2> HIDE DEF b
  <2>3. /\ AllFit(q.out) /\ OpenItems(q.out) = OpenItems(b)
        /\ Adds(q.out) = Adds(b) /\ Ends(q.out) = Ends(b)
    BY <1>8, <2>1, NoteFits
  <2> QED BY <2>2, <2>3 DEF b
<1>10. Len(q.out) = 1 /\ q.out[1] = f
  BY <1>4, <1>5, Appended
<1>11. LogOK(q)
  <2>1. q.next = 0 /\ Ats(q.out) = {}
    BY <1>2, <1>4, <1>9 DEF Frame, Ats
  <2>2. Listed(q.done, q.out)
    BY <1>4, <1>5, <1>9 DEF Listed
  <2>3. \A i \in 1..Len(q.out) : q.out[i].ev \notin {"completed", "failed"}
    <3>1. \A i \in 1..1 : i = 1
      OBVIOUS
    <3> QED BY <1>4, <1>10, <3>1
  <2>4. q.seq = Len(q.out) /\ q.next = Cardinality(Adds(q.out)) /\ q.next \in Nat
    <3>1. Cardinality(Adds(q.out)) = 0
      BY <1>6, <1>9
    <3> QED BY <1>4, <1>10, <2>1, <3>1
  <2>5. Ats(q.out) = 0..(q.next - 1)
    BY <1>5, <2>1
  <2> QED BY <1>4, <1>9, <2>2, <2>3, <2>4, <2>5 DEF LogOK
<1>12. Holds(z, 0)
  <2>1. CallsOK(z, 0)
    BY <1>2, <1>5 DEF CallsOK
  <2>2. z.thoughts \in Nat /\ z.thinking \in BOOLEAN
    <3>1. z.thoughts = 0 /\ 0 \in Nat
      BY <1>2
    <3>2. z.thinking = FALSE
      BY <1>2
    <3> QED BY <3>1, <3>2
  <2> QED BY <1>2, <2>1, <2>2 DEF Holds
<1>13. Ids(q.out) \subseteq KnownIds(z) /\ OpenItems(q.out) = {}
  BY <1>6, <1>9 DEF Ids, OpenItems, OpenAdds
<1>14. Books(z, FALSE, 0..(0 - 1)) = {}
  BY <1>2, <1>5 DEF Books
<1>15. Tracks(q, 0, FALSE, 0..(0 - 1))
  BY <1>4, <1>11, <1>12, <1>13, <1>14, Framed
<1>16. (q.messageAt # None) = FALSE /\ q.failed = FALSE
  BY <1>2, <1>4 DEF Frame
<1>17. Tracked(q, 0)
  BY <1>15, <1>16 DEF Tracked
<1> QED BY <1>1, <1>16, <1>17

\* What the upstream sends is made of whole pieces.
LEMMA LinesWhole ==
  ASSUME NEW line, \/ line \in ContentLines \/ line \in ControlLines
                   \/ line = [BlankLine EXCEPT !.kind = "error"]
  PROVE  Whole(line)
<1> DEFINE n == Len(said.calls)
           one == CHOOSE t \in Tools : TRUE
           L(r, t, tools) == [BlankLine EXCEPT !.reasoning = r, !.text = t, !.tools = tools]
           ArgsWhole(tools) == \A k \in DOMAIN tools : IsSeq(tools[k].args)
<1>1. IsSeq(Piece) /\ IsSeq(<<>>)
  <2> DEFINE x == <<"said", pieces>>
  <2> HIDE DEF x
  <2>1. <<x>> \in Seq({x})
    OBVIOUS
  <2>2. IsSeq(<<x>>)
    BY <2>1 DEF IsSeq
  <2> QED BY <2>2, NothingIsSeq DEF Piece, x
<1>2. \A k, t : Call(k, t).args = Piece /\ BareCall(k, t).args = <<>> /\ Fragment(k).args = Piece
  BY DEF Call, BareCall, Fragment
<1>3. ArgsWhole(<<>>)
  OBVIOUS
<1>4. ASSUME NEW d, IsSeq(d.args)
      PROVE  ArgsWhole(<<d>>)
  BY <1>4
<1>5. ASSUME NEW d, NEW e, IsSeq(d.args), IsSeq(e.args)
      PROVE  ArgsWhole(<<d, e>>)
  <2>1. DOMAIN <<d, e>> = {1, 2} /\ <<d, e>>[1] = d /\ <<d, e>>[2] = e
    OBVIOUS
  <2> QED BY <1>5, <2>1
<1>6. ASSUME NEW r, NEW t, NEW tools
      PROVE  LET l == L(r, t, tools)
             IN  l.kind = "chunk" /\ l.reasoning = r /\ l.text = t /\ l.tools = tools
  BY DEF BlankLine
<1>7. \/ line = L(Piece, <<>>, <<>>) \/ line = L(<<>>, Piece, <<>>) \/ line = L(Piece, Piece, <<>>)
      \/ line = L(<<>>, <<>>, <<BareCall(n, one)>>)
      \/ line = L(<<>>, Piece, <<Call(n, one), Call(n + 1, one)>>)
      \/ \E t \in Tools : line = L(<<>>, <<>>, <<Call(n, t)>>)
      \/ line = L(<<>>, <<>>, <<Fragment(n - 1)>>)
      \/ line = [BlankLine EXCEPT !.kind = "noise"]
      \/ line = [BlankLine EXCEPT !.kind = "error"]
      \/ \E f \in {"stop", "length", "tool_calls"} : line = [BlankLine EXCEPT !.finish = f]
      \/ line = [BlankLine EXCEPT !.usage = Usage]
  BY DEF ContentLines, ControlLines, FinishReasons, L, n, one
<1> HIDE DEF L, n, one, ArgsWhole
<1>8. ASSUME NEW r, NEW t, NEW tools, IsSeq(r), IsSeq(t), ArgsWhole(tools), line = L(r, t, tools)
      PROVE  Whole(line)
  BY <1>6, <1>8 DEF Whole, ArgsWhole
<1> HIDE DEF Piece, Call, BareCall, Fragment
<1>9. CASE \/ line = L(Piece, <<>>, <<>>) \/ line = L(<<>>, Piece, <<>>)
           \/ line = L(Piece, Piece, <<>>)
  BY <1>1, <1>3, <1>8, <1>9
<1>10. CASE line = L(<<>>, <<>>, <<BareCall(n, one)>>)
  BY <1>1, <1>2, <1>4, <1>8, <1>10
<1>11. CASE line = L(<<>>, Piece, <<Call(n, one), Call(n + 1, one)>>)
  BY <1>1, <1>2, <1>5, <1>8, <1>11
<1>12. CASE \E t \in Tools : line = L(<<>>, <<>>, <<Call(n, t)>>)
  BY <1>1, <1>2, <1>4, <1>8, <1>12
<1>13. CASE line = L(<<>>, <<>>, <<Fragment(n - 1)>>)
  BY <1>1, <1>2, <1>4, <1>8, <1>13
<1>14. CASE \/ line = [BlankLine EXCEPT !.kind = "noise"]
            \/ line = [BlankLine EXCEPT !.kind = "error"]
            \/ \E f \in {"stop", "length", "tool_calls"} : line = [BlankLine EXCEPT !.finish = f]
            \/ line = [BlankLine EXCEPT !.usage = Usage]
  <2>1. /\ line.kind \in {"chunk", "noise", "error"} /\ line.reasoning = <<>>
        /\ line.text = <<>> /\ line.tools = <<>>
    BY <1>14 DEF BlankLine
  <2> QED BY <1>1, <1>3, <2>1 DEF Whole, ArgsWhole
<1> QED BY <1>7, <1>9, <1>10, <1>11, <1>12, <1>13, <1>14

\* A line is as whole when its model was restored.
LEMMA RestoredSent ==
  ASSUME NEW l, NEW n, NEW m, NEW calling, Sent(l, n, m, calling), Whole(l)
  PROVE  LET r == Restored(l)
         IN  Sent(r, n, m, calling) /\ Whole(r) /\ r.kind = l.kind
<1> DEFINE r == Restored(l)
<1>1. r.kind = l.kind /\ r.reasoning = l.reasoning /\ r.text = l.text /\ r.tools = l.tools
  BY RestoredKeeps DEF Sent
<1>2. DOMAIN r = LineFields
  BY DEF Restored, Sent, LineFields
<1> HIDE DEF r
<1>3. Sent(r, n, m, calling) /\ Whole(r)
  BY <1>1, <1>2 DEF Sent, Whole, Tells
<1> QED BY <1>1, <1>3 DEF r

\* A line received by the gateway and heard by the client.
LEMMA ResponsesReceive ==
  ASSUME ResponsesInv, phase = "open", dialect = "responses", ~said.error,
         NEW line, NEW m \in Nat, Sent(line, Len(said.calls), m, said.calling), Whole(line),
         said' = Hear(said, line), phase' = phase, dialect' = dialect,
         \/ stream' = Translate(stream, Restored(line)) \/ stream' = Translate(stream, line)
  PROVE  ResponsesInv'
<1> DEFINE n == Len(said.calls)
<1>1. /\ IsSeq(said.calls) /\ DOMAIN said = SaidFields /\ (said.calling => n >= 1)
      /\ said.error = FALSE /\ stream.failed = FALSE /\ Tracked(stream, n) /\ n \in Nat
  BY Appended DEF ResponsesInv
<1>2. /\ IsSeq(said'.calls) /\ DOMAIN said' = SaidFields /\ Len(said'.calls) = m
      /\ said'.calling => m >= 1
  BY <1>1, Heard
<1>3. said'.error = (line.kind = "error")
  BY <1>1 DEF Hear, SaidFields
<1>4. PICK l : /\ stream' = ResponsesLine(stream, l) /\ l.kind = line.kind
               /\ Sent(l, n, m, said.calling) /\ Whole(l)
  BY RestoredSent DEF Translate
<1> HIDE DEF n
<1>5. /\ l.kind # "error" => Tracked(stream', m) /\ stream'.failed = FALSE
      /\ l.kind = "error" => stream'.failed = TRUE /\ Broken(stream'.out)
  BY <1>1, <1>4, ResponsesLineKeeps
<1>6. phase' = "open"
  OBVIOUS
<1> QED BY <1>2, <1>3, <1>4, <1>5, <1>6 DEF ResponsesInv

\* A reply begins with nothing said.
LEMMA SilenceOK ==
  /\ IsSeq(Silence.calls) /\ DOMAIN Silence = SaidFields /\ Len(Silence.calls) = 0
  /\ Silence.calling = FALSE /\ Silence.error = FALSE
<1>1. /\ IsSeq(Silence.calls) /\ DOMAIN Silence = SaidFields /\ Len(Silence.calls) = 0
      /\ Silence.calling = FALSE
  BY StartOK
<1>2. Silence.error = FALSE
  BY DEF Silence
<1> QED BY <1>1, <1>2

\* It is so in every initial state.
LEMMA InitResponses == Init => ResponsesInv
<1> SUFFICES ASSUME Init, dialect = "responses"
             PROVE  ResponsesInv
  BY DEF ResponsesInv
<1>1. said = Silence /\ stream = ResponsesStart
  BY DEF Init, Start
<1>2. phase # "closed"
  BY DEF Init, Send
<1> QED BY <1>1, <1>2, ResponsesStartOK, SilenceOK DEF ResponsesInv

\* It is kept by every step.
LEMMA NextResponses == ResponsesInv /\ [Next]_vars => ResponsesInv'
<1> SUFFICES ASSUME ResponsesInv, [Next]_vars
             PROVE  ResponsesInv'
  OBVIOUS
<1>1. CASE UNCHANGED vars
  BY <1>1 DEF ResponsesInv, vars
<1>2. CASE dialect' # "responses"
  BY <1>2 DEF ResponsesInv
<1>3. CASE Opened
  BY <1>3 DEF ResponsesInv, Opened, client
<1>4. ASSUME Content, dialect' = "responses"
      PROVE  ResponsesInv'
  <2>1. PICK line \in ContentLines : Receive(line)
    BY <1>4 DEF Content
  <2>2. /\ dialect = "responses" /\ dialect' = dialect /\ phase' = phase /\ phase = "open"
        /\ ~said.error
    BY <1>4, <2>1 DEF Content, Receive, client
  <2>3. IsSeq(said.calls) /\ (said.calling => Len(said.calls) >= 1)
    BY <2>2 DEF ResponsesInv
  <2>4. PICK m \in Nat : Sent(line, Len(said.calls), m, said.calling)
    BY <2>3, ContentSent
  <2>5. said' = Hear(said, line) /\ stream' = Translate(stream, Restored(line)) /\ Whole(line)
    BY <2>1, LinesWhole DEF Receive
  <2> QED BY <2>2, <2>4, <2>5, ResponsesReceive
<1>5. ASSUME Control, dialect' = "responses"
      PROVE  ResponsesInv'
  <2>1. PICK line \in ControlLines : Receive(line)
    BY <1>5 DEF Control
  <2>2. /\ dialect = "responses" /\ dialect' = dialect /\ phase' = phase /\ phase = "open"
        /\ ~said.error
    BY <1>5, <2>1 DEF Control, Receive, client
  <2>3. Len(said.calls) \in Nat
    BY <2>2, Appended DEF ResponsesInv
  <2>4. Sent(line, Len(said.calls), Len(said.calls), said.calling)
    BY ControlSent
  <2>5. said' = Hear(said, line) /\ stream' = Translate(stream, Restored(line)) /\ Whole(line)
    BY <2>1, LinesWhole DEF Receive
  <2> QED BY <2>2, <2>3, <2>4, <2>5, ResponsesReceive
<1>6. ASSUME Breaks, dialect' = "responses"
      PROVE  ResponsesInv'
  <2>1. PICK line : /\ line = [BlankLine EXCEPT !.kind = "error"]
                    /\ stream' = Translate(stream, line) /\ said' = Hear(said, line)
    BY <1>6 DEF Breaks
  <2>2. /\ dialect = "responses" /\ dialect' = dialect /\ phase' = phase /\ phase = "open"
        /\ ~said.error
    BY <1>6 DEF Breaks, client
  <2>3. Len(said.calls) \in Nat
    BY <2>2, Appended DEF ResponsesInv
  <2>4. Sent(line, Len(said.calls), Len(said.calls), said.calling)
    BY <2>1, ControlSent
  <2>5. Whole(line)
    BY <2>1, LinesWhole
  <2> QED BY <2>1, <2>2, <2>3, <2>4, <2>5, ResponsesReceive
<1>7. ASSUME End, dialect' = "responses"
      PROVE  ResponsesInv'
  <2>1. /\ dialect = "responses" /\ phase = "open" /\ phase' = "closed" /\ said' = said
        /\ stream' = ResponsesClose(stream)
    BY <1>7 DEF End, client, Close
  <2>2. CASE said.error
    <3>1. stream.failed = TRUE /\ Broken(stream.out)
      BY <2>1, <2>2 DEF ResponsesInv
    <3>2. stream' = stream
      BY <2>1, <3>1 DEF ResponsesClose
    <3> QED BY <2>1, <2>2, <3>1, <3>2 DEF ResponsesInv
  <2>3. CASE ~said.error
    <3>1. stream.failed = FALSE /\ Tracked(stream, Len(said.calls))
      BY <2>1, <2>3 DEF ResponsesInv
    <3>2. Completed(stream'.out)
      BY <2>1, <3>1, CloseCompletes
    <3> QED BY <2>1, <2>3, <3>2 DEF ResponsesInv
  <2> QED BY <2>2, <2>3
<1>8. ASSUME NEW f, Fails(f)
      PROVE  ResponsesInv'
  BY <1>8 DEF ResponsesInv, Fails, client
<1>9. ASSUME NEW backwards, NEW more, NEW keys, NextTurn(backwards, more, keys),
             dialect' = "responses"
      PROVE  ResponsesInv'
  <2>1. said' = Silence /\ stream' = ResponsesStart
    BY <1>9 DEF NextTurn, Start
  <2>2. phase' # "closed"
    BY <1>9 DEF NextTurn, Send
  <2> QED BY <2>1, <2>2, ResponsesStartOK, SilenceOK DEF ResponsesInv
<1> QED BY <1>1, <1>2, <1>3, <1>4, <1>5, <1>6, <1>7, <1>8, <1>9 DEF Next

\* The invariant says what ResponsesWellFormed asks.
LEMMA ResponsesInvForms == ResponsesInv => ResponsesWellFormed
<1> SUFFICES ASSUME ResponsesInv, dialect = "responses"
             PROVE  ResponsesWellFormed
  BY DEF ResponsesWellFormed
<1>1. \/ LogOK(stream) \/ Broken(stream.out) \/ Completed(stream.out)
  BY DEF ResponsesInv, Tracked, Tracks
<1>2. FormedResponse(stream.out)
  BY <1>1, FormsOf
<1>3. DOMAIN stream.out = 1..Len(stream.out) /\ Len(stream.out) \in Nat
  BY <1>2, Appended DEF FormedResponse, AllFit
<1>4. ASSUME phase = "closed"
      PROVE  Events("completed") = {} <=> said.error
  <2>1. CASE said.error
    <3>1. Broken(stream.out)
      BY <2>1 DEF ResponsesInv
    <3>2. Events("completed") = {}
      BY <1>3, <3>1 DEF Broken, Events
    <3> QED BY <2>1, <3>2
  <2>2. CASE ~said.error
    <3>1. Completed(stream.out)
      BY <1>4, <2>2 DEF ResponsesInv
    <3>2. Len(stream.out) \in DOMAIN stream.out /\ stream.out[Len(stream.out)].ev = "completed"
      BY <1>3, <3>1 DEF Completed
    <3>3. Events("completed") # {}
      BY <3>2 DEF Events
    <3> QED BY <2>2, <3>3
  <2> QED BY <2>1, <2>2
<1> QED BY <1>2, <1>4, ResponsesForms

\* The Responses events form a response, whatever the upstream sends of text,
\* reasoning and calls, in whatever order, for any tools and any number of lines
\* and turns: every item is added once, at the next index and with an id of its
\* own, the text of its done events is the concatenation of its deltas, and the
\* completed response lists every item at its index (services/responses_proxy.py).
THEOREM ResponsesFormed == Spec => []ResponsesWellFormed
<1>1. ResponsesInv /\ [Next]_vars => ResponsesInv'
  BY NextResponses
<1> QED BY InitResponses, <1>1, ResponsesInvForms, PTL DEF Spec
=============================================================================
