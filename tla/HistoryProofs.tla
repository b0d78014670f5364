--------------------------- MODULE HistoryProofs ---------------------------
(***************************************************************************)
(* What the next requests of GatewayStream's clients add to the history:   *)
(* each request begins with the messages of the one before it              *)
(* (HistoryStable), and its messages are the client's conversation,        *)
(* whatever dialect it was held in (HistoryFaithful).                      *)
(*                                                                         *)
(* A translator of requests takes the items of the history one by one, so  *)
(* what it makes of a longer history is what it made of the shorter one    *)
(* and what it makes of the new turn (TurnReadAs).  The order in which     *)
(* the client writes the keys of its arguments is not seen (TurnAlike).    *)
(* A turn becomes a reply in any number of messages, an answer for each    *)
(* of its calls with that call's id, and the remark (AnthropicTurned,      *)
(* ResponsesTurned, OllamaTurned); joined, they are what the turn says     *)
(* (TurnJoined).  That a turn is one a reply of the gateway can give is    *)
(* ClientInv of ClientProofs.                                              *)
(***************************************************************************)
EXTENDS ClientProofs

-----------------------------------------------------------------------------
(* The client's next requests.                                             *)

\* One sequence begins with another.
StartsWith(s, t) == IsSeq(s) /\ \E u : IsSeq(u) /\ t = s \o u

LEMMA BeginsIsPrefix ==
  ASSUME NEW s, NEW t, StartsWith(s, t)
  PROVE  IsPrefix(s, t)
<1>1. PICK u : IsSeq(u) /\ t = s \o u
  BY DEF StartsWith
<1>2. PICK S : s \in Seq(S)
  BY DEF StartsWith, IsSeq
<1>3. PICK T : u \in Seq(T)
  BY <1>1 DEF IsSeq
<1> DEFINE U == S \cup T
           n == Len(s)
<1>4. s \in Seq(U) /\ u \in Seq(U)
  BY <1>2, <1>3
<1> HIDE DEF U
<1>5. n \in Nat /\ t \in Seq(U) /\ n <= Len(t) /\ \A k \in 1..n : t[k] = s[k]
  BY <1>1, <1>4
<1> DEFINE p == SubSeq(s, 1, n)
           q == SubSeq(t, 1, n)
<1>6. /\ p \in Seq(U) /\ Len(p) = n /\ \A k \in 1..n : p[k] = s[k]
  BY <1>4, <1>5
<1>7. /\ q \in Seq(U) /\ Len(q) = n /\ \A k \in 1..n : q[k] = t[k]
  BY <1>5
<1> HIDE DEF p, q
<1>8. p = q
  BY <1>5, <1>6, <1>7
<1> QED BY <1>5, <1>8 DEF IsPrefix, p, q, n

LEMMA BeginsTwice ==
  ASSUME NEW s, NEW t, NEW u, StartsWith(s, t), StartsWith(t, u)
  PROVE  StartsWith(s, u)
<1>1. PICK x : IsSeq(x) /\ t = s \o x
  BY DEF StartsWith
<1>2. PICK y : IsSeq(y) /\ u = t \o y
  BY DEF StartsWith
<1>3. IsSeq(s) /\ IsSeq(x \o y)
  BY <1>1, <1>2, Concatenated DEF StartsWith
<1>4. Regroups(s, x, y)
  BY <1>1, <1>2, <1>3, Regrouped
<1>5. u = s \o (x \o y)
  BY <1>1, <1>2, <1>4 DEF Regroups
<1> QED BY <1>3, <1>5 DEF StartsWith

LEMMA BeginsSame ==
  ASSUME NEW s, IsSeq(s)
  PROVE  /\ StartsWith(s, s)
         /\ \A x : StartsWith(s, Append(s, x))
         /\ \A u : IsSeq(u) => StartsWith(s, s \o u)
<1>1. IsSeq(<<>>) /\ s \o <<>> = s
  BY NothingIsSeq, Concatenated
<1>2. StartsWith(s, s)
  BY <1>1 DEF StartsWith
<1>3. ASSUME NEW u, IsSeq(u)
      PROVE  StartsWith(s, s \o u)
  BY <1>3 DEF StartsWith
<1>4. ASSUME NEW x
      PROVE  StartsWith(s, Append(s, x))
  <2>1. Append(s, x) = s \o <<x>> /\ IsSeq(<<x>>)
    BY Single
  <2> QED BY <1>3, <2>1
<1> QED BY <1>2, <1>3, <1>4

\* One item of the history more, as a dialect takes it, and all of them.
TakesOne(d, acc, x) ==
  CASE d = "anthropic" -> acc \o FromAnthropic(x)
    [] d = "responses" -> TakeItem(acc, x)
    [] OTHER -> TakeMessage(acc, x)
TakesAll(d, acc, items) ==
  CASE d = "anthropic" -> acc \o FlattenSeq([k \in 1..Len(items) |-> FromAnthropic(items[k])])
    [] d = "responses" -> FoldLeft(TakeItem, acc, items)
    [] OTHER -> FoldLeft(TakeMessage, acc, items)

\* Two blocks, or two items of a dialect, that the gateway reads the same way,
\* and a call as it is written and as it was said.
Like(kind, x, y) ==
  IF kind = "block"
  THEN x = y \/ /\ x.type = "tool_use" /\ y.type = "tool_use" /\ x.piece = y.piece
                /\ x.id = y.id /\ x.name = y.name /\ Stable(x.args) = Stable(y.args)
  ELSE IF kind = "call" THEN x.id = y.id /\ x.name = y.name /\ x.args.value = y.args
  ELSE \A acc : TakesOne(kind, acc, x) = TakesOne(kind, acc, y)
Alike(kind, s, t) ==
  IsSeq(s) /\ IsSeq(t) /\ Len(s) = Len(t) /\ \A k \in 1..Len(s) : Like(kind, s[k], t[k])

LEMMA AlikeJoined ==
  ASSUME NEW kind, NEW s, NEW t, Alike(kind, s, t), NEW u, NEW v, Alike(kind, u, v)
  PROVE  Alike(kind, s \o u, t \o v)
<1> DEFINE m == Len(s)
           n == Len(u)
           p == s \o u
           q == t \o v
<1>1. /\ IsSeq(p) /\ m \in Nat /\ n \in Nat /\ Len(p) = m + n
      /\ \A i \in 1..m : p[i] = s[i]
      /\ \A i \in 1..n : p[m + i] = u[i]
  BY Catenated DEF Alike
<1>2. /\ IsSeq(q) /\ Len(q) = m + n
      /\ \A i \in 1..m : q[i] = t[i]
      /\ \A i \in 1..n : q[m + i] = v[i]
  BY Catenated DEF Alike
<1> HIDE DEF m, n, p, q
<1>3. /\ \A i \in 1..m : Like(kind, s[i], t[i])
      /\ \A i \in 1..n : Like(kind, u[i], v[i])
  BY DEF Alike, m, n
<1>4. ASSUME NEW i \in 1..(m + n)
      PROVE  Like(kind, p[i], q[i])
  <2>1. i \in 1..m \/ (i - m \in 1..n /\ m + (i - m) = i)
    BY <1>1
  <2>2. CASE i \in 1..m
    BY <1>1, <1>2, <1>3, <2>2
  <2>3. CASE i - m \in 1..n /\ m + (i - m) = i
    <3> DEFINE k == i - m
    <3>1. k \in 1..n /\ m + k = i
      BY <2>3
    <3> HIDE DEF k
    <3>2. p[i] = u[k] /\ q[i] = v[k]
      BY <1>1, <1>2, <3>1
    <3> QED BY <1>3, <3>1, <3>2
  <2> QED BY <2>1, <2>2, <2>3
<1>5. Alike(kind, p, q)
  BY <1>1, <1>2, <1>4 DEF Alike
<1> QED BY <1>5 DEF p, q

LEMMA AlikeFlat ==
  ASSUME NEW kind, NEW ss, NEW tt, IsSeq(ss), IsSeq(tt), Len(ss) = Len(tt),
         \A k \in 1..Len(ss) : Alike(kind, ss[k], tt[k])
  PROVE  Alike(kind, FlattenSeq(ss), FlattenSeq(tt))
<1> DEFINE N == Len(ss)
           S == {n \in Nat : n <= N => Alike(kind, FlattenSeq(Opening(ss, n)),
                                             FlattenSeq(Opening(tt, n)))}
<1>1. N \in Nat
  BY Appended
<1>2. 0 \in S
  <2> DEFINE e == <<>>
  <2>1. Opening(ss, 0) = e /\ Opening(tt, 0) = e
    BY <1>1, BeginsOf
  <2>2. FlattenSeq(e) = e /\ IsSeq(e) /\ Len(e) = 0
    BY NothingIsSeq DEF FlattenSeq
  <2> HIDE DEF e
  <2>3. Alike(kind, e, e)
    BY <2>2 DEF Alike
  <2> QED BY <2>1, <2>2, <2>3
<1>3. ASSUME NEW n \in Nat, n \in S
      PROVE  n + 1 \in S
  <2> SUFFICES ASSUME n + 1 <= N
               PROVE  Alike(kind, FlattenSeq(Opening(ss, n + 1)), FlattenSeq(Opening(tt, n + 1)))
    OBVIOUS
  <2>1. n < N /\ n <= N /\ n + 1 \in 1..N
    BY <1>1
  <2> DEFINE p == Opening(ss, n)
             q == Opening(tt, n)
             x == ss[n + 1]
             y == tt[n + 1]
  <2>2. IsSeq(p) /\ Opening(ss, n + 1) = Append(p, x)
    BY <2>1, BeginsOf
  <2>3. IsSeq(q) /\ Opening(tt, n + 1) = Append(q, y)
    BY <2>1, BeginsOf
  <2>4. Alike(kind, FlattenSeq(p), FlattenSeq(q))
    BY <1>3, <2>1
  <2>5. Alike(kind, x, y)
    BY <2>1
  <2> HIDE DEF p, q, x, y
  <2>6. /\ FlattenSeq(Append(p, x)) = FlattenSeq(p) \o x
        /\ FlattenSeq(Append(q, y)) = FlattenSeq(q) \o y
    BY <2>2, <2>3, <2>5, FlattenAppend DEF Alike
  <2>7. Alike(kind, FlattenSeq(p) \o x, FlattenSeq(q) \o y)
    BY <2>4, <2>5, AlikeJoined
  <2> QED BY <2>2, <2>3, <2>6, <2>7
<1>4. \A n \in Nat : n \in S
  <2> HIDE DEF S
  <2> QED BY <1>2, <1>3, SetInduction
<1>5. N \in S
  <2> HIDE DEF S
  <2> QED BY <1>1, <1>4
<1>6. Alike(kind, FlattenSeq(Opening(ss, N)), FlattenSeq(Opening(tt, N)))
  BY <1>1, <1>5
<1>7. Opening(ss, N) = ss /\ Opening(tt, N) = tt
  BY <1>1, BeginsOf
<1> QED BY <1>6, <1>7

\* What the gateway has made of the items so far, and the messages in it.
AccOK(d, acc) ==
  IF d = "anthropic" THEN IsSeq(acc)
  ELSE DOMAIN acc = {"msgs", "pending"} /\ IsSeq(acc.msgs)
MessagesOf(d, acc) == IF d = "anthropic" THEN acc ELSE acc.msgs
ItemOK(d, x) == d = "anthropic" => IsSeq(FromAnthropic(x))
ItemsOK(d, items) == IsSeq(items) /\ \A k \in 1..Len(items) : ItemOK(d, items[k])

\* A fold is what it is defined as.
LEMMA ItemsTaken ==
  ASSUME NEW b, NEW t, IsSeq(t)
  PROVE  IsFold("responses", b, t, FoldLeft(TakeItem, b, t))
<1> DEFINE n == Len(t)
           Step(g, S) == IF S = {} THEN b ELSE TakeItem(g[S \ {Max(S)}], t[Max(S)])
           G == CHOOSE g : g = [S \in SUBSET (1..n) |-> Step(g, S)]
<1>1. DOMAIN t = 1..n /\ n \in Nat
  BY Appended
<1>2. FoldLeft(TakeItem, b, t) = G[1..n]
  BY <1>1 DEF FoldLeft, MapThenFoldSet
<1>3. \A g, S : Step(g, S) = TakeStep("responses", b, t, g, S)
  BY DEF TakeStep, Takes
<1> HIDE DEF n, Step
<1>4. PICK f : Folded("responses", b, t, f, n)
  BY <1>1, FoldExists
<1>5. f = [S \in SUBSET (1..n) |-> Step(f, S)]
  BY <1>3, <1>4 DEF Folded
<1>6. G = [S \in SUBSET (1..n) |-> Step(G, S)]
  BY <1>5
<1> HIDE DEF G
<1>7. Folded("responses", b, t, G, n)
  BY <1>3, <1>6 DEF Folded
<1> QED BY <1>2, <1>7 DEF IsFold, n

LEMMA MessagesTaken ==
  ASSUME NEW b, NEW t, IsSeq(t)
  PROVE  IsFold("ollama", b, t, FoldLeft(TakeMessage, b, t))
<1> DEFINE n == Len(t)
           Step(g, S) == IF S = {} THEN b ELSE TakeMessage(g[S \ {Max(S)}], t[Max(S)])
           G == CHOOSE g : g = [S \in SUBSET (1..n) |-> Step(g, S)]
<1>1. DOMAIN t = 1..n /\ n \in Nat
  BY Appended
<1>2. FoldLeft(TakeMessage, b, t) = G[1..n]
  BY <1>1 DEF FoldLeft, MapThenFoldSet
<1>3. \A g, S : Step(g, S) = TakeStep("ollama", b, t, g, S)
  BY DEF TakeStep, Takes
<1> HIDE DEF n, Step
<1>4. PICK f : Folded("ollama", b, t, f, n)
  BY <1>1, FoldExists
<1>5. f = [S \in SUBSET (1..n) |-> Step(f, S)]
  BY <1>3, <1>4 DEF Folded
<1>6. G = [S \in SUBSET (1..n) |-> Step(G, S)]
  BY <1>5
<1> HIDE DEF G
<1>7. Folded("ollama", b, t, G, n)
  BY <1>3, <1>6 DEF Folded
<1> QED BY <1>2, <1>7 DEF IsFold, n

\* One item more is taken last.
LEMMA TakesGrow ==
  ASSUME NEW d, NEW acc, AccOK(d, acc), NEW items, ItemsOK(d, items), NEW x, ItemOK(d, x)
  PROVE  TakesAll(d, acc, Append(items, x)) = TakesOne(d, TakesAll(d, acc, items), x)
<1> DEFINE more == Append(items, x)
           n == Len(items)
<1>1. IsSeq(items) /\ IsSeq(more) /\ n \in Nat /\ Len(more) = n + 1 /\ more[n + 1] = x
      /\ \A k \in 1..n : more[k] = items[k]
  BY Appended DEF ItemsOK
<1>2. CASE d = "anthropic"
  <2> DEFINE y == FromAnthropic(x)
             ss == [k \in 1..n |-> FromAnthropic(items[k])]
             tt == [k \in 1..(n + 1) |-> FromAnthropic(more[k])]
             uu == Append(ss, y)
  <2>1. IsSeq(y) /\ IsSeq(acc) /\ \A k \in 1..n : IsSeq(FromAnthropic(items[k]))
    BY <1>2 DEF ItemsOK, ItemOK, AccOK
  <2>2. IsSeq(ss) /\ Len(ss) = n
    BY <1>1, Numbered
  <2>3. IsSeq(tt) /\ Len(tt) = n + 1
    BY <1>1, Numbered
  <2>4. \A k \in 1..n : ss[k] = FromAnthropic(items[k])
    OBVIOUS
  <2>5. \A k \in 1..n : tt[k] = FromAnthropic(items[k])
    BY <1>1
  <2>6. tt[n + 1] = y
    BY <1>1
  <2>7. TakesAll(d, acc, items) = acc \o FlattenSeq(ss)
    BY <1>2 DEF TakesAll
  <2>8. TakesAll(d, acc, more) = acc \o FlattenSeq(tt)
    BY <1>1, <1>2 DEF TakesAll
  <2>9. DOMAIN tt = 1..(n + 1)
    OBVIOUS
  <2> HIDE DEF y, ss, tt, more
  <2>10. /\ IsSeq(uu) /\ DOMAIN uu = 1..(n + 1) /\ uu[n + 1] = y
         /\ \A k \in 1..n : uu[k] = ss[k]
    BY <2>2, Appended
  <2>11. \A k \in 1..(n + 1) : uu[k] = tt[k]
    BY <1>1, <2>4, <2>5, <2>6, <2>10
  <2>12. tt = uu
    <3>1. IsSeq(tt) /\ IsSeq(uu) /\ Len(uu) = n + 1
      BY <2>2, <2>3, <2>10, Appended
    <3> HIDE DEF uu
    <3> QED BY <2>3, <2>11, <3>1, SameSeq
  <2>13. FlattenSeq(uu) = FlattenSeq(ss) \o y
    BY <2>1, <2>2, FlattenAppend
  <2>14. IsSeq(FlattenSeq(ss))
    BY <2>1, <2>2, <2>4, FlattenIsSeq
  <2>15. Regroups(acc, FlattenSeq(ss), y)
    BY <2>1, <2>14, Regrouped
  <2>16. acc \o FlattenSeq(tt) = (acc \o FlattenSeq(ss)) \o y
    BY <2>12, <2>13, <2>15 DEF Regroups
  <2> QED BY <1>2, <2>7, <2>8, <2>16 DEF TakesOne, y, more
<1>3. CASE d = "responses"
  <2>1. IsFold("responses", acc, items, FoldLeft(TakeItem, acc, items))
    BY <1>1, ItemsTaken
  <2>2. IsFold("responses", acc, more, FoldLeft(TakeItem, acc, more))
    BY <1>1, ItemsTaken
  <2>3. FoldLeft(TakeItem, acc, more) = Takes("responses", FoldLeft(TakeItem, acc, items), x)
    BY <1>1, <2>1, <2>2, FoldGrows
  <2> QED BY <1>3, <2>3 DEF TakesAll, TakesOne, Takes
<1>4. CASE d \notin {"anthropic", "responses"}
  <2>1. IsFold("ollama", acc, items, FoldLeft(TakeMessage, acc, items))
    BY <1>1, MessagesTaken
  <2>2. IsFold("ollama", acc, more, FoldLeft(TakeMessage, acc, more))
    BY <1>1, MessagesTaken
  <2>3. FoldLeft(TakeMessage, acc, more) = Takes("ollama", FoldLeft(TakeMessage, acc, items), x)
    BY <1>1, <2>1, <2>2, FoldGrows
  <2> QED BY <1>4, <2>3 DEF TakesAll, TakesOne, Takes
<1> QED BY <1>2, <1>3, <1>4

LEMMA TakesNothing ==
  ASSUME NEW d, NEW acc, AccOK(d, acc), NEW e, e = <<>>
  PROVE  TakesAll(d, acc, e) = acc
<1>1. IsSeq(e) /\ Len(e) = 0
  BY NothingIsSeq
<1>2. CASE d = "anthropic"
  <2> DEFINE f == [k \in 1..Len(e) |-> FromAnthropic(e[k])]
  <2>1. f = <<>>
    BY <1>1
  <2>2. FlattenSeq(f) = <<>>
    BY <2>1 DEF FlattenSeq
  <2>3. acc \o <<>> = acc
    BY <1>2, <1>1, Concatenated DEF AccOK
  <2> QED BY <1>2, <2>2, <2>3 DEF TakesAll
<1>3. CASE d = "responses"
  BY <1>1, <1>3, ItemsTaken, FoldNothing DEF TakesAll
<1>4. CASE d \notin {"anthropic", "responses"}
  BY <1>1, <1>4, MessagesTaken, FoldNothing DEF TakesAll
<1> QED BY <1>2, <1>3, <1>4

LEMMA MoreItems ==
  ASSUME NEW d, NEW items, ItemsOK(d, items), NEW x, ItemOK(d, x)
  PROVE  ItemsOK(d, Append(items, x))
<1> DEFINE n == Len(items)
           more == Append(items, x)
<1>1. IsSeq(items) /\ \A k \in 1..n : ItemOK(d, items[k])
  BY DEF ItemsOK
<1>2. /\ IsSeq(more) /\ n \in Nat /\ Len(more) = n + 1 /\ more[n + 1] = x
      /\ \A k \in 1..n : more[k] = items[k]
  BY <1>1, Appended
<1> HIDE DEF more, n
<1>3. \A k \in 1..(n + 1) : k \in 1..n \/ k = n + 1
  BY <1>2
<1>4. ItemsOK(d, more)
  BY <1>1, <1>2, <1>3 DEF ItemsOK
<1> QED BY <1>4 DEF more

\* One item adds messages and changes none.
LEMMA OneIsTaken ==
  ASSUME NEW d, NEW acc, AccOK(d, acc), NEW x, ItemOK(d, x)
  PROVE  /\ AccOK(d, TakesOne(d, acc, x))
         /\ StartsWith(MessagesOf(d, acc), MessagesOf(d, TakesOne(d, acc, x)))
<1>1. CASE d = "anthropic"
  <2>1. IsSeq(acc) /\ IsSeq(FromAnthropic(x)) /\ TakesOne(d, acc, x) = acc \o FromAnthropic(x)
    BY <1>1 DEF AccOK, ItemOK, TakesOne
  <2>2. IsSeq(acc \o FromAnthropic(x)) /\ StartsWith(acc, acc \o FromAnthropic(x))
    BY <2>1, Concatenated, BeginsSame
  <2> QED BY <1>1, <2>1, <2>2 DEF AccOK, MessagesOf
<1>2. CASE d = "responses"
  <2> DEFINE f == Flush(acc)
             q == TakeItem(acc, x)
  <2>0. DOMAIN acc = {"msgs", "pending"} /\ IsSeq(acc.msgs)
    BY <1>2 DEF AccOK
  <2>1. StartsWith(acc.msgs, acc.msgs)
    BY <2>0, BeginsSame
  <2>2. DOMAIN f = {"msgs", "pending"} /\ IsSeq(f.msgs) /\ StartsWith(acc.msgs, f.msgs)
    <3>1. CASE acc.pending = <<>>
      BY <2>0, <2>1, <3>1 DEF Flush
    <3>2. CASE acc.pending # <<>>
      <4> DEFINE y == [Message EXCEPT !.role = "assistant", !.calls = acc.pending]
      <4>1. f = [msgs |-> Append(acc.msgs, y), pending |-> <<>>]
        BY <3>2 DEF Flush
      <4> HIDE DEF y
      <4>2. IsSeq(Append(acc.msgs, y)) /\ StartsWith(acc.msgs, Append(acc.msgs, y))
        BY <2>0, Appended, BeginsSame
      <4> QED BY <4>1, <4>2
    <3> QED BY <3>1, <3>2
  <2>3. CASE x.type = "function_call"
    <3>1. DOMAIN q = {"msgs", "pending"} /\ q.msgs = acc.msgs
      BY <2>0, <2>3 DEF TakeItem
    <3> QED BY <1>2, <2>0, <2>1, <3>1 DEF AccOK, MessagesOf, TakesOne
  <2>4. CASE x.type # "function_call"
    <3> DEFINE y == FromItem(x)
    <3>1. IsSeq(y)
      BY Single, NothingIsSeq DEF FromItem
    <3>2. q = [f EXCEPT !.msgs = @ \o y]
      BY <2>4 DEF TakeItem
    <3> HIDE DEF f, y, q
    <3>3. DOMAIN q = {"msgs", "pending"} /\ q.msgs = f.msgs \o y
      BY <2>2, <3>2
    <3>4. IsSeq(f.msgs \o y) /\ StartsWith(f.msgs, f.msgs \o y)
      BY <2>2, <3>1, Concatenated, BeginsSame
    <3>5. StartsWith(acc.msgs, f.msgs \o y)
      BY <2>2, <3>4, BeginsTwice
    <3> QED BY <1>2, <3>3, <3>4, <3>5 DEF AccOK, MessagesOf, TakesOne, q
  <2> QED BY <2>3, <2>4
<1>3. CASE d \notin {"anthropic", "responses"}
  <2> DEFINE q == TakeMessage(acc, x)
  <2>1. DOMAIN acc = {"msgs", "pending"} /\ IsSeq(acc.msgs)
    BY <1>3 DEF AccOK
  <2>2. PICK y : q.msgs = Append(acc.msgs, y) /\ DOMAIN q = {"msgs", "pending"}
    BY DEF TakeMessage
  <2> HIDE DEF q
  <2>3. IsSeq(Append(acc.msgs, y)) /\ StartsWith(acc.msgs, Append(acc.msgs, y))
    BY <2>1, Appended, BeginsSame
  <2> QED BY <1>3, <2>2, <2>3 DEF AccOK, MessagesOf, TakesOne, q
<1> QED BY <1>1, <1>2, <1>3

\* The first n of some items are items.
LEMMA FirstItems ==
  ASSUME NEW d, NEW items, ItemsOK(d, items), NEW n \in Nat, n < Len(items)
  PROVE  /\ ItemsOK(d, Opening(items, n)) /\ ItemOK(d, items[n + 1])
         /\ Opening(items, n + 1) = Append(Opening(items, n), items[n + 1])
<1>1. IsSeq(items) /\ Len(items) \in Nat /\ \A k \in 1..Len(items) : ItemOK(d, items[k])
  BY Appended DEF ItemsOK
<1>2. /\ IsSeq(Opening(items, n)) /\ Len(Opening(items, n)) = n
      /\ \A k \in 1..n : Opening(items, n)[k] = items[k]
      /\ Opening(items, n + 1) = Append(Opening(items, n), items[n + 1])
  BY <1>1, BeginsOf
<1>3. n + 1 \in 1..Len(items) /\ \A k \in 1..n : k \in 1..Len(items)
  BY <1>1
<1> QED BY <1>1, <1>2, <1>3 DEF ItemsOK

\* Any items add messages and change none.
LEMMA AllAreTaken ==
  ASSUME NEW d, NEW acc, AccOK(d, acc), NEW items, ItemsOK(d, items)
  PROVE  /\ AccOK(d, TakesAll(d, acc, items))
         /\ StartsWith(MessagesOf(d, acc), MessagesOf(d, TakesAll(d, acc, items)))
<1> DEFINE N == Len(items)
           P(r) == AccOK(d, r) /\ StartsWith(MessagesOf(d, acc), MessagesOf(d, r))
           S == {n \in Nat : n <= N => P(TakesAll(d, acc, Opening(items, n)))}
<1>1. N \in Nat /\ IsSeq(items)
  BY Appended DEF ItemsOK
<1>2. 0 \in S
  <2>1. Opening(items, 0) = <<>>
    BY <1>1, BeginsOf
  <2>2. TakesAll(d, acc, Opening(items, 0)) = acc
    BY <2>1, TakesNothing
  <2>3. IsSeq(MessagesOf(d, acc))
    BY DEF AccOK, MessagesOf
  <2>4. P(acc)
    BY <2>3, BeginsSame
  <2> HIDE DEF P
  <2> QED BY <2>2, <2>4
<1>3. ASSUME NEW n \in Nat, n \in S
      PROVE  n + 1 \in S
  <2> SUFFICES ASSUME n + 1 <= N PROVE P(TakesAll(d, acc, Opening(items, n + 1)))
    OBVIOUS
  <2> DEFINE p == Opening(items, n)
             x == items[n + 1]
             r == TakesAll(d, acc, p)
  <2>1. n < N /\ n <= N
    BY <1>1
  <2>2. P(r)
    BY <1>3, <2>1
  <2>3. ItemsOK(d, p) /\ ItemOK(d, x) /\ Opening(items, n + 1) = Append(p, x)
    BY <2>1, FirstItems
  <2> HIDE DEF p, x
  <2>4. TakesAll(d, acc, Append(p, x)) = TakesOne(d, r, x)
    BY <2>3, TakesGrow
  <2> HIDE DEF r
  <2>5. AccOK(d, TakesOne(d, r, x)) /\ StartsWith(MessagesOf(d, r), MessagesOf(d, TakesOne(d, r, x)))
    BY <2>2, <2>3, OneIsTaken
  <2>6. P(TakesOne(d, r, x))
    BY <2>2, <2>5, BeginsTwice
  <2> HIDE DEF P
  <2> QED BY <2>3, <2>4, <2>6
<1>4. N \in S
  <2> HIDE DEF S
  <2> QED BY <1>1, <1>2, <1>3, SetInduction
<1>5. P(TakesAll(d, acc, Opening(items, N)))
  <2> HIDE DEF P
  <2> QED BY <1>1, <1>4
<1>6. Opening(items, N) = items
  BY <1>1, BeginsOf
<1> QED BY <1>5, <1>6

\* Two lists of items are taken one after the other.
LEMMA TakesJoined ==
  ASSUME NEW d, NEW acc, AccOK(d, acc), NEW s, ItemsOK(d, s), NEW u, ItemsOK(d, u)
  PROVE  ItemsOK(d, s \o u) /\ TakesAll(d, acc, s \o u) = TakesAll(d, TakesAll(d, acc, s), u)
<1> DEFINE N == Len(u)
           b == TakesAll(d, acc, s)
           J(v) == ItemsOK(d, s \o v) /\ TakesAll(d, acc, s \o v) = TakesAll(d, b, v)
           S == {n \in Nat : n <= N => J(Opening(u, n))}
<1>1. N \in Nat /\ IsSeq(u) /\ IsSeq(s)
  BY Appended DEF ItemsOK
<1>2. AccOK(d, b)
  BY AllAreTaken
<1>3. 0 \in S
  <2> DEFINE e == Opening(u, 0)
  <2>1. e = <<>>
    BY <1>1, BeginsOf
  <2>2. s \o e = s
    BY <1>1, <2>1, Concatenated
  <2> HIDE DEF b, e
  <2>3. TakesAll(d, b, e) = b
    BY <1>2, <2>1, TakesNothing
  <2>4. J(e)
    BY <2>2, <2>3 DEF b
  <2> HIDE DEF J
  <2> QED BY <2>4 DEF e
<1>4. ASSUME NEW n \in Nat, n \in S
      PROVE  n + 1 \in S
  <2> SUFFICES ASSUME n + 1 <= N PROVE J(Opening(u, n + 1))
    OBVIOUS
  <2> DEFINE p == Opening(u, n)
             x == u[n + 1]
             h == s \o p
             w == <<x>>
  <2>1. n < N /\ n <= N
    BY <1>1
  <2>2. J(p)
    BY <1>4, <2>1
  <2>3. ItemsOK(d, p) /\ ItemOK(d, x) /\ Opening(u, n + 1) = Append(p, x)
    BY <2>1, FirstItems
  <2>4. IsSeq(p)
    BY <2>3 DEF ItemsOK
  <2> HIDE DEF b, p, x
  <2>5. IsSeq(w) /\ (\A v : IsSeq(v) => Append(v, x) = v \o w)
    BY Single
  <2>6. ItemsOK(d, h) /\ TakesAll(d, acc, h) = TakesAll(d, b, p)
    BY <2>2
  <2>7. IsSeq(h)
    BY <2>6 DEF ItemsOK
  <2> HIDE DEF w
  <2>8. Regroups(s, p, w)
    BY <1>1, <2>4, <2>5, Regrouped
  <2>9. s \o Append(p, x) = Append(h, x)
    BY <2>4, <2>5, <2>7, <2>8 DEF Regroups
  <2> HIDE DEF h
  <2>10. TakesAll(d, acc, Append(h, x)) = TakesOne(d, TakesAll(d, acc, h), x)
    BY <2>3, <2>6, TakesGrow
  <2>11. TakesAll(d, b, Append(p, x)) = TakesOne(d, TakesAll(d, b, p), x)
    BY <1>2, <2>3, TakesGrow
  <2>12. ItemsOK(d, Append(h, x))
    BY <2>3, <2>6, MoreItems
  <2>13. J(Append(p, x))
    BY <2>6, <2>9, <2>10, <2>11, <2>12
  <2> HIDE DEF J
  <2> QED BY <2>3, <2>13
<1>5. N \in S
  <2> HIDE DEF S
  <2> QED BY <1>1, <1>3, <1>4, SetInduction
<1>6. J(Opening(u, N))
  <2> HIDE DEF J
  <2> QED BY <1>1, <1>5
<1>7. Opening(u, N) = u
  BY <1>1, BeginsOf
<1> QED BY <1>6, <1>7

\* Items that are read the same way leave the same.
LEMMA TakesAlike ==
  ASSUME NEW d \in {"anthropic", "responses", "ollama"}, NEW acc, AccOK(d, acc),
         NEW s, NEW t, Alike(d, s, t), ItemsOK(d, s), ItemsOK(d, t)
  PROVE  TakesAll(d, acc, s) = TakesAll(d, acc, t)
<1> DEFINE N == Len(s)
           S == {n \in Nat : n <= N => TakesAll(d, acc, Opening(s, n))
                                         = TakesAll(d, acc, Opening(t, n))}
<1>1. N \in Nat /\ IsSeq(s) /\ IsSeq(t) /\ Len(t) = N /\ \A k \in 1..N : Like(d, s[k], t[k])
  BY Appended DEF Alike
<1>2. 0 \in S
  <2>1. Opening(s, 0) = <<>> /\ Opening(t, 0) = <<>>
    BY <1>1, BeginsOf
  <2> QED BY <2>1
<1>3. ASSUME NEW n \in Nat, n \in S
      PROVE  n + 1 \in S
  <2> SUFFICES ASSUME n + 1 <= N
               PROVE  TakesAll(d, acc, Opening(s, n + 1)) = TakesAll(d, acc, Opening(t, n + 1))
    OBVIOUS
  <2> DEFINE p == Opening(s, n)
             q == Opening(t, n)
             x == s[n + 1]
             y == t[n + 1]
  <2>1. n < N /\ n <= N /\ n + 1 \in 1..N
    BY <1>1
  <2>2. ItemsOK(d, p) /\ ItemOK(d, x) /\ Opening(s, n + 1) = Append(p, x)
    BY <2>1, FirstItems
  <2>3. ItemsOK(d, q) /\ ItemOK(d, y) /\ Opening(t, n + 1) = Append(q, y)
    BY <1>1, <2>1, FirstItems
  <2>4. Like(d, x, y)
    BY <1>1, <2>1
  <2>5. TakesAll(d, acc, p) = TakesAll(d, acc, q)
    BY <1>3, <2>1
  <2> HIDE DEF p, q, x, y
  <2>6. TakesAll(d, acc, Append(p, x)) = TakesOne(d, TakesAll(d, acc, p), x)
    BY <2>2, TakesGrow
  <2>7. TakesAll(d, acc, Append(q, y)) = TakesOne(d, TakesAll(d, acc, q), y)
    BY <2>3, TakesGrow
  <2>8. \A a : TakesOne(d, a, x) = TakesOne(d, a, y)
    BY <2>4 DEF Like
  <2>9. TakesOne(d, TakesAll(d, acc, q), x) = TakesOne(d, TakesAll(d, acc, q), y)
    BY <2>8
  <2> QED BY <2>2, <2>3, <2>5, <2>6, <2>7, <2>9
<1>4. N \in S
  <2> HIDE DEF S
  <2> QED BY <1>1, <1>2, <1>3, SetInduction
<1>5. Opening(s, N) = s /\ Opening(t, N) = t
  BY <1>1, BeginsOf
<1> QED BY <1>1, <1>4, <1>5

LEMMA SizeOfSeq ==
  ASSUME NEW s, IsSeq(s)
  PROVE  Len(s) \in Nat /\ (s = <<>> <=> Len(s) = 0)
<1>1. PICK S : s \in Seq(S)
  BY DEF IsSeq
<1> QED BY <1>1

-----------------------------------------------------------------------------
(* What the gateway reads of blocks with the same arguments.               *)

Chosen(blocks, type) ==
  [k \in 1..Len(blocks) |-> IF blocks[k].type = type THEN <<blocks[k]>> ELSE <<>>]
Others(blocks, type) ==
  [k \in 1..Len(blocks) |-> IF blocks[k].type # type THEN <<blocks[k]>> ELSE <<>>]

LEMMA ChosenAre ==
  ASSUME NEW blocks, IsSeq(blocks), NEW type
  PROVE  /\ IsSeq(Chosen(blocks, type)) /\ Len(Chosen(blocks, type)) = Len(blocks)
         /\ IsSeq(Others(blocks, type)) /\ Len(Others(blocks, type)) = Len(blocks)
         /\ \A k \in 1..Len(blocks) :
              /\ Chosen(blocks, type)[k] = IF blocks[k].type = type THEN <<blocks[k]>> ELSE <<>>
              /\ Others(blocks, type)[k] = IF blocks[k].type # type THEN <<blocks[k]>> ELSE <<>>
         /\ IsSeq(OfType(blocks, type)) /\ IsSeq(OtherThan(blocks, type))
<1> DEFINE n == Len(blocks)
           c == Chosen(blocks, type)
           o == Others(blocks, type)
<1>1. n \in Nat
  BY Appended
<1>2. IsSeq(c) /\ Len(c) = n
  BY <1>1, Numbered DEF Chosen
<1>3. IsSeq(o) /\ Len(o) = n
  BY <1>1, Numbered DEF Others
<1>4. \A k \in 1..n : /\ c[k] = IF blocks[k].type = type THEN <<blocks[k]>> ELSE <<>>
                      /\ o[k] = IF blocks[k].type # type THEN <<blocks[k]>> ELSE <<>>
  BY DEF Chosen, Others
<1>5. OfType(blocks, type) = FlattenSeq(c) /\ OtherThan(blocks, type) = FlattenSeq(o)
  BY DEF OfType, OtherThan, Chosen, Others
<1> HIDE DEF c, o
<1>6. \A k \in 1..n : IsSeq(c[k]) /\ IsSeq(o[k])
  BY <1>4, Single, NothingIsSeq
<1>7. IsSeq(FlattenSeq(c)) /\ IsSeq(FlattenSeq(o))
  BY <1>2, <1>3, <1>6, FlattenIsSeq
<1> QED BY <1>2, <1>3, <1>4, <1>5, <1>7 DEF c, o

LEMMA OneAlike ==
  ASSUME NEW kind, NEW x, NEW y, Like(kind, x, y)
  PROVE  Alike(kind, <<x>>, <<y>>) /\ Alike(kind, <<>>, <<>>)
<1> DEFINE e == <<>>
           s == <<x>>
           t == <<y>>
<1>1. IsSeq(s) /\ IsSeq(t) /\ Len(s) = 1 /\ Len(t) = 1 /\ s[1] = x /\ t[1] = y
  BY Single
<1>2. IsSeq(e) /\ Len(e) = 0
  BY NothingIsSeq
<1> HIDE DEF s, t, e
<1>3. Alike(kind, s, t)
  BY <1>1 DEF Alike
<1>4. Alike(kind, e, e)
  BY <1>2 DEF Alike
<1> QED BY <1>3, <1>4 DEF s, t, e

\* Lists of blocks alike have the same blocks of a type, but for the arguments.
LEMMA TypesAlike ==
  ASSUME NEW a, NEW b, Alike("block", a, b), NEW type
  PROVE  /\ type # "tool_use" => OfType(a, type) = OfType(b, type)
         /\ Alike("block", OfType(a, type), OfType(b, type))
         /\ Alike("block", OtherThan(a, type), OtherThan(b, type))
<1> DEFINE n == Len(a)
           c == Chosen(a, type)
           d == Chosen(b, type)
           o == Others(a, type)
           q == Others(b, type)
<1>1. IsSeq(a) /\ IsSeq(b) /\ Len(b) = n /\ n \in Nat /\ \A k \in 1..n : Like("block", a[k], b[k])
  BY Appended DEF Alike
<1>2. /\ IsSeq(c) /\ Len(c) = n /\ IsSeq(o) /\ Len(o) = n
      /\ \A k \in 1..n : /\ c[k] = IF a[k].type = type THEN <<a[k]>> ELSE <<>>
                         /\ o[k] = IF a[k].type # type THEN <<a[k]>> ELSE <<>>
  BY <1>1, ChosenAre
<1>3. /\ IsSeq(d) /\ Len(d) = n /\ IsSeq(q) /\ Len(q) = n
      /\ \A k \in 1..n : /\ d[k] = IF b[k].type = type THEN <<b[k]>> ELSE <<>>
                         /\ q[k] = IF b[k].type # type THEN <<b[k]>> ELSE <<>>
  BY <1>1, ChosenAre
<1>4. /\ OfType(a, type) = FlattenSeq(c) /\ OfType(b, type) = FlattenSeq(d)
      /\ OtherThan(a, type) = FlattenSeq(o) /\ OtherThan(b, type) = FlattenSeq(q)
  BY DEF OfType, OtherThan, Chosen, Others
<1> HIDE DEF c, d, o, q
<1>5. \A k \in 1..n : /\ a[k].type = b[k].type
                      /\ a[k].type # "tool_use" => a[k] = b[k]
  BY <1>1 DEF Like
<1>6. ASSUME NEW k \in 1..n
      PROVE  Alike("block", c[k], d[k]) /\ Alike("block", o[k], q[k])
  <2>1. Like("block", a[k], b[k]) /\ a[k].type = b[k].type
    BY <1>1, <1>5
  <2>2. Alike("block", <<a[k]>>, <<b[k]>>) /\ Alike("block", <<>>, <<>>)
    BY <2>1, OneAlike
  <2> QED BY <1>2, <1>3, <2>1, <2>2
<1>7. Alike("block", FlattenSeq(c), FlattenSeq(d))
  BY <1>2, <1>3, <1>6, AlikeFlat
<1>8. Alike("block", FlattenSeq(o), FlattenSeq(q))
  BY <1>2, <1>3, <1>6, AlikeFlat
<1>9. ASSUME type # "tool_use"
      PROVE  c = d
  <2>1. \A k \in 1..n : c[k] = d[k]
    BY <1>2, <1>3, <1>5, <1>9
  <2> QED BY <1>2, <1>3, <2>1, SameSeq
<1> QED BY <1>4, <1>7, <1>8, <1>9

LEMMA PlainAlike ==
  ASSUME NEW role, NEW a, NEW b, Alike("block", a, b)
  PROVE  Plain(role, a) = Plain(role, b)
<1>1. OfType(a, "text") = OfType(b, "text")
  BY TypesAlike
<1>2. OfType(a, "thinking") = OfType(b, "thinking")
  BY TypesAlike
<1>3. OfType(a, "image") = OfType(b, "image")
  BY TypesAlike
<1>4. Pieces(a, "text") = Pieces(b, "text") /\ Pieces(a, "thinking") = Pieces(b, "thinking")
  BY <1>1, <1>2 DEF Pieces
<1> QED BY <1>3, <1>4 DEF Plain

\* An item is made the same messages, whatever the order of the keys in it.
LEMMA FromAlike ==
  ASSUME NEW role, NEW a, NEW b, Alike("block", a, b), NEW x, NEW y,
         x = [role |-> role, blocks |-> a], y = [role |-> role, blocks |-> b]
  PROVE  FromAnthropic(x) = FromAnthropic(y)
<1>1. x.role = role /\ y.role = role /\ x.blocks = a /\ y.blocks = b
  OBVIOUS
<1>2. OfType(a, "tool_result") = OfType(b, "tool_result")
  BY TypesAlike
<1>3. Alike("block", OtherThan(a, "tool_result"), OtherThan(b, "tool_result"))
  BY TypesAlike
<1>4. Plain(role, OtherThan(a, "tool_result")) = Plain(role, OtherThan(b, "tool_result"))
  BY <1>3, PlainAlike
<1>5. ResultsAndFollowup(role, a) = ResultsAndFollowup(role, b)
  BY <1>2, <1>4 DEF ResultsAndFollowup
<1>6. Plain(role, a) = Plain(role, b)
  BY PlainAlike
<1> DEFINE u == OfType(a, "tool_use")
           v == OfType(b, "tool_use")
<1>7. Alike("block", u, v)
  BY TypesAlike
<1>8. Pieces(a, "text") = Pieces(b, "text") /\ Pieces(a, "thinking") = Pieces(b, "thinking")
  <2>1. OfType(a, "text") = OfType(b, "text")
    BY TypesAlike
  <2>2. OfType(a, "thinking") = OfType(b, "thinking")
    BY TypesAlike
  <2> QED BY <2>1, <2>2 DEF Pieces
<1>9. Len(u) = Len(v) /\ Len(u) \in Nat /\ (u = <<>> <=> v = <<>>)
  <2>1. IsSeq(u) /\ IsSeq(v) /\ Len(u) = Len(v)
    BY <1>7 DEF Alike
  <2> HIDE DEF u, v
  <2> QED BY <2>1, SizeOfSeq
<1> HIDE DEF u, v
<1>10. \A k \in 1..Len(u) : /\ u[k].id = v[k].id /\ u[k].name = v[k].name
                            /\ Stable(u[k].args) = Stable(v[k].args)
  BY <1>7 DEF Alike, Like
<1>11. [k \in 1..Len(u) |-> [id |-> u[k].id, name |-> u[k].name, args |-> Stable(u[k].args)]]
       = [k \in 1..Len(v) |-> [id |-> v[k].id, name |-> v[k].name, args |-> Stable(v[k].args)]]
  BY <1>9, <1>10
<1>12. WithToolUses(a) = WithToolUses(b)
  BY <1>8, <1>11 DEF WithToolUses, u, v
<1> QED BY <1>1, <1>2, <1>5, <1>6, <1>9, <1>12 DEF FromAnthropic, u, v

LEMMA FromIsSeq ==
  ASSUME NEW x, IsSeq(x.blocks)
  PROVE  IsSeq(FromAnthropic(x))
<1> DEFINE rs == OfType(x.blocks, "tool_result")
           f == Plain(x.role, OtherThan(x.blocks, "tool_result"))
           says == f.content # <<>> \/ f.image \/ f.reasoning # <<>>
           ms == [k \in 1..Len(rs) |-> [Message EXCEPT !.role = "tool", !.answers = rs[k].id,
                                                       !.content = rs[k].piece]]
           w == IF says THEN <<f>> ELSE <<>>
<1>1. IsSeq(rs)
  BY ChosenAre
<1>2. ResultsAndFollowup(x.role, x.blocks) = ms \o w
  BY DEF ResultsAndFollowup
<1> HIDE DEF rs
<1>3. IsSeq(ms)
  BY <1>1, Appended, Numbered
<1>4. IsSeq(w)
  <2> HIDE DEF f, says
  <2> QED BY Single, NothingIsSeq
<1> HIDE DEF ms, w
<1>5. IsSeq(ms \o w)
  BY <1>3, <1>4, Concatenated
<1>6. IsSeq(<<WithToolUses(x.blocks)>>) /\ IsSeq(<<Plain(x.role, x.blocks)>>)
  BY Single
<1> QED BY <1>2, <1>5, <1>6 DEF FromAnthropic

-----------------------------------------------------------------------------
(* What one turn adds to the history.                                      *)

\* A turn that the client has finished, and its answers.
TurnOK(t) ==
  IsSeq(t.kept) /\ IsSeq(t.reply.calls) /\ (t.reply.calls = <<>> => t.more)

AnthropicBlock(b, keys) ==
  IF b.type = "tool_use"
  THEN [type |-> b.type, id |-> b.id, name |-> b.name, args |-> Args(b.piece, keys), piece |-> <<>>]
  ELSE [type |-> b.type, piece |-> b.piece]
AnthropicBlocks(t, keys) == [k \in 1..Len(t.kept) |-> AnthropicBlock(t.kept[k], keys)]
AnthropicAnswers(t) ==
  [k \in 1..Len(Answered(t)) |-> [type |-> "tool_result", id |-> Answered(t)[k].id,
                                  piece |-> Result(Answered(t)[k].args)]]
AnthropicMore(t) ==
  IF ~t.more THEN <<>>
  ELSE <<[type |-> "text", piece |-> t.words], [type |-> "image", piece |-> <<>>]>>
AnthropicTurn(t, keys) ==
  <<[role |-> "assistant", blocks |-> AnthropicBlocks(t, keys)],
    [role |-> "user", blocks |-> AnthropicAnswers(t) \o AnthropicMore(t)]>>

ResponsesBlank(keys) ==
  [type |-> "message", role |-> "user", text |-> <<>>, image |-> FALSE,
   id |-> <<>>, name |-> None, args |-> Args(<<>>, keys)]
ResponsesKind(i, keys) ==
  CASE i.type = "function_call" ->
         [ResponsesBlank(keys) EXCEPT !.type = i.type, !.id = i.call_id, !.name = i.name,
                                      !.args = TextArgs(i.body, keys)]
    [] i.type = "message" -> [ResponsesBlank(keys) EXCEPT !.role = "assistant", !.text = i.body]
    [] OTHER -> [ResponsesBlank(keys) EXCEPT !.type = "reasoning", !.text = i.body]
ResponsesKept(t, keys) == [k \in 1..Len(t.kept) |-> ResponsesKind(t.kept[k], keys)]
ResponsesAnswers(t, keys) ==
  [k \in 1..Len(Answered(t)) |->
     [ResponsesBlank(keys) EXCEPT !.type = "function_call_output", !.id = Answered(t)[k].id,
                                  !.text = Result(Answered(t)[k].args)]]
ResponsesMore(t, keys) ==
  IF ~t.more THEN <<>> ELSE <<[ResponsesBlank(keys) EXCEPT !.text = t.words, !.image = TRUE]>>
ResponsesTurn(t, keys) ==
  ResponsesKept(t, keys) \o ResponsesAnswers(t, keys) \o ResponsesMore(t, keys)

OllamaBlank == [role |-> "user", text |-> <<>>, image |-> FALSE, thinking |-> <<>>,
                calls |-> <<>>, name |-> None]
OllamaReply(t, keys) ==
  [OllamaBlank EXCEPT !.role = "assistant", !.text = t.reply.text, !.thinking = t.reply.reasoning,
     !.calls = [k \in 1..Len(t.reply.calls) |->
                  [name |-> t.reply.calls[k].name, args |-> Args(t.reply.calls[k].args, keys)]]]
OllamaAnswers(t) ==
  [k \in 1..Len(Answered(t)) |->
     [OllamaBlank EXCEPT !.role = "tool", !.name = Answered(t)[k].name,
                         !.text = Result(Answered(t)[k].args)]]
OllamaMore(t) ==
  IF ~t.more THEN <<>> ELSE <<[OllamaBlank EXCEPT !.text = t.words, !.image = TRUE]>>
OllamaTurn(t, keys) == <<OllamaReply(t, keys)>> \o OllamaAnswers(t) \o OllamaMore(t)

TurnItems(d, t, keys) ==
  CASE d = "anthropic" -> AnthropicTurn(t, keys)
    [] d = "responses" -> ResponsesTurn(t, keys)
    [] OTHER -> OllamaTurn(t, keys)
HistoryItems(d, turns, keys) ==
  CASE d = "anthropic" -> AnthropicItems(turns, keys)
    [] d = "responses" -> ResponsesItems(turns, keys)
    [] OTHER -> OllamaItems(turns, keys)

LEMMA HistoryOf ==
  ASSUME NEW d, NEW turns, NEW keys
  PROVE  HistoryItems(d, turns, keys)
           = FlattenSeq([n \in 1..Len(turns) |-> TurnItems(d, turns[n], keys)])
<1>1. AnthropicItems(turns, keys) = FlattenSeq([n \in 1..Len(turns) |-> AnthropicTurn(turns[n], keys)])
  BY DEF AnthropicItems, AnthropicTurn, AnthropicBlock, AnthropicBlocks, AnthropicAnswers, AnthropicMore
<1>2. ResponsesItems(turns, keys) = FlattenSeq([n \in 1..Len(turns) |-> ResponsesTurn(turns[n], keys)])
  BY DEF ResponsesItems, ResponsesTurn, ResponsesBlank, ResponsesKind, ResponsesKept,
         ResponsesAnswers, ResponsesMore
<1>3. OllamaItems(turns, keys) = FlattenSeq([n \in 1..Len(turns) |-> OllamaTurn(turns[n], keys)])
  BY DEF OllamaItems, OllamaTurn, OllamaBlank, OllamaReply, OllamaAnswers, OllamaMore
<1>4. CASE d = "anthropic"
  BY <1>1, <1>4 DEF HistoryItems, TurnItems
<1>5. CASE d = "responses"
  BY <1>2, <1>5 DEF HistoryItems, TurnItems
<1>6. CASE d \notin {"anthropic", "responses"}
  BY <1>3, <1>6 DEF HistoryItems, TurnItems
<1> QED BY <1>4, <1>5, <1>6

\* One turn more is written after the others.
GrowsBy(d, turns, t, keys) ==
  HistoryItems(d, Append(turns, t), keys)
    = HistoryItems(d, turns, keys) \o TurnItems(d, t, keys)

LEMMA HistoryGrows ==
  ASSUME NEW d, NEW turns, IsSeq(turns), NEW t, NEW keys, IsSeq(TurnItems(d, t, keys))
  PROVE  GrowsBy(d, turns, t, keys)
<1> DEFINE n == Len(turns)
           more == Append(turns, t)
           y == TurnItems(d, t, keys)
           ss == [k \in 1..n |-> TurnItems(d, turns[k], keys)]
           tt == [k \in 1..(n + 1) |-> TurnItems(d, more[k], keys)]
           uu == Append(ss, y)
<1>1. /\ IsSeq(more) /\ n \in Nat /\ Len(more) = n + 1 /\ more[n + 1] = t
      /\ \A k \in 1..n : more[k] = turns[k]
  BY Appended
<1>2. IsSeq(ss) /\ Len(ss) = n
  BY <1>1, Numbered
<1>3. IsSeq(tt) /\ Len(tt) = n + 1
  BY <1>1, Numbered
<1>4. \A k \in 1..n : ss[k] = TurnItems(d, turns[k], keys)
  OBVIOUS
<1>5. \A k \in 1..n : tt[k] = TurnItems(d, turns[k], keys)
  BY <1>1
<1>6. tt[n + 1] = y
  BY <1>1
<1>7. HistoryItems(d, turns, keys) = FlattenSeq(ss)
  BY HistoryOf
<1>8. HistoryItems(d, more, keys) = FlattenSeq(tt)
  BY <1>1, HistoryOf
<1> HIDE DEF y, ss, tt, more
<1>9. /\ IsSeq(uu) /\ Len(uu) = n + 1 /\ uu[n + 1] = y
      /\ \A k \in 1..n : uu[k] = ss[k]
  BY <1>2, Appended
<1>10. \A k \in 1..(n + 1) : uu[k] = tt[k]
  BY <1>1, <1>4, <1>5, <1>6, <1>9
<1>11. FlattenSeq(uu) = FlattenSeq(ss) \o y
  BY <1>2, FlattenAppend DEF y
<1> HIDE DEF uu
<1>12. tt = uu
  BY <1>3, <1>9, <1>10, SameSeq
<1> QED BY <1>7, <1>8, <1>11, <1>12 DEF GrowsBy, more, y

LEMMA AnswersInOrder ==
  ASSUME NEW t, TurnOK(t)
  PROVE  /\ IsSeq(Answered(t)) /\ Len(Answered(t)) \in Nat
         /\ ~t.more => Len(Answered(t)) >= 1
<1>1. IsSeq(t.reply.calls) /\ Len(t.reply.calls) \in Nat
      /\ (t.reply.calls = <<>> <=> Len(t.reply.calls) = 0)
  BY SizeOfSeq DEF TurnOK
<1> DEFINE s == t.reply.calls
           r == [i \in 1..Len(s) |-> s[(Len(s) - i) + 1]]
<1>2. IsSeq(r) /\ Len(r) = Len(s)
  BY <1>1, Numbered
<1>3. Reverse(s) = r
  BY DEF Reverse
<1> HIDE DEF r
<1>4. Answered(t) = r \/ Answered(t) = s
  BY <1>3 DEF Answered
<1> QED BY <1>1, <1>2, <1>4 DEF TurnOK

LEMMA Pair ==
  ASSUME NEW x, NEW y
  PROVE  IsSeq(<<x, y>>) /\ Len(<<x, y>>) = 2 /\ <<x, y>>[1] = x /\ <<x, y>>[2] = y
<1>1. <<x, y>> \in Seq({x, y})
  OBVIOUS
<1> QED BY <1>1 DEF IsSeq

LEMMA AlikeSelf ==
  ASSUME NEW kind, kind # "call", NEW s, IsSeq(s)
  PROVE  Alike(kind, s, s)
<1>1. \A x : Like(kind, x, x)
  BY DEF Like
<1> QED BY <1>1 DEF Alike

LEMMA PlainItemsOK ==
  ASSUME NEW d, d # "anthropic", NEW s, IsSeq(s)
  PROVE  ItemsOK(d, s)
BY DEF ItemsOK, ItemOK

LEMMA AnthropicTurnAlike ==
  ASSUME NEW t, TurnOK(t), NEW keys, NEW others
  PROVE  /\ ItemsOK("anthropic", AnthropicTurn(t, keys))
         /\ Alike("anthropic", AnthropicTurn(t, keys), AnthropicTurn(t, others))
<1> DEFINE n == Len(t.kept)
           a == AnthropicBlocks(t, keys)
           b == AnthropicBlocks(t, others)
           w == AnthropicAnswers(t) \o AnthropicMore(t)
           x == [role |-> "assistant", blocks |-> a]
           y == [role |-> "assistant", blocks |-> b]
           z == [role |-> "user", blocks |-> w]
<1>1. n \in Nat
  BY SizeOfSeq DEF TurnOK
<1>2. IsSeq(a) /\ Len(a) = n
  BY <1>1, Numbered DEF AnthropicBlocks
<1>3. IsSeq(b) /\ Len(b) = n
  BY <1>1, Numbered DEF AnthropicBlocks
<1>4. IsSeq(w)
  <2> DEFINE p == AnthropicAnswers(t)
             q == AnthropicMore(t)
  <2>1. IsSeq(p)
    BY AnswersInOrder, Numbered DEF AnthropicAnswers
  <2>2. IsSeq(q)
    <3>1. \A u, v : IsSeq(<<u, v>>)
      BY Pair
    <3> QED BY <3>1, NothingIsSeq DEF AnthropicMore
  <2> HIDE DEF p, q
  <2>3. IsSeq(p \o q)
    BY <2>1, <2>2, Concatenated
  <2> QED BY <2>3 DEF p, q
<1>5. ASSUME NEW k \in 1..n
      PROVE  Like("block", a[k], b[k])
  <2> DEFINE c == t.kept[k]
  <2>1. a[k] = AnthropicBlock(c, keys) /\ b[k] = AnthropicBlock(c, others)
    BY DEF AnthropicBlocks
  <2> HIDE DEF a, b, c
  <2>2. CASE c.type = "tool_use"
    <3> DEFINE u == AnthropicBlock(c, keys)
               v == AnthropicBlock(c, others)
    <3>1. /\ u.type = "tool_use" /\ u.piece = <<>> /\ u.id = c.id /\ u.name = c.name
          /\ u.args = Args(c.piece, keys)
      BY <2>2 DEF AnthropicBlock
    <3>2. /\ v.type = "tool_use" /\ v.piece = <<>> /\ v.id = c.id /\ v.name = c.name
          /\ v.args = Args(c.piece, others)
      BY <2>2 DEF AnthropicBlock
    <3> HIDE DEF u, v
    <3>3. Stable(u.args) = Stable(v.args)
      BY <3>1, <3>2 DEF Stable, Args
    <3>4. Like("block", u, v)
      BY <3>1, <3>2, <3>3 DEF Like
    <3> QED BY <2>1, <3>4 DEF u, v
  <2>3. CASE c.type # "tool_use"
    <3>1. a[k] = b[k]
      BY <2>1, <2>3 DEF AnthropicBlock
    <3> QED BY <3>1 DEF Like
  <2> QED BY <2>2, <2>3
<1> HIDE DEF a, b, w
<1>6. Alike("block", a, b)
  BY <1>2, <1>3, <1>5 DEF Alike
<1>7. FromAnthropic(x) = FromAnthropic(y)
  BY <1>6, FromAlike
<1>8. x.blocks = a /\ z.blocks = w
  OBVIOUS
<1>9. AnthropicTurn(t, keys) = <<x, z>> /\ AnthropicTurn(t, others) = <<y, z>>
  BY DEF AnthropicTurn, a, b, w
<1> HIDE DEF x, y, z
<1>10. IsSeq(FromAnthropic(x)) /\ IsSeq(FromAnthropic(z))
  BY <1>2, <1>4, <1>8, FromIsSeq
<1> DEFINE p == <<x, z>>
           q == <<y, z>>
<1>11. /\ IsSeq(p) /\ Len(p) = 2 /\ p[1] = x /\ p[2] = z
       /\ IsSeq(q) /\ Len(q) = 2 /\ q[1] = y /\ q[2] = z
  BY Pair
<1> HIDE DEF p, q
<1>12. \A k \in 1..2 : k = 1 \/ k = 2
  OBVIOUS
<1>13. Like("anthropic", x, y) /\ Like("anthropic", z, z)
  BY <1>7 DEF Like, TakesOne
<1>14. Alike("anthropic", p, q)
  BY <1>11, <1>12, <1>13 DEF Alike
<1>15. ItemsOK("anthropic", p)
  BY <1>10, <1>11, <1>12 DEF ItemsOK, ItemOK
<1> QED BY <1>9, <1>14, <1>15 DEF p, q

\* What the gateway reads of an item of the Responses history.
LEMMA ReadTheSame ==
  ASSUME NEW x, NEW y, x.type = y.type, x.name = y.name, x.id = y.id, x.role = y.role,
         x.text = y.text, x.image = y.image,
         x.type = "function_call" => StableArguments(x.args) = StableArguments(y.args)
  PROVE  Like("responses", x, y)
<1>1. FromItem(x) = FromItem(y)
  BY DEF FromItem
<1>2. ASSUME NEW acc
      PROVE  TakeItem(acc, x) = TakeItem(acc, y)
  <2>1. CASE x.type = "function_call"
    BY <2>1 DEF TakeItem
  <2>2. CASE x.type # "function_call"
    BY <1>1, <2>2 DEF TakeItem
  <2> QED BY <2>1, <2>2
<1> QED BY <1>2 DEF Like, TakesOne

\* The upstream gets the same text whatever the order of the keys.
LEMMA TextIsStable ==
  ASSUME NEW text, NEW keys, NEW others
  PROVE  StableArguments(TextArgs(text, keys)) = StableArguments(TextArgs(text, others))
<1>1. CASE Parses(text)
  BY <1>1 DEF TextArgs, Args, StableArguments, Stable
<1>2. CASE ~Parses(text)
  BY <1>2 DEF TextArgs, Args, StableArguments
<1> QED BY <1>1, <1>2

LEMMA ResponsesTurnAlike ==
  ASSUME NEW t, TurnOK(t), NEW keys, NEW others
  PROVE  /\ ItemsOK("responses", ResponsesTurn(t, keys))
         /\ Alike("responses", ResponsesTurn(t, keys), ResponsesTurn(t, others))
<1> DEFINE n == Len(t.kept)
           m == Len(Answered(t))
           a == ResponsesKept(t, keys)
           b == ResponsesKept(t, others)
           p == ResponsesAnswers(t, keys)
           q == ResponsesAnswers(t, others)
           u == ResponsesMore(t, keys)
           v == ResponsesMore(t, others)
<1>1. n \in Nat
  BY SizeOfSeq DEF TurnOK
<1>2. m \in Nat
  BY AnswersInOrder
<1>3. IsSeq(a) /\ Len(a) = n
  BY <1>1, Numbered DEF ResponsesKept
<1>4. IsSeq(b) /\ Len(b) = n
  BY <1>1, Numbered DEF ResponsesKept
<1>5. IsSeq(p) /\ Len(p) = m
  BY <1>2, Numbered DEF ResponsesAnswers
<1>6. IsSeq(q) /\ Len(q) = m
  BY <1>2, Numbered DEF ResponsesAnswers
<1>7. ASSUME NEW k \in 1..n
      PROVE  Like("responses", a[k], b[k])
  <2> DEFINE i == t.kept[k]
             x == ResponsesKind(i, keys)
             y == ResponsesKind(i, others)
  <2>1. a[k] = x /\ b[k] = y
    BY DEF ResponsesKept
  <2> HIDE DEF i
  <2>2. CASE i.type = "function_call"
    <3>1. /\ x.type = i.type /\ x.id = i.call_id /\ x.name = i.name
          /\ x.args = TextArgs(i.body, keys) /\ x.role = "user" /\ x.text = <<>> /\ x.image = FALSE
      BY <2>2 DEF ResponsesKind, ResponsesBlank, Args
    <3>2. /\ y.type = i.type /\ y.id = i.call_id /\ y.name = i.name
          /\ y.args = TextArgs(i.body, others) /\ y.role = "user" /\ y.text = <<>> /\ y.image = FALSE
      BY <2>2 DEF ResponsesKind, ResponsesBlank
    <3>3. StableArguments(x.args) = StableArguments(y.args)
      BY <3>1, <3>2, TextIsStable
    <3> HIDE DEF x, y
    <3>4. Like("responses", x, y)
      BY <3>1, <3>2, <3>3, ReadTheSame
    <3> QED BY <2>1, <3>4
  <2>3. CASE i.type # "function_call"
    <3>1. PICK type, role : /\ type # "function_call" /\ x.type = type /\ x.role = role /\ x.text = i.body /\ x.id = <<>>
                            /\ x.name = None /\ x.image = FALSE
                            /\ y.type = type /\ y.role = role /\ y.text = i.body /\ y.id = <<>>
                            /\ y.name = None /\ y.image = FALSE
      <4>1. CASE i.type = "message"
        <5>1. /\ x.type = "message" /\ x.role = "assistant" /\ x.text = i.body /\ x.id = <<>>
              /\ x.name = None /\ x.image = FALSE
          BY <4>1 DEF ResponsesKind, ResponsesBlank, Args
        <5>2. /\ y.type = "message" /\ y.role = "assistant" /\ y.text = i.body /\ y.id = <<>>
              /\ y.name = None /\ y.image = FALSE
          BY <4>1 DEF ResponsesKind, ResponsesBlank, Args
        <5> HIDE DEF x, y
        <5> QED BY <5>1, <5>2
      <4>2. CASE i.type # "message"
        <5>1. /\ x.type = "reasoning" /\ x.role = "user" /\ x.text = i.body /\ x.id = <<>>
              /\ x.name = None /\ x.image = FALSE
          BY <2>3, <4>2 DEF ResponsesKind, ResponsesBlank, Args
        <5>2. /\ y.type = "reasoning" /\ y.role = "user" /\ y.text = i.body /\ y.id = <<>>
              /\ y.name = None /\ y.image = FALSE
          BY <2>3, <4>2 DEF ResponsesKind, ResponsesBlank, Args
        <5> HIDE DEF x, y
        <5> QED BY <5>1, <5>2
      <4> QED BY <4>1, <4>2
    <3> HIDE DEF x, y
    <3>2. Like("responses", x, y)
      BY <3>1, ReadTheSame
    <3> QED BY <2>1, <3>2
  <2> QED BY <2>2, <2>3
<1>8. ASSUME NEW k \in 1..m
      PROVE  Like("responses", p[k], q[k])
  <2> DEFINE c == Answered(t)[k]
             x == p[k]
             y == q[k]
  <2>1. /\ x.type = "function_call_output" /\ x.id = c.id /\ x.text = Result(c.args)
        /\ x.role = "user" /\ x.name = None /\ x.image = FALSE
    BY DEF ResponsesAnswers, ResponsesBlank, Args
  <2>2. /\ y.type = "function_call_output" /\ y.id = c.id /\ y.text = Result(c.args)
        /\ y.role = "user" /\ y.name = None /\ y.image = FALSE
    BY DEF ResponsesAnswers, ResponsesBlank, Args
  <2> HIDE DEF x, y, c
  <2>3. Like("responses", x, y)
    BY <2>1, <2>2, ReadTheSame
  <2> QED BY <2>3 DEF x, y
<1>9. Alike("responses", u, v) /\ IsSeq(u)
  <2>1. CASE ~t.more
    <3> DEFINE e == <<>>
    <3>1. u = e /\ v = e
      BY <2>1 DEF ResponsesMore
    <3>2. IsSeq(e)
      BY NothingIsSeq
    <3> HIDE DEF e
    <3>3. Alike("responses", e, e)
      BY <3>2, AlikeSelf
    <3> QED BY <3>1, <3>2, <3>3
  <2>2. CASE t.more
    <3> DEFINE x == [ResponsesBlank(keys) EXCEPT !.text = t.words, !.image = TRUE]
               y == [ResponsesBlank(others) EXCEPT !.text = t.words, !.image = TRUE]
    <3>1. /\ x.type = "message" /\ x.id = <<>> /\ x.text = t.words
          /\ x.role = "user" /\ x.name = None /\ x.image = TRUE
      BY DEF ResponsesBlank, Args
    <3>2. /\ y.type = "message" /\ y.id = <<>> /\ y.text = t.words
          /\ y.role = "user" /\ y.name = None /\ y.image = TRUE
      BY DEF ResponsesBlank, Args
    <3>3. u = <<x>> /\ v = <<y>>
      BY <2>2 DEF ResponsesMore
    <3> HIDE DEF x, y
    <3>4. Like("responses", x, y)
      BY <3>1, <3>2, ReadTheSame
    <3> QED BY <3>3, <3>4, OneAlike, Single
  <2> QED BY <2>1, <2>2
<1>10. ResponsesTurn(t, keys) = (a \o p) \o u /\ ResponsesTurn(t, others) = (b \o q) \o v
  BY DEF ResponsesTurn
<1> HIDE DEF a, b, p, q, u, v
<1>11. Alike("responses", a, b) /\ Alike("responses", p, q)
  BY <1>3, <1>4, <1>5, <1>6, <1>7, <1>8 DEF Alike
<1>12. Alike("responses", a \o p, b \o q)
  BY <1>11, AlikeJoined
<1>13. Alike("responses", (a \o p) \o u, (b \o q) \o v)
  BY <1>9, <1>12, AlikeJoined
<1>14. IsSeq(ResponsesTurn(t, keys))
  BY <1>10, <1>13 DEF Alike
<1> QED BY <1>10, <1>13, <1>14, PlainItemsOK

LEMMA OllamaTurnAlike ==
  ASSUME NEW t, TurnOK(t), NEW keys, NEW others
  PROVE  /\ ItemsOK("ollama", OllamaTurn(t, keys))
         /\ Alike("ollama", OllamaTurn(t, keys), OllamaTurn(t, others))
<1> DEFINE x == OllamaReply(t, keys)
           y == OllamaReply(t, others)
           p == OllamaAnswers(t)
           u == OllamaMore(t)
           n == Len(t.reply.calls)
           c == [k \in 1..n |-> [name |-> t.reply.calls[k].name, args |-> Args(t.reply.calls[k].args, keys)]]
           e == [k \in 1..n |-> [name |-> t.reply.calls[k].name, args |-> Args(t.reply.calls[k].args, others)]]
<1>1. n \in Nat
  BY SizeOfSeq DEF TurnOK
<1>2. Len(c) = n /\ Len(e) = n
  BY <1>1, Numbered
<1>3. \A k \in 1..n : /\ c[k].name = e[k].name /\ Stable(c[k].args) = Stable(e[k].args)
  BY DEF Stable, Args
<1>4. /\ x.role = "assistant" /\ x.text = t.reply.text /\ x.thinking = t.reply.reasoning
      /\ x.calls = c /\ x.image = FALSE /\ x.name = None
  BY DEF OllamaReply, OllamaBlank
<1>5. /\ y.role = "assistant" /\ y.text = t.reply.text /\ y.thinking = t.reply.reasoning
      /\ y.calls = e /\ y.image = FALSE /\ y.name = None
  BY DEF OllamaReply, OllamaBlank
<1>6. IsSeq(p)
  BY AnswersInOrder, Numbered DEF OllamaAnswers
<1>7. IsSeq(u)
  BY Single, NothingIsSeq DEF OllamaMore
<1>8. OllamaTurn(t, keys) = (<<x>> \o p) \o u /\ OllamaTurn(t, others) = (<<y>> \o p) \o u
  BY DEF OllamaTurn
<1> HIDE DEF c, e, x, y, p, u, n
<1>9. NumberedCalls(c) = NumberedCalls(e)
  BY <1>2, <1>3 DEF NumberedCalls
<1>10. \A acc : TakeMessage(acc, x) = TakeMessage(acc, y)
  BY <1>4, <1>5, <1>9 DEF TakeMessage
<1>11. Like("ollama", x, y)
  BY <1>10 DEF Like, TakesOne
<1>12. Alike("ollama", <<x>>, <<y>>)
  BY <1>11, OneAlike
<1> DEFINE a == <<x>>
           b == <<y>>
<1>13. Alike("ollama", a, b)
  BY <1>12
<1> HIDE DEF a, b
<1>14. Alike("ollama", p, p) /\ Alike("ollama", u, u)
  BY <1>6, <1>7, AlikeSelf
<1>15. Alike("ollama", a \o p, b \o p)
  BY <1>13, <1>14, AlikeJoined
<1>16. Alike("ollama", (a \o p) \o u, (b \o p) \o u)
  BY <1>14, <1>15, AlikeJoined
<1>17. Alike("ollama", OllamaTurn(t, keys), OllamaTurn(t, others))
  BY <1>8, <1>16 DEF a, b
<1>18. IsSeq(OllamaTurn(t, keys))
  BY <1>17 DEF Alike
<1> QED BY <1>17, <1>18, PlainItemsOK

\* A turn is written the same way, whatever the order of the keys in it.
LEMMA TurnAlike ==
  ASSUME NEW d \in {"anthropic", "responses", "ollama"}, NEW t, TurnOK(t), NEW keys, NEW others
  PROVE  /\ ItemsOK(d, TurnItems(d, t, keys)) /\ IsSeq(TurnItems(d, t, keys))
         /\ Alike(d, TurnItems(d, t, keys), TurnItems(d, t, others))
<1>1. CASE d = "anthropic"
  BY <1>1, AnthropicTurnAlike DEF TurnItems, ItemsOK
<1>2. CASE d = "responses"
  BY <1>2, ResponsesTurnAlike DEF TurnItems, ItemsOK
<1>3. CASE d = "ollama"
  BY <1>3, OllamaTurnAlike DEF TurnItems, ItemsOK
<1> QED BY <1>1, <1>2, <1>3

-----------------------------------------------------------------------------
(* The history as the upstream gets it.                                    *)

\* An item that is no call leaves no call to be written.
LEMMA Flushed ==
  ASSUME NEW acc, AccOK("responses", acc), NEW x, x.type # "function_call"
  PROVE  TakesOne("responses", acc, x).pending = <<>>
<1> DEFINE f == Flush(acc)
           y == FromItem(x)
<1>1. DOMAIN acc = {"msgs", "pending"}
  BY DEF AccOK
<1>2. DOMAIN f = {"msgs", "pending"} /\ f.pending = <<>>
  <2>1. CASE acc.pending = <<>>
    BY <1>1, <2>1 DEF Flush
  <2>2. CASE acc.pending # <<>>
    <3> DEFINE z == [Message EXCEPT !.role = "assistant", !.calls = acc.pending]
    <3>1. f = [msgs |-> Append(acc.msgs, z), pending |-> <<>>]
      BY <2>2 DEF Flush
    <3> HIDE DEF z
    <3> QED BY <3>1
  <2> QED BY <2>1, <2>2
<1>3. TakesOne("responses", acc, x) = [f EXCEPT !.msgs = @ \o y]
  BY DEF TakesOne, TakeItem
<1> HIDE DEF f, y
<1> QED BY <1>2, <1>3

LEMMA LastFlushes ==
  ASSUME NEW acc, AccOK("responses", acc), NEW s, IsSeq(s), NEW x, x.type # "function_call"
  PROVE  TakesAll("responses", acc, Append(s, x)).pending = <<>>
<1>1. ItemsOK("responses", s) /\ ItemOK("responses", x)
  BY PlainItemsOK DEF ItemOK
<1>2. TakesAll("responses", acc, Append(s, x)) = TakesOne("responses", TakesAll("responses", acc, s), x)
  BY <1>1, TakesGrow
<1>3. AccOK("responses", TakesAll("responses", acc, s))
  BY <1>1, AllAreTaken
<1> QED BY <1>2, <1>3, Flushed

\* A turn ends with an answer or with more words of the user.
LEMMA TurnFlushes ==
  ASSUME NEW t, TurnOK(t), NEW keys, NEW acc, AccOK("responses", acc)
  PROVE  TakesAll("responses", acc, ResponsesTurn(t, keys)).pending = <<>>
<1> DEFINE n == Len(t.kept)
           m == Len(Answered(t))
           a == ResponsesKept(t, keys)
           p == ResponsesAnswers(t, keys)
           u == ResponsesMore(t, keys)
<1>1. n \in Nat /\ m \in Nat /\ (~t.more => m >= 1)
  BY SizeOfSeq, AnswersInOrder DEF TurnOK
<1>2. IsSeq(a)
  BY <1>1, Numbered DEF ResponsesKept
<1>3. IsSeq(p) /\ Len(p) = m
  BY <1>1, Numbered DEF ResponsesAnswers
<1>4. \A k \in 1..m : p[k].type = "function_call_output"
  BY DEF ResponsesAnswers, ResponsesBlank
<1>5. ResponsesTurn(t, keys) = (a \o p) \o u
  BY DEF ResponsesTurn
<1>6. CASE t.more
  <2> DEFINE x == [ResponsesBlank(keys) EXCEPT !.text = t.words, !.image = TRUE]
             h == a \o p
  <2>1. x.type = "message"
    BY DEF ResponsesBlank
  <2>2. u = <<x>>
    BY <1>6 DEF ResponsesMore
  <2> HIDE DEF a, p, x, u
  <2>3. IsSeq(h)
    BY <1>2, <1>3, Concatenated
  <2> HIDE DEF h
  <2>4. Append(h, x) = h \o <<x>>
    BY <2>3, Single
  <2>5. TakesAll("responses", acc, Append(h, x)).pending = <<>>
    BY <2>1, <2>3, LastFlushes
  <2> QED BY <1>5, <2>2, <2>4, <2>5 DEF h
<1>7. CASE ~t.more
  <2>1. u = <<>>
    BY <1>7 DEF ResponsesMore
  <2> HIDE DEF a, p, u, m
  <2> DEFINE k == m - 1
             r == Opening(p, k)
             x == p[m]
             w == <<x>>
             h == a \o r
  <2>2. k \in Nat /\ k < m /\ k + 1 = m /\ m \in 1..m
    BY <1>1, <1>7
  <2> HIDE DEF k
  <2>3. IsSeq(r) /\ Opening(p, m) = Append(r, x)
    BY <1>3, <2>2, BeginsOf
  <2>4. Opening(p, m) = p
    BY <1>1, <1>3, BeginsOf
  <2>5. x.type # "function_call"
    BY <1>4, <2>2
  <2> HIDE DEF r, x
  <2>6. IsSeq(w) /\ (\A v : IsSeq(v) => Append(v, x) = v \o w)
    BY Single
  <2>7. IsSeq(h) /\ IsSeq(a \o p) /\ (a \o p) \o <<>> = a \o p
    BY <1>2, <1>3, <2>3, Concatenated
  <2> HIDE DEF w
  <2>8. Regroups(a, r, w)
    BY <1>2, <2>3, <2>6, Regrouped
  <2>9. a \o p = Append(h, x)
    BY <2>3, <2>4, <2>6, <2>7, <2>8 DEF Regroups
  <2> HIDE DEF h
  <2>10. TakesAll("responses", acc, Append(h, x)).pending = <<>>
    BY <2>5, <2>7, LastFlushes
  <2> QED BY <1>5, <2>1, <2>7, <2>9, <2>10
<1> QED BY <1>6, <1>7

\* The beginning of every conversation of a dialect.
FirstMessages(d) ==
  CASE d = "anthropic" -> SystemMessage(System(d))
    [] d = "responses" -> [msgs |-> SystemMessage(<<>>), pending |-> <<>>]
    [] OTHER -> [msgs |-> <<>>, pending |-> <<>>]
FirstOnes(d) ==
  CASE d = "anthropic" ->
         <<[role |-> "user", blocks |-> <<[type |-> "text", piece |-> Asked(0)]>>]>>
    [] d = "responses" ->
         <<[type |-> "message", role |-> "developer", image |-> FALSE, text |-> System(d)],
           [type |-> "message", role |-> "user", image |-> FALSE, text |-> Asked(0)]>>
    [] OTHER -> <<[role |-> "user", text |-> Asked(0), image |-> FALSE,
                   thinking |-> <<>>, calls |-> <<>>, name |-> None]>>
AfterFirst(d) == TakesAll(d, FirstMessages(d), FirstOnes(d))

LEMMA FirstAreOK ==
  ASSUME NEW d \in {"anthropic", "responses", "ollama"}
  PROVE  /\ AccOK(d, FirstMessages(d)) /\ ItemsOK(d, FirstOnes(d)) /\ AccOK(d, AfterFirst(d))
         /\ d = "responses" => AfterFirst(d).pending = <<>>
<1>1. \A text : IsSeq(SystemMessage(text))
  BY Single, NothingIsSeq DEF SystemMessage
<1>2. AccOK(d, FirstMessages(d))
  BY <1>1, NothingIsSeq DEF AccOK, FirstMessages
<1>3. ItemsOK(d, FirstOnes(d)) /\ (d = "responses" => AfterFirst(d).pending = <<>>)
  <2>1. CASE d = "anthropic"
    <3> DEFINE w == <<[type |-> "text", piece |-> Asked(0)]>>
               x == [role |-> "user", blocks |-> w]
               s == <<x>>
    <3>1. IsSeq(w) /\ x.blocks = w
      BY Single
    <3>2. FirstOnes(d) = s
      BY <2>1 DEF FirstOnes
    <3> HIDE DEF w, x
    <3>3. IsSeq(FromAnthropic(x))
      BY <3>1, FromIsSeq
    <3>4. IsSeq(s) /\ Len(s) = 1 /\ s[1] = x
      BY Single
    <3> HIDE DEF s
    <3> QED BY <2>1, <3>2, <3>3, <3>4 DEF ItemsOK, ItemOK
  <2>2. CASE d = "responses"
    <3> DEFINE x == [type |-> "message", role |-> "developer", image |-> FALSE, text |-> System(d)]
               y == [type |-> "message", role |-> "user", image |-> FALSE, text |-> Asked(0)]
               s == <<x>>
    <3>1. y.type # "function_call"
      OBVIOUS
    <3>2. FirstOnes(d) = <<x, y>>
      BY <2>2 DEF FirstOnes
    <3> HIDE DEF x, y
    <3>3. IsSeq(s) /\ <<x, y>> = Append(s, y)
      <4>1. s \in Seq({x, y}) /\ <<x, y>> = Append(s, y)
        OBVIOUS
      <4> QED BY <4>1 DEF IsSeq
    <3> HIDE DEF s
    <3>4. IsSeq(FirstOnes(d))
      <4>1. IsSeq(Append(s, y))
        BY <3>3, Appended
      <4> QED BY <3>2, <3>3, <4>1
    <3>5. TakesAll("responses", FirstMessages(d), Append(s, y)).pending = <<>>
      BY <1>2, <2>2, <3>1, <3>3, LastFlushes
    <3> QED BY <2>2, <3>2, <3>3, <3>4, <3>5, PlainItemsOK DEF AfterFirst
  <2>3. CASE d = "ollama"
    <3>1. IsSeq(FirstOnes(d))
      BY <2>3, Single DEF FirstOnes
    <3> QED BY <2>3, <3>1, PlainItemsOK
  <2> QED BY <2>1, <2>2, <2>3
<1> QED BY <1>2, <1>3, AllAreTaken DEF AfterFirst

\* acc is what the gateway makes of the history, in whatever order the client
\* writes the keys of its arguments.
ReadAs(d, turns, acc) ==
  /\ IsSeq(turns) /\ AccOK(d, acc) /\ (d = "responses" => acc.pending = <<>>)
  /\ \A keys : /\ ItemsOK(d, HistoryItems(d, turns, keys))
               /\ TakesAll(d, AfterFirst(d), HistoryItems(d, turns, keys)) = acc

\* They are the messages that are sent.
LEMMA UpstreamReads ==
  ASSUME NEW d \in {"anthropic", "responses", "ollama"}, NEW turns, NEW acc, ReadAs(d, turns, acc),
         NEW keys
  PROVE  Upstream(d, turns, keys) = MessagesOf(d, acc)
<1> DEFINE h == HistoryItems(d, turns, keys)
           all == FirstOnes(d) \o h
           r == TakesAll(d, FirstMessages(d), all)
<1>1. ItemsOK(d, h) /\ TakesAll(d, AfterFirst(d), h) = acc
  BY DEF ReadAs
<1>2. AccOK(d, FirstMessages(d)) /\ ItemsOK(d, FirstOnes(d))
  BY FirstAreOK
<1>3. r = acc
  <2> HIDE DEF h
  <2> QED BY <1>1, <1>2, TakesJoined DEF AfterFirst
<1>4. CASE d = "anthropic"
  <2>1. Upstream(d, turns, keys) = r
    BY <1>4 DEF Upstream, AnthropicToChat, TakesAll, FirstMessages, FirstOnes, HistoryItems
  <2> QED BY <1>3, <1>4, <2>1 DEF MessagesOf
<1>5. CASE d = "responses"
  <2>1. Upstream(d, turns, keys) = Flush(r).msgs
    BY <1>5 DEF Upstream, ResponsesToChat, TakesAll, FirstMessages, FirstOnes, HistoryItems
  <2>2. acc.pending = <<>>
    BY <1>5 DEF ReadAs
  <2>3. Flush(acc) = acc
    BY <2>2 DEF Flush
  <2> QED BY <1>3, <1>5, <2>1, <2>3 DEF MessagesOf
<1>6. CASE d = "ollama"
  <2>1. Upstream(d, turns, keys) = r.msgs
    BY <1>6 DEF Upstream, OllamaToChat, TakesAll, FirstMessages, FirstOnes, HistoryItems
  <2> QED BY <1>3, <1>6, <2>1 DEF MessagesOf
<1> QED BY <1>4, <1>5, <1>6

\* A new conversation, and one turn more.
LEMMA NothingReadAs ==
  ASSUME NEW d \in {"anthropic", "responses", "ollama"}, NEW e, e = <<>>
  PROVE  ReadAs(d, e, AfterFirst(d))
<1>1. IsSeq(e) /\ Len(e) = 0
  BY NothingIsSeq
<1>2. ASSUME NEW keys
      PROVE  HistoryItems(d, e, keys) = e
  <2> DEFINE f == [n \in 1..Len(e) |-> TurnItems(d, e[n], keys)]
  <2>1. HistoryItems(d, e, keys) = FlattenSeq(f)
    BY HistoryOf
  <2>2. f = e
    BY <1>1
  <2>3. FlattenSeq(e) = e
    BY <1>1 DEF FlattenSeq
  <2> HIDE DEF f
  <2> QED BY <2>1, <2>2, <2>3
<1>3. ItemsOK(d, e)
  BY <1>1 DEF ItemsOK
<1>4. TakesAll(d, AfterFirst(d), e) = AfterFirst(d)
  BY FirstAreOK, TakesNothing
<1> QED BY <1>1, <1>2, <1>3, <1>4, FirstAreOK DEF ReadAs

LEMMA TurnReadAs ==
  ASSUME NEW d \in {"anthropic", "responses", "ollama"}, NEW turns, NEW acc, ReadAs(d, turns, acc),
         NEW t, TurnOK(t)
  PROVE  \E r : /\ r = TakesAll(d, acc, TurnItems(d, t, "written"))
                /\ ReadAs(d, Append(turns, t), r) /\ StartsWith(MessagesOf(d, acc), MessagesOf(d, r))
<1> DEFINE w == TurnItems(d, t, "written")
           r == TakesAll(d, acc, w)
<1>1. ItemsOK(d, w) /\ IsSeq(w) /\ AccOK(d, acc) /\ IsSeq(turns) /\ AccOK(d, AfterFirst(d))
  BY TurnAlike, FirstAreOK DEF ReadAs
<1>2. AccOK(d, r) /\ StartsWith(MessagesOf(d, acc), MessagesOf(d, r))
  BY <1>1, AllAreTaken
<1>3. d = "responses" => r.pending = <<>>
  BY <1>1, TurnFlushes DEF TurnItems
<1>4. IsSeq(Append(turns, t))
  BY <1>1, Appended
<1>5. ASSUME NEW keys
      PROVE  /\ ItemsOK(d, HistoryItems(d, Append(turns, t), keys))
             /\ TakesAll(d, AfterFirst(d), HistoryItems(d, Append(turns, t), keys)) = r
  <2> DEFINE h == HistoryItems(d, turns, keys)
             v == TurnItems(d, t, keys)
  <2>1. ItemsOK(d, v) /\ IsSeq(v) /\ Alike(d, v, w)
    BY TurnAlike
  <2>2. HistoryItems(d, Append(turns, t), keys) = h \o v
    <3>1. GrowsBy(d, turns, t, keys)
      BY <1>1, <2>1, HistoryGrows
    <3> QED BY <3>1 DEF GrowsBy
  <2>3. ItemsOK(d, h) /\ TakesAll(d, AfterFirst(d), h) = acc
    BY DEF ReadAs
  <2> HIDE DEF h, v, w
  <2>4. ItemsOK(d, h \o v) /\ TakesAll(d, AfterFirst(d), h \o v) = TakesAll(d, acc, v)
    BY <1>1, <2>1, <2>3, TakesJoined
  <2>5. TakesAll(d, acc, v) = r
    BY <1>1, <2>1, TakesAlike
  <2> QED BY <2>2, <2>4, <2>5
<1> HIDE DEF r
<1>6. ReadAs(d, Append(turns, t), r)
  BY <1>2, <1>3, <1>4, <1>5 DEF ReadAs
<1> QED BY <1>2, <1>6 DEF r

-----------------------------------------------------------------------------
(* The theorem.                                                            *)

HistoryInv ==
  dialect \in {"anthropic", "responses", "ollama"} =>
    \E acc : ReadAs(dialect, conv, acc) /\ messages = MessagesOf(dialect, acc)

LEMMA InitHistory == Init => HistoryInv
<1> SUFFICES ASSUME Init, dialect \in {"anthropic", "responses", "ollama"} PROVE HistoryInv
  BY DEF HistoryInv
<1> DEFINE e == <<>>
<1>1. conv = e /\ messages = Upstream(dialect, e, "written")
  BY DEF Init, Send
<1> HIDE DEF e
<1>2. ReadAs(dialect, e, AfterFirst(dialect))
  BY NothingReadAs DEF e
<1>3. Upstream(dialect, e, "written") = MessagesOf(dialect, AfterFirst(dialect))
  BY <1>2, UpstreamReads
<1> QED BY <1>1, <1>2, <1>3 DEF HistoryInv

\* A turn as the client of a dialect has it: what it kept is what it was told.
TurnTold(d, t) ==
  /\ TurnOK(t) /\ IsSeq(t.reply.text) /\ IsSeq(t.reply.reasoning) /\ IsSeq(t.words)
  /\ \A k \in 1..Len(t.reply.calls) : t.reply.calls[k].name # None
  /\ d = "anthropic" =>
       BlockList(t.kept) /\ t.reply = FromBlocks(t.kept) /\ OwnIds(t.reply.calls)
  /\ d = "responses" =>
       ItemList(t.kept) /\ t.reply = FromItems(t.kept) /\ OwnIds(t.reply.calls)
  /\ d = "ollama" => ~t.backwards

\* What the client keeps of a reply that has ended.
LEMMA KeptIsTold ==
  ASSUME ClientInv, phase = "closed", ~said.error, dialect \in {"anthropic", "responses", "ollama"}
  PROVE  /\ IsSeq(Kept) /\ IsSeq(Received.calls) /\ IsSeq(Received.text)
         /\ IsSeq(Received.reasoning)
         /\ \A k \in 1..Len(Received.calls) : Received.calls[k].name # None
         /\ dialect = "anthropic" =>
              BlockList(Kept) /\ Received = FromBlocks(Kept) /\ OwnIds(Received.calls)
         /\ dialect = "responses" =>
              ItemList(Kept) /\ Received = FromItems(Kept) /\ OwnIds(Received.calls)
<1>1. ReplyInv /\ OllamaInv /\ AnthropicSees /\ ResponsesSees /\ ReplyOK(said)
  BY DEF ClientInv, ReplyInv
<1>2. ASSUME NEW cs, CallsAgree(cs, said.calls)
      PROVE  IsSeq(cs) /\ \A k \in 1..Len(cs) : cs[k].name # None
  BY <1>2 DEF CallsAgree, SameCall, WholeCall
<1>3. CASE dialect = "anthropic"
  <2> DEFINE bs == Blocks(stream.out)
  <2>1. /\ BlockList(bs) /\ CallsAgree(CallsIn(bs, "tool_use"), said.calls)
        /\ OwnIds(CallsIn(bs, "tool_use"))
    BY <1>1, <1>3 DEF AnthropicSees, AnthropicDone
  <2>2. Kept = bs /\ Received = FromBlocks(bs)
    BY <1>3 DEF Kept, Received
  <2> HIDE DEF bs
  <2>3. /\ FromBlocks(bs).calls = CallsIn(bs, "tool_use") /\ FromBlocks(bs).text = Join(bs, "text")
        /\ FromBlocks(bs).reasoning = Join(bs, "thinking")
    BY DEF FromBlocks
  <2>4. ListOK(bs) /\ IsSeq(bs)
    BY <2>1 DEF BlockList, ListOK
  <2>5. IsSeq(Join(bs, "text")) /\ IsSeq(Join(bs, "thinking"))
    BY <2>4, JoinIsSeq
  <2> QED BY <1>2, <1>3, <2>1, <2>2, <2>3, <2>4, <2>5
<1>4. CASE dialect = "responses"
  <2> DEFINE is == Items(stream.out)
  <2>1. /\ ItemList(is) /\ CallsAgree(CallsIn(is, "function_call"), said.calls)
        /\ OwnIds(CallsIn(is, "function_call"))
    BY <1>1, <1>4 DEF ResponsesSees, ResponsesHas, Speaks
  <2>2. Kept = is /\ Received = FromItems(is)
    BY <1>4 DEF Kept, Received
  <2> HIDE DEF is
  <2>3. /\ FromItems(is).calls = CallsIn(is, "function_call")
        /\ FromItems(is).text = Join(is, "message")
        /\ FromItems(is).reasoning = Join(is, "reasoning")
    BY DEF FromItems
  <2>4. ListOK(is) /\ IsSeq(is)
    BY <2>1 DEF ItemList, ListOK
  <2>5. IsSeq(Join(is, "message")) /\ IsSeq(Join(is, "reasoning"))
    BY <2>4, JoinIsSeq
  <2> QED BY <1>2, <1>4, <2>1, <2>2, <2>3, <2>4, <2>5
<1>5. CASE dialect = "ollama"
  <2> DEFINE out == stream.out
             calls == AsOllama(said.calls)
             shown == Shown(stream, said)
  <2>1. ChunksSay(out, said.text, shown, calls)
    <3>1. OllamaDone(stream, said)
      BY <1>1, <1>5 DEF OllamaInv
    <3>2. stream.chat
      BY <1>5, <3>1 DEF OllamaDone
    <3> QED BY <3>1, <3>2 DEF OllamaDone
  <2>2. IsSeq(said.text) /\ IsSeq(shown)
    BY <1>1, NothingIsSeq DEF ReplyOK, Shown
  <2>3. IsSeq(calls) /\ \A k \in 1..Len(calls) : calls[k].name # None
    <3>1. IsSeq(said.calls) /\ \A k \in 1..Len(said.calls) : said.calls[k].name # None
      BY <1>1 DEF ReplyOK, WholeCall
    <3>2. Len(said.calls) \in Nat
      BY <3>1, SizeOfSeq
    <3>3. IsSeq(calls) /\ Len(calls) = Len(said.calls)
      BY <3>2, Numbered DEF AsOllama
    <3>4. \A k \in 1..Len(said.calls) : calls[k].name = said.calls[k].name
      BY DEF AsOllama
    <3> HIDE DEF calls
    <3> QED BY <3>1, <3>3, <3>4
  <2> HIDE DEF calls, shown
  <2>4. /\ FromChunks(out).calls = calls /\ FromChunks(out).text = said.text
        /\ FromChunks(out).reasoning = shown
    BY <2>1 DEF FromChunks, ChunksSay, ColumnSays, Column
  <2>5. Received = FromChunks(out)
    BY <1>5 DEF Received
  <2>6. Kept = <<Received>>
    BY <1>5 DEF Kept
  <2> QED BY <1>5, <2>2, <2>3, <2>4, <2>5, <2>6, Single
<1> QED BY <1>3, <1>4, <1>5

\* The step of the next request.
AsksAgain ==
  \E t, keys : /\ dialect \in {"anthropic", "responses", "ollama"} /\ TurnTold(dialect, t)
               /\ conv' = Append(conv, t) /\ messages' = Upstream(dialect, conv', keys)
               /\ UNCHANGED dialect

LEMMA StepOfHistory ==
  ClientInv /\ [Next]_vars => UNCHANGED <<dialect, conv, messages>> \/ AsksAgain
<1> SUFFICES ASSUME ClientInv, [Next]_vars
             PROVE  UNCHANGED <<dialect, conv, messages>> \/ AsksAgain
  OBVIOUS
<1>1. ASSUME NEW backwards \in BOOLEAN, NEW more \in BOOLEAN, NEW keys \in {"written", "otherwise"},
             NextTurn(backwards, more, keys)
      PROVE  AsksAgain
  <2> DEFINE t == [kept |-> Kept, reply |-> Received, backwards |-> backwards,
                   more |-> more, words |-> Asked(Len(conv) + 1)]
  <2>1. /\ phase = "closed" /\ ~said.error /\ dialect \in {"anthropic", "responses", "ollama"}
        /\ (Received.calls = <<>> => more) /\ conv' = Append(conv, t) /\ dialect' = dialect
        /\ (backwards => dialect # "ollama")
    BY <1>1 DEF NextTurn
  <2>2. messages' = Upstream(dialect, conv', keys)
    BY <1>1 DEF NextTurn, Send
  <2>3. /\ IsSeq(Kept) /\ IsSeq(Received.calls) /\ IsSeq(Received.text)
        /\ IsSeq(Received.reasoning)
        /\ \A k \in 1..Len(Received.calls) : Received.calls[k].name # None
        /\ dialect = "anthropic" =>
             BlockList(Kept) /\ Received = FromBlocks(Kept) /\ OwnIds(Received.calls)
        /\ dialect = "responses" =>
             ItemList(Kept) /\ Received = FromItems(Kept) /\ OwnIds(Received.calls)
    BY <2>1, KeptIsTold
  <2>4. /\ t.kept = Kept /\ t.reply = Received /\ t.more = more
        /\ t.backwards = backwards /\ t.words = Asked(Len(conv) + 1)
    OBVIOUS
  <2> HIDE DEF t
  <2>5. TurnTold(dialect, t)
    <3>1. IsSeq(t.words)
      BY <2>4, Single DEF Asked
    <3>2. TurnOK(t)
      BY <2>1, <2>3, <2>4 DEF TurnOK
    <3> QED BY <2>1, <2>3, <2>4, <3>1, <3>2 DEF TurnTold
  <2> QED BY <2>1, <2>2, <2>5 DEF AsksAgain
<1>2. CASE Opened
  BY <1>2 DEF Opened, client
<1>3. CASE Content
  BY <1>3 DEF Content, Receive, client
<1>4. CASE Control
  BY <1>4 DEF Control, Receive, client
<1>5. CASE Breaks
  BY <1>5 DEF Breaks, client
<1>6. CASE End
  BY <1>6 DEF End, client
<1>7. ASSUME NEW f, Fails(f)
      PROVE  UNCHANGED <<dialect, conv, messages>>
  BY <1>7 DEF Fails, client
<1>8. CASE UNCHANGED vars
  BY <1>8 DEF vars
<1> QED BY <1>1, <1>2, <1>3, <1>4, <1>5, <1>6, <1>7, <1>8 DEF Next

LEMMA NextHistory ==
  ClientInv /\ HistoryInv /\ [Next]_vars =>
    HistoryInv' /\ (messages' = messages \/ IsPrefix(messages, messages'))
<1> SUFFICES ASSUME ClientInv, HistoryInv, [Next]_vars
             PROVE  HistoryInv' /\ (messages' = messages \/ IsPrefix(messages, messages'))
  OBVIOUS
<1>1. CASE UNCHANGED <<dialect, conv, messages>>
  BY <1>1 DEF HistoryInv
<1>2. CASE AsksAgain
  <2>1. PICK t, keys : /\ dialect \in {"anthropic", "responses", "ollama"} /\ TurnOK(t)
                       /\ conv' = Append(conv, t) /\ messages' = Upstream(dialect, conv', keys)
                       /\ dialect' = dialect
    BY <1>2 DEF AsksAgain, TurnTold
  <2>2. PICK acc : ReadAs(dialect, conv, acc) /\ messages = MessagesOf(dialect, acc)
    BY <2>1 DEF HistoryInv
  <2>3. PICK r : /\ ReadAs(dialect, Append(conv, t), r)
                 /\ StartsWith(MessagesOf(dialect, acc), MessagesOf(dialect, r))
    BY <2>1, <2>2, TurnReadAs
  <2>4. Upstream(dialect, Append(conv, t), keys) = MessagesOf(dialect, r)
    BY <2>1, <2>3, UpstreamReads
  <2>5. messages' = MessagesOf(dialect, r)
    BY <2>1, <2>4
  <2>6. IsPrefix(messages, messages')
    BY <2>2, <2>3, <2>5, BeginsIsPrefix
  <2>7. ReadAs(dialect', conv', r) /\ messages' = MessagesOf(dialect', r)
    BY <2>1, <2>3, <2>5
  <2>8. HistoryInv'
    BY <2>7 DEF HistoryInv
  <2> QED BY <2>6, <2>8
<1> QED BY <1>1, <1>2, StepOfHistory

\* For any tools, any length of the conversation and of its replies, each
\* request of a conversation begins with the messages of the one before it,
\* whatever the order in which the client writes the keys of its arguments: the
\* inference server's prompt cache is hit (stable_json_dumps,
\* stable_tool_arguments and the three translators of requests).
THEOREM HistoryStable == Spec => HistoryIsStable
<1>1. ClientInv /\ HistoryInv /\ [Next]_vars => [IsPrefix(messages, messages')]_messages
  BY NextHistory
<1>2. ClientInv /\ HistoryInv /\ [Next]_vars => HistoryInv'
  BY NextHistory
<1> QED BY <1>1, <1>2, InitHistory, ClientInvHolds, PTL DEF Spec, HistoryIsStable


-----------------------------------------------------------------------------
(* What the messages of a history say, the parts of each reply joined.     *)

JoinedUp(msgs) == FoldLeft(Joins, <<>>, msgs)

LEMMA JoinsFold ==
  ASSUME NEW b, NEW t, IsSeq(t)
  PROVE  IsFold("joins", b, t, FoldLeft(Joins, b, t))
<1> DEFINE n == Len(t)
           Step(g, S) == IF S = {} THEN b ELSE Joins(g[S \ {Max(S)}], t[Max(S)])
           G == CHOOSE g : g = [S \in SUBSET (1..n) |-> Step(g, S)]
<1>1. DOMAIN t = 1..n /\ n \in Nat
  BY Appended
<1>2. FoldLeft(Joins, b, t) = G[1..n]
  BY <1>1 DEF FoldLeft, MapThenFoldSet
<1>3. \A g, S : Step(g, S) = TakeStep("joins", b, t, g, S)
  BY DEF TakeStep, Takes
<1> HIDE DEF n, Step
<1>4. PICK f : Folded("joins", b, t, f, n)
  BY <1>1, FoldExists
<1>5. f = [S \in SUBSET (1..n) |-> Step(f, S)]
  BY <1>3, <1>4 DEF Folded
<1>6. G = [S \in SUBSET (1..n) |-> Step(G, S)]
  BY <1>5
<1> HIDE DEF G
<1>7. Folded("joins", b, t, G, n)
  BY <1>3, <1>6 DEF Folded
<1> QED BY <1>2, <1>7 DEF IsFold, n

\* One message more is joined last; of none there is nothing.
LEMMA JoinsMore ==
  ASSUME NEW msgs, IsSeq(msgs), NEW m
  PROVE  JoinedUp(Append(msgs, m)) = Joins(JoinedUp(msgs), m)
<1> DEFINE b == <<>>
<1>1. IsFold("joins", b, msgs, JoinedUp(msgs)) /\ IsSeq(Append(msgs, m))
  BY JoinsFold, Appended DEF JoinedUp
<1>2. IsFold("joins", b, Append(msgs, m), JoinedUp(Append(msgs, m)))
  BY <1>1, JoinsFold DEF JoinedUp
<1> HIDE DEF b
<1>3. JoinedUp(Append(msgs, m)) = Takes("joins", JoinedUp(msgs), m)
  BY <1>1, <1>2, FoldGrows
<1> QED BY <1>3 DEF Takes

LEMMA NothingJoined ==
  ASSUME NEW e, e = <<>>
  PROVE  JoinedUp(e) = e
<1>1. IsSeq(e)
  BY NothingIsSeq
<1>2. IsFold("joins", e, e, JoinedUp(e))
  BY <1>1, JoinsFold DEF JoinedUp
<1> QED BY <1>2, FoldNothing

\* A message of the assistant, and a history that one was said after.
Speech(c, r, cs) == [Message EXCEPT !.role = "assistant", !.content = c, !.reasoning = r,
                                    !.calls = cs]
AddSpeech(J, c, r, cs) ==
  IF c = <<>> /\ r = <<>> /\ cs = <<>> THEN J ELSE Append(J, Speech(c, r, cs))

\* A history that a user's message or a tool's answer ends.
Settled(J) == IsSeq(J) /\ (J = <<>> \/ J[Len(J)].role # "assistant")

MessageKeys == {"role", "content", "image", "reasoning", "calls", "answers"}
IsSpeech(m, c, r, cs) ==
  /\ DOMAIN m = MessageKeys /\ m.role = "assistant" /\ m.content = c
  /\ m.reasoning = r /\ m.calls = cs /\ m.image = FALSE /\ m.answers = <<>>

LEMMA SpeechIs ==
  ASSUME NEW c, NEW r, NEW cs
  PROVE  IsSpeech(Speech(c, r, cs), c, r, cs)
BY DEF Speech, Message, MessageKeys, IsSpeech

\* Parts of one reply are joined into one message.
LEMMA SpeechJoins ==
  ASSUME NEW J, Settled(J), NEW c, NEW r, NEW cs, IsSeq(c), IsSeq(r), IsSeq(cs),
         NEW d, NEW s, NEW ds, IsSeq(d), IsSeq(s), IsSeq(ds)
  PROVE  Joins(AddSpeech(J, c, r, cs), Speech(d, s, ds)) = AddSpeech(J, c \o d, r \o s, cs \o ds)
<1> DEFINE m == Speech(d, s, ds)
           x == Speech(c, r, cs)
           y == Speech(c \o d, r \o s, cs \o ds)
           e == <<>>
<1>1. /\ m.role = "assistant" /\ m.content = d /\ m.reasoning = s /\ m.calls = ds
  <2>1. IsSpeech(m, d, s, ds)
    BY SpeechIs
  <2> HIDE DEF m
  <2> QED BY <2>1 DEF IsSpeech
<1>2. /\ DOMAIN x = MessageKeys /\ x.role = "assistant" /\ x.content = c
      /\ x.reasoning = r /\ x.calls = cs /\ x.image = FALSE /\ x.answers = e
  <2>1. IsSpeech(x, c, r, cs)
    BY SpeechIs
  <2> HIDE DEF x
  <2> QED BY <2>1 DEF IsSpeech
<1>3. y = [[[x EXCEPT !.content = @ \o d] EXCEPT !.reasoning = @ \o s] EXCEPT !.calls = @ \o ds]
  BY DEF Speech, Message
<1>4. /\ (c \o d = e) = (c = e /\ d = e) /\ (r \o s = e) = (r = e /\ s = e)
      /\ (cs \o ds = e) = (cs = e /\ ds = e)
      /\ e \o d = d /\ e \o s = s /\ e \o ds = ds
  BY EmptyParts, Concatenated
<1> HIDE DEF m, x, e
<1>5. CASE c = e /\ r = e /\ cs = e
  <2>1. AddSpeech(J, c, r, cs) = J
    BY <1>5 DEF AddSpeech, e
  <2>2. ~(J # <<>> /\ J[Len(J)].role = "assistant")
    BY DEF Settled
  <2>3. Joins(J, m) = IF d # e \/ s # e \/ ds # e THEN Append(J, m) ELSE J
    BY <1>1, <2>2 DEF Joins, e
  <2>4. AddSpeech(J, c \o d, r \o s, cs \o ds) = AddSpeech(J, d, s, ds)
    BY <1>4, <1>5
  <2>5. AddSpeech(J, d, s, ds) = IF d = e /\ s = e /\ ds = e THEN J ELSE Append(J, m)
    BY DEF AddSpeech, m, e
  <2> QED BY <2>1, <2>3, <2>4, <2>5 DEF m
<1>6. CASE ~(c = e /\ r = e /\ cs = e)
  <2> DEFINE K == Append(J, x)
             n == Len(J)
             k == Len(K)
  <2>1. AddSpeech(J, c, r, cs) = K
    BY <1>6 DEF AddSpeech, x, e
  <2> HIDE DEF y
  <2>2. /\ IsSeq(K) /\ n \in Nat /\ k = n + 1 /\ K[k] = x /\ DOMAIN K = 1..(n + 1)
        /\ \A i \in 1..n : K[i] = J[i]
    BY Appended DEF Settled
  <2>3. K # <<>>
    <3> HIDE DEF K
    <3> QED BY <2>2, SizeOfSeq
  <2> HIDE DEF K, n, k
  <2>4. Joins(K, m) = [K EXCEPT ![k].content = @ \o d, ![k].reasoning = @ \o s,
                                ![k].calls = @ \o ds]
    BY <1>1, <1>2, <2>2, <2>3 DEF Joins, k
  <2>5. [K EXCEPT ![k].content = @ \o d, ![k].reasoning = @ \o s, ![k].calls = @ \o ds]
          = [K EXCEPT ![k] = y]
    BY <1>2, <1>3, <2>2 DEF MessageKeys
  <2>6. [K EXCEPT ![k] = y] = Append(J, y)
    <3> DEFINE a == [K EXCEPT ![k] = y]
               b == Append(J, y)
    <3>1. /\ IsSeq(b) /\ Len(b) = n + 1 /\ b[n + 1] = y /\ DOMAIN b = 1..(n + 1)
          /\ \A i \in 1..n : b[i] = J[i]
      BY Appended DEF Settled, n
    <3>2. b = [i \in 1..(n + 1) |-> b[i]]
      <4>1. PICK S : b \in Seq(S)
        BY <3>1 DEF IsSeq
      <4> HIDE DEF b
      <4> QED BY <3>1, <4>1
    <3>3. a = [i \in 1..(n + 1) |-> IF i = k THEN y ELSE K[i]]
      BY <2>2
    <3> HIDE DEF a, b
    <3>4. \A i \in 1..(n + 1) : i \in 1..n \/ i = n + 1
      BY <2>2
    <3>5. \A i \in 1..(n + 1) : (IF i = k THEN y ELSE K[i]) = b[i]
      BY <2>2, <3>1, <3>4
    <3>6. [i \in 1..(n + 1) |-> IF i = k THEN y ELSE K[i]] = [i \in 1..(n + 1) |-> b[i]]
      BY <3>5
    <3> QED BY <3>2, <3>3, <3>6 DEF a, b
  <2>7. AddSpeech(J, c \o d, r \o s, cs \o ds) = Append(J, y)
    BY <1>4, <1>6 DEF AddSpeech, y, e
  <2> QED BY <2>1, <2>4, <2>5, <2>6, <2>7 DEF m
<1> QED BY <1>5, <1>6

\* An element is appended to the second of two sequences.
LEMMA AppendsAfter ==
  ASSUME NEW s, NEW t, IsSeq(s), IsSeq(t), NEW x
  PROVE  s \o Append(t, x) = Append(s \o t, x)
<1> DEFINE w == <<x>>
<1>1. IsSeq(w) /\ \A v : IsSeq(v) => Append(v, x) = v \o w
  BY Single
<1> HIDE DEF w
<1>2. IsSeq(s \o t)
  BY Concatenated
<1>3. Regroups(s, t, w)
  BY <1>1, Regrouped
<1>4. Append(t, x) = t \o w /\ Append(s \o t, x) = (s \o t) \o w
  BY <1>1, <1>2
<1> QED BY <1>3, <1>4 DEF Regroups

\* The calls of the last reply.
LastAre(J, cs) ==
  \E i \in DOMAIN J : /\ J[i].role = "assistant" /\ J[i].calls = cs
                      /\ \A j \in DOMAIN J : j > i => J[j].role # "assistant"

LEMMA LastAreIs ==
  ASSUME NEW J, IsSeq(J), NEW cs, LastAre(J, cs)
  PROVE  LastCalls(J) = cs
<1> DEFINE n == Len(J)
           R == {i \in DOMAIN J : J[i].role = "assistant"}
<1>1. DOMAIN J = 1..n /\ n \in Nat
  BY Appended
<1> HIDE DEF n
<1>2. PICK i \in DOMAIN J : /\ J[i].role = "assistant" /\ J[i].calls = cs
                            /\ \A j \in DOMAIN J : j > i => J[j].role # "assistant"
  BY DEF LastAre
<1>3. i \in R /\ R \subseteq Nat
  BY <1>1, <1>2
<1>4. \A j \in R : i >= j
  BY <1>1, <1>2
<1>5. LastCalls(J) = IF R = {} THEN <<>> ELSE J[Max(R)].calls
  BY DEF LastCalls
<1> HIDE DEF R
<1>6. Max(R) \in R /\ \A j \in R : Max(R) >= j
  BY <1>3, <1>4 DEF Max
<1>7. Max(R) = i
  BY <1>3, <1>4, <1>6
<1> QED BY <1>2, <1>3, <1>5, <1>7

LEMMA LastAreKept ==
  ASSUME NEW J, IsSeq(J), NEW cs, LastAre(J, cs), NEW m, m.role # "assistant"
  PROVE  LastAre(Append(J, m), cs)
<1> DEFINE n == Len(J)
           K == Append(J, m)
<1>1. /\ DOMAIN J = 1..n /\ n \in Nat /\ DOMAIN K = 1..(n + 1) /\ K[n + 1] = m
      /\ \A k \in 1..n : K[k] = J[k]
  BY Appended
<1> HIDE DEF n, K
<1>2. PICK i \in DOMAIN J : /\ J[i].role = "assistant" /\ J[i].calls = cs
                            /\ \A j \in DOMAIN J : j > i => J[j].role # "assistant"
  BY DEF LastAre
<1>3. i \in DOMAIN K /\ K[i] = J[i]
  BY <1>1
<1>4. ASSUME NEW j \in DOMAIN K, j > i
      PROVE  K[j].role # "assistant"
  <2>1. j \in 1..n \/ j = n + 1
    BY <1>1
  <2> QED BY <1>1, <1>2, <1>4, <2>1
<1> QED BY <1>2, <1>3, <1>4 DEF LastAre, K

\* A tool's answer to what it is for, an id or the numbers of calls.
Answer(a, c) == [Message EXCEPT !.role = "tool", !.answers = a, !.content = c]
IsAnswer(m, a, c) ==
  /\ DOMAIN m = MessageKeys /\ m.role = "tool" /\ m.answers = a /\ m.content = c
  /\ m.image = FALSE /\ m.reasoning = <<>> /\ m.calls = <<>>

LEMMA AnswerIs ==
  ASSUME NEW a, NEW c
  PROVE  /\ IsAnswer(Answer(a, c), a, c)
         /\ \A b : [Answer(a, c) EXCEPT !.answers = b] = Answer(b, c)
BY DEF Answer, Message, MessageKeys, IsAnswer

DistinctIds(cs) == \A i, j \in 1..Len(cs) : cs[i].id = cs[j].id => i = j

LEMMA AnswerJoins ==
  ASSUME NEW J, IsSeq(J), NEW cs, IsSeq(cs), LastAre(J, cs), DistinctIds(cs),
         NEW n \in 1..Len(cs), NEW c
  PROVE  /\ Joins(J, Answer(cs[n].id, c)) = Append(J, Answer({n}, c))
         /\ LastAre(Append(J, Answer({n}, c)), cs)
<1> DEFINE m == Answer(cs[n].id, c)
           x == Answer({n}, c)
<1>1. m.role = "tool" /\ m.answers = cs[n].id /\ x.role = "tool"
  <2>1. IsAnswer(m, cs[n].id, c) /\ IsAnswer(x, {n}, c)
    BY AnswerIs
  <2> HIDE DEF m, x
  <2> QED BY <2>1 DEF IsAnswer
<1>2. \A b : [m EXCEPT !.answers = b] = Answer(b, c)
  BY AnswerIs
<1>3. LastCalls(J) = cs
  BY LastAreIs
<1> HIDE DEF m
<1>4. DOMAIN cs = 1..Len(cs)
  BY Appended
<1>5. {k \in DOMAIN cs : cs[k].id = m.answers} = {n}
  BY <1>1, <1>4 DEF DistinctIds
<1>6. Joins(J, m)
        = Append(J, [m EXCEPT !.answers = {k \in DOMAIN cs : cs[k].id = m.answers}])
  BY <1>1, <1>3 DEF Joins
<1>7. Joins(J, m) = Append(J, x)
  BY <1>2, <1>5, <1>6
<1>8. LastAre(Append(J, x), cs)
  <2> HIDE DEF x
  <2> QED BY <1>1, LastAreKept
<1> QED BY <1>7, <1>8 DEF m

\* Answers that name the ids of calls, and the same ones with the numbers.
SameAnswers(us, ws, cs) ==
  /\ IsSeq(us) /\ IsSeq(ws) /\ Len(us) = Len(ws)
  /\ \A k \in 1..Len(us) :
       \E n \in 1..Len(cs) : \E c : us[k] = Answer(cs[n].id, c) /\ ws[k] = Answer({n}, c)

LEMMA AnswersJoined ==
  ASSUME NEW msgs, IsSeq(msgs), IsSeq(JoinedUp(msgs)), NEW cs, IsSeq(cs),
         LastAre(JoinedUp(msgs), cs), DistinctIds(cs), NEW us, NEW ws, SameAnswers(us, ws, cs)
  PROVE  JoinedUp(msgs \o us) = JoinedUp(msgs) \o ws
<1> DEFINE J == JoinedUp(msgs)
           N == Len(us)
           S == {k \in Nat : k <= N => /\ JoinedUp(msgs \o Opening(us, k)) = J \o Opening(ws, k)
                                       /\ LastAre(J \o Opening(ws, k), cs)}
<1>1. N \in Nat /\ Len(ws) = N /\ IsSeq(us) /\ IsSeq(ws) /\ IsSeq(J)
  BY SizeOfSeq DEF SameAnswers
<1> HIDE DEF J
<1>2. 0 \in S
  <2> DEFINE e == <<>>
  <2>1. Opening(us, 0) = e /\ Opening(ws, 0) = e
    BY <1>1, BeginsOf
  <2>2. msgs \o e = msgs /\ J \o e = J
    BY <1>1, Concatenated
  <2> HIDE DEF e
  <2> QED BY <2>1, <2>2 DEF J
<1>3. ASSUME NEW k \in Nat, k \in S
      PROVE  k + 1 \in S
  <2> SUFFICES ASSUME k + 1 <= N
               PROVE  /\ JoinedUp(msgs \o Opening(us, k + 1)) = J \o Opening(ws, k + 1)
                      /\ LastAre(J \o Opening(ws, k + 1), cs)
    OBVIOUS
  <2> DEFINE p == Opening(us, k)
             q == Opening(ws, k)
  <2>1. k < N /\ k <= N /\ k + 1 \in 1..N
    BY <1>1
  <2>2. JoinedUp(msgs \o p) = J \o q /\ LastAre(J \o q, cs)
    BY <1>3, <2>1
  <2>3. IsSeq(p) /\ Opening(us, k + 1) = Append(p, us[k + 1])
    BY <1>1, <2>1, BeginsOf
  <2>4. IsSeq(q) /\ Opening(ws, k + 1) = Append(q, ws[k + 1])
    BY <1>1, <2>1, BeginsOf
  <2>5. PICK n \in 1..Len(cs) : \E c : /\ us[k + 1] = Answer(cs[n].id, c)
                                       /\ ws[k + 1] = Answer({n}, c)
    BY <1>1, <2>1 DEF SameAnswers
  <2> DEFINE x == us[k + 1]
             y == ws[k + 1]
  <2> HIDE DEF p, q
  <2>6. IsSeq(msgs \o p) /\ IsSeq(J \o q)
    BY <1>1, <2>3, <2>4, Concatenated
  <2>7. Joins(J \o q, x) = Append(J \o q, y) /\ LastAre(Append(J \o q, y), cs)
    <3>1. PICK c : x = Answer(cs[n].id, c) /\ y = Answer({n}, c)
      BY <2>5
    <3> HIDE DEF x, y
    <3>2. /\ Joins(J \o q, Answer(cs[n].id, c)) = Append(J \o q, Answer({n}, c))
          /\ LastAre(Append(J \o q, Answer({n}, c)), cs)
      BY <2>2, <2>6, AnswerJoins
    <3> QED BY <3>1, <3>2
  <2> HIDE DEF x, y
  <2>8. JoinedUp(Append(msgs \o p, x)) = Append(J \o q, y)
    BY <2>2, <2>6, <2>7, JoinsMore
  <2>9. msgs \o Append(p, x) = Append(msgs \o p, x)
    BY <2>3, AppendsAfter
  <2>10. J \o Append(q, y) = Append(J \o q, y)
    BY <1>1, <2>4, AppendsAfter
  <2> QED BY <2>3, <2>4, <2>7, <2>8, <2>9, <2>10 DEF x, y
<1>4. \A k \in Nat : k \in S
  <2> HIDE DEF S
  <2> QED BY <1>2, <1>3, SetInduction
<1>5. JoinedUp(msgs \o Opening(us, N)) = J \o Opening(ws, N)
  BY <1>1, <1>4
<1>6. Opening(us, N) = us /\ Opening(ws, N) = ws
  BY <1>1, BeginsOf
<1> QED BY <1>5, <1>6 DEF J

\* The messages of a history without the ids of their calls.
AllBare(s) == [i \in DOMAIN s |-> Bare(s[i])]

LEMMA AllBareIs ==
  ASSUME NEW s, IsSeq(s)
  PROVE  /\ IsSeq(AllBare(s)) /\ Len(AllBare(s)) = Len(s)
         /\ \A k \in 1..Len(s) : AllBare(s)[k] = Bare(s[k])
<1> DEFINE n == Len(s)
           f == AllBare(s)
<1>1. DOMAIN s = 1..n /\ n \in Nat
  BY Appended
<1> HIDE DEF n
<1>2. f = [i \in 1..n |-> Bare(s[i])]
  BY <1>1 DEF AllBare
<1> HIDE DEF f
<1>3. DOMAIN f = 1..n /\ f = [i \in 1..n |-> f[i]] /\ \A k \in 1..n : f[k] = Bare(s[k])
  BY <1>2
<1>4. IsSeq(f) /\ Len(f) = n
  BY <1>1, <1>3, Numbered
<1> QED BY <1>3, <1>4 DEF n, f

LEMMA AllBareBoth ==
  ASSUME NEW s, NEW u, IsSeq(s), IsSeq(u)
  PROVE  AllBare(s \o u) = AllBare(s) \o AllBare(u)
<1> DEFINE m == Len(s)
           n == Len(u)
           p == s \o u
           a == AllBare(s)
           b == AllBare(u)
           c == AllBare(p)
           q == a \o b
<1>1. /\ IsSeq(p) /\ m \in Nat /\ n \in Nat /\ Len(p) = m + n
      /\ \A i \in 1..m : p[i] = s[i]
      /\ \A i \in 1..n : p[m + i] = u[i]
  BY Catenated
<1>2. /\ IsSeq(a) /\ Len(a) = m /\ \A k \in 1..m : a[k] = Bare(s[k])
      /\ IsSeq(b) /\ Len(b) = n /\ \A k \in 1..n : b[k] = Bare(u[k])
  BY AllBareIs
<1> HIDE DEF a, b, p
<1>3. IsSeq(c) /\ Len(c) = m + n /\ \A k \in 1..(m + n) : c[k] = Bare(p[k])
  BY <1>1, AllBareIs
<1>4. /\ IsSeq(q) /\ Len(q) = m + n
      /\ \A i \in 1..m : q[i] = a[i]
      /\ \A i \in 1..n : q[m + i] = b[i]
  BY <1>2, Catenated
<1> HIDE DEF c, q, m, n
<1>5. ASSUME NEW k \in 1..(m + n)
      PROVE  c[k] = q[k]
  <2>1. k \in 1..m \/ (k - m \in 1..n /\ m + (k - m) = k)
    BY <1>1
  <2>2. CASE k \in 1..m
    BY <1>1, <1>2, <1>3, <1>4, <2>2
  <2>3. CASE k - m \in 1..n /\ m + (k - m) = k
    <3> DEFINE i == k - m
    <3>1. i \in 1..n /\ m + i = k
      BY <2>3
    <3> HIDE DEF i
    <3>2. c[k] = Bare(u[i]) /\ q[k] = b[i]
      BY <1>1, <1>3, <1>4, <3>1
    <3> QED BY <1>2, <3>1, <3>2
  <2> QED BY <2>1, <2>2, <2>3
<1>6. c = q
  BY <1>3, <1>4, <1>5, SameSeq
<1> QED BY <1>6 DEF c, q, p, a, b

LEMMA AllBareSame ==
  ASSUME NEW s, IsSeq(s), \A k \in 1..Len(s) : s[k].role # "assistant"
  PROVE  AllBare(s) = s
<1> DEFINE a == AllBare(s)
<1>1. IsSeq(a) /\ Len(a) = Len(s) /\ \A k \in 1..Len(s) : a[k] = Bare(s[k])
  BY AllBareIs
<1> HIDE DEF a
<1>2. \A k \in 1..Len(s) : a[k] = s[k]
  BY <1>1 DEF Bare
<1>3. a = s
  BY <1>1, <1>2, SameSeq
<1> QED BY <1>3 DEF a

\* Calls with the names and the arguments of h.
CallsMatch(cs, h) ==
  /\ IsSeq(cs) /\ IsSeq(h) /\ Len(cs) = Len(h)
  /\ \A k \in 1..Len(h) : cs[k].name = h[k].name /\ cs[k].args.value = h[k].args

LEMMA BareSpeech ==
  ASSUME NEW c, NEW r, NEW cs, NEW h, CallsMatch(cs, h)
  PROVE  Bare(Speech(c, r, cs)) = Speech(c, r, Calls(h))
<1> DEFINE m == Speech(c, r, cs)
           f == [k \in DOMAIN cs |-> [name |-> cs[k].name, args |-> cs[k].args.value]]
<1>1. DOMAIN cs = 1..Len(h)
  BY Appended DEF CallsMatch
<1>2. f = Calls(h)
  <2>1. f = [k \in 1..Len(h) |-> [name |-> cs[k].name, args |-> cs[k].args.value]]
    BY <1>1
  <2> HIDE DEF f
  <2>2. \A k \in 1..Len(h) : [name |-> cs[k].name, args |-> cs[k].args.value]
                               = [name |-> h[k].name, args |-> h[k].args]
    BY DEF CallsMatch
  <2>3. [k \in 1..Len(h) |-> [name |-> cs[k].name, args |-> cs[k].args.value]]
          = [k \in 1..Len(h) |-> [name |-> h[k].name, args |-> h[k].args]]
    BY <2>2
  <2> QED BY <2>1, <2>3 DEF Calls
<1>3. DOMAIN m = MessageKeys /\ m.role = "assistant" /\ m.calls = cs
  <2>1. IsSpeech(m, c, r, cs)
    BY SpeechIs
  <2> HIDE DEF m
  <2> QED BY <2>1 DEF IsSpeech
<1>4. \A g : [m EXCEPT !.calls = g] = Speech(c, r, g)
  BY DEF Speech, Message
<1> HIDE DEF m
<1>5. Bare(m) = [m EXCEPT !.calls = f]
  BY <1>3 DEF Bare, MessageKeys
<1> HIDE DEF f
<1> QED BY <1>2, <1>4, <1>5 DEF m

\* The speech as it is expected.
SpeechSaid(c, r, h) ==
  IF c = <<>> /\ r = <<>> /\ h = <<>> THEN <<>> ELSE <<Speech(c, r, Calls(h))>>

LEMMA AddedBare ==
  ASSUME NEW J, IsSeq(J), NEW c, NEW r, NEW cs, NEW h, CallsMatch(cs, h)
  PROVE  /\ IsSeq(AddSpeech(J, c, r, cs)) /\ IsSeq(SpeechSaid(c, r, h))
         /\ AllBare(AddSpeech(J, c, r, cs)) = AllBare(J) \o SpeechSaid(c, r, h)
         /\ cs # <<>> => LastAre(AddSpeech(J, c, r, cs), cs)
<1> DEFINE A == AddSpeech(J, c, r, cs)
           x == Speech(c, r, cs)
           y == Speech(c, r, Calls(h))
           e == <<>>
           w == <<x>>
           v == <<y>>
<1>1. cs = e <=> h = e
  BY SizeOfSeq DEF CallsMatch
<1>2. IsSeq(AllBare(J)) /\ IsSeq(e) /\ AllBare(J) \o e = AllBare(J)
  BY AllBareIs, NothingIsSeq, Concatenated
<1>3. CASE c = e /\ r = e /\ cs = e
  BY <1>1, <1>2, <1>3 DEF AddSpeech, SpeechSaid
<1>4. CASE ~(c = e /\ r = e /\ cs = e)
  <2>1. A = Append(J, x) /\ SpeechSaid(c, r, h) = v
    BY <1>1, <1>4 DEF AddSpeech, SpeechSaid
  <2>2. x.role = "assistant" /\ x.calls = cs
    <3>1. IsSpeech(x, c, r, cs)
      BY SpeechIs
    <3> HIDE DEF x
    <3> QED BY <3>1 DEF IsSpeech
  <2>3. Bare(x) = y
    BY BareSpeech
  <2> HIDE DEF x, y, A, e
  <2>4. /\ IsSeq(w) /\ Len(w) = 1 /\ w[1] = x /\ Append(J, x) = J \o w
        /\ IsSeq(v) /\ Len(v) = 1 /\ v[1] = y
    BY Single
  <2> HIDE DEF w, v
  <2>5. AllBare(w) = v
    <3>1. IsSeq(AllBare(w)) /\ Len(AllBare(w)) = 1 /\ \A k \in 1..1 : AllBare(w)[k] = Bare(w[k])
      BY <2>4, AllBareIs
    <3>2. \A k \in 1..1 : AllBare(w)[k] = v[k]
      BY <2>3, <2>4, <3>1
    <3> QED BY <2>4, <3>1, <3>2, SameSeq
  <2>6. AllBare(A) = AllBare(J) \o v
    BY <2>1, <2>4, <2>5, AllBareBoth
  <2>7. IsSeq(A) /\ LastAre(A, cs)
    <3> DEFINE n == Len(J)
    <3>1. /\ IsSeq(Append(J, x)) /\ n \in Nat /\ DOMAIN Append(J, x) = 1..(n + 1)
          /\ Append(J, x)[n + 1] = x
      BY Appended
    <3> HIDE DEF n
    <3>2. n + 1 \in DOMAIN A /\ A[n + 1] = x /\ \A j \in DOMAIN A : ~(j > n + 1)
      BY <2>1, <3>1
    <3> QED BY <2>1, <2>2, <3>1, <3>2 DEF LastAre
  <2> QED BY <2>1, <2>4, <2>6, <2>7 DEF A
<1> QED BY <1>3, <1>4

-----------------------------------------------------------------------------
(* What a turn adds to them.                                               *)

\* Which call the k-th answer of a turn is for.
CallFor(t, k) == IF t.backwards THEN Len(t.reply.calls) + 1 - k ELSE k

\* The answers of a turn to its calls, which have the ids of cs.
AnswerList(us, cs, t) ==
  /\ IsSeq(us) /\ Len(us) = Len(t.reply.calls)
  /\ \A k \in 1..Len(us) :
       us[k] = Answer(cs[CallFor(t, k)].id, Result(t.reply.calls[CallFor(t, k)].args))

\* The messages `new` are `msgs`, a reply in any number of parts, its answers
\* and the remark beside them.
Turned(msgs, new, t, r) ==
  \E mid, cs, us :
    /\ IsSeq(mid) /\ JoinedUp(mid) = AddSpeech(JoinedUp(msgs), t.reply.text, r, cs)
    /\ CallsMatch(cs, t.reply.calls) /\ DistinctIds(cs) /\ AnswerList(us, cs, t)
    /\ new = (mid \o us) \o RemarkOf(t)

ReasoningOf(t) == IF dialect = "responses" THEN <<>> ELSE t.reply.reasoning
TurnSays(t) == ReplyTo(t) \o AnswersTo(t) \o RemarkOf(t)

LEMMA ReplyIs ==
  ASSUME NEW t
  PROVE  ReplyTo(t) = SpeechSaid(t.reply.text, ReasoningOf(t), t.reply.calls)
BY DEF ReplyTo, SpeechSaid, Speech, ReasoningOf

\* The answers as they are expected, and the remark.
LEMMA AnswersAre ==
  ASSUME NEW t, IsSeq(t.reply.calls)
  PROVE  /\ IsSeq(AnswersTo(t)) /\ Len(AnswersTo(t)) = Len(t.reply.calls)
         /\ \A k \in 1..Len(t.reply.calls) :
              /\ CallFor(t, k) \in 1..Len(t.reply.calls)
              /\ AnswersTo(t)[k]
                   = Answer({CallFor(t, k)}, Result(t.reply.calls[CallFor(t, k)].args))
              /\ AnswersTo(t)[k].role = "tool"
<1> DEFINE n == Len(t.reply.calls)
           w == [k \in 1..n |-> Answer({CallFor(t, k)}, Result(t.reply.calls[CallFor(t, k)].args))]
<1>1. n \in Nat
  BY SizeOfSeq
<1>2. AnswersTo(t) = w
  BY DEF AnswersTo, Answer, CallFor
<1>3. IsSeq(w) /\ Len(w) = n
  BY <1>1, Numbered
<1>4. \A k \in 1..n : w[k] = Answer({CallFor(t, k)}, Result(t.reply.calls[CallFor(t, k)].args))
  OBVIOUS
<1>5. \A k \in 1..n : CallFor(t, k) \in 1..n
  BY <1>1 DEF CallFor
<1> HIDE DEF w
<1>6. \A a, c : Answer(a, c).role = "tool"
  BY AnswerIs DEF IsAnswer
<1>7. \A k \in 1..n : w[k].role = "tool"
  BY <1>4, <1>6
<1> QED BY <1>2, <1>3, <1>4, <1>5, <1>7

LEMMA RemarkIs ==
  ASSUME NEW t
  PROVE  /\ IsSeq(RemarkOf(t)) /\ \A k \in 1..Len(RemarkOf(t)) : RemarkOf(t)[k].role # "assistant"
         /\ ~t.more => RemarkOf(t) = <<>>
         /\ t.more => \E x : RemarkOf(t) = <<x>> /\ x.role = "user"
<1> DEFINE x == [Message EXCEPT !.content = t.words, !.image = TRUE]
           e == <<>>
           w == <<x>>
<1>1. RemarkOf(t) = IF ~t.more THEN e ELSE w
  BY DEF RemarkOf
<1>2. x.role = "user"
  BY DEF Message
<1> HIDE DEF x
<1>3. IsSeq(w) /\ Len(w) = 1 /\ w[1] = x
  BY Single
<1>4. IsSeq(e) /\ Len(e) = 0
  BY NothingIsSeq
<1> HIDE DEF e
<1>5. CASE ~t.more
  BY <1>1, <1>4, <1>5 DEF e
<1>6. CASE t.more
  <2>1. RemarkOf(t) = w /\ w = <<x>>
    BY <1>1, <1>6
  <2> HIDE DEF w
  <2>2. \A k \in 1..Len(w) : w[k].role # "assistant"
    BY <1>2, <1>3
  <2> QED BY <1>2, <1>3, <1>6, <2>1, <2>2
<1> QED BY <1>5, <1>6

\* With a turn the history says what the turn says, and is settled again.
LEMMA TurnJoined ==
  ASSUME NEW msgs, Settled(JoinedUp(msgs)), NEW t, TurnOK(t), NEW new,
         Turned(msgs, new, t, ReasoningOf(t))
  PROVE  Settled(JoinedUp(new)) /\ Normal(new) = Normal(msgs) \o TurnSays(t)
<1> DEFINE J == JoinedUp(msgs)
           c == t.reply.text
           r == ReasoningOf(t)
           h == t.reply.calls
           W == AnswersTo(t)
           R == RemarkOf(t)
           e == <<>>
<1>1. IsSeq(h) /\ IsSeq(J) /\ (h = e => t.more)
  BY DEF TurnOK, Settled
<1>2. PICK mid, cs, us : /\ IsSeq(mid) /\ JoinedUp(mid) = AddSpeech(J, c, r, cs)
                         /\ CallsMatch(cs, h) /\ DistinctIds(cs) /\ AnswerList(us, cs, t)
                         /\ new = (mid \o us) \o R
  BY DEF Turned
<1> DEFINE A == AddSpeech(J, c, r, cs)
           S == SpeechSaid(c, r, h)
           K == A \o W
<1>3. /\ IsSeq(A) /\ IsSeq(S) /\ AllBare(A) = AllBare(J) \o S
      /\ cs # e => LastAre(A, cs)
  BY <1>1, <1>2, AddedBare
<1>4. /\ IsSeq(W) /\ Len(W) = Len(h)
      /\ \A k \in 1..Len(h) : /\ CallFor(t, k) \in 1..Len(h)
                              /\ W[k] = Answer({CallFor(t, k)}, Result(h[CallFor(t, k)].args))
                              /\ W[k].role = "tool"
  BY <1>1, AnswersAre
<1>5. /\ IsSeq(R) /\ \A k \in 1..Len(R) : R[k].role # "assistant"
      /\ ~t.more => R = e
      /\ t.more => \E x : R = <<x>> /\ x.role = "user"
  BY RemarkIs
<1>6. /\ IsSeq(us) /\ Len(us) = Len(h) /\ IsSeq(cs) /\ Len(cs) = Len(h)
      /\ \A k \in 1..Len(us) : us[k] = Answer(cs[CallFor(t, k)].id, Result(h[CallFor(t, k)].args))
  BY <1>2 DEF AnswerList, CallsMatch
<1>7. Len(h) \in Nat /\ (h = e <=> Len(h) = 0) /\ (cs = e <=> h = e) /\ (us = e <=> h = e)
      /\ (W = e <=> h = e)
  BY <1>1, <1>4, <1>6, SizeOfSeq
<1>8. AllBare(J) = Normal(msgs) /\ AllBare(JoinedUp(new)) = Normal(new)
  BY DEF Normal, AllBare, JoinedUp
<1>9. TurnSays(t) = (S \o W) \o R
  BY ReplyIs DEF TurnSays
<1>10. Settled(J)
  OBVIOUS
<1> HIDE DEF J, c, r, h, W, R, A, S
<1>11. JoinedUp(mid \o us) = K
  <2>1. CASE h = e
    <3>1. us = e /\ W = e
      BY <1>7, <2>1
    <3>2. mid \o e = mid /\ A \o e = A
      BY <1>2, <1>3, Concatenated
    <3> QED BY <1>2, <3>1, <3>2 DEF A
  <2>2. CASE h # e
    <3>1. LastAre(A, cs)
      BY <1>3, <1>7, <2>2
    <3>2. SameAnswers(us, W, cs)
      <4>1. ASSUME NEW k \in 1..Len(us)
            PROVE  \E n \in 1..Len(cs) : \E a : us[k] = Answer(cs[n].id, a) /\ W[k] = Answer({n}, a)
        <5>1. /\ CallFor(t, k) \in 1..Len(cs)
              /\ W[k] = Answer({CallFor(t, k)}, Result(h[CallFor(t, k)].args))
              /\ us[k] = Answer(cs[CallFor(t, k)].id, Result(h[CallFor(t, k)].args))
          BY <1>4, <1>6
        <5> QED BY <5>1
      <4> QED BY <1>4, <1>6, <4>1 DEF SameAnswers
    <3>3. JoinedUp(mid) = A
      BY <1>2 DEF A
    <3>4. JoinedUp(mid \o us) = JoinedUp(mid) \o W
      BY <1>2, <1>3, <1>6, <3>1, <3>2, <3>3, AnswersJoined
    <3> QED BY <3>3, <3>4
  <2> QED BY <2>1, <2>2
<1>12. IsSeq(mid \o us)
  BY <1>2, <1>6, Concatenated
<1>13. IsSeq(K)
  BY <1>3, <1>4, Concatenated
<1>14. \A v : IsSeq(v) => v \o e = v
  BY Concatenated
<1> HIDE DEF e
<1>15. JoinedUp(new) = K \o R /\ (t.more => \E x : JoinedUp(new) = Append(K, x) /\ x.role = "user")
  <2> HIDE DEF K
  <2>1. CASE ~t.more
    BY <1>2, <1>5, <1>11, <1>12, <1>13, <1>14, <2>1
  <2>2. CASE t.more
    <3>1. PICK x : R = <<x>> /\ x.role = "user"
      BY <1>5, <2>2
    <3>2. Append(mid \o us, x) = new /\ Append(K, x) = K \o R
      BY <1>2, <1>12, <1>13, <3>1, Single
    <3>3. Joins(K, x) = Append(K, x)
      BY <3>1 DEF Joins
    <3>4. JoinedUp(new) = Append(K, x)
      BY <1>11, <1>12, <3>2, <3>3, JoinsMore
    <3> QED BY <3>1, <3>2, <3>4
  <2> QED BY <2>1, <2>2
<1>16. Settled(JoinedUp(new))
  <2>1. CASE t.more
    <3>1. PICK x : JoinedUp(new) = Append(K, x) /\ x.role = "user"
      BY <1>15, <2>1
    <3> HIDE DEF K
    <3>2. /\ IsSeq(Append(K, x)) /\ Len(Append(K, x)) = Len(K) + 1
          /\ Append(K, x)[Len(K) + 1] = x
      BY <1>13, Appended
    <3> QED BY <3>1, <3>2 DEF Settled
  <2>2. CASE ~t.more
    <3>1. h # e /\ JoinedUp(new) = K
      BY <1>1, <1>5, <1>13, <1>14, <1>15, <2>2
    <3>2. /\ Len(K) = Len(A) + Len(W) /\ Len(A) \in Nat /\ Len(W) \in Nat
          /\ \A i \in 1..Len(W) : K[Len(A) + i] = W[i]
      BY <1>3, <1>4, Catenated
    <3> HIDE DEF K
    <3>3. Len(W) \in 1..Len(W) /\ W[Len(W)].role = "tool"
      <4>1. Len(W) = Len(h) /\ Len(h) \in Nat /\ Len(h) # 0
        BY <1>4, <1>7, <3>1
      <4>2. Len(h) \in 1..Len(h)
        BY <4>1
      <4>3. W[Len(h)].role = "tool"
        BY <1>4, <4>2
      <4> QED BY <4>1, <4>2, <4>3
    <3>4. K[Len(K)] = W[Len(W)]
      BY <3>2, <3>3
    <3> QED BY <1>13, <3>1, <3>3, <3>4 DEF Settled
  <2> QED BY <2>1, <2>2
<1>17. AllBare(JoinedUp(new)) = ((AllBare(J) \o S) \o W) \o R
  <2>1. AllBare(K) = AllBare(A) \o AllBare(W)
    BY <1>3, <1>4, AllBareBoth
  <2>2. AllBare(W) = W
    BY <1>4, AllBareSame
  <2>3. AllBare(R) = R
    BY <1>5, AllBareSame
  <2>4. AllBare(K \o R) = AllBare(K) \o AllBare(R)
    BY <1>5, <1>13, AllBareBoth
  <2> HIDE DEF K
  <2> QED BY <1>3, <1>15, <2>1, <2>2, <2>3, <2>4
<1>18. ((AllBare(J) \o S) \o W) \o R = AllBare(J) \o ((S \o W) \o R)
  <2> DEFINE B == AllBare(J)
             T == S \o W
  <2>1. IsSeq(B)
    BY <1>1, AllBareIs
  <2>2. IsSeq(T)
    BY <1>3, <1>4, Concatenated
  <2> HIDE DEF B
  <2>3. Regroups(B, S, W)
    BY <1>3, <1>4, <2>1, Regrouped
  <2>4. (B \o S) \o W = B \o T
    BY <2>3 DEF Regroups
  <2> HIDE DEF T
  <2>5. Regroups(B, T, R)
    BY <1>5, <2>1, <2>2, Regrouped
  <2>6. (B \o T) \o R = B \o (T \o R)
    BY <2>5 DEF Regroups
  <2> QED BY <2>4, <2>6 DEF B, T
<1> QED BY <1>8, <1>9, <1>16, <1>17, <1>18

-----------------------------------------------------------------------------
(* A message by its fields.                                                *)

MessageOf(role, content, image, reasoning, calls, answers) ==
  [role |-> role, content |-> content, image |-> image, reasoning |-> reasoning,
   calls |-> calls, answers |-> answers]

LEMMA MessageIs == Message = MessageOf("user", <<>>, FALSE, <<>>, <<>>, <<>>)
BY DEF Message, MessageOf

LEMMA RoleSet ==
  ASSUME NEW m, NEW r, NEW c, NEW i, NEW s, NEW k, NEW a, NEW b, m = MessageOf(r, c, i, s, k, a)
  PROVE  [m EXCEPT !.role = b] = MessageOf(b, c, i, s, k, a)
BY SMT DEF MessageOf

LEMMA ContentSet ==
  ASSUME NEW m, NEW r, NEW c, NEW i, NEW s, NEW k, NEW a, NEW b, m = MessageOf(r, c, i, s, k, a)
  PROVE  [m EXCEPT !.content = b] = MessageOf(r, b, i, s, k, a)
BY SMT DEF MessageOf

LEMMA ImageSet ==
  ASSUME NEW m, NEW r, NEW c, NEW i, NEW s, NEW k, NEW a, NEW b, m = MessageOf(r, c, i, s, k, a)
  PROVE  [m EXCEPT !.image = b] = MessageOf(r, c, b, s, k, a)
BY SMT DEF MessageOf

LEMMA ReasoningSet ==
  ASSUME NEW m, NEW r, NEW c, NEW i, NEW s, NEW k, NEW a, NEW b, m = MessageOf(r, c, i, s, k, a)
  PROVE  [m EXCEPT !.reasoning = b] = MessageOf(r, c, i, b, k, a)
BY SMT DEF MessageOf

LEMMA CallsSet ==
  ASSUME NEW m, NEW r, NEW c, NEW i, NEW s, NEW k, NEW a, NEW b, m = MessageOf(r, c, i, s, k, a)
  PROVE  [m EXCEPT !.calls = b] = MessageOf(r, c, i, s, b, a)
BY SMT DEF MessageOf

LEMMA AnswersSet ==
  ASSUME NEW m, NEW r, NEW c, NEW i, NEW s, NEW k, NEW a, NEW b, m = MessageOf(r, c, i, s, k, a)
  PROVE  [m EXCEPT !.answers = b] = MessageOf(r, c, i, s, k, b)
BY SMT DEF MessageOf

LEMMA SpeechOf ==
  ASSUME NEW c, NEW r, NEW cs
  PROVE  Speech(c, r, cs) = MessageOf("assistant", c, FALSE, r, cs, <<>>)
<1> DEFINE e == <<>>
           no == FALSE
           u == "user"
           w == "assistant"
<1> DEFINE m0 == Message
           m1 == [m0 EXCEPT !.role = w]
           m2 == [m1 EXCEPT !.content = c]
           m3 == [m2 EXCEPT !.reasoning = r]
           m4 == [m3 EXCEPT !.calls = cs]
<1>1. m0 = MessageOf(u, e, no, e, e, e)
  BY MessageIs
<1> HIDE DEF e, no, u, w, m0
<1>2. m1 = MessageOf(w, e, no, e, e, e)
  BY <1>1, RoleSet
<1> HIDE DEF m1
<1>3. m2 = MessageOf(w, c, no, e, e, e)
  BY <1>2, ContentSet
<1> HIDE DEF m2
<1>4. m3 = MessageOf(w, c, no, r, e, e)
  BY <1>3, ReasoningSet
<1> HIDE DEF m3
<1>5. m4 = MessageOf(w, c, no, r, cs, e)
  BY <1>4, CallsSet
<1> QED BY <1>5 DEF m0, m1, m2, m3, m4, e, no, u, w, Speech

LEMMA AnswerOf ==
  ASSUME NEW b, NEW c
  PROVE  Answer(b, c) = MessageOf("tool", c, FALSE, <<>>, <<>>, b)
<1> DEFINE e == <<>>
           no == FALSE
           u == "user"
           w == "tool"
<1> DEFINE m0 == Message
           m1 == [m0 EXCEPT !.role = w]
           m2 == [m1 EXCEPT !.answers = b]
           m3 == [m2 EXCEPT !.content = c]
<1>1. m0 = MessageOf(u, e, no, e, e, e)
  BY MessageIs
<1> HIDE DEF e, no, u, w, m0
<1>2. m1 = MessageOf(w, e, no, e, e, e)
  BY <1>1, RoleSet
<1> HIDE DEF m1
<1>3. m2 = MessageOf(w, e, no, e, e, b)
  BY <1>2, AnswersSet
<1> HIDE DEF m2
<1>4. m3 = MessageOf(w, c, no, e, e, b)
  BY <1>3, ContentSet
<1> QED BY <1>4 DEF m0, m1, m2, m3, e, no, u, w, Answer

LEMMA PlainOf ==
  ASSUME NEW role, NEW bs
  PROVE  Plain(role, bs) = MessageOf(role, Pieces(bs, "text"), OfType(bs, "image") # <<>>,
                                   Pieces(bs, "thinking"), <<>>, <<>>)
<1> DEFINE e == <<>>
           no == FALSE
           u == "user"
           c == Pieces(bs, "text")
           r == Pieces(bs, "thinking")
           i == OfType(bs, "image") # <<>>
<1> DEFINE m0 == Message
           m1 == [m0 EXCEPT !.role = role]
           m2 == [m1 EXCEPT !.content = c]
           m3 == [m2 EXCEPT !.reasoning = r]
           m4 == [m3 EXCEPT !.image = i]
<1>1. m0 = MessageOf(u, e, no, e, e, e)
  BY MessageIs
<1> HIDE DEF e, no, u, c, r, i, m0
<1>2. m1 = MessageOf(role, e, no, e, e, e)
  BY <1>1, RoleSet
<1> HIDE DEF m1
<1>3. m2 = MessageOf(role, c, no, e, e, e)
  BY <1>2, ContentSet
<1> HIDE DEF m2
<1>4. m3 = MessageOf(role, c, no, r, e, e)
  BY <1>3, ReasoningSet
<1> HIDE DEF m3
<1>5. m4 = MessageOf(role, c, i, r, e, e)
  BY <1>4, ImageSet
<1> QED BY <1>5 DEF m0, m1, m2, m3, m4, e, no, u, c, r, i, Plain

LEMMA SaidByItem ==
  ASSUME NEW x, x.type = "message"
  PROVE  FromItem(x) = <<MessageOf(NormalizeRole(x.role), x.text, x.image, <<>>, <<>>, <<>>)>>
<1> DEFINE e == <<>>
           no == FALSE
           u == "user"
           w == NormalizeRole(x.role)
           c == x.text
           i == x.image
<1> DEFINE m0 == Message
           m1 == [m0 EXCEPT !.role = w]
           m2 == [m1 EXCEPT !.content = c]
           m3 == [m2 EXCEPT !.image = i]
<1>1. m0 = MessageOf(u, e, no, e, e, e)
  BY MessageIs
<1> HIDE DEF e, no, u, w, c, i, m0
<1>2. m1 = MessageOf(w, e, no, e, e, e)
  BY <1>1, RoleSet
<1> HIDE DEF m1
<1>3. m2 = MessageOf(w, c, no, e, e, e)
  BY <1>2, ContentSet
<1> HIDE DEF m2
<1>4. m3 = MessageOf(w, c, i, e, e, e)
  BY <1>3, ImageSet
<1> QED BY <1>4 DEF m0, m1, m2, m3, e, no, u, w, c, i, FromItem

LEMMA RemarkOfWords ==
  ASSUME NEW t, t.more
  PROVE  RemarkOf(t) = <<MessageOf("user", t.words, TRUE, <<>>, <<>>, <<>>)>>
<1> DEFINE e == <<>>
           no == FALSE
           u == "user"
           c == t.words
           i == TRUE
<1> DEFINE m0 == Message
           m1 == [m0 EXCEPT !.content = c]
           m2 == [m1 EXCEPT !.image = i]
<1>1. m0 = MessageOf(u, e, no, e, e, e)
  BY MessageIs
<1> HIDE DEF e, no, u, c, i, m0
<1>2. m1 = MessageOf(u, c, no, e, e, e)
  BY <1>1, ContentSet
<1> HIDE DEF m1
<1>3. m2 = MessageOf(u, c, i, e, e, e)
  BY <1>2, ImageSet
<1> QED BY <1>3 DEF m0, m1, m2, e, no, u, c, i, RemarkOf

LEMMA CallsAlone ==
  ASSUME NEW cs
  PROVE  [Message EXCEPT !.role = "assistant", !.calls = cs] = Speech(<<>>, <<>>, cs)
<1> DEFINE e == <<>>
           no == FALSE
           u == "user"
           w == "assistant"
<1> DEFINE m0 == Message
           m1 == [m0 EXCEPT !.role = w]
           m2 == [m1 EXCEPT !.calls = cs]
<1>1. m0 = MessageOf(u, e, no, e, e, e)
  BY MessageIs
<1> HIDE DEF e, no, u, w, m0
<1>2. m1 = MessageOf(w, e, no, e, e, e)
  BY <1>1, RoleSet
<1> HIDE DEF m1
<1>3. m2 = MessageOf(w, e, no, e, cs, e)
  BY <1>2, CallsSet
<1>4. Speech(e, e, cs) = MessageOf(w, e, no, e, cs, e)
  BY SpeechOf DEF w, no, e
<1> QED BY <1>3, <1>4 DEF m0, m1, m2, e, no, u, w

LEMMA TakenMessage ==
  ASSUME NEW w, NEW c, NEW i, NEW cs, NEW r, NEW a
  PROVE  [Message EXCEPT !.role = w, !.content = c, !.image = i, !.calls = cs, !.reasoning = r,
                         !.answers = a] = MessageOf(w, c, i, r, cs, a)
<1> DEFINE e == <<>>
           no == FALSE
           u == "user"
<1> DEFINE m0 == Message
           m1 == [m0 EXCEPT !.role = w]
           m2 == [m1 EXCEPT !.content = c]
           m3 == [m2 EXCEPT !.image = i]
           m4 == [m3 EXCEPT !.calls = cs]
           m5 == [m4 EXCEPT !.reasoning = r]
           m6 == [m5 EXCEPT !.answers = a]
<1>1. m0 = MessageOf(u, e, no, e, e, e)
  BY MessageIs
<1> HIDE DEF e, no, u, m0
<1>2. m1 = MessageOf(w, e, no, e, e, e)
  BY <1>1, RoleSet
<1> HIDE DEF m1
<1>3. m2 = MessageOf(w, c, no, e, e, e)
  BY <1>2, ContentSet
<1> HIDE DEF m2
<1>4. m3 = MessageOf(w, c, i, e, e, e)
  BY <1>3, ImageSet
<1> HIDE DEF m3
<1>5. m4 = MessageOf(w, c, i, e, cs, e)
  BY <1>4, CallsSet
<1> HIDE DEF m4
<1>6. m5 = MessageOf(w, c, i, r, cs, e)
  BY <1>5, ReasoningSet
<1> HIDE DEF m5
<1>7. m6 = MessageOf(w, c, i, r, cs, a)
  BY <1>6, AnswersSet
<1> QED BY <1>7 DEF m0, m1, m2, m3, m4, m5, m6, e, no, u

LEMMA FirstSaid ==
  ASSUME NEW w, NEW c
  PROVE  /\ [Message EXCEPT !.role = w, !.content = c]
              = MessageOf(w, c, FALSE, <<>>, <<>>, <<>>)
<1> DEFINE e == <<>>
           no == FALSE
           u == "user"
<1> DEFINE m0 == Message
           m1 == [m0 EXCEPT !.role = w]
           m2 == [m1 EXCEPT !.content = c]
<1>1. m0 = MessageOf(u, e, no, e, e, e)
  BY MessageIs
<1> HIDE DEF e, no, u, m0
<1>2. m1 = MessageOf(w, e, no, e, e, e)
  BY <1>1, RoleSet
<1> HIDE DEF m1
<1>3. m2 = MessageOf(w, c, no, e, e, e)
  BY <1>2, ContentSet
<1> QED BY <1>3 DEF m0, m1, m2, e, no, u

LEMMA FirstAsked ==
  ASSUME NEW c
  PROVE  [Message EXCEPT !.content = c] = MessageOf("user", c, FALSE, <<>>, <<>>, <<>>)
<1> DEFINE e == <<>>
           no == FALSE
           u == "user"
<1> DEFINE m0 == Message
           m1 == [m0 EXCEPT !.content = c]
<1>1. m0 = MessageOf(u, e, no, e, e, e)
  BY MessageIs
<1> HIDE DEF e, no, u, m0
<1>2. m1 = MessageOf(u, c, no, e, e, e)
  BY <1>1, ContentSet
<1> QED BY <1>2 DEF m0, m1, e, no, u

-----------------------------------------------------------------------------
(* The parts a turn is made of.                                            *)

LEMMA AnsweredAre ==
  ASSUME NEW t, IsSeq(t.reply.calls)
  PROVE  /\ Len(Answered(t)) = Len(t.reply.calls) /\ Len(t.reply.calls) \in Nat
         /\ \A k \in 1..Len(t.reply.calls) :
              /\ CallFor(t, k) \in 1..Len(t.reply.calls)
              /\ Answered(t)[k] = t.reply.calls[CallFor(t, k)]
<1> DEFINE s == t.reply.calls
           n == Len(s)
           r == [i \in 1..n |-> s[(n - i) + 1]]
<1>1. n \in Nat
  BY SizeOfSeq
<1>2. IsSeq(r) /\ Len(r) = n
  BY <1>1, Numbered
<1>3. \A k \in 1..n : r[k] = s[(n - k) + 1]
  OBVIOUS
<1>4. Answered(t) = IF t.backwards THEN r ELSE s
  BY DEF Answered, Reverse
<1>5. \A k \in 1..n : CallFor(t, k) \in 1..n /\ CallFor(t, k) = IF t.backwards THEN (n - k) + 1 ELSE k
  BY <1>1 DEF CallFor
<1> HIDE DEF r, n, s
<1>6. CASE t.backwards
  BY <1>1, <1>2, <1>3, <1>4, <1>5, <1>6 DEF s, n
<1>7. CASE ~t.backwards
  BY <1>1, <1>4, <1>5, <1>7 DEF s, n
<1> QED BY <1>6, <1>7

\* A reply in one message.
LEMMA SaysOnce ==
  ASSUME NEW msgs, IsSeq(msgs), Settled(JoinedUp(msgs)), NEW c, NEW r, NEW cs,
         IsSeq(c), IsSeq(r), IsSeq(cs)
  PROVE  /\ IsSeq(Append(msgs, Speech(c, r, cs)))
         /\ JoinedUp(Append(msgs, Speech(c, r, cs))) = AddSpeech(JoinedUp(msgs), c, r, cs)
<1> DEFINE J == JoinedUp(msgs)
           x == Speech(c, r, cs)
           e == <<>>
<1>1. IsSeq(e) /\ e \o c = c /\ e \o r = r /\ e \o cs = cs
  BY NothingIsSeq, Concatenated
<1>2. AddSpeech(J, e, e, e) = J
  BY DEF AddSpeech
<1>3. Settled(J)
  OBVIOUS
<1> HIDE DEF e, J
<1>4. Joins(AddSpeech(J, e, e, e), x) = AddSpeech(J, e \o c, e \o r, e \o cs)
  <2>1. IsSeq(e)
    BY <1>1
  <2> QED BY <1>3, <2>1, SpeechJoins
<1> HIDE DEF x
<1>5. IsSeq(Append(msgs, x))
  BY Appended
<1>6. JoinedUp(Append(msgs, x)) = Joins(J, x)
  BY JoinsMore DEF J
<1> QED BY <1>1, <1>2, <1>4, <1>5, <1>6 DEF J, x

\* Ids that end with the number of the call tell the calls apart.
LEMMA OwnAreDistinct ==
  ASSUME NEW h, IsSeq(h), OwnIds(h), NEW cs, Len(cs) = Len(h),
         \A k \in 1..Len(h) : cs[k].id = h[k].id
  PROVE  DistinctIds(cs)
<1> DEFINE n == Len(h)
           x(k) == h[k].id
<1>1. n \in Nat
  BY SizeOfSeq
<1>2. \A k \in 1..n : x(k)[Len(x(k))] = k - 1
  BY DEF OwnIds, OwnId
<1>3. \A k \in 1..n : cs[k].id = x(k)
  OBVIOUS
<1> HIDE DEF n, x
<1>4. ASSUME NEW i \in 1..n, NEW j \in 1..n, x(i) = x(j)
      PROVE  i = j
  <2>1. i - 1 = j - 1
    BY <1>2, <1>4
  <2> QED BY <1>1, <2>1
<1> QED BY <1>3, <1>4 DEF DistinctIds, n

\* The answers by the ids of the calls.
LEMMA AnswersById ==
  ASSUME NEW t, IsSeq(t.reply.calls), NEW cs,
         \A k \in 1..Len(t.reply.calls) : cs[k].id = t.reply.calls[k].id
  PROVE  AnswerList([k \in 1..Len(Answered(t)) |->
                       Answer(Answered(t)[k].id, Result(Answered(t)[k].args))], cs, t)
<1> DEFINE n == Len(t.reply.calls)
           us == [k \in 1..Len(Answered(t)) |->
                    Answer(Answered(t)[k].id, Result(Answered(t)[k].args))]
<1>1. /\ Len(Answered(t)) = n /\ n \in Nat
      /\ \A k \in 1..n : CallFor(t, k) \in 1..n /\ Answered(t)[k] = t.reply.calls[CallFor(t, k)]
  BY AnsweredAre
<1>2. IsSeq(us) /\ Len(us) = n
  BY <1>1, Numbered
<1>3. \A k \in 1..n : us[k] = Answer(Answered(t)[k].id, Result(Answered(t)[k].args))
  BY <1>1
<1> HIDE DEF us, n
<1>4. ASSUME NEW k \in 1..n
      PROVE  us[k] = Answer(cs[CallFor(t, k)].id, Result(t.reply.calls[CallFor(t, k)].args))
  <2>1. CallFor(t, k) \in 1..n /\ Answered(t)[k] = t.reply.calls[CallFor(t, k)]
    BY <1>1
  <2>2. cs[CallFor(t, k)].id = t.reply.calls[CallFor(t, k)].id
    BY <2>1 DEF n
  <2> QED BY <1>3, <2>1, <2>2
<1>5. AnswerList(us, cs, t)
  BY <1>2, <1>4 DEF AnswerList, n
<1> QED BY <1>5 DEF us

\* Written calls like the calls said, as the gateway sends them.
LEMMA SentCalls ==
  ASSUME NEW us, NEW h, Alike("call", us, h), NEW cs,
         cs = [k \in 1..Len(us) |-> [id |-> us[k].id, name |-> us[k].name,
                                     args |-> Stable(us[k].args)]]
  PROVE  CallsMatch(cs, h) /\ \A k \in 1..Len(h) : cs[k].id = h[k].id
<1>1. /\ IsSeq(h) /\ Len(us) = Len(h) /\ Len(h) \in Nat
      /\ \A k \in 1..Len(h) : us[k].id = h[k].id /\ us[k].name = h[k].name
                              /\ us[k].args.value = h[k].args
  BY SizeOfSeq DEF Alike, Like
<1>2. IsSeq(cs) /\ Len(cs) = Len(h)
  BY <1>1, Numbered
<1>3. \A k \in 1..Len(h) : cs[k] = [id |-> us[k].id, name |-> us[k].name,
                                    args |-> Stable(us[k].args)]
  BY <1>1
<1>4. \A k \in 1..Len(h) : /\ cs[k].id = us[k].id /\ cs[k].name = us[k].name
                           /\ cs[k].args.value = us[k].args.value
  <2>1. \A x : Stable(x).value = x.value
    BY DEF Stable
  <2>2. ASSUME NEW k \in 1..Len(h)
        PROVE  /\ cs[k].id = us[k].id /\ cs[k].name = us[k].name
               /\ cs[k].args = Stable(us[k].args)
    <3> DEFINE x == [id |-> us[k].id, name |-> us[k].name, args |-> Stable(us[k].args)]
    <3>1. x.id = us[k].id /\ x.name = us[k].name /\ x.args = Stable(us[k].args)
      OBVIOUS
    <3>2. cs[k] = x
      BY <1>3
    <3> HIDE DEF x
    <3> QED BY <3>1, <3>2
  <2> QED BY <2>1, <2>2
<1> QED BY <1>1, <1>2, <1>4 DEF CallsMatch

-----------------------------------------------------------------------------
(* What is picked of a list that has one block or item more.               *)

LEMMA FlattenMore ==
  ASSUME NEW ss, NEW tt, IsSeq(ss), IsSeq(tt), Len(tt) = Len(ss) + 1,
         \A k \in 1..Len(ss) : tt[k] = ss[k], NEW x, tt[Len(ss) + 1] = x, IsSeq(x)
  PROVE  FlattenSeq(tt) = FlattenSeq(ss) \o x
<1> DEFINE n == Len(ss)
           uu == Append(ss, x)
<1>1. /\ IsSeq(uu) /\ n \in Nat /\ Len(uu) = n + 1 /\ uu[n + 1] = x
      /\ \A k \in 1..n : uu[k] = ss[k]
  BY Appended
<1>2. \A k \in 1..(n + 1) : k \in 1..n \/ k = n + 1
  BY <1>1
<1> HIDE DEF uu
<1>3. tt = uu
  BY <1>1, <1>2, SameSeq
<1>4. FlattenSeq(uu) = FlattenSeq(ss) \o x
  BY FlattenAppend DEF uu
<1> QED BY <1>3, <1>4

LEMMA OfTypeMore ==
  ASSUME NEW bs, IsSeq(bs), NEW b, NEW type
  PROVE  /\ OfType(Append(bs, b), type)
              = IF b.type = type THEN Append(OfType(bs, type), b) ELSE OfType(bs, type)
         /\ OtherThan(Append(bs, b), type)
              = IF b.type # type THEN Append(OtherThan(bs, type), b) ELSE OtherThan(bs, type)
<1> DEFINE n == Len(bs)
           more == Append(bs, b)
           e == <<>>
           w == <<b>>
           x == IF b.type = type THEN w ELSE e
           y == IF b.type # type THEN w ELSE e
           s == OfType(bs, type)
           o == OtherThan(bs, type)
<1>1. /\ IsSeq(more) /\ n \in Nat /\ Len(more) = n + 1 /\ more[n + 1] = b
      /\ \A k \in 1..n : more[k] = bs[k]
  BY Appended
<1>2. /\ IsSeq(Chosen(bs, type)) /\ Len(Chosen(bs, type)) = n
      /\ IsSeq(Others(bs, type)) /\ Len(Others(bs, type)) = n
      /\ \A k \in 1..n :
           /\ Chosen(bs, type)[k] = IF bs[k].type = type THEN <<bs[k]>> ELSE <<>>
           /\ Others(bs, type)[k] = IF bs[k].type # type THEN <<bs[k]>> ELSE <<>>
      /\ IsSeq(s) /\ IsSeq(o)
  BY ChosenAre
<1> HIDE DEF more
<1>3. /\ IsSeq(Chosen(more, type)) /\ Len(Chosen(more, type)) = n + 1
      /\ IsSeq(Others(more, type)) /\ Len(Others(more, type)) = n + 1
      /\ \A k \in 1..(n + 1) :
           /\ Chosen(more, type)[k] = IF more[k].type = type THEN <<more[k]>> ELSE <<>>
           /\ Others(more, type)[k] = IF more[k].type # type THEN <<more[k]>> ELSE <<>>
  BY <1>1, ChosenAre
<1>4. IsSeq(w) /\ IsSeq(e) /\ Append(s, b) = s \o w /\ Append(o, b) = o \o w
      /\ s \o e = s /\ o \o e = o
  BY <1>2, Single, NothingIsSeq, Concatenated
<1>5. IsSeq(x) /\ IsSeq(y)
  BY <1>4
<1>6. n + 1 \in 1..(n + 1) /\ \A k \in 1..n : k \in 1..(n + 1)
  BY <1>1
<1>7. Chosen(more, type)[n + 1] = x /\ Others(more, type)[n + 1] = y
  BY <1>1, <1>3, <1>6
<1>8. \A k \in 1..n : /\ Chosen(more, type)[k] = Chosen(bs, type)[k]
                      /\ Others(more, type)[k] = Others(bs, type)[k]
  BY <1>1, <1>2, <1>3, <1>6
<1> HIDE DEF x, y, n
<1>9. FlattenSeq(Chosen(more, type)) = FlattenSeq(Chosen(bs, type)) \o x
  BY <1>2, <1>3, <1>5, <1>7, <1>8, FlattenMore
<1>10. FlattenSeq(Others(more, type)) = FlattenSeq(Others(bs, type)) \o y
  BY <1>2, <1>3, <1>5, <1>7, <1>8, FlattenMore
<1>11. OfType(more, type) = s \o x
  BY <1>9 DEF OfType, Chosen
<1>12. OtherThan(more, type) = o \o y
  BY <1>10 DEF OtherThan, Others
<1> HIDE DEF s, o, w, e
<1>13. OfType(more, type) = IF b.type = type THEN Append(s, b) ELSE s
  BY <1>4, <1>11 DEF x
<1>14. OtherThan(more, type) = IF b.type # type THEN Append(o, b) ELSE o
  BY <1>4, <1>12 DEF y
<1> QED BY <1>13, <1>14 DEF s, o, more

LEMMA PiecesMore ==
  ASSUME NEW bs, IsSeq(bs), NEW b, NEW type, b.type = type => IsSeq(b.piece)
  PROVE  /\ b.type = type => Pieces(Append(bs, b), type) = Pieces(bs, type) \o b.piece
         /\ b.type # type => Pieces(Append(bs, b), type) = Pieces(bs, type)
<1> DEFINE s == OfType(bs, type)
           more == Append(bs, b)
           t == Append(s, b)
           n == Len(s)
           f == [k \in 1..n |-> s[k].piece]
           g == [k \in 1..Len(t) |-> t[k].piece]
<1>1. OfType(more, type) = IF b.type = type THEN t ELSE s
  BY OfTypeMore
<1>2. IsSeq(s)
  BY ChosenAre
<1>3. Pieces(bs, type) = FlattenSeq(f)
  BY DEF Pieces
<1> HIDE DEF s
<1>4. /\ n \in Nat /\ Len(t) = n + 1 /\ t[n + 1] = b /\ \A k \in 1..n : t[k] = s[k]
  BY <1>2, Appended
<1>5. CASE b.type # type
  <2>1. OfType(more, type) = s
    BY <1>1, <1>5
  <2>2. Pieces(more, type) = FlattenSeq(f)
    BY <2>1 DEF Pieces
  <2> QED BY <1>3, <1>5, <2>2
<1>6. CASE b.type = type
  <2>1. OfType(more, type) = t
    BY <1>1, <1>6
  <2>2. Pieces(more, type) = FlattenSeq(g)
    BY <2>1 DEF Pieces
  <2>3. IsSeq(f) /\ Len(f) = n
    BY <1>4, Numbered
  <2>4. \A k \in 1..n : f[k] = s[k].piece
    OBVIOUS
  <2> HIDE DEF t
  <2>5. IsSeq(g) /\ Len(g) = n + 1
    <3>1. n + 1 \in Nat /\ Len(t) = n + 1
      BY <1>4
    <3>2. Len(t) \in Nat
      BY <3>1
    <3>3. IsSeq(g) /\ Len(g) = Len(t)
      BY <3>2, Numbered
    <3> QED BY <3>1, <3>3
  <2>6. g[n + 1] = b.piece /\ \A k \in 1..n : g[k] = s[k].piece
    BY <1>4
  <2> HIDE DEF f, g, n
  <2>7. FlattenSeq(g) = FlattenSeq(f) \o b.piece
    BY <1>6, <2>3, <2>4, <2>5, <2>6, FlattenMore
  <2> QED BY <1>3, <1>6, <2>2, <2>7
<1> QED BY <1>5, <1>6

\* What is joined of a type, and the calls, with a block or an item more.
MoreJoined(bs, b, type) ==
  /\ Join(Append(bs, b), type) = Join(bs, type) \o IF b.type = type THEN Body(b) ELSE <<>>
  /\ CallsIn(Append(bs, b), type)
       = CallsIn(bs, type) \o IF b.type = type THEN <<AsCall(b)>> ELSE <<>>

LEMMA JoinMore ==
  ASSUME NEW bs, IsSeq(bs), NEW b, NEW type, IsSeq(Body(b))
  PROVE  MoreJoined(bs, b, type)
<1> DEFINE n == Len(bs)
           more == Append(bs, b)
           e == <<>>
           x == IF b.type = type THEN Body(b) ELSE e
           y == IF b.type = type THEN <<AsCall(b)>> ELSE e
           F(s) == [k \in 1..Len(s) |-> IF s[k].type = type THEN Body(s[k]) ELSE e]
           G(s) == [k \in 1..Len(s) |-> IF s[k].type = type THEN <<AsCall(s[k])>> ELSE e]
<1>1. /\ IsSeq(more) /\ n \in Nat /\ Len(more) = n + 1 /\ more[n + 1] = b
      /\ \A k \in 1..n : more[k] = bs[k]
  BY Appended
<1> HIDE DEF more
<1>2. IsSeq(F(bs)) /\ Len(F(bs)) = n
  BY <1>1, Numbered
<1>3. IsSeq(G(bs)) /\ Len(G(bs)) = n
  BY <1>1, Numbered
<1>4. IsSeq(F(more)) /\ Len(F(more)) = n + 1
  <2>1. Len(more) \in Nat
    BY <1>1
  <2>2. IsSeq(F(more)) /\ Len(F(more)) = Len(more)
    BY <2>1, Numbered
  <2> QED BY <1>1, <2>2
<1>5. IsSeq(G(more)) /\ Len(G(more)) = n + 1
  <2>1. Len(more) \in Nat
    BY <1>1
  <2>2. IsSeq(G(more)) /\ Len(G(more)) = Len(more)
    BY <2>1, Numbered
  <2> QED BY <1>1, <2>2
<1>6. n + 1 \in 1..(n + 1) /\ \A k \in 1..n : k \in 1..(n + 1)
  BY <1>1
<1>7. F(more)[n + 1] = x /\ \A k \in 1..n : F(more)[k] = F(bs)[k]
  BY <1>1, <1>6
<1>8. G(more)[n + 1] = y /\ \A k \in 1..n : G(more)[k] = G(bs)[k]
  BY <1>1, <1>6
<1>9. Join(bs, type) = FlattenSeq(F(bs)) /\ CallsIn(bs, type) = FlattenSeq(G(bs))
  BY DEF Join, CallsIn
<1>10. Join(more, type) = FlattenSeq(F(more)) /\ CallsIn(more, type) = FlattenSeq(G(more))
  BY DEF Join, CallsIn
<1>11. IsSeq(x) /\ IsSeq(y)
  <2>1. IsSeq(e) /\ IsSeq(<<AsCall(b)>>)
    BY NothingIsSeq, Single
  <2> QED BY <2>1
<1> HIDE DEF F, G, x, y, n
<1>12. FlattenSeq(F(more)) = FlattenSeq(F(bs)) \o x
  BY <1>2, <1>4, <1>7, <1>11, FlattenMore
<1>13. FlattenSeq(G(more)) = FlattenSeq(G(bs)) \o y
  BY <1>3, <1>5, <1>8, <1>11, FlattenMore
<1>14. Join(more, type) = Join(bs, type) \o x /\ CallsIn(more, type) = CallsIn(bs, type) \o y
  BY <1>9, <1>10, <1>12, <1>13
<1> QED BY <1>14 DEF MoreJoined, x, y, more

LEMMA JoinGrows ==
  ASSUME NEW bs, ListOK(bs), NEW b, IsSeq(Body(b))
  PROVE  /\ Join(Append(bs, b), b.type) = Join(bs, b.type) \o Body(b)
         /\ CallsIn(Append(bs, b), b.type) = Append(CallsIn(bs, b.type), AsCall(b))
<1> DEFINE type == b.type
           w == <<AsCall(b)>>
<1>1. MoreJoined(bs, b, type) /\ IsSeq(CallsIn(bs, type))
  BY JoinMore, JoinIsSeq DEF ListOK
<1>2. Append(CallsIn(bs, type), AsCall(b)) = CallsIn(bs, type) \o w
  BY <1>1, Single
<1> HIDE DEF w
<1>3. Join(Append(bs, b), type) = Join(bs, type) \o Body(b)
      /\ CallsIn(Append(bs, b), type) = CallsIn(bs, type) \o w
  BY <1>1 DEF MoreJoined, w
<1> QED BY <1>2, <1>3

LEMMA JoinStays ==
  ASSUME NEW bs, ListOK(bs), NEW b, IsSeq(Body(b)), NEW type, b.type # type
  PROVE  /\ Join(Append(bs, b), type) = Join(bs, type)
         /\ CallsIn(Append(bs, b), type) = CallsIn(bs, type)
<1> DEFINE e == <<>>
<1>1. MoreJoined(bs, b, type) /\ IsSeq(Join(bs, type)) /\ IsSeq(CallsIn(bs, type))
  BY JoinMore, JoinIsSeq DEF ListOK
<1>2. Join(bs, type) \o e = Join(bs, type) /\ CallsIn(bs, type) \o e = CallsIn(bs, type)
  BY <1>1, Concatenated
<1> HIDE DEF e
<1>3. /\ Join(Append(bs, b), type) = Join(bs, type) \o e
      /\ CallsIn(Append(bs, b), type) = CallsIn(bs, type) \o e
  BY <1>1 DEF MoreJoined, e
<1> QED BY <1>2, <1>3

\* Lists with none of a type, with that type only, and two lists together.
LEMMA OfTypeNone ==
  ASSUME NEW bs, IsSeq(bs), NEW type, \A k \in 1..Len(bs) : bs[k].type # type
  PROVE  OfType(bs, type) = <<>> /\ OtherThan(bs, type) = bs
<1> DEFINE n == Len(bs)
<1>1. /\ IsSeq(Chosen(bs, type)) /\ Len(Chosen(bs, type)) = n
      /\ IsSeq(Others(bs, type)) /\ Len(Others(bs, type)) = n
      /\ \A k \in 1..n :
           /\ Chosen(bs, type)[k] = IF bs[k].type = type THEN <<bs[k]>> ELSE <<>>
           /\ Others(bs, type)[k] = IF bs[k].type # type THEN <<bs[k]>> ELSE <<>>
  BY ChosenAre
<1>2. /\ \A k \in 1..n : Chosen(bs, type)[k] = <<>>
      /\ \A k \in 1..n : Others(bs, type)[k] = <<bs[k]>>
  BY <1>1
<1>3. FlattenSeq(Chosen(bs, type)) = <<>>
  BY <1>1, <1>2, FlattenEmpties
<1>4. FlattenSeq(Others(bs, type)) = bs
  BY <1>1, <1>2, FlattenSingles
<1>5. OfType(bs, type) = FlattenSeq(Chosen(bs, type))
  BY DEF OfType, Chosen
<1>6. OtherThan(bs, type) = FlattenSeq(Others(bs, type))
  BY DEF OtherThan, Others
<1> QED BY <1>3, <1>4, <1>5, <1>6

LEMMA OfTypeAll ==
  ASSUME NEW bs, IsSeq(bs), NEW type, \A k \in 1..Len(bs) : bs[k].type = type
  PROVE  OfType(bs, type) = bs /\ OtherThan(bs, type) = <<>>
<1> DEFINE n == Len(bs)
<1>1. /\ IsSeq(Chosen(bs, type)) /\ Len(Chosen(bs, type)) = n
      /\ IsSeq(Others(bs, type)) /\ Len(Others(bs, type)) = n
      /\ \A k \in 1..n :
           /\ Chosen(bs, type)[k] = IF bs[k].type = type THEN <<bs[k]>> ELSE <<>>
           /\ Others(bs, type)[k] = IF bs[k].type # type THEN <<bs[k]>> ELSE <<>>
  BY ChosenAre
<1>2. /\ \A k \in 1..n : Others(bs, type)[k] = <<>>
      /\ \A k \in 1..n : Chosen(bs, type)[k] = <<bs[k]>>
  BY <1>1
<1>3. FlattenSeq(Others(bs, type)) = <<>>
  BY <1>1, <1>2, FlattenEmpties
<1>4. FlattenSeq(Chosen(bs, type)) = bs
  BY <1>1, <1>2, FlattenSingles
<1>5. OfType(bs, type) = FlattenSeq(Chosen(bs, type))
  BY DEF OfType, Chosen
<1>6. OtherThan(bs, type) = FlattenSeq(Others(bs, type))
  BY DEF OtherThan, Others
<1> QED BY <1>3, <1>4, <1>5, <1>6

LEMMA OfTypeBoth ==
  ASSUME NEW s, NEW u, IsSeq(s), IsSeq(u), NEW type
  PROVE  /\ OfType(s \o u, type) = OfType(s, type) \o OfType(u, type)
         /\ OtherThan(s \o u, type) = OtherThan(s, type) \o OtherThan(u, type)
<1> DEFINE p == s \o u
           m == Len(s)
           n == Len(u)
           C(bs) == Chosen(bs, type)
           D(bs) == Others(bs, type)
<1>1. /\ IsSeq(p) /\ m \in Nat /\ n \in Nat /\ Len(p) = m + n
      /\ \A i \in 1..m : p[i] = s[i]
      /\ \A i \in 1..n : p[m + i] = u[i]
  BY Catenated
<1> HIDE DEF p
<1>2. ASSUME NEW bs, IsSeq(bs)
      PROVE  /\ IsSeq(C(bs)) /\ Len(C(bs)) = Len(bs) /\ IsSeq(D(bs)) /\ Len(D(bs)) = Len(bs)
             /\ \A k \in 1..Len(bs) : /\ C(bs)[k] = IF bs[k].type = type THEN <<bs[k]>> ELSE <<>>
                                      /\ D(bs)[k] = IF bs[k].type # type THEN <<bs[k]>> ELSE <<>>
             /\ OfType(bs, type) = FlattenSeq(C(bs)) /\ OtherThan(bs, type) = FlattenSeq(D(bs))
  <2>1. OfType(bs, type) = FlattenSeq(C(bs)) /\ OtherThan(bs, type) = FlattenSeq(D(bs))
    BY DEF OfType, OtherThan, Chosen, Others
  <2> QED BY <1>2, <2>1, ChosenAre
<1> HIDE DEF C, D
<1>3. ASSUME NEW bs, IsSeq(bs)
      PROVE  \A k \in 1..Len(bs) : IsSeq(C(bs)[k]) /\ IsSeq(D(bs)[k])
  <2>1. \A x : IsSeq(<<x>>)
    BY Single
  <2> QED BY <1>2, <1>3, <2>1, NothingIsSeq
<1>0. /\ IsSeq(C(s)) /\ Len(C(s)) = m /\ IsSeq(C(u)) /\ Len(C(u)) = n
      /\ IsSeq(D(s)) /\ Len(D(s)) = m /\ IsSeq(D(u)) /\ Len(D(u)) = n
      /\ IsSeq(C(p)) /\ Len(C(p)) = m + n /\ IsSeq(D(p)) /\ Len(D(p)) = m + n
  BY <1>1, <1>2
<1>4. /\ IsSeq(C(s) \o C(u)) /\ Len(C(s) \o C(u)) = m + n
      /\ \A i \in 1..m : (C(s) \o C(u))[i] = C(s)[i]
      /\ \A i \in 1..n : (C(s) \o C(u))[m + i] = C(u)[i]
  <2> DEFINE a == C(s)
             b == C(u)
             q == a \o b
  <2>1. IsSeq(a) /\ IsSeq(b) /\ m = Len(a) /\ n = Len(b)
    BY <1>0
  <2> HIDE DEF m, n, a, b
  <2>2. /\ IsSeq(q) /\ Len(q) = Len(a) + Len(b)
        /\ \A i \in 1..Len(a) : q[i] = a[i]
        /\ \A i \in 1..Len(b) : q[Len(a) + i] = b[i]
    BY <2>1, Catenated
  <2> HIDE DEF q
  <2>3. /\ IsSeq(q) /\ Len(q) = m + n
        /\ \A i \in 1..m : q[i] = a[i]
        /\ \A i \in 1..n : q[m + i] = b[i]
    BY <2>1, <2>2
  <2> QED BY <2>3 DEF q, a, b
<1>5. /\ IsSeq(D(s) \o D(u)) /\ Len(D(s) \o D(u)) = m + n
      /\ \A i \in 1..m : (D(s) \o D(u))[i] = D(s)[i]
      /\ \A i \in 1..n : (D(s) \o D(u))[m + i] = D(u)[i]
  <2> DEFINE a == D(s)
             b == D(u)
             q == a \o b
  <2>1. IsSeq(a) /\ IsSeq(b) /\ m = Len(a) /\ n = Len(b)
    BY <1>0
  <2> HIDE DEF m, n, a, b
  <2>2. /\ IsSeq(q) /\ Len(q) = Len(a) + Len(b)
        /\ \A i \in 1..Len(a) : q[i] = a[i]
        /\ \A i \in 1..Len(b) : q[Len(a) + i] = b[i]
    BY <2>1, Catenated
  <2> HIDE DEF q
  <2>3. /\ IsSeq(q) /\ Len(q) = m + n
        /\ \A i \in 1..m : q[i] = a[i]
        /\ \A i \in 1..n : q[m + i] = b[i]
    BY <2>1, <2>2
  <2> QED BY <2>3 DEF q, a, b
<1> HIDE DEF m, n
<1>6. ASSUME NEW k \in 1..(m + n)
      PROVE  C(p)[k] = (C(s) \o C(u))[k] /\ D(p)[k] = (D(s) \o D(u))[k]
  <2>0. /\ C(p)[k] = IF p[k].type = type THEN <<p[k]>> ELSE <<>>
        /\ D(p)[k] = IF p[k].type # type THEN <<p[k]>> ELSE <<>>
    BY <1>1, <1>2
  <2>1. k \in 1..m \/ (k - m \in 1..n /\ m + (k - m) = k)
    BY <1>1
  <2>2. CASE k \in 1..m
    <3>1. /\ C(s)[k] = IF s[k].type = type THEN <<s[k]>> ELSE <<>>
          /\ D(s)[k] = IF s[k].type # type THEN <<s[k]>> ELSE <<>>
      BY <1>2, <2>2 DEF m
    <3> QED BY <1>1, <1>4, <1>5, <2>0, <2>2, <3>1
  <2>3. CASE k - m \in 1..n /\ m + (k - m) = k
    <3> DEFINE i == k - m
    <3>1. i \in 1..n /\ m + i = k
      BY <2>3
    <3> HIDE DEF i
    <3>2. /\ C(u)[i] = IF u[i].type = type THEN <<u[i]>> ELSE <<>>
          /\ D(u)[i] = IF u[i].type # type THEN <<u[i]>> ELSE <<>>
      BY <1>2, <3>1 DEF n
    <3>3. p[k] = u[i]
      BY <1>1, <3>1
    <3>4. (C(s) \o C(u))[k] = C(u)[i] /\ (D(s) \o D(u))[k] = D(u)[i]
      BY <1>4, <1>5, <3>1
    <3> QED BY <2>0, <3>2, <3>3, <3>4
  <2> QED BY <2>1, <2>2, <2>3
<1>7. C(p) = C(s) \o C(u)
  <2> DEFINE v == C(s) \o C(u)
  <2>1. IsSeq(v) /\ Len(v) = Len(C(p)) /\ \A k \in 1..Len(C(p)) : C(p)[k] = v[k]
    BY <1>0, <1>4, <1>6
  <2> HIDE DEF v
  <2>2. C(p) = v
    BY <1>0, <2>1, SameSeq
  <2> QED BY <2>2 DEF v
<1>8. D(p) = D(s) \o D(u)
  <2> DEFINE v == D(s) \o D(u)
  <2>1. IsSeq(v) /\ Len(v) = Len(D(p)) /\ \A k \in 1..Len(D(p)) : D(p)[k] = v[k]
    BY <1>0, <1>5, <1>6
  <2> HIDE DEF v
  <2>2. D(p) = v
    BY <1>0, <2>1, SameSeq
  <2> QED BY <2>2 DEF v
<1>9. FlattenSeq(C(s) \o C(u)) = FlattenSeq(C(s)) \o FlattenSeq(C(u))
  BY <1>2, <1>3, FlattenBoth DEF m, n
<1>10. FlattenSeq(D(s) \o D(u)) = FlattenSeq(D(s)) \o FlattenSeq(D(u))
  BY <1>2, <1>3, FlattenBoth DEF m, n
<1>11. OfType(p, type) = OfType(s, type) \o OfType(u, type)
  BY <1>1, <1>2, <1>7, <1>9
<1>12. OtherThan(p, type) = OtherThan(s, type) \o OtherThan(u, type)
  BY <1>1, <1>2, <1>8, <1>10
<1> QED BY <1>11, <1>12 DEF p

\* The pieces of a type, joined, are what the blocks of the type say.
LEMMA PiecesJoined ==
  ASSUME NEW bs, ListOK(bs), NEW a, IsSeq(a), Len(a) = Len(bs), NEW type, type # "tool_use",
         \A k \in 1..Len(bs) : /\ a[k].type = bs[k].type
                               /\ a[k].type # "tool_use" => a[k].piece = Body(bs[k])
  PROVE  Pieces(a, type) = Join(bs, type)
<1> DEFINE N == Len(bs)
           S == {n \in Nat : n <= N => Pieces(Opening(a, n), type) = Join(Opening(bs, n), type)}
           e == <<>>
<1>1. N \in Nat /\ Len(a) = N /\ IsSeq(bs) /\ \A k \in 1..N : IsSeq(Body(bs[k]))
  BY SizeOfSeq DEF ListOK
<1>2. 0 \in S
  <2>1. Opening(a, 0) = e /\ Opening(bs, 0) = e
    BY <1>1, BeginsOf
  <2>2. IsSeq(e) /\ Len(e) = 0
    BY NothingIsSeq
  <2>3. OfType(e, type) = e
    BY <2>2, OfTypeNone
  <2>4. [k \in 1..Len(e) |-> e[k].piece] = e
    BY <2>2
  <2>5. Pieces(e, type) = FlattenSeq(e)
    BY <2>3, <2>4 DEF Pieces
  <2>6. Join(e, type) = FlattenSeq(e)
    <3>1. [k \in 1..Len(e) |-> IF e[k].type = type THEN Body(e[k]) ELSE <<>>] = e
      BY <2>2
    <3> QED BY <3>1 DEF Join
  <2> HIDE DEF e
  <2> QED BY <2>1, <2>5, <2>6
<1>3. ASSUME NEW n \in Nat, n \in S
      PROVE  n + 1 \in S
  <2> SUFFICES ASSUME n + 1 <= N
               PROVE  Pieces(Opening(a, n + 1), type) = Join(Opening(bs, n + 1), type)
    OBVIOUS
  <2> DEFINE p == Opening(a, n)
             q == Opening(bs, n)
             x == a[n + 1]
             y == bs[n + 1]
  <2>1. n < N /\ n <= N /\ n + 1 \in 1..N
    BY <1>1
  <2>2. Pieces(p, type) = Join(q, type)
    BY <1>3, <2>1
  <2>3. IsSeq(p) /\ Opening(a, n + 1) = Append(p, x)
    BY <1>1, <2>1, BeginsOf
  <2>4. ListOK(q) /\ Opening(bs, n + 1) = Append(q, y)
    <3>1. IsSeq(q) /\ Len(q) = n /\ (\A k \in 1..n : q[k] = bs[k]) /\ Opening(bs, n + 1) = Append(q, y)
      BY <1>1, <2>1, BeginsOf
    <3>2. \A k \in 1..n : k \in 1..N
      BY <1>1, <2>1
    <3> QED BY <1>1, <3>1, <3>2 DEF ListOK
  <2>5. x.type = y.type /\ IsSeq(Body(y)) /\ (x.type # "tool_use" => x.piece = Body(y))
    BY <1>1, <2>1
  <2> HIDE DEF p, q, x, y, e
  <2>7. CASE y.type = type
    <3>1. Pieces(Append(p, x), type) = Pieces(p, type) \o x.piece
      BY <2>3, <2>5, <2>7, PiecesMore
    <3>2. Join(Append(q, y), type) = Join(q, type) \o Body(y)
      BY <2>4, <2>5, <2>7, JoinGrows
    <3> QED BY <2>2, <2>3, <2>4, <2>5, <2>7, <3>1, <3>2
  <2>8. CASE y.type # type
    <3>1. Pieces(Append(p, x), type) = Pieces(p, type)
      BY <2>3, <2>5, <2>8, PiecesMore
    <3>2. Join(Append(q, y), type) = Join(q, type)
      BY <2>4, <2>5, <2>8, JoinStays
    <3> QED BY <2>2, <2>3, <2>4, <3>1, <3>2
  <2> QED BY <2>7, <2>8
<1>4. \A n \in Nat : n \in S
  <2> HIDE DEF S
  <2> QED BY <1>2, <1>3, SetInduction
<1>5. Pieces(Opening(a, N), type) = Join(Opening(bs, N), type)
  BY <1>1, <1>4
<1>6. Opening(a, N) = a /\ Opening(bs, N) = bs
  BY <1>1, BeginsOf
<1> QED BY <1>5, <1>6

-----------------------------------------------------------------------------
(* A turn of an Anthropic conversation.                                    *)

\* The blocks of the reply as they are written.
LEMMA BlocksWritten ==
  ASSUME NEW t, BlockList(t.kept), NEW keys, NEW a, a = AnthropicBlocks(t, keys)
  PROVE  /\ IsSeq(a) /\ Len(a) = Len(t.kept)
         /\ \A k \in 1..Len(t.kept) :
              /\ a[k].type = t.kept[k].type /\ a[k].type \in BlockTypes
              /\ a[k].type # "tool_use" => a[k].piece = Body(t.kept[k])
         /\ Alike("call", OfType(a, "tool_use"), CallsIn(t.kept, "tool_use"))
<1> DEFINE bs == t.kept
           N == Len(bs)
           ss == Chosen(a, "tool_use")
           tt == [k \in 1..N |-> IF bs[k].type = "tool_use" THEN <<AsCall(bs[k])>> ELSE <<>>]
<1>1. N \in Nat /\ IsSeq(bs)
      /\ \A k \in 1..N : DOMAIN bs[k] = BlockFields /\ bs[k].type \in BlockTypes
  BY SizeOfSeq DEF BlockList, ListOK
<1>2. IsSeq(a) /\ Len(a) = N /\ \A k \in 1..N : a[k] = AnthropicBlock(bs[k], keys)
  <2>1. IsSeq(a) /\ Len(a) = N
    BY <1>1, Numbered DEF AnthropicBlocks
  <2>2. \A k \in 1..N : a[k] = AnthropicBlock(bs[k], keys)
    BY DEF AnthropicBlocks
  <2> QED BY <2>1, <2>2
<1>3. ASSUME NEW k \in 1..N
      PROVE  /\ a[k].type = bs[k].type
             /\ a[k].type # "tool_use" => a[k].piece = Body(bs[k])
             /\ a[k].type = "tool_use" => Like("call", a[k], AsCall(bs[k]))
  <2> DEFINE b == bs[k]
             x == AnthropicBlock(b, keys)
  <2>1. a[k] = x /\ DOMAIN b = BlockFields
    BY <1>1, <1>2
  <2>2. Body(b) = b.piece /\ AsCall(b) = [id |-> b.id, name |-> b.name, args |-> b.piece]
    BY <2>1 DEF Body, AsCall, BlockFields
  <2> HIDE DEF b
  <2>3. CASE b.type = "tool_use"
    <3>1. x = [type |-> b.type, id |-> b.id, name |-> b.name, args |-> Args(b.piece, keys),
               piece |-> <<>>]
      BY <2>3 DEF AnthropicBlock
    <3>2. x.type = b.type /\ x.id = b.id /\ x.name = b.name /\ x.args = Args(b.piece, keys)
      <4> HIDE DEF x
      <4> QED BY <3>1
    <3> HIDE DEF x
    <3>3. x.args.value = b.piece
      BY <3>2 DEF Args
    <3>4. Like("call", x, AsCall(b))
      BY <2>2, <3>2, <3>3 DEF Like
    <3> QED BY <2>1, <2>3, <3>2, <3>4 DEF b
  <2>4. CASE b.type # "tool_use"
    <3>1. x = [type |-> b.type, piece |-> b.piece]
      BY <2>4 DEF AnthropicBlock
    <3>2. x.type = b.type /\ x.piece = b.piece
      BY <3>1
    <3> HIDE DEF x
    <3> QED BY <2>1, <2>2, <2>4, <3>2 DEF b
  <2> QED BY <2>3, <2>4
<1>4. /\ IsSeq(ss) /\ Len(ss) = N
      /\ \A k \in 1..N : ss[k] = IF a[k].type = "tool_use" THEN <<a[k]>> ELSE <<>>
  BY <1>2, ChosenAre
<1>5. IsSeq(tt) /\ Len(tt) = N
  BY <1>1, Numbered
<1>6. \A k \in 1..N : tt[k] = IF bs[k].type = "tool_use" THEN <<AsCall(bs[k])>> ELSE <<>>
  OBVIOUS
<1>7. OfType(a, "tool_use") = FlattenSeq(ss)
  BY DEF OfType, Chosen
<1>8. CallsIn(bs, "tool_use") = FlattenSeq(tt)
  BY DEF CallsIn
<1> HIDE DEF ss, tt, bs, N
<1>9. ASSUME NEW k \in 1..N
      PROVE  Alike("call", ss[k], tt[k])
  <2>1. CASE a[k].type = "tool_use"
    <3>1. Alike("call", <<a[k]>>, <<AsCall(bs[k])>>)
      BY <1>3, <2>1, OneAlike
    <3>2. ss[k] = <<a[k]>> /\ tt[k] = <<AsCall(bs[k])>>
      BY <1>3, <1>4, <1>6, <2>1
    <3> QED BY <3>1, <3>2
  <2>2. CASE a[k].type # "tool_use"
    <3> DEFINE e == <<>>
    <3>1. IsSeq(e) /\ Len(e) = 0
      BY NothingIsSeq
    <3>2. Alike("call", e, e)
      <4> HIDE DEF e
      <4> QED BY <3>1 DEF Alike
    <3>3. ss[k] = e /\ tt[k] = e
      BY <1>3, <1>4, <1>6, <2>2
    <3> QED BY <3>2, <3>3
  <2> QED BY <2>1, <2>2
<1>10. Alike("call", FlattenSeq(ss), FlattenSeq(tt))
  BY <1>4, <1>5, <1>9, AlikeFlat
<1> QED BY <1>1, <1>2, <1>3, <1>7, <1>8, <1>10 DEF bs, N

\* The reply, in one message.
LEMMA AnthropicReply ==
  ASSUME NEW t, TurnTold("anthropic", t), NEW keys, NEW x,
         x = [role |-> "assistant", blocks |-> AnthropicBlocks(t, keys)]
  PROVE  \E cs : /\ FromAnthropic(x) = <<Speech(t.reply.text, t.reply.reasoning, cs)>>
                 /\ CallsMatch(cs, t.reply.calls)
                 /\ \A k \in 1..Len(t.reply.calls) : cs[k].id = t.reply.calls[k].id
<1> DEFINE a == AnthropicBlocks(t, keys)
           us == OfType(a, "tool_use")
           h == t.reply.calls
           c == t.reply.text
           r == t.reply.reasoning
           e == <<>>
           cs == [k \in 1..Len(us) |-> [id |-> us[k].id, name |-> us[k].name,
                                        args |-> Stable(us[k].args)]]
<1>1. BlockList(t.kept) /\ t.reply = FromBlocks(t.kept)
  BY DEF TurnTold
<1>2. /\ IsSeq(a) /\ Len(a) = Len(t.kept)
      /\ \A k \in 1..Len(t.kept) :
           /\ a[k].type = t.kept[k].type /\ a[k].type \in BlockTypes
           /\ a[k].type # "tool_use" => a[k].piece = Body(t.kept[k])
      /\ Alike("call", us, CallsIn(t.kept, "tool_use"))
  BY <1>1, BlocksWritten
<1>3. h = CallsIn(t.kept, "tool_use") /\ c = Join(t.kept, "text") /\ r = Join(t.kept, "thinking")
  BY <1>1 DEF FromBlocks
<1>4. x.role = "assistant" /\ x.blocks = a
  OBVIOUS
<1> HIDE DEF a, h, c, r
<1>5. Pieces(a, "text") = c /\ Pieces(a, "thinking") = r
  BY <1>1, <1>2, <1>3, PiecesJoined DEF BlockList
<1>6. OfType(a, "tool_result") = e /\ OfType(a, "image") = e
  BY <1>2, OfTypeNone DEF BlockTypes
<1>7. CallsMatch(cs, h) /\ \A k \in 1..Len(h) : cs[k].id = h[k].id
  <2> HIDE DEF us
  <2> QED BY <1>2, <1>3, SentCalls
<1>8. FromAnthropic(x) = IF us # e THEN <<WithToolUses(a)>> ELSE <<Plain("assistant", a)>>
  <2> HIDE DEF us, e
  <2> QED BY <1>4, <1>6 DEF FromAnthropic, us, e
<1>9. WithToolUses(a) = Speech(c, r, cs)
  BY <1>5 DEF WithToolUses, Speech
<1>10. us = e => Plain("assistant", a) = Speech(c, r, cs)
  <2> SUFFICES ASSUME us = e PROVE Plain("assistant", a) = Speech(c, r, cs)
    OBVIOUS
  <2> DEFINE no == FALSE
             w == "assistant"
             i == OfType(a, "image") # e
  <2>1. Plain(w, a) = MessageOf(w, Pieces(a, "text"), i, Pieces(a, "thinking"), e, e)
    BY PlainOf
  <2>2. Speech(c, r, cs) = MessageOf(w, c, no, r, cs, e)
    BY SpeechOf
  <2>3. i = no
    BY <1>6
  <2>4. cs = e
    BY Concatenated DEF e
  <2> HIDE DEF i, no, w, cs, e
  <2> QED BY <1>5, <2>1, <2>2, <2>3, <2>4 DEF w
<1> HIDE DEF cs, us, e
<1>11. FromAnthropic(x) = <<Speech(c, r, cs)>>
  BY <1>8, <1>9, <1>10
<1> QED BY <1>7, <1>11 DEF h, c, r

LEMMA PiecesNone ==
  ASSUME NEW bs, IsSeq(bs), NEW type, \A k \in 1..Len(bs) : bs[k].type # type
  PROVE  Pieces(bs, type) = <<>>
<1> DEFINE e == <<>>
<1>1. IsSeq(e) /\ Len(e) = 0
  BY NothingIsSeq
<1>2. OfType(bs, type) = e
  BY OfTypeNone
<1>3. [k \in 1..Len(e) |-> e[k].piece] = e
  BY <1>1
<1>4. Pieces(bs, type) = FlattenSeq(e)
  BY <1>2, <1>3 DEF Pieces
<1>5. FlattenSeq(e) = e
  <2> HIDE DEF e
  <2> QED BY <1>1, FlattenEmpties DEF e
<1> QED BY <1>4, <1>5

\* The words and the image beside the answers.
LEMMA MoreIs ==
  ASSUME NEW t, IsSeq(t.words)
  PROVE  /\ IsSeq(AnthropicMore(t))
         /\ \A k \in 1..Len(AnthropicMore(t)) : AnthropicMore(t)[k].type \in {"text", "image"}
         /\ ~t.more => AnthropicMore(t) = <<>> /\ RemarkOf(t) = <<>>
         /\ t.more => /\ Plain("user", AnthropicMore(t)).image = TRUE
                      /\ RemarkOf(t) = <<Plain("user", AnthropicMore(t))>>
<1> DEFINE e == <<>>
           q == AnthropicMore(t)
           x == [type |-> "text", piece |-> t.words]
           y == [type |-> "image", piece |-> <<>>]
           w == <<x>>
           v == <<x, y>>
<1>1. q = IF ~t.more THEN e ELSE v
  BY DEF AnthropicMore
<1>2. x.type = "text" /\ x.piece = t.words /\ y.type = "image"
  OBVIOUS
<1>3. CASE ~t.more
  <2>1. q = e /\ RemarkOf(t) = e
    BY <1>1, <1>3, RemarkIs
  <2>2. IsSeq(e) /\ Len(e) = 0
    BY NothingIsSeq
  <2> HIDE DEF q, e
  <2>3. IsSeq(q) /\ \A k \in 1..Len(q) : q[k].type \in {"text", "image"}
    BY <2>1, <2>2
  <2> QED BY <1>3, <2>1, <2>3 DEF q, e
<1>4. CASE t.more
  <2>1. q = v
    BY <1>1, <1>4
  <2> HIDE DEF q, x, y
  <2>2. IsSeq(v) /\ Len(v) = 2 /\ v[1] = x /\ v[2] = y
    BY Pair
  <2>3. IsSeq(w) /\ v = Append(w, y) /\ Len(w) = 1 /\ w[1] = x /\ w = Append(e, x)
    BY Single
  <2>4. IsSeq(e) /\ Len(e) = 0
    BY NothingIsSeq
  <2> HIDE DEF v, w
  <2>5. \A k \in 1..2 : v[k].type \in {"text", "image"}
    <3>1. \A k \in 1..2 : k = 1 \/ k = 2
      OBVIOUS
    <3> QED BY <1>2, <2>2, <3>1
  <2>6. Pieces(v, "text") = t.words
    <3>1. Pieces(v, "text") = Pieces(w, "text")
      BY <1>2, <2>3, PiecesMore
    <3>2. Pieces(e, "text") = e
      BY <2>4, PiecesNone
    <3> HIDE DEF e
    <3>3. Pieces(w, "text") = Pieces(e, "text") \o x.piece
      <4>1. IsSeq(x.piece) /\ x.type = "text" /\ IsSeq(e) /\ w = Append(e, x)
        BY <1>2, <2>3, <2>4
      <4> QED BY <4>1, PiecesMore
    <3>4. e \o t.words = t.words
      BY Concatenated DEF e
    <3> QED BY <1>2, <3>1, <3>2, <3>3, <3>4
  <2>7. Pieces(v, "thinking") = e
    BY <2>2, <2>5, PiecesNone
  <2>8. OfType(v, "image") # e
    <3>1. OfType(v, "image") = Append(OfType(w, "image"), y)
      BY <1>2, <2>3, OfTypeMore
    <3>2. OfType(w, "image") = e
      <4>1. \A k \in 1..Len(w) : w[k].type # "image"
        BY <1>2, <2>3
      <4> QED BY <2>3, <4>1, OfTypeNone
    <3>3. Append(e, y) # e
      BY <2>4, Appended
    <3> QED BY <3>1, <3>2, <3>3
  <2> DEFINE i == OfType(v, "image") # e
             yes == TRUE
             u == "user"
  <2>9. Plain(u, v) = MessageOf(u, Pieces(v, "text"), i, Pieces(v, "thinking"), e, e)
    BY PlainOf
  <2>10. RemarkOf(t) = <<MessageOf(u, t.words, yes, e, e, e)>>
    BY <1>4, RemarkOfWords
  <2>11. i = yes
    BY <2>8
  <2> HIDE DEF i, yes, u, e
  <2>12. Plain(u, v) = MessageOf(u, t.words, yes, e, e, e)
    BY <2>6, <2>7, <2>9, <2>11
  <2>13. Plain(u, v).image = yes
    BY <2>12 DEF MessageOf
  <2>14. IsSeq(q) /\ \A k \in 1..Len(q) : q[k].type \in {"text", "image"}
    BY <2>1, <2>2, <2>5
  <2> QED BY <1>4, <2>1, <2>10, <2>12, <2>13, <2>14 DEF q, yes, u
<1> QED BY <1>3, <1>4

\* The answers and what is beside them.
LEMMA AnthropicAnswered ==
  ASSUME NEW t, TurnTold("anthropic", t), NEW z,
         z = [role |-> "user", blocks |-> AnthropicAnswers(t) \o AnthropicMore(t)]
  PROVE  FromAnthropic(z) = [k \in 1..Len(Answered(t)) |->
                               Answer(Answered(t)[k].id, Result(Answered(t)[k].args))]
                            \o RemarkOf(t)
<1> DEFINE p == AnthropicAnswers(t)
           q == AnthropicMore(t)
           w == p \o q
           e == <<>>
           n == Len(Answered(t))
           us == [k \in 1..n |-> Answer(Answered(t)[k].id, Result(Answered(t)[k].args))]
           R == RemarkOf(t)
           f == Plain("user", q)
<1>1. /\ IsSeq(t.reply.calls) /\ IsSeq(t.words) /\ n \in Nat /\ n = Len(t.reply.calls)
      /\ (n = 0 => t.more)
  BY AnsweredAre, SizeOfSeq DEF TurnTold, TurnOK
<1>2. /\ IsSeq(p) /\ Len(p) = n
      /\ \A k \in 1..n : /\ p[k].type = "tool_result" /\ p[k].id = Answered(t)[k].id
                         /\ p[k].piece = Result(Answered(t)[k].args)
  <2>1. IsSeq(p) /\ Len(p) = n
    BY <1>1, Numbered DEF AnthropicAnswers
  <2> DEFINE x(k) == [type |-> "tool_result", id |-> Answered(t)[k].id,
                      piece |-> Result(Answered(t)[k].args)]
  <2>2. \A k \in 1..n : p[k] = x(k)
    BY DEF AnthropicAnswers
  <2>3. \A k : /\ x(k).type = "tool_result" /\ x(k).id = Answered(t)[k].id
               /\ x(k).piece = Result(Answered(t)[k].args)
    OBVIOUS
  <2> HIDE DEF p, x, n
  <2> QED BY <2>1, <2>2, <2>3
<1>3. /\ IsSeq(q) /\ \A k \in 1..Len(q) : q[k].type \in {"text", "image"}
      /\ (~t.more => q = e /\ R = e) /\ (t.more => f.image = TRUE /\ R = <<f>>)
  BY <1>1, MoreIs
<1>4. z.role = "user" /\ z.blocks = w
  OBVIOUS
<1>5. us = [k \in 1..n |-> Answer(p[k].id, p[k].piece)]
  <2>1. \A k \in 1..n : Answer(Answered(t)[k].id, Result(Answered(t)[k].args))
                          = Answer(p[k].id, p[k].piece)
    BY <1>2
  <2> HIDE DEF p
  <2> QED BY <2>1
<1>6. IsSeq(us) /\ Len(us) = n
  BY <1>1, Numbered
<1> HIDE DEF p, q, f, R
<1>7. OfType(w, "tool_result") = p /\ OtherThan(w, "tool_result") = q
  <2>1. OfType(p, "tool_result") = p /\ OtherThan(p, "tool_result") = e
    BY <1>2, OfTypeAll
  <2>2. OfType(q, "tool_result") = e /\ OtherThan(q, "tool_result") = q
    BY <1>3, OfTypeNone
  <2>3. /\ OfType(w, "tool_result") = OfType(p, "tool_result") \o OfType(q, "tool_result")
        /\ OtherThan(w, "tool_result") = OtherThan(p, "tool_result") \o OtherThan(q, "tool_result")
    <3>1. IsSeq(p) /\ IsSeq(q)
      BY <1>2, <1>3
    <3> QED BY <3>1, OfTypeBoth
  <2>4. p \o e = p /\ e \o q = q
    BY <1>2, <1>3, Concatenated
  <2> HIDE DEF w, e
  <2> QED BY <2>1, <2>2, <2>3, <2>4
<1>8. p = e <=> n = 0
  BY <1>2, SizeOfSeq
<1>9. CASE p # e
  <2> DEFINE says == f.content # <<>> \/ f.image \/ f.reasoning # <<>>
             rest == IF says THEN <<f>> ELSE <<>>
             first == [k \in 1..Len(p) |->
                         [Message EXCEPT !.role = "tool", !.answers = p[k].id, !.content = p[k].piece]]
  <2>1. FromAnthropic(z) = ResultsAndFollowup("user", w)
    <3> HIDE DEF w
    <3> QED BY <1>4, <1>7, <1>9 DEF FromAnthropic
  <2>2. ResultsAndFollowup("user", w) = first \o rest
    <3> HIDE DEF w
    <3> QED BY <1>7 DEF ResultsAndFollowup, f
  <2>3. first = us
    <3>1. first = [k \in 1..n |-> Answer(p[k].id, p[k].piece)]
      BY <1>2 DEF Answer
    <3> QED BY <1>5, <3>1
  <2>4. rest = R
    <3>1. CASE t.more
      BY <1>3, <3>1
    <3>2. CASE ~t.more
      <4>1. q = e /\ R = e
        BY <1>3, <3>2
      <4>2. IsSeq(e) /\ Len(e) = 0
        BY NothingIsSeq
      <4>3. Pieces(e, "text") = e /\ Pieces(e, "thinking") = e /\ OfType(e, "image") = e
        BY <4>2, PiecesNone, OfTypeNone
      <4> DEFINE i == OfType(e, "image") # e
                 u == "user"
      <4>4. Plain(u, e) = MessageOf(u, Pieces(e, "text"), i, Pieces(e, "thinking"), e, e)
        BY PlainOf
      <4>5. ~i
        BY <4>3
      <4>6. f = Plain(u, e)
        BY <4>1 DEF f
      <4> HIDE DEF i, u, e
      <4>7. f = MessageOf(u, e, i, e, e, e)
        BY <4>3, <4>4, <4>6
      <4>8. f.content = e /\ f.image = i /\ f.reasoning = e
        BY <4>7 DEF MessageOf
      <4> QED BY <4>1, <4>5, <4>8 DEF e
    <3> QED BY <3>1, <3>2
  <2> HIDE DEF first, rest, us, w
  <2> QED BY <2>1, <2>2, <2>3, <2>4 DEF R, us, n
<1>10. CASE p = e
  <2>1. n = 0 /\ t.more
    BY <1>1, <1>8, <1>10
  <2>2. w = q
    BY <1>3, <1>10, Concatenated
  <2>3. us = e
    BY <1>6, <2>1, SizeOfSeq
  <2>4. OfType(w, "tool_result") = e /\ OfType(w, "tool_use") = e
    BY <1>3, <2>2, OfTypeNone
  <2>5. FromAnthropic(z) = <<f>>
    <3> HIDE DEF w
    <3> QED BY <1>4, <2>2, <2>4 DEF FromAnthropic, f
  <2>6. IsSeq(R) /\ e \o R = R
    BY RemarkIs, Concatenated DEF R
  <2> HIDE DEF us, e
  <2>7. FromAnthropic(z) = us \o R
    BY <1>3, <2>1, <2>3, <2>5, <2>6
  <2> QED BY <2>7 DEF R, us, n
<1> QED BY <1>9, <1>10

LEMMA FlattenTwo ==
  ASSUME NEW x, NEW y, IsSeq(x), IsSeq(y), NEW ff, IsSeq(ff), Len(ff) = 2, ff[1] = x, ff[2] = y
  PROVE  FlattenSeq(ff) = x \o y
<1> DEFINE w == <<x>>
           v == Append(w, y)
<1>1. IsSeq(w) /\ Len(w) = 1 /\ w[1] = x
  BY Single
<1>2. FlattenSeq(w) = x
  BY FlattenOne
<1> HIDE DEF w
<1>3. FlattenSeq(v) = FlattenSeq(w) \o y
  BY <1>1, FlattenAppend
<1>4. IsSeq(v) /\ Len(v) = 2 /\ v[2] = y /\ v[1] = x
  <2>1. /\ IsSeq(v) /\ Len(v) = Len(w) + 1 /\ v[Len(w) + 1] = y
        /\ \A i \in 1..Len(w) : v[i] = w[i]
    <3>1. IsSeq(w)
      BY <1>1
    <3> QED BY <3>1, Appended
  <2>2. 1 \in 1..Len(w) /\ Len(w) + 1 = 2
    BY <1>1
  <2> HIDE DEF v
  <2> QED BY <1>1, <2>1, <2>2
<1> HIDE DEF v
<1>5. ff = v
  <2>1. \A i \in 1..2 : i = 1 \/ i = 2
    OBVIOUS
  <2> QED BY <1>4, <2>1, SameSeq
<1> QED BY <1>2, <1>3, <1>5

\* What the gateway sends of a turn is the turn.
LEMMA AnthropicTurned ==
  ASSUME NEW t, TurnTold("anthropic", t), NEW acc, IsSeq(acc), Settled(JoinedUp(acc)), NEW keys
  PROVE  Turned(acc, TakesAll("anthropic", acc, AnthropicTurn(t, keys)), t, t.reply.reasoning)
<1> DEFINE x == [role |-> "assistant", blocks |-> AnthropicBlocks(t, keys)]
           z == [role |-> "user", blocks |-> AnthropicAnswers(t) \o AnthropicMore(t)]
           us == [k \in 1..Len(Answered(t)) |->
                    Answer(Answered(t)[k].id, Result(Answered(t)[k].args))]
           R == RemarkOf(t)
           c == t.reply.text
           r == t.reply.reasoning
           h == t.reply.calls
           items == AnthropicTurn(t, keys)
           ff == [k \in 1..Len(items) |-> FromAnthropic(items[k])]
           d == "anthropic"
<1>1. /\ TurnOK(t) /\ IsSeq(c) /\ IsSeq(r) /\ IsSeq(h) /\ OwnIds(h)
  BY DEF TurnTold, TurnOK
<1>2. FromAnthropic(z) = us \o R
  <2> HIDE DEF z
  <2> QED BY AnthropicAnswered DEF z
<1>3. PICK cs : /\ FromAnthropic(x) = <<Speech(c, r, cs)>> /\ CallsMatch(cs, h)
                /\ \A k \in 1..Len(h) : cs[k].id = h[k].id
  BY AnthropicReply
<1> DEFINE s == Speech(c, r, cs)
           w == <<s>>
           mid == Append(acc, s)
<1>4. AnswerList(us, cs, t)
  <2> HIDE DEF us
  <2> QED BY <1>1, <1>3, AnswersById DEF us
<1>5. IsSeq(us)
  <2> HIDE DEF us
  <2> QED BY <1>4 DEF AnswerList
<1>6. IsSeq(cs) /\ Len(cs) = Len(h)
  BY <1>3 DEF CallsMatch
<1>7. DistinctIds(cs)
  BY <1>1, <1>3, <1>6, OwnAreDistinct
<1>8. IsSeq(mid) /\ JoinedUp(mid) = AddSpeech(JoinedUp(acc), c, r, cs)
  BY <1>1, <1>6, SaysOnce
<1>9. items = <<x, z>>
  BY DEF AnthropicTurn
<1> HIDE DEF x, z, us, R, c, r, h, items, mid, s
<1>10. Len(items) = 2 /\ items[1] = x /\ items[2] = z
  BY <1>9, Pair
<1>11. IsSeq(ff) /\ Len(ff) = 2 /\ ff[1] = FromAnthropic(x) /\ ff[2] = FromAnthropic(z)
  <2>1. Len(items) \in Nat /\ DOMAIN ff = 1..Len(items)
    BY <1>10
  <2>2. IsSeq(ff) /\ Len(ff) = Len(items)
    BY <2>1, Numbered
  <2>3. 1 \in 1..Len(items) /\ 2 \in 1..Len(items)
    BY <1>10
  <2> QED BY <1>10, <2>2, <2>3
<1>12. TakesAll(d, acc, items) = acc \o FlattenSeq(ff)
  BY DEF TakesAll
<1> HIDE DEF ff
<1>13. IsSeq(w) /\ mid = acc \o w /\ IsSeq(R)
  BY Single, RemarkIs DEF mid, R
<1> HIDE DEF w
<1>14. FromAnthropic(x) = w
  BY <1>3 DEF w, s, c, r
<1>15. IsSeq(us \o R)
  BY <1>5, <1>13, Concatenated
<1> DEFINE v == us \o R
<1>16. FlattenSeq(ff) = w \o v
  <2>1. ff[1] = w /\ ff[2] = v
    BY <1>2, <1>11, <1>14
  <2>2. IsSeq(w) /\ IsSeq(v) /\ IsSeq(ff) /\ Len(ff) = 2
    BY <1>11, <1>13, <1>15
  <2> HIDE DEF v
  <2> QED BY <2>1, <2>2, FlattenTwo
<1>17. Regroups(acc, w, v)
  BY <1>13, <1>15, Regrouped
<1>18. Regroups(mid, us, R)
  BY <1>5, <1>8, <1>13, Regrouped
<1>19. TakesAll(d, acc, items) = (mid \o us) \o R
  BY <1>12, <1>13, <1>16, <1>17, <1>18 DEF Regroups
<1> QED BY <1>3, <1>4, <1>7, <1>8, <1>19 DEF Turned, R, c, r, h, items

-----------------------------------------------------------------------------
(* A turn of a Responses conversation.                                     *)

\* The calls cs, as they are sent, are the calls h that were said.
SentAs(cs, h) == CallsMatch(cs, h) /\ \A k \in 1..Len(h) : cs[k].id = h[k].id

LEMMA SentAsMore ==
  ASSUME NEW cs, NEW h, SentAs(cs, h), NEW q, NEW y,
         q.id = y.id, q.name = y.name, q.args.value = y.args
  PROVE  SentAs(Append(cs, q), Append(h, y))
<1> DEFINE n == Len(h)
           ds == Append(cs, q)
           g == Append(h, y)
<1>1. /\ IsSeq(cs) /\ IsSeq(h) /\ Len(cs) = n
      /\ \A k \in 1..n : cs[k].id = h[k].id /\ cs[k].name = h[k].name /\ cs[k].args.value = h[k].args
  BY DEF SentAs, CallsMatch
<1>2. /\ IsSeq(ds) /\ n \in Nat /\ Len(ds) = n + 1 /\ ds[n + 1] = q /\ \A k \in 1..n : ds[k] = cs[k]
  <2>1. IsSeq(cs)
    BY <1>1
  <2> HIDE DEF n
  <2> QED BY <1>1, <2>1, Appended
<1>3. /\ IsSeq(g) /\ Len(g) = n + 1 /\ g[n + 1] = y /\ \A k \in 1..n : g[k] = h[k]
  BY <1>1, Appended
<1> HIDE DEF n, ds, g
<1>4. ASSUME NEW k \in 1..(n + 1)
      PROVE  ds[k].id = g[k].id /\ ds[k].name = g[k].name /\ ds[k].args.value = g[k].args
  <2>1. k \in 1..n \/ k = n + 1
    BY <1>2
  <2> QED BY <1>1, <1>2, <1>3, <2>1
<1> QED BY <1>2, <1>3, <1>4 DEF SentAs, CallsMatch, ds, g

\* After J the accumulator has the words c and the calls h of one reply, some of
\* the calls not yet in a message.
HeardOf(J, acc, c, h) ==
  /\ AccOK("responses", acc) /\ IsSeq(acc.pending) /\ IsSeq(c)
  /\ \E fl : /\ IsSeq(fl) /\ JoinedUp(acc.msgs) = AddSpeech(J, c, <<>>, fl)
             /\ SentAs(fl \o acc.pending, h)

LEMMA HearsNothing ==
  ASSUME NEW acc, AccOK("responses", acc), NEW e, e = <<>>, acc.pending = e
  PROVE  HeardOf(JoinedUp(acc.msgs), acc, e, e)
<1>1. IsSeq(e) /\ e \o e = e /\ Len(e) = 0
  BY NothingIsSeq, Concatenated
<1>2. AddSpeech(JoinedUp(acc.msgs), e, <<>>, e) = JoinedUp(acc.msgs)
  BY DEF AddSpeech
<1>3. SentAs(e, e)
  BY <1>1 DEF SentAs, CallsMatch
<1>4. e \o acc.pending = e
  BY <1>1
<1> QED BY <1>1, <1>2, <1>3, <1>4 DEF HeardOf

\* A call waits for the calls that may follow it.
LEMMA HearsCall ==
  ASSUME NEW J, NEW acc, NEW c, NEW h, HeardOf(J, acc, c, h), NEW x, x.type = "function_call",
         x.name # None, NEW y, y.id = x.id, y.name = x.name, y.args = x.args.value
  PROVE  HeardOf(J, TakesOne("responses", acc, x), c, Append(h, y))
<1> DEFINE q == [id |-> x.id, name |-> x.name, args |-> StableArguments(x.args)]
           p == acc.pending
           new == TakesOne("responses", acc, x)
<1>1. new = [acc EXCEPT !.pending = Append(p, q)]
  BY DEF TakesOne, TakeItem
<1>2. q.id = y.id /\ q.name = y.name /\ q.args.value = y.args
  BY DEF StableArguments, Stable
<1>3. AccOK("responses", acc) /\ IsSeq(p) /\ IsSeq(c)
  BY DEF HeardOf
<1>4. PICK fl : /\ IsSeq(fl) /\ JoinedUp(acc.msgs) = AddSpeech(J, c, <<>>, fl)
                /\ SentAs(fl \o p, h)
  BY DEF HeardOf
<1> HIDE DEF q, new
<1>5. DOMAIN acc = {"msgs", "pending"} /\ IsSeq(acc.msgs)
  BY <1>3 DEF AccOK
<1>6. DOMAIN new = {"msgs", "pending"} /\ new.msgs = acc.msgs /\ new.pending = Append(p, q)
  BY <1>1, <1>5
<1>7. fl \o Append(p, q) = Append(fl \o p, q) /\ IsSeq(Append(p, q))
  BY <1>3, <1>4, AppendsAfter, Appended
<1>8. SentAs(Append(fl \o p, q), Append(h, y))
  BY <1>2, <1>4, SentAsMore
<1>9. AccOK("responses", new)
  BY <1>5, <1>6 DEF AccOK
<1> HIDE DEF p
<1>10. SentAs(fl \o new.pending, Append(h, y))
  BY <1>6, <1>7, <1>8
<1>11. JoinedUp(new.msgs) = AddSpeech(J, c, <<>>, fl)
  BY <1>4, <1>6
<1>12. HeardOf(J, new, c, Append(h, y))
  BY <1>3, <1>4, <1>6, <1>7, <1>9, <1>10, <1>11 DEF HeardOf
<1> QED BY <1>12 DEF new

\* What waits is said in one message.
LEMMA HearsFlush ==
  ASSUME NEW J, Settled(J), NEW acc, NEW c, NEW h, HeardOf(J, acc, c, h)
  PROVE  HeardOf(J, Flush(acc), c, h) /\ Flush(acc).pending = <<>> /\ AccOK("responses", Flush(acc))
<1> DEFINE e == <<>>
           p == acc.pending
           f == Flush(acc)
           z == Speech(e, e, p)
<1>1. AccOK("responses", acc) /\ IsSeq(p) /\ IsSeq(c) /\ IsSeq(acc.msgs)
  BY DEF HeardOf, AccOK
<1>2. CASE p = e
  BY <1>1, <1>2 DEF Flush
<1>3. CASE p # e
  <2>1. PICK fl : /\ IsSeq(fl) /\ JoinedUp(acc.msgs) = AddSpeech(J, c, e, fl)
                  /\ SentAs(fl \o p, h)
    BY DEF HeardOf
  <2>2. [Message EXCEPT !.role = "assistant", !.calls = p] = z
    BY CallsAlone
  <2>3. f = [msgs |-> Append(acc.msgs, z), pending |-> e]
    BY <1>3, <2>2 DEF Flush
  <2>4. IsSeq(e) /\ e \o e = e /\ c \o e = c
    BY <1>1, NothingIsSeq, Concatenated
  <2> HIDE DEF z, e
  <2>5. f.msgs = Append(acc.msgs, z) /\ f.pending = e /\ DOMAIN f = {"msgs", "pending"}
    BY <2>3
  <2> HIDE DEF f, p
  <2>6. IsSeq(f.msgs)
    BY <1>1, <2>5, Appended
  <2> DEFINE g == fl \o p
  <2>7. IsSeq(g) /\ g \o e = g
    <3>1. IsSeq(g)
      BY <1>1, <2>1, Concatenated
    <3> HIDE DEF g
    <3> QED BY <3>1, Concatenated DEF e
  <2>8. JoinedUp(f.msgs) = AddSpeech(J, c, e, g)
    <3>1. JoinedUp(f.msgs) = Joins(JoinedUp(acc.msgs), z)
      BY <1>1, <2>5, JoinsMore
    <3>2. Joins(AddSpeech(J, c, e, fl), Speech(e, e, p)) = AddSpeech(J, c \o e, e \o e, fl \o p)
      <4>1. IsSeq(e)
        BY <2>4
      <4> QED BY <1>1, <2>1, <4>1, SpeechJoins
    <3> QED BY <2>1, <2>4, <3>1, <3>2 DEF z
  <2>9. AccOK("responses", f)
    BY <2>5, <2>6 DEF AccOK
  <2>10. SentAs(g, h)
    BY <2>1
  <2> HIDE DEF g
  <2>11. SentAs(g \o f.pending, h)
    BY <2>5, <2>7, <2>10
  <2>12. HeardOf(J, f, c, h)
    BY <1>1, <2>4, <2>5, <2>7, <2>8, <2>9, <2>11 DEF HeardOf, e
  <2> QED BY <2>5, <2>9, <2>12 DEF f, e
<1> QED BY <1>2, <1>3

\* What an item that is no call becomes follows what waited.
LEMMA TakenAfter ==
  ASSUME NEW acc, AccOK("responses", acc), AccOK("responses", Flush(acc)), Flush(acc).pending = <<>>,
         NEW x, x.type # "function_call", IsSeq(FromItem(x)),
         NEW new, new = TakesOne("responses", acc, x)
  PROVE  /\ AccOK("responses", new) /\ new.pending = <<>>
         /\ new.msgs = Flush(acc).msgs \o FromItem(x)
<1> DEFINE f == Flush(acc)
           y == FromItem(x)
<1>1. DOMAIN f = {"msgs", "pending"} /\ IsSeq(f.msgs) /\ f.pending = <<>> /\ IsSeq(y)
  BY DEF AccOK
<1>2. new = [f EXCEPT !.msgs = @ \o y]
  BY DEF TakesOne, TakeItem
<1> HIDE DEF f, y
<1>3. DOMAIN new = {"msgs", "pending"} /\ new.msgs = f.msgs \o y /\ new.pending = f.pending
  BY <1>1, <1>2
<1>4. IsSeq(new.msgs)
  <2>1. IsSeq(f.msgs) /\ IsSeq(y)
    BY <1>1
  <2>2. IsSeq(f.msgs \o y)
    BY <2>1, Concatenated
  <2> QED BY <1>3, <2>2
<1>5. AccOK("responses", new)
  BY <1>3, <1>4 DEF AccOK
<1> QED BY <1>1, <1>3, <1>5 DEF f, y

LEMMA HearsWords ==
  ASSUME NEW J, Settled(J), NEW acc, NEW c, NEW h, HeardOf(J, acc, c, h), NEW x, x.type = "message",
         x.role = "assistant", x.image = FALSE, IsSeq(x.text)
  PROVE  HeardOf(J, TakesOne("responses", acc, x), c \o x.text, h)
<1> DEFINE e == <<>>
           d == x.text
           f == Flush(acc)
           s == Speech(d, e, e)
           new == TakesOne("responses", acc, x)
<1>1. HeardOf(J, f, c, h) /\ f.pending = e /\ AccOK("responses", f) /\ AccOK("responses", acc)
  BY HearsFlush DEF HeardOf
<1>2. FromItem(x) = <<s>>
  <2>1. FromItem(x) = <<MessageOf(NormalizeRole(x.role), x.text, x.image, e, e, e)>>
    BY SaidByItem
  <2>2. NormalizeRole(x.role) = "assistant"
    BY DEF NormalizeRole
  <2>3. s = MessageOf("assistant", d, FALSE, e, e, e)
    BY SpeechOf
  <2> HIDE DEF s
  <2> QED BY <2>1, <2>2, <2>3
<1>3. IsSeq(e) /\ e \o e = e /\ IsSeq(d) /\ IsSeq(c)
  BY NothingIsSeq, Concatenated DEF HeardOf
<1> HIDE DEF s, f, new
<1>4. AccOK("responses", new) /\ new.pending = e /\ new.msgs = f.msgs \o <<s>> /\ IsSeq(f.msgs)
  <2>1. IsSeq(FromItem(x))
    BY <1>2, Single
  <2>2. AccOK("responses", new) /\ new.pending = <<>> /\ new.msgs = Flush(acc).msgs \o FromItem(x)
    BY <1>1, <2>1, TakenAfter DEF f, new
  <2> QED BY <1>1, <1>2, <2>2 DEF f, AccOK
<1>5. new.msgs = Append(f.msgs, s)
  BY <1>4, Single
<1>6. PICK fl : /\ IsSeq(fl) /\ JoinedUp(f.msgs) = AddSpeech(J, c, e, fl)
                /\ SentAs(fl \o f.pending, h)
  BY <1>1 DEF HeardOf
<1>7. fl \o e = fl /\ IsSeq(c \o d)
  BY <1>3, <1>6, Concatenated
<1> HIDE DEF e, d
<1>8. JoinedUp(new.msgs) = AddSpeech(J, c \o d, e, fl)
  <2>1. JoinedUp(new.msgs) = Joins(JoinedUp(f.msgs), s)
    BY <1>4, <1>5, JoinsMore
  <2>2. Joins(AddSpeech(J, c, e, fl), Speech(d, e, e)) = AddSpeech(J, c \o d, e \o e, fl \o e)
    <3>1. IsSeq(e) /\ IsSeq(d) /\ IsSeq(c) /\ IsSeq(fl)
      BY <1>3, <1>6
    <3> QED BY <3>1, SpeechJoins
  <2> QED BY <1>3, <1>6, <1>7, <2>1, <2>2 DEF s
<1>9. SentAs(fl \o new.pending, h)
  BY <1>1, <1>4, <1>6
<1>10. HeardOf(J, new, c \o d, h)
  BY <1>3, <1>4, <1>6, <1>7, <1>8, <1>9 DEF HeardOf, e
<1> QED BY <1>10 DEF new, d

LEMMA HearsThought ==
  ASSUME NEW J, Settled(J), NEW acc, NEW c, NEW h, HeardOf(J, acc, c, h), NEW x, x.type = "reasoning"
  PROVE  HeardOf(J, TakesOne("responses", acc, x), c, h)
<1> DEFINE e == <<>>
           f == Flush(acc)
           new == TakesOne("responses", acc, x)
<1>1. HeardOf(J, f, c, h) /\ f.pending = e /\ AccOK("responses", f) /\ AccOK("responses", acc)
  BY HearsFlush DEF HeardOf
<1>2. FromItem(x) = e /\ IsSeq(e)
  BY NothingIsSeq DEF FromItem
<1> HIDE DEF f, new, e
<1>3. AccOK("responses", new) /\ new.pending = e /\ new.msgs = f.msgs \o e /\ IsSeq(f.msgs)
  <2>1. AccOK("responses", new) /\ new.pending = <<>> /\ new.msgs = Flush(acc).msgs \o FromItem(x)
    BY <1>1, <1>2, TakenAfter DEF f, new, e
  <2> QED BY <1>1, <1>2, <2>1 DEF f, e, AccOK
<1>4. new.msgs = f.msgs
  BY <1>2, <1>3, Concatenated DEF e
<1>5. HeardOf(J, new, c, h)
  BY <1>1, <1>3, <1>4 DEF HeardOf
<1> QED BY <1>5 DEF new

\* One more item of the reply.
LEMMA HearsKept ==
  ASSUME NEW J, Settled(J), NEW is, ListOK(is), NEW i, ItemIs(i), IsSeq(Body(i)), NEW keys, NEW acc,
         HeardOf(J, acc, Join(is, "message"), CallsIn(is, "function_call"))
  PROVE  HeardOf(J, TakesOne("responses", acc, ResponsesKind(i, keys)),
                 Join(Append(is, i), "message"), CallsIn(Append(is, i), "function_call"))
<1> DEFINE c == Join(is, "message")
           h == CallsIn(is, "function_call")
           x == ResponsesKind(i, keys)
           y == AsCall(i)
           js == Append(is, i)
           new == TakesOne("responses", acc, x)
<1>1. /\ i.type \in ItemTypes /\ (i.type = "function_call" => i.name # None)
      /\ Body(i) = i.body /\ y.id = i.call_id /\ y.name = i.name /\ y.args = i.body
  BY DEF ItemIs, ItemKeys, Body, AsCall
<1>2. CASE i.type = "function_call"
  <2>1. /\ x.type = "function_call" /\ x.name = i.name /\ x.id = i.call_id
        /\ x.args.value = i.body
    BY <1>2 DEF ResponsesKind, ResponsesBlank, Args, TextArgs
  <2> HIDE DEF x, y, c, h, new, js
  <2>2. HeardOf(J, TakesOne("responses", acc, x), c, Append(h, y))
    BY <1>1, <1>2, <2>1, HearsCall DEF c, h
  <2>3. CallsIn(js, "function_call") = Append(h, y)
    BY <1>2, JoinGrows DEF h, y, js
  <2>4. Join(js, "message") = c
    BY <1>2, JoinStays DEF c, js
  <2> QED BY <2>2, <2>3, <2>4 DEF new, x, js
<1>3. CASE i.type = "message"
  <2>1. /\ x.type = "message" /\ x.role = "assistant" /\ x.image = FALSE /\ x.text = i.body
    BY <1>3 DEF ResponsesKind, ResponsesBlank
  <2> HIDE DEF x, y, c, h, new, js
  <2>2. HeardOf(J, TakesOne("responses", acc, x), c \o x.text, h)
    BY <1>1, <2>1, HearsWords DEF c, h
  <2>3. CallsIn(js, "function_call") = h
    BY <1>3, JoinStays DEF h, js
  <2>4. Join(js, "message") = c \o Body(i)
    BY <1>3, JoinGrows DEF c, js
  <2> QED BY <1>1, <2>1, <2>2, <2>3, <2>4 DEF new, x, js
<1>4. CASE i.type = "reasoning"
  <2>1. x.type = "reasoning"
    BY <1>4 DEF ResponsesKind, ResponsesBlank
  <2> HIDE DEF x, y, c, h, new, js
  <2>2. HeardOf(J, TakesOne("responses", acc, x), c, h)
    BY <2>1, HearsThought DEF c, h
  <2>3. CallsIn(js, "function_call") = h /\ Join(js, "message") = c
    BY <1>4, JoinStays DEF h, c, js
  <2> QED BY <2>2, <2>3 DEF new, x, js
<1> QED BY <1>1, <1>2, <1>3, <1>4 DEF ItemTypes

\* The whole reply.
LEMMA HearsKeptReply ==
  ASSUME NEW acc, AccOK("responses", acc), acc.pending = <<>>, Settled(JoinedUp(acc.msgs)),
         NEW t, ItemList(t.kept), NEW keys
  PROVE  HeardOf(JoinedUp(acc.msgs), TakesAll("responses", acc, ResponsesKept(t, keys)),
                 Join(t.kept, "message"), CallsIn(t.kept, "function_call"))
<1> DEFINE d == "responses"
           J == JoinedUp(acc.msgs)
           is == t.kept
           N == Len(is)
           a == ResponsesKept(t, keys)
           Knows(n) == HeardOf(J, TakesAll(d, acc, Opening(a, n)), Join(Opening(is, n), "message"),
                              CallsIn(Opening(is, n), "function_call"))
           S == {n \in Nat : n <= N => Knows(n)}
           e == <<>>
<1>1. N \in Nat /\ IsSeq(is) /\ \A k \in 1..N : IsSeq(Body(is[k])) /\ ItemIs(is[k])
  BY SizeOfSeq DEF ListOK, ItemList
<1>2. IsSeq(a) /\ Len(a) = N /\ \A k \in 1..N : a[k] = ResponsesKind(is[k], keys)
  <2>1. IsSeq(a) /\ Len(a) = N
    BY <1>1, Numbered DEF ResponsesKept
  <2>2. \A k \in 1..N : a[k] = ResponsesKind(is[k], keys)
    BY DEF ResponsesKept
  <2> QED BY <2>1, <2>2
<1> HIDE DEF a
<1>3. 0 \in S
  <2>1. Opening(a, 0) = e /\ Opening(is, 0) = e
    BY <1>1, <1>2, BeginsOf
  <2>2. ListOK(e)
    <3>1. IsSeq(e) /\ Len(e) = 0
      BY NothingIsSeq
    <3> HIDE DEF e
    <3> QED BY <3>1 DEF ListOK
  <2>3. Join(e, "message") = e /\ CallsIn(e, "function_call") = e
    <3>1. Join(e, "message") = FlattenSeq(e)
      <4>1. [k \in 1..Len(e) |-> IF e[k].type = "message" THEN Body(e[k]) ELSE <<>>] = e
        OBVIOUS
      <4> QED BY <4>1 DEF Join
    <3>2. CallsIn(e, "function_call") = FlattenSeq(e)
      <4>1. [k \in 1..Len(e) |-> IF e[k].type = "function_call" THEN <<AsCall(e[k])>> ELSE <<>>] = e
        OBVIOUS
      <4> QED BY <4>1 DEF CallsIn
    <3>3. FlattenSeq(e) = e
      BY DEF FlattenSeq
    <3> QED BY <3>1, <3>2, <3>3
  <2>4. HeardOf(J, acc, e, e)
    <3> HIDE DEF e
    <3> QED BY HearsNothing DEF e
  <2>5. TakesAll(d, acc, e) = acc
    <3> HIDE DEF e
    <3> QED BY TakesNothing DEF e
  <2> HIDE DEF e, J
  <2> QED BY <2>1, <2>3, <2>4, <2>5
<1>4. ASSUME NEW n \in Nat, n \in S
      PROVE  n + 1 \in S
  <2> SUFFICES ASSUME n + 1 <= N
               PROVE  Knows(n + 1)
    OBVIOUS
  <2> DEFINE p == Opening(a, n)
             q == Opening(is, n)
             i == is[n + 1]
             x == ResponsesKind(i, keys)
  <2>1. n < N /\ n <= N /\ n + 1 \in 1..N
    BY <1>1
  <2>2. HeardOf(J, TakesAll(d, acc, p), Join(q, "message"), CallsIn(q, "function_call"))
    BY <1>4, <2>1
  <2>3. IsSeq(p) /\ Opening(a, n + 1) = Append(p, x)
    <3>1. IsSeq(p) /\ Opening(a, n + 1) = Append(p, a[n + 1])
      BY <1>2, <2>1, BeginsOf
    <3> HIDE DEF p, x
    <3> QED BY <1>2, <2>1, <3>1 DEF x
  <2>4. ListOK(q) /\ Opening(is, n + 1) = Append(q, i)
    <3>1. IsSeq(q) /\ Len(q) = n /\ (\A k \in 1..n : q[k] = is[k]) /\ Opening(is, n + 1) = Append(q, i)
      BY <1>1, <2>1, BeginsOf
    <3>2. \A k \in 1..n : k \in 1..N
      BY <1>1, <2>1
    <3> QED BY <1>1, <3>1, <3>2 DEF ListOK
  <2>5. ItemIs(i) /\ IsSeq(Body(i))
    BY <1>1, <2>1
  <2>6. ItemsOK(d, p) /\ ItemOK(d, x)
    BY <2>3, PlainItemsOK DEF ItemOK
  <2> HIDE DEF p, q, i, e
  <2>7. TakesAll(d, acc, Append(p, x)) = TakesOne(d, TakesAll(d, acc, p), x)
    <3> HIDE DEF x
    <3> QED BY <2>6, TakesGrow
  <2>8. HeardOf(J, TakesOne(d, TakesAll(d, acc, p), x), Join(Append(q, i), "message"),
                CallsIn(Append(q, i), "function_call"))
    <3> HIDE DEF J
    <3>1. Settled(J)
      BY DEF J
    <3> QED BY <2>2, <2>4, <2>5, <3>1, HearsKept
  <2> HIDE DEF J, x
  <2> QED BY <2>3, <2>4, <2>7, <2>8
<1>5. \A n \in Nat : n \in S
  <2> HIDE DEF S
  <2> QED BY <1>3, <1>4, SetInduction
<1>6. Knows(N)
  BY <1>1, <1>5
<1>7. Opening(a, N) = a /\ Opening(is, N) = is
  BY <1>1, <1>2, BeginsOf
<1> QED BY <1>6, <1>7 DEF a

\* The items after the reply, which are no calls.
LEMMA FlushedTaken ==
  ASSUME NEW acc, AccOK("responses", acc), AccOK("responses", Flush(acc)), Flush(acc).pending = <<>>,
         NEW s, NEW vs, IsSeq(s), IsSeq(vs), Len(vs) = Len(s), Len(s) # 0,
         \A k \in 1..Len(s) : s[k].type # "function_call" /\ FromItem(s[k]) = <<vs[k]>>
  PROVE  TakesAll("responses", acc, s).msgs = Flush(acc).msgs \o vs
<1> DEFINE d == "responses"
           m == Flush(acc).msgs
           N == Len(s)
           T(n) == TakesAll(d, acc, Opening(s, n))
           Knows(n) == /\ AccOK(d, T(n)) /\ T(n).msgs = m \o Opening(vs, n) /\ T(n).pending = <<>>
           S == {n \in Nat : n + 1 <= N => Knows(n + 1)}
           e == <<>>
<1>1. N \in Nat /\ N # 0 /\ IsSeq(m)
  BY SizeOfSeq DEF AccOK
<1>2. \A n \in Nat : n + 1 <= N => n + 1 \in 1..N /\ n < N /\ n <= N
  BY <1>1
<1>3. ASSUME NEW n \in Nat, n + 1 <= N
      PROVE  /\ T(n + 1) = TakesOne(d, T(n), s[n + 1]) /\ AccOK(d, T(n))
             /\ Opening(vs, n + 1) = Append(Opening(vs, n), vs[n + 1]) /\ IsSeq(Opening(vs, n))
  <2> DEFINE p == Opening(s, n)
             x == s[n + 1]
  <2>1. n + 1 \in 1..N /\ n < N /\ n <= N
    BY <1>2, <1>3
  <2>2. IsSeq(p) /\ Opening(s, n + 1) = Append(p, x)
    BY <2>1, BeginsOf
  <2>3. IsSeq(Opening(vs, n)) /\ Opening(vs, n + 1) = Append(Opening(vs, n), vs[n + 1])
    BY <2>1, BeginsOf
  <2>4. ItemsOK(d, p) /\ ItemOK(d, x)
    BY <2>2, PlainItemsOK DEF ItemOK
  <2> HIDE DEF p, x
  <2>5. TakesAll(d, acc, Append(p, x)) = TakesOne(d, TakesAll(d, acc, p), x)
    BY <2>4, TakesGrow
  <2>6. AccOK(d, TakesAll(d, acc, p))
    BY <2>4, AllAreTaken
  <2> QED BY <2>2, <2>3, <2>5, <2>6 DEF p, x
<1>4. \A n \in Nat : n + 1 <= N =>
        s[n + 1].type # "function_call" /\ FromItem(s[n + 1]) = <<vs[n + 1]>>
  BY <1>2
<1>5. 0 \in S
  <2> SUFFICES ASSUME 0 + 1 <= N PROVE Knows(0 + 1)
    OBVIOUS
  <2> DEFINE x == s[1]
             v == vs[1]
             w == <<v>>
             new == TakesOne(d, acc, x)
  <2>1. Opening(s, 0) = e /\ Opening(vs, 0) = e
    BY <1>1, BeginsOf
  <2>2. T(0) = acc
    <3>1. TakesAll(d, acc, e) = acc
      <4> HIDE DEF e
      <4> QED BY TakesNothing DEF e
    <3> HIDE DEF e
    <3> QED BY <2>1, <3>1
  <2> HIDE DEF T
  <2>3. T(1) = new /\ Opening(vs, 1) = Append(e, v)
    <3>1. T(0 + 1) = TakesOne(d, T(0), s[0 + 1])
          /\ Opening(vs, 0 + 1) = Append(Opening(vs, 0), vs[0 + 1])
      BY <1>3
    <3> HIDE DEF e
    <3> QED BY <2>1, <2>2, <3>1
  <2>4. x.type # "function_call" /\ FromItem(x) = w
    BY <1>1, <1>4
  <2>5. Append(e, v) = w /\ IsSeq(w)
    BY Single
  <2> HIDE DEF x, v, w, new, e
  <2>6. AccOK(d, new) /\ new.pending = <<>> /\ new.msgs = m \o w
    BY <2>4, <2>5, TakenAfter DEF new
  <2> HIDE DEF m
  <2> QED BY <2>3, <2>5, <2>6
<1>6. ASSUME NEW n \in Nat, n \in S
      PROVE  n + 1 \in S
  <2> HIDE DEF Knows
  <2> SUFFICES ASSUME (n + 1) + 1 <= N
               PROVE  Knows((n + 1) + 1)
    OBVIOUS
  <2> USE DEF Knows
  <2> DEFINE i == n + 1
             x == s[i + 1]
             v == vs[i + 1]
             w == <<v>>
             q == Opening(vs, i)
             A == T(i)
             new == TakesOne(d, A, x)
  <2>1. i \in Nat /\ i + 1 <= N /\ i <= N
    BY <1>1
  <2>2. AccOK(d, A) /\ A.msgs = m \o q /\ A.pending = <<>>
    BY <1>6, <2>1
  <2>3. T(i + 1) = new /\ Opening(vs, i + 1) = Append(q, v) /\ IsSeq(q)
    <3> HIDE DEF T, i
    <3> QED BY <1>3, <2>1 DEF i
  <2>4. x.type # "function_call" /\ FromItem(x) = w
    BY <1>4, <2>1
  <2>5. IsSeq(w) /\ \A u : IsSeq(u) => Append(u, v) = u \o w
    BY Single
  <2> HIDE DEF T, i, x, v, w, q, A, new
  <2>6. Flush(A) = A
    BY <2>2 DEF Flush
  <2>7. AccOK(d, new) /\ new.pending = <<>> /\ new.msgs = A.msgs \o w
    <3>1. AccOK(d, A) /\ AccOK(d, Flush(A)) /\ Flush(A).pending = <<>> /\ IsSeq(FromItem(x))
      BY <2>2, <2>4, <2>5, <2>6
    <3>2. new.msgs = Flush(A).msgs \o FromItem(x) /\ AccOK(d, new) /\ new.pending = <<>>
      BY <2>4, <3>1, TakenAfter DEF new
    <3> QED BY <2>4, <2>6, <3>2
  <2> HIDE DEF m
  <2>8. Regroups(m, q, w)
    BY <1>1, <2>3, <2>5, Regrouped
  <2>9. new.msgs = m \o Append(q, v)
    BY <2>2, <2>3, <2>5, <2>7, <2>8 DEF Regroups
  <2> QED BY <2>3, <2>7, <2>9 DEF i
<1>7. \A n \in Nat : n \in S
  <2> HIDE DEF S
  <2> QED BY <1>5, <1>6, SetInduction
<1>8. N - 1 \in Nat /\ (N - 1) + 1 = N /\ N <= N
  BY <1>1
<1>9. Knows(N)
  <2>1. (N - 1) + 1 <= N => Knows((N - 1) + 1)
    <3> HIDE DEF Knows
    <3> QED BY <1>7, <1>8
  <2> HIDE DEF Knows
  <2> QED BY <1>8, <2>1
<1>10. Opening(s, N) = s /\ Opening(vs, N) = vs
  BY <1>1, BeginsOf
<1> QED BY <1>9, <1>10

\* What the gateway sends of a turn is the turn, without its reasoning: a
\* reasoning item is dropped.
LEMMA ResponsesTurned ==
  ASSUME NEW t, TurnTold("responses", t), NEW acc, AccOK("responses", acc), acc.pending = <<>>,
         Settled(JoinedUp(acc.msgs)), NEW keys, NEW e, e = <<>>
  PROVE  Turned(acc.msgs, TakesAll("responses", acc, ResponsesTurn(t, keys)).msgs, t, e)
<1> DEFINE d == "responses"
           J == JoinedUp(acc.msgs)
           a == ResponsesKept(t, keys)
           p == ResponsesAnswers(t, keys)
           u == ResponsesMore(t, keys)
           s == p \o u
           us == [k \in 1..Len(Answered(t)) |->
                    Answer(Answered(t)[k].id, Result(Answered(t)[k].args))]
           R == RemarkOf(t)
           vs == us \o R
           A == TakesAll(d, acc, a)
           m == Flush(A).msgs
           c == t.reply.text
           h == t.reply.calls
           n == Len(Answered(t))
<1>1. /\ TurnOK(t) /\ IsSeq(c) /\ IsSeq(t.words) /\ IsSeq(h) /\ OwnIds(h) /\ ItemList(t.kept)
      /\ t.reply = FromItems(t.kept) /\ IsSeq(t.kept)
  BY DEF TurnTold, TurnOK
<1>2. c = Join(t.kept, "message") /\ h = CallsIn(t.kept, "function_call")
  BY <1>1 DEF FromItems
<1>3. n \in Nat /\ n = Len(h) /\ (~t.more => n >= 1)
  BY <1>1, AnsweredAre, AnswersInOrder
<1>4. IsSeq(a)
  BY <1>1, SizeOfSeq, Numbered DEF ResponsesKept
<1>5. /\ IsSeq(p) /\ Len(p) = n
      /\ \A k \in 1..n : /\ p[k].type = "function_call_output" /\ p[k].id = Answered(t)[k].id
                         /\ p[k].text = Result(Answered(t)[k].args)
  <2>1. IsSeq(p) /\ Len(p) = n
    BY <1>3, Numbered DEF ResponsesAnswers
  <2>2. \A k \in 1..n : /\ p[k].type = "function_call_output" /\ p[k].id = Answered(t)[k].id
                        /\ p[k].text = Result(Answered(t)[k].args)
    BY DEF ResponsesAnswers, ResponsesBlank
  <2> QED BY <2>1, <2>2
<1>6. /\ IsSeq(us) /\ Len(us) = n
      /\ \A k \in 1..n : us[k] = Answer(Answered(t)[k].id, Result(Answered(t)[k].args))
  <2>1. IsSeq(us) /\ Len(us) = n
    BY <1>3, Numbered
  <2> QED BY <2>1
<1>7. \A k \in 1..n : FromItem(p[k]) = <<us[k]>>
  <2>1. \A x : x.type = "function_call_output" => FromItem(x) = <<Answer(x.id, x.text)>>
    BY DEF FromItem, Answer
  <2> HIDE DEF p, us
  <2> QED BY <1>5, <1>6, <2>1
<1>8. /\ IsSeq(u) /\ IsSeq(R) /\ Len(u) = Len(R) /\ (t.more => Len(u) = 1)
      /\ \A k \in 1..Len(u) : u[k].type # "function_call" /\ FromItem(u[k]) = <<R[k]>>
  <2>1. CASE ~t.more
    <3>1. u = e /\ R = e
      BY <2>1, RemarkIs DEF ResponsesMore
    <3>2. IsSeq(e) /\ Len(e) = 0
      BY NothingIsSeq
    <3> HIDE DEF u, R
    <3> QED BY <2>1, <3>1, <3>2
  <2>2. CASE t.more
    <3> DEFINE x == [ResponsesBlank(keys) EXCEPT !.text = t.words, !.image = TRUE]
               v == MessageOf("user", t.words, TRUE, <<>>, <<>>, <<>>)
    <3>1. x.type = "message" /\ x.role = "user" /\ x.text = t.words /\ x.image = TRUE
      BY DEF ResponsesBlank
    <3>2. u = <<x>>
      BY <2>2 DEF ResponsesMore
    <3>3. R = <<v>>
      BY <2>2, RemarkOfWords
    <3>4. FromItem(x) = <<v>>
      <4>1. NormalizeRole("user") = "user"
        BY DEF NormalizeRole
      <4>2. FromItem(x) = <<MessageOf(NormalizeRole(x.role), x.text, x.image, <<>>, <<>>, <<>>)>>
        <5> HIDE DEF x
        <5> QED BY <3>1, SaidByItem
      <4> HIDE DEF x
      <4> QED BY <3>1, <4>1, <4>2
    <3> HIDE DEF x, v, u, R
    <3>5. IsSeq(u) /\ IsSeq(R) /\ Len(u) = 1 /\ Len(R) = 1 /\ u[1] = x /\ R[1] = v
      BY <3>2, <3>3, Single
    <3>6. \A k \in 1..Len(u) : k = 1
      BY <3>5
    <3> QED BY <3>1, <3>4, <3>5, <3>6
  <2> QED BY <2>1, <2>2
<1> HIDE DEF a, p, u, us, R, n
<1>9. /\ IsSeq(s) /\ IsSeq(vs) /\ Len(vs) = Len(s) /\ Len(s) # 0
      /\ \A k \in 1..Len(s) : s[k].type # "function_call" /\ FromItem(s[k]) = <<vs[k]>>
  <2> DEFINE j == Len(u)
  <2>1. /\ IsSeq(s) /\ Len(s) = n + j /\ (\A i \in 1..n : s[i] = p[i])
        /\ \A i \in 1..j : s[n + i] = u[i]
    <3>1. IsSeq(p) /\ IsSeq(u) /\ Len(p) = n
      BY <1>5, <1>8
    <3> QED BY <3>1, Catenated
  <2>2. /\ IsSeq(vs) /\ Len(vs) = n + j /\ (\A i \in 1..n : vs[i] = us[i])
        /\ \A i \in 1..j : vs[n + i] = R[i]
    <3>1. IsSeq(us) /\ IsSeq(R) /\ Len(us) = n /\ Len(R) = j
      BY <1>6, <1>8
    <3> QED BY <3>1, Catenated
  <2>3. j \in Nat /\ n + j # 0
    BY <1>3, <1>8, SizeOfSeq
  <2> HIDE DEF s, vs, j
  <2>4. ASSUME NEW k \in 1..(n + j)
        PROVE  s[k].type # "function_call" /\ FromItem(s[k]) = <<vs[k]>>
    <3>1. k \in 1..n \/ (k - n \in 1..j /\ n + (k - n) = k)
      BY <1>3, <2>3
    <3>2. CASE k \in 1..n
      BY <1>5, <1>7, <2>1, <2>2, <3>2
    <3>3. CASE k - n \in 1..j /\ n + (k - n) = k
      <4> DEFINE i == k - n
      <4>1. i \in 1..j /\ n + i = k
        BY <3>3
      <4> HIDE DEF i
      <4>2. s[k] = u[i] /\ vs[k] = R[i]
        BY <2>1, <2>2, <4>1
      <4> QED BY <1>8, <4>1, <4>2 DEF j
    <3> QED BY <3>1, <3>2, <3>3
  <2> QED BY <2>1, <2>2, <2>3, <2>4
<1>10. HeardOf(J, A, c, h)
  <2> HIDE DEF c, h
  <2> QED BY <1>1, <1>2, HearsKeptReply DEF a
<1>11. HeardOf(J, Flush(A), c, h) /\ Flush(A).pending = <<>> /\ AccOK(d, Flush(A))
  <2> HIDE DEF A, J, c, h
  <2>1. Settled(J)
    BY DEF J
  <2> QED BY <1>10, <2>1, HearsFlush
<1>12. AccOK(d, A)
  BY <1>10 DEF HeardOf
<1>13. ItemsOK(d, a) /\ ItemsOK(d, s)
  BY <1>4, <1>9, PlainItemsOK
<1>14. TakesAll(d, acc, a \o s) = TakesAll(d, A, s)
  <2> HIDE DEF s
  <2> QED BY <1>13, TakesJoined
<1>15. TakesAll(d, A, s).msgs = m \o vs
  <2> HIDE DEF A, s, vs
  <2> QED BY <1>9, <1>11, <1>12, FlushedTaken
<1>16. ResponsesTurn(t, keys) = a \o s
  <2>1. ResponsesTurn(t, keys) = (a \o p) \o u
    BY DEF ResponsesTurn, a, p, u
  <2>2. Regroups(a, p, u)
    BY <1>4, <1>5, <1>8, Regrouped
  <2> QED BY <2>1, <2>2 DEF Regroups
<1>17. PICK fl : /\ IsSeq(fl) /\ JoinedUp(m) = AddSpeech(J, c, <<>>, fl)
                 /\ SentAs(fl \o Flush(A).pending, h)
  <2> HIDE DEF A, J, c, h
  <2> QED BY <1>11 DEF HeardOf
<1> HIDE DEF A, J, c, h, m
<1>18. SentAs(fl, h)
  BY <1>11, <1>17, Concatenated
<1>19. CallsMatch(fl, h) /\ DistinctIds(fl) /\ AnswerList(us, fl, t)
  <2>1. CallsMatch(fl, h) /\ (\A k \in 1..Len(h) : fl[k].id = h[k].id) /\ Len(fl) = Len(h)
    BY <1>18 DEF SentAs, CallsMatch
  <2>2. DistinctIds(fl)
    BY <1>1, <2>1, OwnAreDistinct DEF h
  <2>3. AnswerList(us, fl, t)
    BY <1>1, <2>1, AnswersById DEF h, us
  <2> QED BY <2>1, <2>2, <2>3
<1>20. IsSeq(m)
  BY <1>11 DEF AccOK, m
<1> DEFINE new == TakesAll("responses", acc, ResponsesTurn(t, keys)).msgs
<1>21. new = m \o vs
  BY <1>14, <1>15, <1>16
<1> HIDE DEF new
<1>22. Regroups(m, us, R)
  BY <1>6, <1>8, <1>20, Regrouped
<1>23. new = (m \o us) \o R
  BY <1>21, <1>22 DEF Regroups
<1>24. Turned(acc.msgs, new, t, e)
  BY <1>17, <1>19, <1>20, <1>23 DEF Turned, J, c, h, R
<1> QED BY <1>24 DEF new

-----------------------------------------------------------------------------
(* A turn of an Ollama conversation.                                       *)

LEMMA HeadAndTail ==
  ASSUME NEW s, IsSeq(s), NEW x
  PROVE  /\ <<x>> \o s # <<>> /\ Head(<<x>> \o s) = x /\ Tail(<<x>> \o s) = s
<1> DEFINE w == <<x>>
           v == w \o s
<1>1. IsSeq(w) /\ Len(w) = 1 /\ w[1] = x
  BY Single
<1> HIDE DEF w
<1>2. /\ IsSeq(v) /\ Len(s) \in Nat /\ Len(v) = Len(w) + Len(s)
      /\ (\A i \in 1..Len(w) : v[i] = w[i]) /\ \A i \in 1..Len(s) : v[Len(w) + i] = s[i]
  <2>1. IsSeq(w)
    BY <1>1
  <2> QED BY <2>1, Catenated
<1> HIDE DEF v
<1>3. v[1] = x
  <2>1. 1 \in 1..Len(w)
    BY <1>1
  <2> QED BY <1>1, <1>2, <2>1
<1>4. v # <<>>
  BY <1>1, <1>2, SizeOfSeq
<1>5. PICK S : v \in Seq(S)
  BY <1>2 DEF IsSeq
<1>6. Head(v) = x
  BY <1>3, <1>4, <1>5
<1>7. Tail(v) = s
  <2>1. Tail(v) \in Seq(S) /\ Len(Tail(v)) = Len(s) /\ \A i \in 1..Len(s) : Tail(v)[i] = v[i + 1]
    BY <1>1, <1>2, <1>4, <1>5
  <2>2. IsSeq(Tail(v))
    BY <2>1 DEF IsSeq
  <2>3. \A i \in 1..Len(s) : v[i + 1] = s[i]
    <3>1. \A i \in 1..Len(s) : i + 1 = Len(w) + i
      BY <1>1, <1>2
    <3> QED BY <1>2, <3>1
  <2>4. \A i \in 1..Len(s) : Tail(v)[i] = s[i]
    BY <2>1, <2>3
  <2> QED BY <2>1, <2>2, <2>4, SameSeq
<1> QED BY <1>4, <1>6, <1>7 DEF v, w

\* The first of many parts.
LEMMA FlattenFirst ==
  ASSUME NEW ss, NEW tt, IsSeq(ss), IsSeq(tt), Len(tt) = Len(ss), NEW k \in Nat, k < Len(ss), NEW x,
         \A i \in 1..k : ss[i] = <<>> /\ tt[i] = <<>>, ss[k + 1] = <<x>>, tt[k + 1] = <<>>,
         \A i \in 1..Len(ss) : IsSeq(ss[i]) /\ IsSeq(tt[i]) /\ (i > k + 1 => tt[i] = ss[i])
  PROVE  FlattenSeq(ss) = <<x>> \o FlattenSeq(tt) /\ IsSeq(FlattenSeq(tt))
<1> DEFINE N == Len(ss)
           w == <<x>>
           e == <<>>
           F(n) == FlattenSeq(Opening(tt, n))
           f == [n \in 0..N |-> IF n <= k THEN e ELSE w \o F(n)]
<1>1. N \in Nat /\ Len(tt) = N /\ IsSeq(w) /\ IsSeq(e) /\ e \o w = w /\ w \o e = w /\ e \o e = e
  BY SizeOfSeq, Single, NothingIsSeq, Concatenated
<1>2. \A n \in 0..N : f[n] = IF n <= k THEN e ELSE w \o F(n)
  OBVIOUS
<1>3. \A n \in Nat : n <= N => IsSeq(F(n))
  <2> SUFFICES ASSUME NEW n \in Nat, n <= N PROVE IsSeq(F(n))
    OBVIOUS
  <2>1. IsSeq(Opening(tt, n)) /\ Len(Opening(tt, n)) = n /\ \A i \in 1..n : Opening(tt, n)[i] = tt[i]
    BY <1>1, BeginsOf
  <2>2. \A i \in 1..n : i \in 1..N
    BY <1>1
  <2>3. \A i \in 1..n : IsSeq(Opening(tt, n)[i])
    BY <2>1, <2>2
  <2> QED BY <2>1, <2>3, FlattenIsSeq
<1>4. \A n \in Nat : n < N => F(n + 1) = F(n) \o tt[n + 1]
  <2> SUFFICES ASSUME NEW n \in Nat, n < N PROVE F(n + 1) = F(n) \o tt[n + 1]
    OBVIOUS
  <2>1. IsSeq(Opening(tt, n)) /\ Opening(tt, n + 1) = Append(Opening(tt, n), tt[n + 1])
    BY <1>1, BeginsOf
  <2>2. n + 1 \in 1..N
    BY <1>1
  <2>3. IsSeq(tt[n + 1])
    BY <2>2
  <2> DEFINE p == Opening(tt, n)
             y == tt[n + 1]
  <2> HIDE DEF p, y
  <2>4. FlattenSeq(Append(p, y)) = FlattenSeq(p) \o y
    BY <2>1, <2>3, FlattenAppend DEF p, y
  <2> QED BY <2>1, <2>4 DEF p, y
<1>5. \A n \in Nat : n <= k => F(n) = e
  <2> SUFFICES ASSUME NEW n \in Nat, n <= k PROVE F(n) = e
    OBVIOUS
  <2>1. n <= N
    BY <1>1
  <2>2. IsSeq(Opening(tt, n)) /\ Len(Opening(tt, n)) = n /\ \A i \in 1..n : Opening(tt, n)[i] = tt[i]
    BY <1>1, <2>1, BeginsOf
  <2>3. \A i \in 1..n : i \in 1..k
    OBVIOUS
  <2>4. \A i \in 1..n : Opening(tt, n)[i] = <<>>
    BY <2>2, <2>3
  <2> QED BY <2>2, <2>4, FlattenEmpties
<1>6. ss[k + 1] = w /\ tt[k + 1] = e /\ \A i \in 1..k : ss[i] = e
  OBVIOUS
<1> HIDE DEF f, F, w, e
<1>7. f[0] = e
  <2>1. 0 \in 0..N /\ 0 <= k
    BY <1>1
  <2> QED BY <1>2, <2>1
<1>8. ASSUME NEW n \in Nat, n < N
      PROVE  f[n + 1] = f[n] \o ss[n + 1]
  <2>1. n \in 0..N /\ n + 1 \in 0..N /\ n + 1 \in 1..N
    BY <1>1, <1>8
  <2>2. CASE n + 1 <= k
    <3>1. f[n + 1] = e /\ f[n] = e /\ n + 1 \in 1..k
      BY <1>2, <2>1, <2>2
    <3> QED BY <1>1, <1>6, <3>1
  <2>3. CASE n = k
    <3>1. f[n + 1] = w \o F(n + 1) /\ f[n] = e
      <4>1. ~(n + 1 <= k) /\ n <= k
        BY <2>3
      <4> QED BY <1>2, <2>1, <4>1, Zenon
    <3>2. F(n + 1) = F(n) \o tt[n + 1] /\ F(n) = e
      BY <1>4, <1>5, <1>8, <2>3
    <3>3. F(n + 1) = e
      BY <1>1, <1>6, <2>3, <3>2
    <3> QED BY <1>1, <1>6, <2>3, <3>1, <3>3
  <2>4. CASE n > k
    <3>1. f[n + 1] = w \o F(n + 1) /\ f[n] = w \o F(n)
      <4>1. ~(n + 1 <= k) /\ ~(n <= k)
        BY <2>4
      <4> QED BY <1>2, <2>1, <4>1, Zenon
    <3>2. F(n + 1) = F(n) \o tt[n + 1]
      BY <1>4, <1>8
    <3>3. tt[n + 1] = ss[n + 1] /\ IsSeq(ss[n + 1])
      BY <2>1, <2>4
    <3>4. IsSeq(F(n))
      BY <1>3, <1>8
    <3> DEFINE y == ss[n + 1]
               z == F(n)
    <3>5. IsSeq(w) /\ IsSeq(z) /\ IsSeq(y)
      BY <1>1, <3>3, <3>4
    <3> HIDE DEF y, z
    <3>6. Regroups(w, z, y)
      BY <3>5, Regrouped
    <3> QED BY <3>1, <3>2, <3>3, <3>6 DEF Regroups, y, z
  <2>5. n + 1 <= k \/ n = k \/ n > k
    OBVIOUS
  <2> QED BY <2>2, <2>3, <2>4, <2>5
<1>9. Follows(f, ss)
  BY <1>7, <1>8 DEF Follows, e
<1>10. FlattenSeq(ss) = f[N]
  BY <1>9, FlattenFollows
<1>11. f[N] = w \o F(N)
  <2>1. N \in 0..N /\ ~(N <= k)
    BY <1>1
  <2> QED BY <1>2, <2>1
<1>12. F(N) = FlattenSeq(tt) /\ IsSeq(F(N))
  <2>1. Opening(tt, N) = tt
    BY <1>1, BeginsOf
  <2> QED BY <1>1, <1>3, <2>1 DEF F
<1> QED BY <1>10, <1>11, <1>12 DEF w

\* The ids that wait for an answer of a tool when k calls have one.
Unanswered(cs, k, m) ==
  [j \in 1..Len(cs) |-> IF j > k /\ cs[j].name = m THEN <<cs[j].id>> ELSE <<>>]
Waiting(P, cs, k) ==
  /\ DOMAIN P = {cs[j].name : j \in 1..Len(cs)}
  /\ \A m \in DOMAIN P : P[m] = FlattenSeq(Unanswered(cs, k, m))

\* The oldest of them is the next call's.
LEMMA NextWaits ==
  ASSUME NEW cs, IsSeq(cs), NEW k \in Nat, k < Len(cs), NEW P, Waiting(P, cs, k),
         cs[k + 1].name # None
  PROVE  /\ AnswerId(P, cs[k + 1].name) = cs[k + 1].id
         /\ Waiting(AfterAnswer(P, cs[k + 1].name), cs, k + 1)
<1> DEFINE m == cs[k + 1].name
           x == cs[k + 1].id
           n == Len(cs)
           s == Unanswered(cs, k, m)
           t == Unanswered(cs, k + 1, m)
           r == FlattenSeq(t)
           w == <<x>>
           v == w \o r
           Q == AfterAnswer(P, m)
<1>1. n \in Nat /\ k + 1 \in 1..n
  BY SizeOfSeq
<1>2. m \in DOMAIN P /\ P[m] = FlattenSeq(s)
  BY <1>1 DEF Waiting
<1>3. /\ IsSeq(s) /\ Len(s) = n /\ IsSeq(t) /\ Len(t) = n
      /\ \A j \in 1..n : /\ s[j] = IF j > k /\ cs[j].name = m THEN <<cs[j].id>> ELSE <<>>
                         /\ t[j] = IF j > k + 1 /\ cs[j].name = m THEN <<cs[j].id>> ELSE <<>>
  <2>1. IsSeq(s) /\ Len(s) = n
    BY <1>1, Numbered DEF Unanswered
  <2>2. IsSeq(t) /\ Len(t) = n
    BY <1>1, Numbered DEF Unanswered
  <2>3. \A j \in 1..n : /\ s[j] = IF j > k /\ cs[j].name = m THEN <<cs[j].id>> ELSE <<>>
                        /\ t[j] = IF j > k + 1 /\ cs[j].name = m THEN <<cs[j].id>> ELSE <<>>
    BY DEF Unanswered
  <2> QED BY <2>1, <2>2, <2>3
<1> HIDE DEF s, t
<1>4. \A i \in 1..k : s[i] = <<>> /\ t[i] = <<>>
  <2>1. \A i \in 1..k : i \in 1..n /\ ~(i > k) /\ ~(i > k + 1)
    BY <1>1
  <2> QED BY <1>3, <2>1
<1>5. s[k + 1] = w /\ t[k + 1] = <<>>
  <2>1. k + 1 > k /\ ~(k + 1 > k + 1)
    OBVIOUS
  <2> QED BY <1>1, <1>3, <2>1
<1>6. \A i \in 1..n : IsSeq(s[i]) /\ IsSeq(t[i]) /\ (i > k + 1 => t[i] = s[i])
  <2>1. \A i \in 1..n : i > k + 1 => i > k
    BY <1>1
  <2>2. \A i \in 1..n : IsSeq(<<cs[i].id>>) /\ IsSeq(<<>>)
    BY Single, NothingIsSeq
  <2> QED BY <1>3, <2>1, <2>2
<1>7. FlattenSeq(s) = v /\ IsSeq(r)
  <2>1. IsSeq(s) /\ IsSeq(t) /\ Len(t) = Len(s) /\ k < Len(s)
    BY <1>3
  <2>2. \A i \in 1..Len(s) : IsSeq(s[i]) /\ IsSeq(t[i]) /\ (i > k + 1 => t[i] = s[i])
    BY <1>3, <1>6
  <2> HIDE DEF x, n
  <2> QED BY <1>4, <1>5, <2>1, <2>2, FlattenFirst
<1> HIDE DEF r
<1>8. v # <<>> /\ Head(v) = x /\ Tail(v) = r
  BY <1>7, HeadAndTail
<1> HIDE DEF v
<1>9. P[m] = v
  BY <1>2, <1>7
<1> HIDE DEF m, x, Q
<1>10. AnswerId(P, m) = x
  BY <1>2, <1>8, <1>9 DEF AnswerId, m
<1>11. Q = [P EXCEPT ![m] = r]
  BY <1>2, <1>8, <1>9 DEF AfterAnswer, Q
<1>12. DOMAIN Q = DOMAIN P /\ Q[m] = r /\ \A y \in DOMAIN P : y # m => Q[y] = P[y]
  <2>1. DOMAIN Q = DOMAIN P
    BY <1>11
  <2>2. Q[m] = r
    BY <1>2, <1>11
  <2>3. \A y \in DOMAIN P : y # m => Q[y] = P[y]
    BY <1>11
  <2> QED BY <2>1, <2>2, <2>3
<1>13. ASSUME NEW y \in DOMAIN P
       PROVE  Q[y] = FlattenSeq(Unanswered(cs, k + 1, y))
  <2>1. CASE y = m
    BY <1>12, <2>1 DEF r, t
  <2>2. CASE y # m
    <3>1. P[y] = FlattenSeq(Unanswered(cs, k, y))
      BY DEF Waiting
    <3>2. Unanswered(cs, k, y) = Unanswered(cs, k + 1, y)
      <4>1. \A j \in 1..n : (j > k /\ cs[j].name = y) <=> (j > k + 1 /\ cs[j].name = y)
        <5>1. \A j \in 1..n : j > k <=> (j > k + 1 \/ j = k + 1)
          BY <1>1
        <5> QED BY <1>1, <2>2, <5>1 DEF m
      <4> QED BY <4>1 DEF Unanswered, n
    <3> QED BY <1>12, <2>2, <3>1, <3>2
  <2> QED BY <2>1, <2>2
<1>14. Waiting(Q, cs, k + 1)
  BY <1>12, <1>13 DEF Waiting
<1> QED BY <1>10, <1>14 DEF m, x, Q

\* The message an item becomes.
CallsTaken(x) == IF x.role = "assistant" THEN NumberedCalls(x.calls) ELSE <<>>
AnswerTaken(acc, x) == IF x.role = "tool" THEN AnswerId(acc.pending, x.name) ELSE <<>>

LEMMA MessageTaken ==
  ASSUME NEW acc, NEW x, NEW new, new = TakesOne("ollama", acc, x)
  PROVE  /\ new.msgs = Append(acc.msgs, MessageOf(x.role, x.text, x.image, x.thinking,
                                                  CallsTaken(x), AnswerTaken(acc, x)))
         /\ new.pending = IF CallsTaken(x) # <<>> THEN PendingIds(CallsTaken(x))
                          ELSE IF x.role = "tool" THEN AfterAnswer(acc.pending, x.name)
                          ELSE acc.pending
<1> DEFINE cs == CallsTaken(x)
           a == AnswerTaken(acc, x)
           m == [Message EXCEPT !.role = x.role, !.content = x.text, !.image = x.image,
                   !.calls = cs, !.reasoning = x.thinking, !.answers = a]
           q == IF cs # <<>> THEN PendingIds(cs)
                ELSE IF x.role = "tool" THEN AfterAnswer(acc.pending, x.name) ELSE acc.pending
           n == MessageOf(x.role, x.text, x.image, x.thinking, cs, a)
<1>1. new = [msgs |-> Append(acc.msgs, m), pending |-> q]
  BY DEF TakesOne, TakeMessage, CallsTaken, AnswerTaken
<1>2. m = n
  <2> HIDE DEF cs, a
  <2> QED BY TakenMessage
<1> HIDE DEF m, n, q
<1>3. new.msgs = Append(acc.msgs, n) /\ new.pending = q
  BY <1>1, <1>2
<1> QED BY <1>3 DEF n, q

\* The calls as they are numbered.
LEMMA NumberedAre ==
  ASSUME NEW h, IsSeq(h), NEW c, IsSeq(c), Len(c) = Len(h),
         \A k \in 1..Len(h) : c[k].name = h[k].name /\ c[k].args.value = h[k].args,
         NEW cs, cs = NumberedCalls(c)
  PROVE  CallsMatch(cs, h) /\ DistinctIds(cs)
<1> DEFINE n == Len(h)
           x(k) == [id |-> <<"call", k - 1>>, name |-> c[k].name, args |-> Stable(c[k].args)]
<1>1. n \in Nat
  BY SizeOfSeq
<1>2. IsSeq(cs) /\ Len(cs) = n
  BY <1>1, Numbered DEF NumberedCalls
<1>3. \A k \in 1..n : cs[k] = x(k)
  BY DEF NumberedCalls
<1>4. \A k : /\ x(k).id = <<"call", k - 1>> /\ x(k).name = c[k].name
             /\ x(k).args.value = c[k].args.value
  BY DEF Stable
<1> HIDE DEF x
<1>5. CallsMatch(cs, h)
  BY <1>2, <1>3, <1>4 DEF CallsMatch
<1>6. ASSUME NEW i \in 1..n, NEW j \in 1..n, cs[i].id = cs[j].id
      PROVE  i = j
  <2>1. <<"call", i - 1>> = <<"call", j - 1>>
    BY <1>3, <1>4, <1>6
  <2>2. <<"call", i - 1>>[2] = i - 1 /\ <<"call", j - 1>>[2] = j - 1
    OBVIOUS
  <2>3. i - 1 = j - 1
    BY <2>1, <2>2
  <2> QED BY <1>1, <2>3
<1> QED BY <1>2, <1>5, <1>6 DEF DistinctIds

\* The reply is one message, and its calls wait for their answers.
LEMMA OllamaReplied ==
  ASSUME NEW t, TurnTold("ollama", t), NEW acc, AccOK("ollama", acc), NEW keys,
         NEW new, new = TakesOne("ollama", acc, OllamaReply(t, keys))
  PROVE  \E cs : /\ new.msgs = Append(acc.msgs, Speech(t.reply.text, t.reply.reasoning, cs))
                 /\ CallsMatch(cs, t.reply.calls) /\ DistinctIds(cs)
                 /\ cs # <<>> => Waiting(new.pending, cs, 0)
<1> DEFINE x == OllamaReply(t, keys)
           h == t.reply.calls
           n == Len(h)
           c == [k \in 1..n |-> [name |-> h[k].name, args |-> Args(h[k].args, keys)]]
           cs == NumberedCalls(c)
           e == <<>>
           s == Speech(t.reply.text, t.reply.reasoning, cs)
<1>1. IsSeq(h) /\ n \in Nat
  BY SizeOfSeq DEF TurnTold, TurnOK
<1>2. IsSeq(c) /\ Len(c) = n
  BY <1>1, Numbered
<1>3. \A k \in 1..n : c[k].name = h[k].name /\ c[k].args.value = h[k].args
  BY DEF Args
<1>4. /\ x.role = "assistant" /\ x.text = t.reply.text /\ x.thinking = t.reply.reasoning
      /\ x.calls = c /\ x.image = FALSE
  BY DEF OllamaReply, OllamaBlank
<1> HIDE DEF x, c, h, n
<1>5. CallsMatch(cs, h) /\ DistinctIds(cs)
  <2> HIDE DEF cs
  <2> QED BY <1>1, <1>2, <1>3, NumberedAre DEF n, cs
<1>6. CallsTaken(x) = cs /\ AnswerTaken(acc, x) = e
  BY <1>4 DEF CallsTaken, AnswerTaken
<1> HIDE DEF cs, s
<1>7. /\ new.msgs = Append(acc.msgs, MessageOf(x.role, x.text, x.image, x.thinking,
                                               CallsTaken(x), AnswerTaken(acc, x)))
      /\ CallsTaken(x) # e => new.pending = PendingIds(CallsTaken(x))
  BY MessageTaken DEF x
<1>8. s = MessageOf("assistant", t.reply.text, FALSE, t.reply.reasoning, cs, e)
  BY SpeechOf DEF s
<1>9. new.msgs = Append(acc.msgs, s)
  BY <1>4, <1>6, <1>7, <1>8
<1>10. ASSUME cs # e
       PROVE  Waiting(new.pending, cs, 0)
  <2> DEFINE P == new.pending
             Q(m) == [k \in 1..Len(cs) |-> IF cs[k].name = m THEN <<cs[k].id>> ELSE <<>>]
  <2>1. P = [m \in {cs[k].name : k \in 1..Len(cs)} |-> FlattenSeq(Q(m))]
    BY <1>6, <1>7, <1>10 DEF PendingIds
  <2>2. \A m : Q(m) = Unanswered(cs, 0, m)
    <3>1. \A k \in 1..Len(cs) : k > 0
      OBVIOUS
    <3> QED BY <3>1 DEF Unanswered
  <2> HIDE DEF Q, P
  <2>3. DOMAIN P = {cs[k].name : k \in 1..Len(cs)}
    BY <2>1
  <2>4. \A m \in DOMAIN P : P[m] = FlattenSeq(Unanswered(cs, 0, m))
    BY <2>1, <2>2, <2>3
  <2> QED BY <2>3, <2>4 DEF Waiting, P
<1> QED BY <1>5, <1>9, <1>10 DEF h, s, e

\* Its answers name the calls in their order.
AnswersFollow(acc, t, us) ==
  TakesAll("ollama", acc, OllamaAnswers(t)).msgs = acc.msgs \o us

LEMMA OllamaAnswered ==
  ASSUME NEW t, TurnTold("ollama", t), NEW acc, AccOK("ollama", acc), NEW cs,
         CallsMatch(cs, t.reply.calls), cs # <<>> => Waiting(acc.pending, cs, 0), NEW us,
         us = [k \in 1..Len(t.reply.calls) |->
                 Answer(cs[k].id, Result(t.reply.calls[k].args))]
  PROVE  /\ AnswersFollow(acc, t, us)
         /\ AnswerList(us, cs, t) /\ IsSeq(OllamaAnswers(t))
<1> DEFINE d == "ollama"
           h == t.reply.calls
           N == Len(h)
           p == OllamaAnswers(t)
           T(n) == TakesAll(d, acc, Opening(p, n))
           Knows(n) == /\ AccOK(d, T(n)) /\ T(n).msgs = acc.msgs \o Opening(us, n)
                       /\ cs # <<>> => Waiting(T(n).pending, cs, n)
           S == {n \in Nat : n <= N => Knows(n)}
           e == <<>>
<1>1. /\ IsSeq(h) /\ N \in Nat /\ ~t.backwards /\ (\A k \in 1..N : h[k].name # None)
      /\ IsSeq(cs) /\ Len(cs) = N /\ (\A k \in 1..N : cs[k].name = h[k].name) /\ IsSeq(acc.msgs)
  BY SizeOfSeq DEF TurnTold, TurnOK, CallsMatch, AccOK
<1>2. Len(Answered(t)) = N /\ \A k \in 1..N : CallFor(t, k) = k /\ Answered(t)[k] = h[k]
  BY <1>1 DEF CallFor, Answered
<1>3. IsSeq(us) /\ Len(us) = N /\ \A k \in 1..N : us[k] = Answer(cs[k].id, Result(h[k].args))
  <2>1. IsSeq(us) /\ Len(us) = N
    BY <1>1, Numbered
  <2> QED BY <2>1
<1>4. /\ IsSeq(p) /\ Len(p) = N
      /\ \A k \in 1..N : /\ p[k].role = "tool" /\ p[k].name = h[k].name /\ p[k].image = FALSE
                         /\ p[k].text = Result(h[k].args) /\ p[k].thinking = e
  <2>1. IsSeq(p) /\ Len(p) = N
    BY <1>1, <1>2, Numbered DEF OllamaAnswers
  <2>2. \A k \in 1..N : /\ p[k].role = "tool" /\ p[k].name = Answered(t)[k].name
                        /\ p[k].text = Result(Answered(t)[k].args)
                        /\ p[k].image = FALSE /\ p[k].thinking = e
    BY <1>2 DEF OllamaAnswers, OllamaBlank
  <2> HIDE DEF p
  <2> QED BY <1>2, <2>1, <2>2
<1>5. AnswerList(us, cs, t)
  BY <1>1, <1>2, <1>3 DEF AnswerList
<1> HIDE DEF p, h, N
<1>6. 0 \in S
  <2>1. Opening(p, 0) = e /\ Opening(us, 0) = e
    BY <1>1, <1>3, <1>4, BeginsOf
  <2>2. TakesAll(d, acc, e) = acc
    <3> HIDE DEF e
    <3> QED BY TakesNothing DEF e
  <2>3. acc.msgs \o e = acc.msgs
    BY <1>1, Concatenated
  <2> HIDE DEF e
  <2> QED BY <2>1, <2>2, <2>3
<1>7. ASSUME NEW n \in Nat, n \in S
      PROVE  n + 1 \in S
  <2> HIDE DEF Knows
  <2> SUFFICES ASSUME n + 1 <= N
               PROVE  Knows(n + 1)
    OBVIOUS
  <2> USE DEF Knows
  <2> DEFINE r == Opening(p, n)
             q == Opening(us, n)
             x == p[n + 1]
             v == us[n + 1]
             A == T(n)
             new == TakesOne(d, A, x)
  <2>1. n < N /\ n <= N /\ n + 1 \in 1..N /\ N # 0
    BY <1>1
  <2>2. AccOK(d, A) /\ A.msgs = acc.msgs \o q /\ (cs # <<>> => Waiting(A.pending, cs, n))
    BY <1>7, <2>1
  <2>3. IsSeq(r) /\ Opening(p, n + 1) = Append(r, x)
    BY <1>4, <2>1, BeginsOf
  <2>4. IsSeq(q) /\ Opening(us, n + 1) = Append(q, v)
    BY <1>3, <2>1, BeginsOf
  <2>5. ItemsOK(d, r) /\ ItemOK(d, x)
    BY <2>3, PlainItemsOK DEF ItemOK
  <2>6. T(n + 1) = new
    <3> HIDE DEF r, x
    <3>1. TakesAll(d, acc, Append(r, x)) = TakesOne(d, TakesAll(d, acc, r), x)
      BY <2>5, TakesGrow
    <3> QED BY <2>3, <3>1 DEF r
  <2>7. /\ x.role = "tool" /\ x.name = cs[n + 1].name /\ x.image = FALSE
        /\ x.thinking = e /\ v = Answer(cs[n + 1].id, x.text) /\ x.name # None
    BY <1>1, <1>3, <1>4, <2>1 DEF h
  <2>8. cs # <<>>
    BY <1>1, <2>1, SizeOfSeq
  <2>9. Waiting(A.pending, cs, n)
    BY <2>2, <2>8
  <2>10. AccOK(d, new)
    <3> HIDE DEF A, x
    <3> QED BY <2>2, <2>5, OneIsTaken
  <2> HIDE DEF T, r, q, x, v, A, new
  <2>11. /\ AnswerId(A.pending, x.name) = cs[n + 1].id
         /\ Waiting(AfterAnswer(A.pending, x.name), cs, n + 1)
    <3>1. n < Len(cs) /\ cs[n + 1].name # None
      BY <1>1, <2>1, <2>7
    <3> QED BY <1>1, <2>7, <2>9, <3>1, NextWaits
  <2>12. CallsTaken(x) = e /\ AnswerTaken(A, x) = cs[n + 1].id
    BY <2>7, <2>11 DEF CallsTaken, AnswerTaken
  <2>13. /\ new.msgs = Append(A.msgs, MessageOf(x.role, x.text, x.image, x.thinking,
                                                CallsTaken(x), AnswerTaken(A, x)))
         /\ CallsTaken(x) = e /\ x.role = "tool" => new.pending = AfterAnswer(A.pending, x.name)
    BY MessageTaken DEF new
  <2>14. v = MessageOf("tool", x.text, FALSE, e, e, cs[n + 1].id)
    BY <2>7, AnswerOf
  <2>15. new.msgs = Append(A.msgs, v) /\ new.pending = AfterAnswer(A.pending, x.name)
    BY <2>7, <2>12, <2>13, <2>14
  <2>16. acc.msgs \o Append(q, v) = Append(acc.msgs \o q, v)
    <3> DEFINE m == acc.msgs
    <3>1. IsSeq(m) /\ IsSeq(q)
      BY <1>1, <2>4
    <3> HIDE DEF m
    <3>2. m \o Append(q, v) = Append(m \o q, v)
      BY <3>1, AppendsAfter
    <3> QED BY <3>2 DEF m
  <2> QED BY <2>2, <2>4, <2>6, <2>10, <2>11, <2>15, <2>16
<1>8. \A n \in Nat : n \in S
  <2> HIDE DEF S
  <2> QED BY <1>6, <1>7, SetInduction
<1>9. Knows(N)
  <2> HIDE DEF Knows
  <2>1. N \in Nat /\ N <= N
    BY <1>1
  <2> QED BY <1>8, <2>1
<1>10. Opening(p, N) = p /\ Opening(us, N) = us
  BY <1>1, <1>3, <1>4, BeginsOf
<1>11. AnswersFollow(acc, t, us)
  BY <1>9, <1>10 DEF AnswersFollow, p
<1> QED BY <1>4, <1>5, <1>11 DEF p

\* What the gateway sends of a turn is the turn.
LEMMA OllamaTurned ==
  ASSUME NEW t, TurnTold("ollama", t), NEW acc, AccOK("ollama", acc), Settled(JoinedUp(acc.msgs)),
         NEW keys
  PROVE  Turned(acc.msgs, TakesAll("ollama", acc, OllamaTurn(t, keys)).msgs, t, t.reply.reasoning)
<1> DEFINE d == "ollama"
           J == JoinedUp(acc.msgs)
           x == OllamaReply(t, keys)
           w == <<x>>
           p == OllamaAnswers(t)
           u == OllamaMore(t)
           h == t.reply.calls
           c == t.reply.text
           r == t.reply.reasoning
           R == RemarkOf(t)
           A == TakesOne(d, acc, x)
           B == TakesAll(d, A, p)
           mid == A.msgs
           e == <<>>
<1>1. IsSeq(c) /\ IsSeq(r) /\ IsSeq(h) /\ IsSeq(acc.msgs)
  BY DEF TurnTold, TurnOK, AccOK
<1>2. PICK cs : /\ A.msgs = Append(acc.msgs, Speech(c, r, cs))
                /\ CallsMatch(cs, h) /\ DistinctIds(cs)
                /\ cs # <<>> => Waiting(A.pending, cs, 0)
  <2> HIDE DEF A
  <2> QED BY OllamaReplied DEF A
<1>3. IsSeq(mid) /\ JoinedUp(mid) = AddSpeech(J, c, r, cs)
  <2>1. IsSeq(cs)
    BY <1>2 DEF CallsMatch
  <2> HIDE DEF c, r, A
  <2> QED BY <1>1, <1>2, <2>1, SaysOnce
<1>4. ItemOK(d, x)
  BY DEF ItemOK
<1>5. AccOK(d, A)
  <2> HIDE DEF x
  <2> QED BY <1>4, OneIsTaken
<1> DEFINE us == [k \in 1..Len(h) |-> Answer(cs[k].id, Result(h[k].args))]
<1>6. B.msgs = A.msgs \o us /\ AnswerList(us, cs, t) /\ IsSeq(p)
  <2> HIDE DEF A, us, p
  <2>1. us = [k \in 1..Len(t.reply.calls) |-> Answer(cs[k].id, Result(t.reply.calls[k].args))]
    BY DEF us
  <2>2. CallsMatch(cs, t.reply.calls) /\ (cs # <<>> => Waiting(A.pending, cs, 0))
    BY <1>2
  <2>3. AnswersFollow(A, t, us)
    BY <1>5, <2>1, <2>2, OllamaAnswered
  <2>4. AnswerList(us, cs, t) /\ IsSeq(OllamaAnswers(t))
    BY <1>5, <2>1, <2>2, OllamaAnswered
  <2> QED BY <2>3, <2>4 DEF p, AnswersFollow
<1>7. IsSeq(us)
  <2> HIDE DEF us
  <2> QED BY <1>6 DEF AnswerList
<1>8. IsSeq(w) /\ IsSeq(u) /\ IsSeq(R)
  BY Single, NothingIsSeq, RemarkIs DEF OllamaMore
<1> HIDE DEF x, p, u, us, R
<1>9. ItemsOK(d, w) /\ ItemsOK(d, p) /\ ItemsOK(d, u)
  <2> HIDE DEF w
  <2> QED BY <1>6, <1>8, PlainItemsOK
<1>10. TakesAll(d, acc, w) = A
  <2>1. IsSeq(e) /\ w = Append(e, x)
    BY NothingIsSeq, Single
  <2>2. ItemsOK(d, e)
    <3> HIDE DEF e
    <3> QED BY <2>1, PlainItemsOK
  <2>3. TakesAll(d, acc, e) = acc
    <3> HIDE DEF e
    <3> QED BY TakesNothing DEF e
  <2> HIDE DEF e, w
  <2>4. TakesAll(d, acc, Append(e, x)) = TakesOne(d, TakesAll(d, acc, e), x)
    BY <1>4, <2>2, TakesGrow
  <2> QED BY <2>1, <2>3, <2>4
<1> HIDE DEF w, A
<1>11. AccOK(d, B)
  BY <1>5, <1>9, AllAreTaken
<1> DEFINE wp == w \o p
<1>12. ItemsOK(d, wp) /\ TakesAll(d, acc, wp) = B
  BY <1>9, <1>10, TakesJoined
<1> HIDE DEF wp, B
<1>13. TakesAll(d, acc, wp \o u) = TakesAll(d, B, u)
  BY <1>9, <1>12, TakesJoined
<1>14. OllamaTurn(t, keys) = wp \o u
  BY DEF OllamaTurn, wp, w, x, p, u
<1>15. TakesAll(d, B, u).msgs = B.msgs \o R
  <2>1. CASE ~t.more
    <3>1. u = e /\ R = e
      BY <2>1, RemarkIs DEF OllamaMore, u, R
    <3>2. IsSeq(B.msgs) /\ IsSeq(e)
      BY <1>11, NothingIsSeq DEF AccOK
    <3>3. B.msgs \o e = B.msgs
      BY <3>2, Concatenated
    <3> HIDE DEF e
    <3>4. TakesAll(d, B, e) = B
      BY <1>11, TakesNothing DEF e
    <3> QED BY <3>1, <3>3, <3>4
  <2>2. CASE t.more
    <3> DEFINE y == [OllamaBlank EXCEPT !.text = t.words, !.image = TRUE]
               v == MessageOf("user", t.words, TRUE, e, e, e)
               new == TakesOne(d, B, y)
    <3>1. /\ y.role = "user" /\ y.text = t.words /\ y.image = TRUE /\ y.thinking = e
      BY DEF OllamaBlank
    <3>2. u = <<y>>
      BY <2>2 DEF OllamaMore, u
    <3>3. R = <<v>>
      BY <2>2, RemarkOfWords DEF R
    <3>4. IsSeq(B.msgs)
      BY <1>11 DEF AccOK
    <3> HIDE DEF y, v, new
    <3>5. CallsTaken(y) = e /\ AnswerTaken(B, y) = e
      BY <3>1 DEF CallsTaken, AnswerTaken
    <3>6. new.msgs = Append(B.msgs, MessageOf(y.role, y.text, y.image, y.thinking,
                                              CallsTaken(y), AnswerTaken(B, y)))
      BY MessageTaken DEF new
    <3>7. new.msgs = Append(B.msgs, v)
      BY <3>1, <3>5, <3>6 DEF v
    <3>8. TakesAll(d, B, u) = new
      <4>1. IsSeq(e) /\ u = Append(e, y)
        BY <3>2, NothingIsSeq, Single
      <4>2. ItemsOK(d, e) /\ ItemOK(d, y)
        <5> HIDE DEF e
        <5> QED BY <4>1, PlainItemsOK DEF ItemOK
      <4>3. TakesAll(d, B, e) = B
        <5> HIDE DEF e
        <5> QED BY <1>11, TakesNothing DEF e
      <4> HIDE DEF e
      <4>4. TakesAll(d, B, Append(e, y)) = TakesOne(d, TakesAll(d, B, e), y)
        BY <1>11, <4>2, TakesGrow
      <4> QED BY <4>1, <4>3, <4>4 DEF new
    <3>9. Append(B.msgs, v) = B.msgs \o <<v>>
      BY <3>4, Single
    <3> QED BY <3>3, <3>7, <3>8, <3>9
  <2> QED BY <2>1, <2>2
<1> DEFINE new == TakesAll("ollama", acc, OllamaTurn(t, keys)).msgs
<1>16. new = (mid \o us) \o R
  BY <1>6, <1>13, <1>14, <1>15
<1> HIDE DEF new, mid, J, c, r, h
<1>17. Turned(acc.msgs, new, t, r)
  BY <1>2, <1>3, <1>6, <1>16 DEF Turned, J, c, h, R
<1> QED BY <1>17 DEF new, r

-----------------------------------------------------------------------------
(* What is sent is the conversation.                                       *)

\* What is expected of a conversation, whichever its dialect is.
ReasonsOf(d, t) == IF d = "responses" THEN <<>> ELSE t.reply.reasoning
SaysTurn(d, t) ==
  SpeechSaid(t.reply.text, ReasonsOf(d, t), t.reply.calls) \o AnswersTo(t) \o RemarkOf(t)
FirstSays(d) ==
  (IF System(d) = <<>> THEN <<>>
   ELSE <<[Message EXCEPT !.role = "system", !.content = System(d)]>>)
  \o <<[Message EXCEPT !.content = Asked(0)]>>
TurnsSay(d, turns) == [n \in 1..Len(turns) |-> SaysTurn(d, turns[n])]
ExpectedOf(d, turns) == FirstSays(d) \o FlattenSeq(TurnsSay(d, turns))
AllAnswerable(turns) ==
  IsSeq(turns) /\ \A n \in 1..Len(turns) : IsSeq(turns[n].reply.calls)

LEMMA ExpectedIs ==
  ASSUME NEW turns
  PROVE  /\ Expected(turns) = ExpectedOf(dialect, turns)
         /\ \A t : TurnSays(t) = SaysTurn(dialect, t) /\ ReasoningOf(t) = ReasonsOf(dialect, t)
<1>1. \A t : /\ ReplyTo(t) \o AnswersTo(t) \o RemarkOf(t) = SaysTurn(dialect, t)
             /\ ReasoningOf(t) = ReasonsOf(dialect, t)
  BY ReplyIs DEF SaysTurn, ReasoningOf, ReasonsOf
<1> DEFINE f == [n \in 1..Len(turns) |->
                   ReplyTo(turns[n]) \o AnswersTo(turns[n]) \o RemarkOf(turns[n])]
<1>2. f = TurnsSay(dialect, turns)
  BY <1>1 DEF TurnsSay
<1>3. Expected(turns) = FirstSays(dialect) \o FlattenSeq(f)
  BY DEF Expected, FirstSays
<1> HIDE DEF f
<1> QED BY <1>1, <1>2, <1>3 DEF ExpectedOf, TurnSays

LEMMA SaysTurnIsSeq ==
  ASSUME NEW d, NEW t, IsSeq(t.reply.calls)
  PROVE  IsSeq(SaysTurn(d, t))
<1> DEFINE S == SpeechSaid(t.reply.text, ReasonsOf(d, t), t.reply.calls)
           W == AnswersTo(t)
           R == RemarkOf(t)
<1>1. IsSeq(S)
  BY Single, NothingIsSeq DEF SpeechSaid
<1>2. IsSeq(W)
  BY AnswersAre
<1>3. IsSeq(R)
  BY RemarkIs
<1>4. SaysTurn(d, t) = (S \o W) \o R
  BY DEF SaysTurn
<1> HIDE DEF S, W, R
<1>5. IsSeq(S \o W)
  BY <1>1, <1>2, Concatenated
<1> QED BY <1>3, <1>4, <1>5, Concatenated

\* The first messages by their fields.
LEMMA FirstAre ==
  ASSUME NEW d
  PROVE  \E b : /\ b = MessageOf("user", Asked(0), FALSE, <<>>, <<>>, <<>>) /\ b.role = "user"
                /\ System(d) = <<>> => FirstSays(d) = <<b>>
                /\ System(d) # <<>> =>
                     \E a : /\ a = MessageOf("system", System(d), FALSE, <<>>, <<>>, <<>>)
                            /\ a.role = "system" /\ FirstSays(d) = <<a>> \o <<b>>
<1> DEFINE a == MessageOf("system", System(d), FALSE, <<>>, <<>>, <<>>)
           b == MessageOf("user", Asked(0), FALSE, <<>>, <<>>, <<>>)
           v == <<b>>
           w == <<a>>
<1>1. a.role = "system" /\ b.role = "user"
  BY DEF MessageOf
<1>2. <<[Message EXCEPT !.role = "system", !.content = System(d)]>> = w
  BY FirstSaid
<1>3. <<[Message EXCEPT !.content = Asked(0)]>> = v
  BY FirstAsked
<1>4. FirstSays(d) = (IF System(d) = <<>> THEN <<>> ELSE w) \o v
  BY <1>2, <1>3 DEF FirstSays
<1>5. IsSeq(v) /\ v = <<b>> /\ w = <<a>>
  BY Single
<1>6. a = MessageOf("system", System(d), FALSE, <<>>, <<>>, <<>>)
  OBVIOUS
<1>7. b = MessageOf("user", Asked(0), FALSE, <<>>, <<>>, <<>>)
  OBVIOUS
<1> HIDE DEF a, b, v, w
<1>8. <<>> \o v = v
  BY <1>5, Concatenated
<1> QED BY <1>1, <1>4, <1>5, <1>6, <1>7, <1>8

\* A history in which nothing is joined.
PlainlySaid(msgs) == IsSeq(msgs) /\ JoinedUp(msgs) = msgs /\ AllBare(msgs) = msgs

LEMMA MorePlainly ==
  ASSUME NEW msgs, PlainlySaid(msgs), NEW x, x.role # "assistant", x.role # "tool"
  PROVE  PlainlySaid(Append(msgs, x)) /\ Settled(Append(msgs, x))
<1> DEFINE n == Len(msgs)
           p == Append(msgs, x)
<1>1. IsSeq(msgs) /\ JoinedUp(msgs) = msgs /\ AllBare(msgs) = msgs
  BY DEF PlainlySaid
<1>2. IsSeq(p) /\ n \in Nat /\ Len(p) = n + 1 /\ p[n + 1] = x /\ \A i \in 1..n : p[i] = msgs[i]
  BY <1>1, Appended
<1>3. JoinedUp(p) = p
  BY <1>1, JoinsMore DEF Joins
<1> HIDE DEF p
<1>4. Settled(p)
  BY <1>2 DEF Settled
<1> DEFINE a == AllBare(p)
<1>5. IsSeq(a) /\ Len(a) = n + 1 /\ \A k \in 1..(n + 1) : a[k] = Bare(p[k])
  BY <1>2, AllBareIs
<1>6. \A k \in 1..n : Bare(msgs[k]) = msgs[k]
  BY <1>1, AllBareIs
<1> HIDE DEF a, n
<1>7. \A k \in 1..(n + 1) : k \in 1..n \/ k = n + 1
  BY <1>2
<1>8. Bare(x) = x
  BY DEF Bare
<1>9. \A k \in 1..(n + 1) : a[k] = p[k]
  BY <1>2, <1>5, <1>6, <1>7, <1>8
<1>10. a = p
  BY <1>2, <1>5, <1>9, SameSeq
<1> QED BY <1>2, <1>3, <1>4, <1>10 DEF PlainlySaid, a, p

LEMMA FirstPlainly ==
  ASSUME NEW d
  PROVE  PlainlySaid(FirstSays(d)) /\ Settled(FirstSays(d))
<1> DEFINE e == <<>>
<1>1. PlainlySaid(e)
  <2>1. IsSeq(e) /\ Len(e) = 0
    BY NothingIsSeq
  <2> HIDE DEF e
  <2>2. JoinedUp(e) = e
    BY NothingJoined DEF e
  <2>3. AllBare(e) = e
    BY <2>1, AllBareSame
  <2> QED BY <2>1, <2>2, <2>3 DEF PlainlySaid
<1>2. \A x : <<x>> = Append(e, x)
  OBVIOUS
<1> HIDE DEF e
<1>3. PICK b : /\ b.role = "user"
               /\ System(d) = <<>> => FirstSays(d) = <<b>>
               /\ System(d) # <<>> => \E a : a.role = "system" /\ FirstSays(d) = <<a>> \o <<b>>
  BY FirstAre
<1>4. CASE System(d) = <<>>
  <2>1. PlainlySaid(Append(e, b)) /\ Settled(Append(e, b))
    BY <1>1, <1>3, MorePlainly
  <2> QED BY <1>2, <1>3, <1>4, <2>1
<1>5. CASE System(d) # <<>>
  <2>1. PICK a : a.role = "system" /\ FirstSays(d) = <<a>> \o <<b>>
    BY <1>3, <1>5
  <2> DEFINE w == Append(e, a)
  <2>2. PlainlySaid(w)
    BY <1>1, <2>1, MorePlainly
  <2>3. w = <<a>>
    BY <1>2
  <2> HIDE DEF w
  <2>4. PlainlySaid(Append(w, b)) /\ Settled(Append(w, b))
    BY <1>3, <2>2, MorePlainly
  <2>5. Append(w, b) = w \o <<b>>
    BY <2>2, Single DEF PlainlySaid
  <2> QED BY <2>1, <2>3, <2>4, <2>5
<1> QED BY <1>4, <1>5

\* A turn more, and it is expected last.
ExpectsMore(d, turns, t) ==
  ExpectedOf(d, Append(turns, t)) = ExpectedOf(d, turns) \o SaysTurn(d, t)

LEMMA ExpectedMore ==
  ASSUME NEW d, NEW turns, AllAnswerable(turns), NEW t, IsSeq(t.reply.calls)
  PROVE  ExpectsMore(d, turns, t) /\ AllAnswerable(Append(turns, t))
<1> DEFINE n == Len(turns)
           more == Append(turns, t)
           ss == TurnsSay(d, turns)
           tt == TurnsSay(d, more)
           x == SaysTurn(d, t)
           F == FirstSays(d)
<1>1. /\ IsSeq(turns) /\ n \in Nat /\ IsSeq(more) /\ Len(more) = n + 1 /\ more[n + 1] = t
      /\ \A k \in 1..n : more[k] = turns[k]
      /\ \A k \in 1..n : IsSeq(turns[k].reply.calls)
  BY Appended DEF AllAnswerable
<1>2. \A k \in 1..(n + 1) : k \in 1..n \/ k = n + 1
  BY <1>1
<1> HIDE DEF n, more
<1>3. AllAnswerable(more)
  BY <1>1, <1>2 DEF AllAnswerable
<1>4. IsSeq(x)
  BY SaysTurnIsSeq
<1>5. IsSeq(ss) /\ Len(ss) = n /\ \A k \in 1..n : ss[k] = SaysTurn(d, turns[k])
  <2>1. ss = [k \in 1..n |-> SaysTurn(d, turns[k])]
    BY DEF TurnsSay, n
  <2> HIDE DEF ss
  <2>2. DOMAIN ss = 1..n /\ ss = [k \in 1..n |-> ss[k]] /\ \A k \in 1..n : ss[k] = SaysTurn(d, turns[k])
    BY <2>1
  <2> QED BY <1>1, <2>2, Numbered
<1>6. IsSeq(tt) /\ Len(tt) = n + 1 /\ \A k \in 1..(n + 1) : tt[k] = SaysTurn(d, more[k])
  <2> DEFINE m == n + 1
  <2>1. tt = [k \in 1..m |-> SaysTurn(d, more[k])]
    BY <1>1 DEF TurnsSay
  <2>2. m \in Nat
    BY <1>1
  <2> HIDE DEF tt, m
  <2>3. DOMAIN tt = 1..m /\ tt = [k \in 1..m |-> tt[k]] /\ \A k \in 1..m : tt[k] = SaysTurn(d, more[k])
    BY <2>1
  <2>4. IsSeq(tt) /\ Len(tt) = m
    BY <2>2, <2>3, Numbered
  <2> QED BY <2>3, <2>4 DEF m
<1> HIDE DEF ss, tt, x
<1>7. \A k \in 1..n : tt[k] = ss[k]
  BY <1>1, <1>5, <1>6
<1>8. tt[n + 1] = x
  BY <1>1, <1>6 DEF x
<1>9. FlattenSeq(tt) = FlattenSeq(ss) \o x
  BY <1>4, <1>5, <1>6, <1>7, <1>8, FlattenMore
<1>10. IsSeq(FlattenSeq(ss))
  <2>1. \A k \in 1..n : IsSeq(ss[k])
    BY <1>1, <1>5, SaysTurnIsSeq
  <2> QED BY <1>5, <2>1, FlattenIsSeq
<1>11. IsSeq(F)
  BY FirstPlainly DEF PlainlySaid
<1> HIDE DEF F
<1>12. Regroups(F, FlattenSeq(ss), x)
  BY <1>4, <1>10, <1>11, Regrouped
<1>13. F \o (FlattenSeq(ss) \o x) = (F \o FlattenSeq(ss)) \o x
  BY <1>12 DEF Regroups
<1>14. ExpectedOf(d, more) = F \o FlattenSeq(tt) /\ ExpectedOf(d, turns) = F \o FlattenSeq(ss)
  BY DEF ExpectedOf, F, tt, ss
<1>15. ExpectsMore(d, turns, t)
  BY <1>9, <1>13, <1>14 DEF ExpectsMore, more, x
<1> QED BY <1>3, <1>15 DEF more

\* Whatever the dialect, what the gateway makes of a turn is the turn.
LEMMA TurnTurned ==
  ASSUME NEW d \in {"anthropic", "responses", "ollama"}, NEW t, TurnTold(d, t),
         NEW acc, AccOK(d, acc), d = "responses" => acc.pending = <<>>,
         Settled(JoinedUp(MessagesOf(d, acc)))
  PROVE  Turned(MessagesOf(d, acc), MessagesOf(d, TakesAll(d, acc, TurnItems(d, t, "written"))), t,
                ReasonsOf(d, t))
<1> DEFINE w == "written"
<1>1. CASE d = "anthropic"
  <2>1. MessagesOf(d, acc) = acc /\ IsSeq(acc)
    BY <1>1 DEF MessagesOf, AccOK
  <2>2. Turned(acc, TakesAll("anthropic", acc, AnthropicTurn(t, w)), t, t.reply.reasoning)
    BY <1>1, <2>1, AnthropicTurned
  <2> QED BY <1>1, <2>1, <2>2 DEF MessagesOf, TurnItems, ReasonsOf
<1>2. CASE d = "responses"
  <2> DEFINE e == <<>>
  <2>1. MessagesOf(d, acc) = acc.msgs
    BY <1>2 DEF MessagesOf
  <2> HIDE DEF e
  <2>2. Turned(acc.msgs, TakesAll("responses", acc, ResponsesTurn(t, w)).msgs, t, e)
    BY <1>2, <2>1, ResponsesTurned DEF e
  <2>3. ReasonsOf(d, t) = e
    BY <1>2 DEF ReasonsOf, e
  <2> QED BY <1>2, <2>1, <2>2, <2>3 DEF MessagesOf, TurnItems
<1>3. CASE d = "ollama"
  <2>1. MessagesOf(d, acc) = acc.msgs
    BY <1>3 DEF MessagesOf
  <2>2. Turned(acc.msgs, TakesAll("ollama", acc, OllamaTurn(t, w)).msgs, t, t.reply.reasoning)
    BY <1>3, <2>1, OllamaTurned
  <2> QED BY <1>3, <2>1, <2>2 DEF MessagesOf, TurnItems, ReasonsOf
<1> QED BY <1>1, <1>2, <1>3

\* What goes upstream of a new conversation is its first messages.
FirstRead(d) == MessagesOf(d, AfterFirst(d)) = FirstSays(d)

LEMMA OneTaken ==
  ASSUME NEW d, NEW acc, AccOK(d, acc), NEW x, ItemOK(d, x)
  PROVE  TakesAll(d, acc, <<x>>) = TakesOne(d, acc, x) /\ ItemsOK(d, <<x>>)
<1> DEFINE e == <<>>
           w == <<x>>
<1>1. IsSeq(e) /\ Len(e) = 0 /\ w = Append(e, x)
  BY NothingIsSeq
<1>2. ItemsOK(d, e)
  BY <1>1 DEF ItemsOK
<1> HIDE DEF e
<1>3. TakesAll(d, acc, e) = acc
  BY TakesNothing DEF e
<1> HIDE DEF w
<1>4. TakesAll(d, acc, Append(e, x)) = TakesOne(d, TakesAll(d, acc, e), x)
  BY <1>2, TakesGrow
<1>5. ItemsOK(d, Append(e, x))
  BY <1>2, MoreItems
<1> QED BY <1>1, <1>3, <1>4, <1>5 DEF w

LEMMA AnthropicFirst == FirstRead("anthropic")
<1> DEFINE d == "anthropic"
           b == [type |-> "text", piece |-> Asked(0)]
           e == <<>>
           w == Append(e, b)
           x == [role |-> "user", blocks |-> w]
           S == SystemMessage(System(d))
           v == [Message EXCEPT !.content = Asked(0)]
<1>1. FirstOnes(d) = <<x>> /\ FirstMessages(d) = S
  BY DEF FirstOnes, FirstMessages
<1>2. x.role = "user" /\ x.blocks = w /\ b.type = "text" /\ b.piece = Asked(0)
  OBVIOUS
<1>3. IsSeq(Asked(0)) /\ e \o Asked(0) = Asked(0)
  <2>1. IsSeq(Asked(0))
    BY Single DEF Asked
  <2> QED BY <2>1, Concatenated
<1>4. IsSeq(e) /\ Len(e) = 0
  BY NothingIsSeq
<1> HIDE DEF b, e
<1>5. IsSeq(w) /\ Len(w) = 1 /\ w[1] = b
  <2> DEFINE n == Len(e)
  <2>1. n = 0 /\ IsSeq(w) /\ Len(w) = n + 1 /\ w[n + 1] = b
    BY <1>4, Appended
  <2> HIDE DEF n, w
  <2> QED BY <2>1
<1>6. \A type : Pieces(e, type) = e
  BY <1>4, PiecesNone DEF e
<1> HIDE DEF x
<1>7. \A type : type # "text" => OfType(w, type) = e /\ Pieces(w, type) = e
  <2> HIDE DEF w
  <2>1. ASSUME NEW type, type # "text"
        PROVE  OfType(w, type) = e /\ Pieces(w, type) = e
    <3>1. \A k \in 1..Len(w) : w[k].type # type
      BY <1>2, <1>5, <2>1
    <3> QED BY <1>5, <3>1, OfTypeNone, PiecesNone DEF e
  <2> QED BY <2>1
<1>8. Pieces(w, "text") = Asked(0)
  <2>1. b.type = "text" => IsSeq(b.piece)
    BY <1>2, <1>3
  <2>2. Pieces(Append(e, b), "text") = Pieces(e, "text") \o b.piece
    BY <1>2, <1>4, <2>1, PiecesMore
  <2> QED BY <1>2, <1>3, <1>6, <2>2
<1> HIDE DEF w
<1>9. FromAnthropic(x) = <<Plain("user", w)>>
  BY <1>2, <1>7 DEF FromAnthropic, e
<1>10. Plain("user", w) = MessageOf("user", Asked(0), FALSE, <<>>, <<>>, <<>>)
  <2> DEFINE i == OfType(w, "image") # <<>>
  <2>1. i = FALSE
    BY <1>7 DEF e
  <2>2. Plain("user", w) = MessageOf("user", Pieces(w, "text"), i, Pieces(w, "thinking"), <<>>, <<>>)
    BY PlainOf
  <2>3. Pieces(w, "thinking") = <<>>
    BY <1>7 DEF e
  <2> HIDE DEF i
  <2> QED BY <1>8, <2>1, <2>2, <2>3
<1>11. v = Plain("user", w)
  BY <1>10, FirstAsked
<1>12. FirstSays(d) = S \o <<v>>
  BY DEF FirstSays, SystemMessage
<1> HIDE DEF S, v, d
<1>13. ItemOK(d, x)
  <2>1. IsSeq(FromAnthropic(x))
    BY <1>9, Single
  <2> QED BY <2>1 DEF ItemOK
<1>14. AccOK(d, FirstMessages(d))
  BY FirstAreOK DEF d
<1>15. AfterFirst(d) = TakesOne(d, FirstMessages(d), x)
  BY <1>1, <1>13, <1>14, OneTaken DEF AfterFirst
<1>16. AfterFirst(d) = S \o <<v>>
  BY <1>1, <1>9, <1>11, <1>15 DEF TakesOne, d
<1> QED BY <1>12, <1>16 DEF FirstRead, MessagesOf, d

LEMMA ResponsesFirst == FirstRead("responses")
<1> DEFINE d == "responses"
           e == <<>>
           x == [type |-> "message", role |-> "developer", image |-> FALSE, text |-> System(d)]
           y == [type |-> "message", role |-> "user", image |-> FALSE, text |-> Asked(0)]
           acc == FirstMessages(d)
           A == TakesOne(d, acc, x)
           B == TakesOne(d, A, y)
           a == MessageOf("system", System(d), FALSE, <<>>, <<>>, <<>>)
           b == MessageOf("user", Asked(0), FALSE, <<>>, <<>>, <<>>)
           w == <<x>>
<1>1. FirstOnes(d) = <<x, y>>
  BY DEF FirstOnes
<1>2. acc.msgs = e /\ acc.pending = e
  BY DEF FirstMessages, SystemMessage
<1>3. AccOK(d, acc)
  BY FirstAreOK
<1>4. /\ x.type = "message" /\ x.role = "developer" /\ x.image = FALSE /\ x.text = System(d)
      /\ y.type = "message" /\ y.role = "user" /\ y.image = FALSE /\ y.text = Asked(0)
  OBVIOUS
<1>5. System(d) # <<>>
  BY DEF System
<1>6. IsSeq(w) /\ <<x, y>> = Append(w, y)
  <2> HIDE DEF x, y
  <2> QED BY Single
<1> HIDE DEF x, y
<1>7. FromItem(x) = <<a>>
  BY <1>4, SaidByItem DEF NormalizeRole
<1>8. FromItem(y) = <<b>>
  BY <1>4, SaidByItem DEF NormalizeRole
<1>9. FirstSays(d) = <<a>> \o <<b>>
  BY <1>5, FirstAre
<1> HIDE DEF a, b, e
<1>10. IsSeq(FromItem(x)) /\ IsSeq(FromItem(y)) /\ \A u : IsSeq(u) => e \o u = u
  BY <1>7, <1>8, Single, Concatenated DEF e
<1> HIDE DEF acc, A, B
<1>11. Flush(acc) = acc
  BY <1>2 DEF Flush, e
<1>12. AccOK(d, A) /\ A.pending = <<>> /\ A.msgs = acc.msgs \o FromItem(x)
  <2>1. x.type # "function_call"
    BY <1>4
  <2> QED BY <1>2, <1>3, <1>10, <1>11, <2>1, TakenAfter DEF A, e
<1>13. Flush(A) = A
  BY <1>12 DEF Flush
<1>14. B.msgs = A.msgs \o FromItem(y)
  <2>1. y.type # "function_call"
    BY <1>4
  <2> QED BY <1>10, <1>12, <1>13, <2>1, TakenAfter DEF B
<1>15. AfterFirst(d) = B
  <2>1. ItemOK(d, x) /\ ItemOK(d, y)
    BY DEF ItemOK
  <2>2. TakesAll(d, acc, w) = A /\ ItemsOK(d, w)
    BY <1>3, <2>1, OneTaken DEF A
  <2> HIDE DEF w, d
  <2>3. TakesAll(d, acc, Append(w, y)) = B
    BY <1>3, <2>1, <2>2, TakesGrow DEF B
  <2> QED BY <1>1, <1>6, <2>3 DEF AfterFirst, acc
<1>16. B.msgs = <<a>> \o <<b>>
  <2>1. A.msgs = <<a>>
    BY <1>2, <1>7, <1>10, <1>12
  <2> QED BY <1>8, <1>14, <2>1
<1> QED BY <1>9, <1>15, <1>16 DEF FirstRead, MessagesOf

LEMMA OllamaFirst == FirstRead("ollama")
<1> DEFINE d == "ollama"
           e == <<>>
           x == [role |-> "user", text |-> Asked(0), image |-> FALSE, thinking |-> <<>>,
                 calls |-> <<>>, name |-> None]
           acc == FirstMessages(d)
           A == TakesOne(d, acc, x)
           b == MessageOf("user", Asked(0), FALSE, e, e, e)
<1>1. FirstOnes(d) = <<x>>
  BY DEF FirstOnes
<1>2. acc.msgs = e /\ System(d) = e
  BY DEF FirstMessages, System
<1>3. AccOK(d, acc) /\ ItemOK(d, x)
  BY FirstAreOK DEF ItemOK
<1>4. x.role = "user" /\ x.text = Asked(0) /\ x.image = FALSE /\ x.thinking = e
  OBVIOUS
<1>5. FirstSays(d) = <<b>>
  BY <1>2, FirstAre
<1> HIDE DEF x, acc
<1>6. CallsTaken(x) = e /\ AnswerTaken(acc, x) = e
  BY <1>4 DEF CallsTaken, AnswerTaken
<1> HIDE DEF A
<1>7. A.msgs = Append(acc.msgs, MessageOf(x.role, x.text, x.image, x.thinking,
                                          CallsTaken(x), AnswerTaken(acc, x)))
  BY MessageTaken DEF A
<1>8. A.msgs = Append(e, b)
  BY <1>2, <1>4, <1>6, <1>7
<1> HIDE DEF b
<1>9. Append(e, b) = <<b>>
  OBVIOUS
<1>10. AfterFirst(d) = A
  BY <1>1, <1>3, OneTaken DEF AfterFirst, A, acc
<1> QED BY <1>5, <1>8, <1>9, <1>10 DEF FirstRead, MessagesOf

\* The invariant: the messages end with the user's or a tool's, and say what
\* the conversation says.
FaithfulInv ==
  dialect \in {"anthropic", "responses", "ollama"} =>
    /\ AllAnswerable(conv) /\ Settled(JoinedUp(messages))
    /\ Normal(messages) = ExpectedOf(dialect, conv)

LEMMA InitFaithful == Init => FaithfulInv
<1> SUFFICES ASSUME Init, dialect \in {"anthropic", "responses", "ollama"} PROVE FaithfulInv
  BY DEF FaithfulInv
<1> DEFINE e == <<>>
           P == FirstSays(dialect)
<1>1. conv = e /\ messages = Upstream(dialect, e, "written")
  BY DEF Init, Send
<1>2. IsSeq(e) /\ Len(e) = 0
  BY NothingIsSeq
<1>3. ExpectedOf(dialect, e) = P \o e
  <2>1. TurnsSay(dialect, e) = e
    BY <1>2 DEF TurnsSay
  <2>2. FlattenSeq(e) = e
    BY <1>2 DEF FlattenSeq
  <2> HIDE DEF e, P
  <2> QED BY <2>1, <2>2 DEF ExpectedOf, P
<1>4. PlainlySaid(P) /\ Settled(P)
  BY FirstPlainly
<1>5. P \o e = P
  BY <1>4, Concatenated DEF PlainlySaid
<1> HIDE DEF e
<1>6. ReadAs(dialect, e, AfterFirst(dialect))
  BY NothingReadAs DEF e
<1>7. messages = MessagesOf(dialect, AfterFirst(dialect))
  BY <1>1, <1>6, UpstreamReads
<1>8. messages = P
  BY <1>7, AnthropicFirst, ResponsesFirst, OllamaFirst DEF FirstRead
<1>9. AllAnswerable(conv)
  BY <1>1, <1>2 DEF AllAnswerable
<1> HIDE DEF P
<1>10. Settled(JoinedUp(messages))
  BY <1>4, <1>8 DEF PlainlySaid
<1>11. Normal(messages) = P
  BY <1>4, <1>8 DEF PlainlySaid, Normal, AllBare, JoinedUp
<1> QED BY <1>1, <1>3, <1>5, <1>9, <1>10, <1>11 DEF FaithfulInv

LEMMA NextFaithful ==
  ClientInv /\ HistoryInv /\ FaithfulInv /\ [Next]_vars => FaithfulInv'
<1> SUFFICES ASSUME ClientInv, HistoryInv, FaithfulInv, [Next]_vars PROVE FaithfulInv'
  OBVIOUS
<1>1. CASE UNCHANGED <<dialect, conv, messages>>
  BY <1>1 DEF FaithfulInv
<1>2. CASE AsksAgain
  <2>1. PICK t, keys : /\ dialect \in {"anthropic", "responses", "ollama"} /\ TurnTold(dialect, t)
                       /\ conv' = Append(conv, t) /\ messages' = Upstream(dialect, conv', keys)
                       /\ dialect' = dialect
    BY <1>2 DEF AsksAgain
  <2>2. PICK acc : ReadAs(dialect, conv, acc) /\ messages = MessagesOf(dialect, acc)
    BY <2>1 DEF HistoryInv
  <2>3. TurnOK(t) /\ IsSeq(t.reply.calls)
    BY <2>1 DEF TurnTold, TurnOK
  <2>4. PICK r : /\ r = TakesAll(dialect, acc, TurnItems(dialect, t, "written"))
                 /\ ReadAs(dialect, Append(conv, t), r)
    BY <2>1, <2>2, <2>3, TurnReadAs
  <2>5. messages' = MessagesOf(dialect, r)
    <3>1. Upstream(dialect, Append(conv, t), keys) = MessagesOf(dialect, r)
      BY <2>1, <2>4, UpstreamReads
    <3> QED BY <2>1, <3>1
  <2> DEFINE new == MessagesOf(dialect, r)
  <2>6. AllAnswerable(conv) /\ Settled(JoinedUp(messages)) /\ Normal(messages) = ExpectedOf(dialect, conv)
    BY <2>1 DEF FaithfulInv
  <2>7. Turned(messages, new, t, ReasoningOf(t))
    <3>1. AccOK(dialect, acc) /\ (dialect = "responses" => acc.pending = <<>>)
      BY <2>2 DEF ReadAs
    <3>2. Turned(MessagesOf(dialect, acc), new, t, ReasonsOf(dialect, t))
      BY <2>1, <2>2, <2>4, <2>6, <3>1, TurnTurned
    <3> QED BY <2>2, <3>2, ExpectedIs
  <2> HIDE DEF new
  <2>8. Settled(JoinedUp(new)) /\ Normal(new) = Normal(messages) \o TurnSays(t)
    BY <2>3, <2>6, <2>7, TurnJoined
  <2>9. ExpectsMore(dialect, conv, t) /\ AllAnswerable(Append(conv, t))
    BY <2>3, <2>6, ExpectedMore
  <2>10. Normal(new) = ExpectedOf(dialect, Append(conv, t))
    BY <2>6, <2>8, <2>9, ExpectedIs DEF ExpectsMore
  <2>11. /\ AllAnswerable(conv') /\ Settled(JoinedUp(messages'))
         /\ Normal(messages') = ExpectedOf(dialect', conv')
    BY <2>1, <2>5, <2>8, <2>9, <2>10 DEF new
  <2> QED BY <2>11 DEF FaithfulInv
<1> QED BY <1>1, <1>2, StepOfHistory

\* For any tools, any length of the conversation and of its replies, the chat
\* messages of each request are the client's conversation, whatever its
\* dialect: all that was said in its order, the parts of one reply joined, each
\* answer for exactly the call it answers and the remark or image beside it
\* (anthropic_request_to_chat, responses_request_to_chat, ollama_chat_to_openai
\* with the clients' side of each dialect).
THEOREM HistoryFaithful == Spec => []HistoryIsFaithful
<1>1. FaithfulInv => HistoryIsFaithful
  BY ExpectedIs DEF FaithfulInv, HistoryIsFaithful
<1>2. ClientInv /\ HistoryInv /\ [Next]_vars => HistoryInv'
  BY NextHistory
<1> QED BY <1>1, <1>2, InitHistory, InitFaithful, NextFaithful, ClientInvHolds, PTL DEF Spec
=============================================================================
