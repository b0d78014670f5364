--------------------------- MODULE ClientProofs ---------------------------
(***************************************************************************)
(* What the clients of GatewayStream make of the events they receive.  The *)
(* argument, the same in every dialect: an operation of the translator     *)
(* that is given a piece adds it, and nothing else, to what the client     *)
(* reads, because the block or the item it writes to is the last one of    *)
(* its type.  At the end, what their next requests add to the history.     *)
(***************************************************************************)
EXTENDS GatewayStreamProofs

-----------------------------------------------------------------------------
(* Concatenations of which one part changes. *)

\* A concatenation is what any function for it ends with.
LEMMA FlattenIs ==
  ASSUME NEW ss, IsSeq(ss), NEW f, Flattens(f, ss, Len(ss)), Len(ss) # 0
  PROVE  FlattenSeq(ss) = f[Len(ss)]
<1> DEFINE n == Len(ss)
           F == CHOOSE g : Flattens(g, ss, n)
<1>1. n \in Nat /\ n # 0
  BY Appended
<1>2. FlattenSeq(ss) = F[n]
  BY <1>1 DEF FlattenSeq, Flattens
<1> HIDE DEF n
<1>3. Flattens(f, ss, n)
  BY DEF n
<1>4. Flattens(F, ss, n)
  BY <1>3
<1> HIDE DEF F
<1>5. \A i \in 1..n : F[i] = f[i]
  <2>1. n <= n
    BY <1>1
  <2> QED BY <1>1, <1>3, <1>4, <2>1, FlattensUnique
<1> QED BY <1>1, <1>2, <1>5 DEF n

\* It is a sequence.
LEMMA FlattenIsSeq ==
  ASSUME NEW ss, IsSeq(ss), \A i \in 1..Len(ss) : IsSeq(ss[i])
  PROVE  IsSeq(FlattenSeq(ss))
<1> DEFINE n == Len(ss)
<1>1. n \in Nat
  BY Appended
<1>2. CASE n = 0
  <2>1. FlattenSeq(ss) = ss
    BY <1>2 DEF FlattenSeq
  <2> QED BY <2>1
<1>3. CASE n # 0
  <2> HIDE DEF n
  <2>1. PICK f : Flattens(f, ss, n)
    BY <1>1, FlattensExists
  <2>2. FlattenSeq(ss) = f[n]
    BY <1>3, <2>1, FlattenIs DEF n
  <2>3. \A i \in 1..n : f[i] = IF i = 1 THEN ss[i] ELSE f[i - 1] \o ss[i]
    <3>1. f = [i \in 1..n |-> IF i = 1 THEN ss[i] ELSE f[i - 1] \o ss[i]]
      BY <2>1 DEF Flattens
    <3> QED BY <3>1
  <2> DEFINE S == {i \in Nat : i \in 1..n => IsSeq(f[i])}
  <2>4. 0 \in S
    OBVIOUS
  <2>5. ASSUME NEW i \in Nat, i \in S
        PROVE  i + 1 \in S
    <3>1. CASE i + 1 \notin 1..n
      BY <3>1
    <3>2. CASE i + 1 \in 1..n /\ i = 0
      <4>1. f[i + 1] = ss[i + 1] /\ IsSeq(ss[i + 1])
        BY <2>3, <3>2 DEF n
      <4> QED BY <4>1
    <3>3. CASE i + 1 \in 1..n /\ i # 0
      <4>1. f[i + 1] = f[i] \o ss[i + 1] /\ IsSeq(ss[i + 1])
        <5>1. i + 1 # 1 /\ (i + 1) - 1 = i
          BY <3>3
        <5> QED BY <2>3, <3>3, <5>1 DEF n
      <4>2. IsSeq(f[i])
        BY <1>1, <2>5, <3>3
      <4>3. IsSeq(f[i + 1])
        BY <4>1, <4>2, Concatenated
      <4> QED BY <4>3
    <3> QED BY <3>1, <3>2, <3>3
  <2>6. \A i \in Nat : i \in S
    <3> HIDE DEF S
    <3> QED BY <2>4, <2>5, SetInduction
  <2>7. IsSeq(f[n])
    BY <1>1, <1>3, <2>6
  <2> QED BY <2>2, <2>7
<1> QED BY <1>2, <1>3

\* Two concatenations that differ in one part, after which nothing comes.
Spliced(a, b, x, y) == \E pre : IsSeq(pre) /\ a = pre \o x /\ b = pre \o y

LEMMA Splices ==
  ASSUME NEW ss, NEW tt, IsSeq(ss), IsSeq(tt), Len(tt) = Len(ss), NEW k \in 1..Len(ss),
         \A i \in 1..Len(ss) : IsSeq(ss[i]), IsSeq(tt[k]),
         \A i \in 1..Len(ss) : i # k => tt[i] = ss[i],
         \A i \in 1..Len(ss) : i > k => ss[i] = <<>>
  PROVE  Spliced(FlattenSeq(ss), FlattenSeq(tt), ss[k], tt[k])
<1> DEFINE n == Len(ss)
<1>1. n \in Nat /\ n # 0 /\ k \in Nat /\ k >= 1 /\ k <= n
  <2>1. n \in Nat
    BY Appended
  <2> QED BY <2>1
<1>2. Len(tt) = n
  OBVIOUS
<1> HIDE DEF n
<1>3. PICK f : Flattens(f, ss, n)
  BY <1>1, FlattensExists
<1>4. PICK g : Flattens(g, tt, n)
  BY <1>1, FlattensExists
<1>5. PICK h : Flattens(h, ss, k - 1)
  <2>1. k - 1 \in Nat
    BY <1>1
  <2> QED BY <2>1, FlattensExists
<1>6. FlattenSeq(ss) = f[n] /\ FlattenSeq(tt) = g[n]
  <2>1. FlattenSeq(ss) = f[n]
    BY <1>1, <1>3, FlattenIs DEF n
  <2>2. FlattenSeq(tt) = g[n]
    BY <1>1, <1>2, <1>4, FlattenIs
  <2> QED BY <2>1, <2>2
<1>7. \A i \in 1..n : f[i] = IF i = 1 THEN ss[i] ELSE f[i - 1] \o ss[i]
  <2>1. f = [i \in 1..n |-> IF i = 1 THEN ss[i] ELSE f[i - 1] \o ss[i]]
    BY <1>3 DEF Flattens
  <2> QED BY <2>1
<1>8. \A i \in 1..n : g[i] = IF i = 1 THEN tt[i] ELSE g[i - 1] \o tt[i]
  <2>1. g = [i \in 1..n |-> IF i = 1 THEN tt[i] ELSE g[i - 1] \o tt[i]]
    BY <1>4 DEF Flattens
  <2> QED BY <2>1
<1>9. \A i \in 1..(k - 1) : f[i] = h[i] /\ g[i] = h[i]
  <2>1. k - 1 \in Nat /\ k - 1 <= n
    BY <1>1
  <2>2. \A i \in 1..(k - 1) : ss[i] = ss[i] /\ tt[i] = ss[i]
    BY <1>1 DEF n
  <2>3. \A i \in 1..(k - 1) : f[i] = h[i]
    BY <1>1, <1>3, <1>5, <2>1, FlattensUnique
  <2>4. \A i \in 1..(k - 1) : g[i] = h[i]
    BY <1>1, <1>4, <1>5, <2>1, <2>2, FlattensUnique
  <2> QED BY <2>3, <2>4
<1> DEFINE pre == IF k = 1 THEN <<>> ELSE f[k - 1]
<1>10. \A i \in 1..n : IsSeq(ss[i]) /\ (i # k => tt[i] = ss[i]) /\ (i > k => ss[i] = <<>>)
  BY DEF n
<1>11. \A i \in Nat : i \in {j \in Nat : j \in 1..n => IsSeq(f[j])}
  <2> DEFINE S == {j \in Nat : j \in 1..n => IsSeq(f[j])}
  <2>1. 0 \in S
    OBVIOUS
  <2>2. ASSUME NEW i \in Nat, i \in S
        PROVE  i + 1 \in S
    <3>1. CASE i + 1 \notin 1..n
      BY <3>1
    <3>2. CASE i + 1 \in 1..n /\ i = 0
      <4>1. f[i + 1] = ss[i + 1] /\ IsSeq(ss[i + 1])
        BY <1>7, <1>10, <3>2
      <4> QED BY <4>1
    <3>3. CASE i + 1 \in 1..n /\ i # 0
      <4>1. f[i + 1] = f[i] \o ss[i + 1] /\ IsSeq(ss[i + 1])
        <5>1. i + 1 # 1 /\ (i + 1) - 1 = i
          BY <3>3
        <5> QED BY <1>7, <1>10, <3>3, <5>1
      <4>2. IsSeq(f[i])
        BY <1>1, <2>2, <3>3
      <4>3. IsSeq(f[i + 1])
        BY <4>1, <4>2, Concatenated
      <4> QED BY <4>3
    <3> QED BY <3>1, <3>2, <3>3
  <2> HIDE DEF S
  <2>3. \A i \in Nat : i \in S
    BY <2>1, <2>2, SetInduction
  <2> QED BY <2>3 DEF S
<1>12. IsSeq(pre)
  <2>1. CASE k = 1
    BY <2>1, NothingIsSeq
  <2>2. CASE k # 1
    <3>1. k - 1 \in Nat /\ k - 1 \in 1..n
      BY <1>1, <2>2
    <3> QED BY <1>11, <2>2, <3>1
  <2> QED BY <2>1, <2>2
<1>13. f[k] = pre \o ss[k] /\ g[k] = pre \o tt[k]
  <2>1. CASE k = 1
    <3>1. f[k] = ss[k] /\ g[k] = tt[k] /\ IsSeq(ss[k])
      BY <1>1, <1>7, <1>8, <1>10, <2>1
    <3>2. <<>> \o ss[k] = ss[k] /\ <<>> \o tt[k] = tt[k]
      BY <3>1, Concatenated
    <3> QED BY <2>1, <3>1, <3>2
  <2>2. CASE k # 1
    <3>1. k - 1 \in 1..(k - 1)
      BY <1>1, <2>2
    <3>2. g[k - 1] = f[k - 1] /\ pre = f[k - 1]
      BY <1>9, <2>2, <3>1
    <3>3. k \in 1..n
      BY <1>1
    <3> HIDE DEF pre
    <3> QED BY <1>7, <1>8, <2>2, <3>2, <3>3
  <2> QED BY <2>1, <2>2
<1>14. IsSeq(f[k]) /\ IsSeq(g[k])
  <2>1. IsSeq(f[k])
    BY <1>1, <1>11
  <2>2. IsSeq(g[k])
    BY <1>12, <1>13, Concatenated
  <2> QED BY <2>1, <2>2
<1> HIDE DEF pre
<1>15. \A i \in Nat : i \in {j \in Nat : j \in k..n => f[j] = f[k] /\ g[j] = g[k]}
  <2> DEFINE S == {j \in Nat : j \in k..n => f[j] = f[k] /\ g[j] = g[k]}
  <2>1. 0 \in S
    BY <1>1
  <2>2. ASSUME NEW i \in Nat, i \in S
        PROVE  i + 1 \in S
    <3>1. CASE i + 1 \notin k..n \/ i + 1 = k
      BY <3>1
    <3>2. CASE i + 1 \in k..n /\ i + 1 # k
      <4>1. i + 1 \in 1..n /\ i + 1 # 1 /\ (i + 1) - 1 = i /\ i + 1 > k /\ i \in k..n
        BY <1>1, <3>2
      <4>2. ss[i + 1] = <<>> /\ tt[i + 1] = <<>>
        BY <1>10, <4>1
      <4>3. f[i + 1] = f[i] \o <<>> /\ g[i + 1] = g[i] \o <<>>
        BY <1>7, <1>8, <4>1, <4>2
      <4>4. f[i] = f[k] /\ g[i] = g[k]
        BY <2>2, <4>1
      <4>5. f[k] \o <<>> = f[k] /\ g[k] \o <<>> = g[k]
        BY <1>14, Concatenated
      <4> QED BY <4>3, <4>4, <4>5
    <3> QED BY <3>1, <3>2
  <2> HIDE DEF S
  <2>3. \A i \in Nat : i \in S
    BY <2>1, <2>2, SetInduction
  <2> QED BY <2>3 DEF S
<1>16. f[n] = f[k] /\ g[n] = g[k]
  BY <1>1, <1>15
<1> QED BY <1>6, <1>12, <1>13, <1>16 DEF Spliced

-----------------------------------------------------------------------------
(* The blocks of a message and the items of a response: lists of parts.    *)

Parts(bs, type) == [k \in 1..Len(bs) |-> IF bs[k].type = type THEN Body(bs[k]) ELSE <<>>]
CallParts(bs, type) ==
  [k \in 1..Len(bs) |-> IF bs[k].type = type THEN <<AsCall(bs[k])>> ELSE <<>>]

ListOK(bs) == IsSeq(bs) /\ \A k \in 1..Len(bs) : IsSeq(Body(bs[k]))

\* A function on the first numbers is a sequence.
LEMMA Numbered ==
  ASSUME NEW f, NEW n \in Nat, DOMAIN f = 1..n, f = [k \in 1..n |-> f[k]]
  PROVE  IsSeq(f) /\ Len(f) = n
<1> DEFINE S == {f[k] : k \in 1..n}
<1>1. f \in [1..n -> S]
  OBVIOUS
<1> HIDE DEF S
<1>2. f \in Seq(S) /\ Len(f) = n
  BY <1>1
<1> QED BY <1>2 DEF IsSeq

\* A single element is a sequence, and appending it is concatenating it.
LEMMA Single ==
  ASSUME NEW x
  PROVE  IsSeq(<<x>>) /\ \A s : IsSeq(s) => Append(s, x) = s \o <<x>>
<1>1. <<x>> \in Seq({x})
  OBVIOUS
<1>2. ASSUME NEW s, IsSeq(s)
      PROVE  Append(s, x) = s \o <<x>>
  <2>1. PICK S : s \in Seq(S)
    BY <1>2 DEF IsSeq
  <2> DEFINE T == S \cup {x}
  <2>2. s \in Seq(T) /\ x \in T
    BY <2>1
  <2> HIDE DEF T
  <2> QED BY <2>2
<1> QED BY <1>1, <1>2 DEF IsSeq

LEMMA PartsAre ==
  ASSUME NEW bs, ListOK(bs), NEW type
  PROVE  /\ IsSeq(Parts(bs, type)) /\ Len(Parts(bs, type)) = Len(bs) /\ Len(bs) \in Nat
         /\ IsSeq(CallParts(bs, type)) /\ Len(CallParts(bs, type)) = Len(bs)
         /\ \A k \in 1..Len(bs) :
              /\ Parts(bs, type)[k] = IF bs[k].type = type THEN Body(bs[k]) ELSE <<>>
              /\ IsSeq(Parts(bs, type)[k])
              /\ CallParts(bs, type)[k] = IF bs[k].type = type THEN <<AsCall(bs[k])>> ELSE <<>>
              /\ IsSeq(CallParts(bs, type)[k])
<1> DEFINE P == Parts(bs, type)
           C == CallParts(bs, type)
           n == Len(bs)
<1>1. n \in Nat
  BY Appended DEF ListOK
<1>2. DOMAIN P = 1..n /\ P = [k \in 1..n |-> P[k]] /\ DOMAIN C = 1..n /\ C = [k \in 1..n |-> C[k]]
  BY DEF Parts, CallParts
<1>3. \A k \in 1..n : /\ P[k] = IF bs[k].type = type THEN Body(bs[k]) ELSE <<>>
                      /\ C[k] = IF bs[k].type = type THEN <<AsCall(bs[k])>> ELSE <<>>
  BY DEF Parts, CallParts
<1> HIDE DEF P, C, n
<1>4. IsSeq(P) /\ Len(P) = n /\ IsSeq(C) /\ Len(C) = n
  BY <1>1, <1>2, Numbered
<1>5. \A k \in 1..n : IsSeq(P[k]) /\ IsSeq(C[k])
  <2>1. \A k \in 1..n : IsSeq(Body(bs[k]))
    BY DEF ListOK, n
  <2> QED BY <1>3, <2>1, NothingIsSeq, Single
<1> QED BY <1>1, <1>3, <1>4, <1>5 DEF P, C, n

\* What they make is a sequence.
LEMMA JoinIsSeq ==
  ASSUME NEW bs, ListOK(bs), NEW type
  PROVE  IsSeq(Join(bs, type)) /\ IsSeq(CallsIn(bs, type))
<1>1. Join(bs, type) = FlattenSeq(Parts(bs, type))
      /\ CallsIn(bs, type) = FlattenSeq(CallParts(bs, type))
  BY DEF Join, CallsIn, Parts, CallParts
<1> QED BY <1>1, PartsAre, FlattenIsSeq

\* A part b that says nothing yet was added.
Added(cs, bs, b) ==
  /\ ListOK(cs) /\ Len(cs) = Len(bs) + 1
  /\ \A T : /\ Join(cs, T) = Join(bs, T)
            /\ CallsIn(cs, T) = IF b.type = T THEN Append(CallsIn(bs, T), AsCall(b))
                                ELSE CallsIn(bs, T)

LEMMA Adding ==
  ASSUME NEW bs, ListOK(bs), NEW b, Body(b) = <<>>
  PROVE  Added(Append(bs, b), bs, b)
<1> DEFINE cs == Append(bs, b)
           n == Len(bs)
<1>1. /\ IsSeq(cs) /\ Len(cs) = n + 1 /\ n \in Nat /\ cs[n + 1] = b
      /\ \A k \in 1..n : cs[k] = bs[k]
  BY Appended DEF ListOK
<1> HIDE DEF cs
<1>2. ListOK(cs)
  <2>1. \A k \in 1..n : IsSeq(Body(cs[k]))
    BY <1>1 DEF ListOK
  <2>2. IsSeq(Body(cs[n + 1]))
    BY <1>1, NothingIsSeq
  <2> HIDE DEF n
  <2>3. \A k \in 1..(n + 1) : k \in 1..n \/ k = n + 1
    BY <1>1
  <2> QED BY <1>1, <2>1, <2>2, <2>3 DEF ListOK
<1>3. ASSUME NEW T
      PROVE  /\ Join(cs, T) = Join(bs, T)
             /\ CallsIn(cs, T) = IF b.type = T THEN Append(CallsIn(bs, T), AsCall(b))
                                 ELSE CallsIn(bs, T)
  <2> DEFINE P == Parts(bs, T)
             Q == Parts(cs, T)
             C == CallParts(bs, T)
             D == CallParts(cs, T)
             x == IF b.type = T THEN <<AsCall(b)>> ELSE <<>>
  <2>1. /\ IsSeq(P) /\ Len(P) = n /\ IsSeq(C) /\ Len(C) = n
        /\ \A k \in 1..n : /\ P[k] = IF bs[k].type = T THEN Body(bs[k]) ELSE <<>>
                           /\ C[k] = IF bs[k].type = T THEN <<AsCall(bs[k])>> ELSE <<>>
    BY PartsAre
  <2>2. /\ IsSeq(Q) /\ Len(Q) = n + 1 /\ IsSeq(D) /\ Len(D) = n + 1
        /\ \A k \in 1..(n + 1) : /\ Q[k] = IF cs[k].type = T THEN Body(cs[k]) ELSE <<>>
                                 /\ D[k] = IF cs[k].type = T THEN <<AsCall(cs[k])>> ELSE <<>>
    BY <1>1, <1>2, PartsAre
  <2>3. /\ Join(bs, T) = FlattenSeq(P) /\ CallsIn(bs, T) = FlattenSeq(C)
        /\ Join(cs, T) = FlattenSeq(Q) /\ CallsIn(cs, T) = FlattenSeq(D)
    BY DEF Join, CallsIn, Parts, CallParts
  <2> HIDE DEF P, Q, C, D, n
  <2>4. n + 1 \in 1..(n + 1) /\ \A k \in 1..n : k \in 1..(n + 1)
    BY <1>1
  <2>5. Q[n + 1] = <<>> /\ D[n + 1] = x
    BY <1>1, <2>2, <2>4
  <2>6. \A k \in 1..n : Q[k] = P[k] /\ D[k] = C[k]
    BY <1>1, <2>1, <2>2, <2>4
  <2>7. IsSeq(x)
    BY Single, NothingIsSeq
  <2> HIDE DEF x
  <2>8. Q = Append(P, <<>>)
    <3> DEFINE e == <<>>
    <3> HIDE DEF e
    <3>1. /\ IsSeq(Append(P, e)) /\ Len(Append(P, e)) = n + 1 /\ Append(P, e)[n + 1] = e
          /\ \A k \in 1..n : Append(P, e)[k] = P[k]
      BY <2>1, Appended
    <3>2. Q[n + 1] = e
      BY <2>5 DEF e
    <3>3. \A k \in 1..(n + 1) : k \in 1..n \/ k = n + 1
      BY <1>1
    <3>4. Q = Append(P, e)
      BY <2>2, <2>6, <3>1, <3>2, <3>3, SameSeq
    <3> QED BY <3>4 DEF e
  <2>9. D = Append(C, x)
    <3>1. /\ IsSeq(Append(C, x)) /\ Len(Append(C, x)) = n + 1 /\ Append(C, x)[n + 1] = x
          /\ \A k \in 1..n : Append(C, x)[k] = C[k]
      BY <2>1, Appended
    <3>3. \A k \in 1..(n + 1) : k \in 1..n \/ k = n + 1
      BY <1>1
    <3> QED BY <2>2, <2>5, <2>6, <3>1, <3>3, SameSeq
  <2>10. FlattenSeq(Q) = FlattenSeq(P)
    <3>1. FlattenSeq(Q) = FlattenSeq(P) \o <<>>
      <4> DEFINE e == <<>>
      <4> HIDE DEF e
      <4>1. IsSeq(e) /\ Q = Append(P, e)
        BY <2>8, NothingIsSeq DEF e
      <4>2. FlattenSeq(Append(P, e)) = FlattenSeq(P) \o e
        BY <2>1, <4>1, FlattenAppend
      <4> QED BY <4>1, <4>2 DEF e
    <3>2. IsSeq(FlattenSeq(P))
      BY <2>3, JoinIsSeq
    <3> QED BY <3>1, <3>2, Concatenated
  <2>11. FlattenSeq(D) = FlattenSeq(C) \o x
    BY <2>1, <2>7, <2>9, FlattenAppend
  <2>12. IsSeq(FlattenSeq(C))
    BY <2>3, JoinIsSeq
  <2>13. CASE b.type = T
    <3>1. x = <<AsCall(b)>>
      BY <2>13 DEF x
    <3>2. Append(FlattenSeq(C), AsCall(b)) = FlattenSeq(C) \o <<AsCall(b)>>
      BY <2>12, Single
    <3> QED BY <2>3, <2>10, <2>11, <2>13, <3>1, <3>2
  <2>14. CASE b.type # T
    <3>1. x = <<>>
      BY <2>14 DEF x
    <3>2. FlattenSeq(C) \o <<>> = FlattenSeq(C)
      BY <2>12, Concatenated
    <3> QED BY <2>3, <2>10, <2>11, <2>14, <3>1, <3>2
  <2> QED BY <2>13, <2>14
<1> QED BY <1>1, <1>2, <1>3 DEF Added, cs

\* The last call of d says p more than that of c.
LastGrows(c, d, p) ==
  \E x, y : /\ Spliced(c, d, <<x>>, <<y>>)
            /\ y.id = x.id /\ y.name = x.name /\ y.args = x.args \o p

\* The last part of a type says p more.
Grown(cs, bs, type, p) ==
  /\ ListOK(cs) /\ Len(cs) = Len(bs)
  /\ Join(cs, type) = Join(bs, type) \o p /\ LastGrows(CallsIn(bs, type), CallsIn(cs, type), p)
  /\ \A U : U # type => Join(cs, U) = Join(bs, U) /\ CallsIn(cs, U) = CallsIn(bs, U)

\* The part k goes on with p.
GoesOn(c, b, p) ==
  /\ c.type = b.type /\ Body(c) = Body(b) \o p
  /\ AsCall(c).id = AsCall(b).id /\ AsCall(c).name = AsCall(b).name

LEMMA Growing ==
  ASSUME NEW bs, ListOK(bs), NEW cs, IsSeq(cs), Len(cs) = Len(bs), NEW k \in 1..Len(bs),
         NEW p, IsSeq(p), GoesOn(cs[k], bs[k], p),
         \A i \in 1..Len(bs) : i # k => cs[i] = bs[i],
         \A i \in 1..Len(bs) : i > k => bs[i].type # bs[k].type
  PROVE  Grown(cs, bs, bs[k].type, p)
<1> DEFINE n == Len(bs)
           T == bs[k].type
<1>1. /\ n \in Nat /\ k \in 1..n /\ cs[k].type = T /\ Len(cs) = n
      /\ \A i \in 1..n : i # k => cs[i] = bs[i]
      /\ \A i \in 1..n : i > k => bs[i].type # T
      /\ \A i \in 1..n : IsSeq(Body(bs[i]))
  BY Appended DEF ListOK, GoesOn
<1> HIDE DEF n, T
<1>2. ListOK(cs)
  <2>1. IsSeq(Body(cs[k]))
    BY <1>1, Concatenated DEF GoesOn
  <2>2. \A i \in 1..n : IsSeq(Body(cs[i]))
    BY <1>1, <2>1
  <2> QED BY <1>1, <2>2 DEF ListOK
<1>3. ASSUME NEW U
      PROVE  LET P == Parts(bs, U)
                 Q == Parts(cs, U)
                 C == CallParts(bs, U)
                 D == CallParts(cs, U)
             IN  /\ IsSeq(P) /\ Len(P) = n /\ IsSeq(C) /\ Len(C) = n
                 /\ IsSeq(Q) /\ Len(Q) = n /\ IsSeq(D) /\ Len(D) = n
                 /\ \A i \in 1..n : IsSeq(P[i]) /\ IsSeq(C[i]) /\ IsSeq(Q[i]) /\ IsSeq(D[i])
                 /\ \A i \in 1..n : i # k => Q[i] = P[i] /\ D[i] = C[i]
                 /\ P[k] = (IF T = U THEN Body(bs[k]) ELSE <<>>)
                 /\ Q[k] = (IF T = U THEN Body(cs[k]) ELSE <<>>)
                 /\ C[k] = (IF T = U THEN <<AsCall(bs[k])>> ELSE <<>>)
                 /\ D[k] = (IF T = U THEN <<AsCall(cs[k])>> ELSE <<>>)
                 /\ T = U => \A i \in 1..n : i > k => P[i] = <<>> /\ C[i] = <<>>
                 /\ Join(bs, U) = FlattenSeq(P) /\ CallsIn(bs, U) = FlattenSeq(C)
                 /\ Join(cs, U) = FlattenSeq(Q) /\ CallsIn(cs, U) = FlattenSeq(D)
  <2> DEFINE P == Parts(bs, U)
             Q == Parts(cs, U)
             C == CallParts(bs, U)
             D == CallParts(cs, U)
  <2>1. /\ IsSeq(P) /\ Len(P) = n /\ IsSeq(C) /\ Len(C) = n
        /\ \A i \in 1..n : /\ P[i] = IF bs[i].type = U THEN Body(bs[i]) ELSE <<>>
                           /\ C[i] = IF bs[i].type = U THEN <<AsCall(bs[i])>> ELSE <<>>
                           /\ IsSeq(P[i]) /\ IsSeq(C[i])
    BY PartsAre DEF n
  <2>2. /\ IsSeq(Q) /\ Len(Q) = n /\ IsSeq(D) /\ Len(D) = n
        /\ \A i \in 1..n : /\ Q[i] = IF cs[i].type = U THEN Body(cs[i]) ELSE <<>>
                           /\ D[i] = IF cs[i].type = U THEN <<AsCall(cs[i])>> ELSE <<>>
                           /\ IsSeq(Q[i]) /\ IsSeq(D[i])
    BY <1>1, <1>2, PartsAre
  <2>3. /\ Join(bs, U) = FlattenSeq(P) /\ CallsIn(bs, U) = FlattenSeq(C)
        /\ Join(cs, U) = FlattenSeq(Q) /\ CallsIn(cs, U) = FlattenSeq(D)
    BY DEF Join, CallsIn, Parts, CallParts
  <2> HIDE DEF P, Q, C, D
  <2>4. \A i \in 1..n : i # k => Q[i] = P[i] /\ D[i] = C[i]
    BY <1>1, <2>1, <2>2
  <2>5. T = U => \A i \in 1..n : i > k => P[i] = <<>> /\ C[i] = <<>>
    BY <1>1, <2>1
  <2>6. /\ P[k] = (IF T = U THEN Body(bs[k]) ELSE <<>>)
        /\ Q[k] = (IF T = U THEN Body(cs[k]) ELSE <<>>)
        /\ C[k] = (IF T = U THEN <<AsCall(bs[k])>> ELSE <<>>)
        /\ D[k] = (IF T = U THEN <<AsCall(cs[k])>> ELSE <<>>)
    BY <1>1, <2>1, <2>2 DEF T
  <2> QED BY <2>1, <2>2, <2>3, <2>4, <2>5, <2>6 DEF P, Q, C, D
<1>4. Join(cs, T) = Join(bs, T) \o p
  <2> DEFINE P == Parts(bs, T)
             Q == Parts(cs, T)
  <2>1. /\ IsSeq(P) /\ Len(P) = n /\ IsSeq(Q) /\ Len(Q) = n
        /\ \A i \in 1..n : IsSeq(P[i]) /\ IsSeq(Q[i])
        /\ \A i \in 1..n : i # k => Q[i] = P[i]
        /\ P[k] = Body(bs[k]) /\ Q[k] = Body(cs[k])
        /\ \A i \in 1..n : i > k => P[i] = <<>>
        /\ Join(bs, T) = FlattenSeq(P) /\ Join(cs, T) = FlattenSeq(Q)
    BY <1>3
  <2> HIDE DEF P, Q
  <2>2. Spliced(FlattenSeq(P), FlattenSeq(Q), P[k], Q[k])
    BY <1>1, <2>1, Splices
  <2>3. PICK pre : IsSeq(pre) /\ FlattenSeq(P) = pre \o P[k] /\ FlattenSeq(Q) = pre \o Q[k]
    BY <2>2 DEF Spliced
  <2>4. Q[k] = P[k] \o p /\ IsSeq(P[k])
    BY <1>1, <2>1 DEF GoesOn
  <2>5. pre \o (P[k] \o p) = (pre \o P[k]) \o p
    <3> DEFINE x == P[k]
    <3>1. IsSeq(pre) /\ IsSeq(x) /\ IsSeq(p)
      BY <2>3, <2>4
    <3> HIDE DEF x
    <3>2. PICK S1, S2, S3 : pre \in Seq(S1) /\ x \in Seq(S2) /\ p \in Seq(S3)
      BY <3>1 DEF IsSeq
    <3> DEFINE S == S1 \cup S2 \cup S3
    <3>3. pre \in Seq(S) /\ x \in Seq(S) /\ p \in Seq(S)
      BY <3>2
    <3> HIDE DEF S
    <3>4. pre \o (x \o p) = (pre \o x) \o p
      BY <3>3
    <3> QED BY <3>4 DEF x
  <2> QED BY <2>1, <2>3, <2>4, <2>5
<1>5. LastGrows(CallsIn(bs, T), CallsIn(cs, T), p)
  <2> DEFINE C == CallParts(bs, T)
             D == CallParts(cs, T)
             x == AsCall(bs[k])
             y == AsCall(cs[k])
  <2>1. /\ IsSeq(C) /\ Len(C) = n /\ IsSeq(D) /\ Len(D) = n
        /\ \A i \in 1..n : IsSeq(C[i]) /\ IsSeq(D[i])
        /\ \A i \in 1..n : i # k => D[i] = C[i]
        /\ C[k] = <<x>> /\ D[k] = <<y>>
        /\ \A i \in 1..n : i > k => C[i] = <<>>
        /\ CallsIn(bs, T) = FlattenSeq(C) /\ CallsIn(cs, T) = FlattenSeq(D)
    BY <1>3
  <2>2. y.id = x.id /\ y.name = x.name
    BY DEF GoesOn
  <2>3. y.args = x.args \o p
    BY DEF GoesOn, AsCall
  <2> HIDE DEF C, D, x, y
  <2>4. Spliced(FlattenSeq(C), FlattenSeq(D), C[k], D[k])
    BY <1>1, <2>1, Splices
  <2> QED BY <2>1, <2>2, <2>3, <2>4 DEF LastGrows
<1>6. ASSUME NEW U, U # T
      PROVE  Join(cs, U) = Join(bs, U) /\ CallsIn(cs, U) = CallsIn(bs, U)
  <2> DEFINE P == Parts(bs, U)
             Q == Parts(cs, U)
             C == CallParts(bs, U)
             D == CallParts(cs, U)
  <2>1. /\ IsSeq(P) /\ Len(P) = n /\ IsSeq(C) /\ Len(C) = n
        /\ IsSeq(Q) /\ Len(Q) = n /\ IsSeq(D) /\ Len(D) = n
        /\ \A i \in 1..n : i # k => Q[i] = P[i] /\ D[i] = C[i]
        /\ P[k] = <<>> /\ Q[k] = <<>> /\ C[k] = <<>> /\ D[k] = <<>>
        /\ Join(bs, U) = FlattenSeq(P) /\ CallsIn(bs, U) = FlattenSeq(C)
        /\ Join(cs, U) = FlattenSeq(Q) /\ CallsIn(cs, U) = FlattenSeq(D)
    BY <1>3, <1>6
  <2> HIDE DEF P, Q, C, D
  <2>2. \A i \in 1..n : P[i] = Q[i] /\ C[i] = D[i]
    BY <2>1
  <2>3. P = Q
    BY <2>1, <2>2, SameSeq
  <2>4. C = D
    BY <2>1, <2>2, SameSeq
  <2> QED BY <2>1, <2>3, <2>4
<1> QED BY <1>1, <1>2, <1>4, <1>5, <1>6 DEF Grown, n, T

-----------------------------------------------------------------------------
(* Folds over events and messages, told apart by a name.                   *)

Takes(fold, acc, e) ==
  CASE fold = "blocks" -> ReadBlock(acc, e)
    [] fold = "items" -> ReadItem(acc, e)
    [] fold = "lines" -> HearTwin(acc, e)
    [] fold = "responses" -> TakeItem(acc, e)
    [] fold = "ollama" -> TakeMessage(acc, e)
    [] fold = "joins" -> Joins(acc, e)

\* The function that a fold of the first n elements of t is defined with.
TakeStep(fold, b, t, g, S) == IF S = {} THEN b ELSE Takes(fold, g[S \ {Max(S)}], t[Max(S)])
Folded(fold, b, t, g, n) == g = [S \in SUBSET (1..n) |-> TakeStep(fold, b, t, g, S)]

\* It exists.
LEMMA FoldExists ==
  ASSUME NEW fold, NEW b, NEW t, NEW n \in Nat
  PROVE  \E g : Folded(fold, b, t, g, n)
<1> DEFINE M == {m \in Nat : \E g : Folded(fold, b, t, g, m)}
<1>1. 0 \in M
  <2> DEFINE g == [S \in SUBSET (1..0) |-> b]
  <2>1. \A S \in SUBSET (1..0) : S = {}
    OBVIOUS
  <2>2. \A S \in SUBSET (1..0) : TakeStep(fold, b, t, g, S) = b
    BY <2>1 DEF TakeStep
  <2>3. g = [S \in SUBSET (1..0) |-> TakeStep(fold, b, t, g, S)]
    BY <2>2
  <2> HIDE DEF g
  <2>4. Folded(fold, b, t, g, 0)
    BY <2>3 DEF Folded
  <2> QED BY <2>4
<1>2. ASSUME NEW m \in Nat, m \in M
      PROVE  m + 1 \in M
  <2>1. PICK g : Folded(fold, b, t, g, m)
    BY <1>2
  <2> DEFINE A == SUBSET (1..m)
             B == SUBSET (1..(m + 1))
             h == [S \in B |-> IF m + 1 \in S THEN Takes(fold, g[S \ {m + 1}], t[m + 1]) ELSE g[S]]
  <2>2. A \subseteq B /\ \A S \in B : S \ {m + 1} \in A /\ (m + 1 \notin S => S \in A)
    OBVIOUS
  <2>3. \A S \in A : m + 1 \notin S
    OBVIOUS
  <2>4. \A S \in A : g[S] = TakeStep(fold, b, t, g, S)
    <3>1. g = [S \in A |-> TakeStep(fold, b, t, g, S)]
      BY <2>1 DEF Folded
    <3> HIDE DEF A
    <3> QED BY <3>1
  <2>5. A \subseteq SUBSET Nat /\ B \subseteq SUBSET Nat /\ \A S \in B : \A i \in S : i <= m + 1
    OBVIOUS
  <2> HIDE DEF A, B
  <2>6. \A S \in A : h[S] = g[S]
    BY <2>2, <2>3
  <2>7. \A S \in B : m + 1 \in S => h[S] = Takes(fold, g[S \ {m + 1}], t[m + 1])
    OBVIOUS
  <2>8. h = [S \in B |-> h[S]]
    OBVIOUS
  <2> HIDE DEF h
  <2>9. ASSUME NEW S \in B
        PROVE  h[S] = TakeStep(fold, b, t, h, S)
    <3>1. CASE m + 1 \in S
      <4>1. Max(S) = m + 1
        BY <2>5, <3>1, MaxIs
      <4>2. h[S \ {m + 1}] = g[S \ {m + 1}] /\ S # {}
        BY <2>2, <2>6, <3>1
      <4> QED BY <2>7, <3>1, <4>1, <4>2 DEF TakeStep
    <3>2. CASE m + 1 \notin S
      <4>1. S \in A /\ S \ {Max(S)} \in A
        <5>1. S \in A
          BY <2>2, <3>2
        <5> QED BY <5>1 DEF A
      <4>2. h[S] = g[S] /\ h[S \ {Max(S)}] = g[S \ {Max(S)}]
        BY <2>6, <4>1
      <4> QED BY <2>4, <4>1, <4>2 DEF TakeStep
    <3> QED BY <3>1, <3>2
  <2>10. Folded(fold, b, t, h, m + 1)
    BY <2>8, <2>9 DEF Folded, B
  <2> QED BY <2>10
<1>3. n \in M
  <2> HIDE DEF M
  <2> QED BY <1>1, <1>2, SetInduction
<1> QED BY <1>3

\* It takes the elements one by one.
StepBy(fold, t, g, k) == g[1..k] = Takes(fold, g[1..(k - 1)], t[k])
StepsBy(fold, b, t, g, n) == g[1..0] = b /\ \A k \in 1..n : StepBy(fold, t, g, k)

LEMMA FoldTakes ==
  ASSUME NEW fold, NEW b, NEW t, NEW n \in Nat, NEW g, Folded(fold, b, t, g, n)
  PROVE  StepsBy(fold, b, t, g, n)
<1>1. \A S \in SUBSET (1..n) : g[S] = TakeStep(fold, b, t, g, S)
  <2>1. g = [S \in SUBSET (1..n) |-> TakeStep(fold, b, t, g, S)]
    BY DEF Folded
  <2> QED BY <2>1
<1>2. 1..0 = {} /\ {} \in SUBSET (1..n)
  OBVIOUS
<1>3. ASSUME NEW k \in 1..n
      PROVE  StepBy(fold, t, g, k)
  <2>1. /\ k \in 1..k /\ \A i \in 1..k : i <= k
        /\ 1..k \in SUBSET Nat /\ 1..k \in SUBSET (1..n) /\ 1..k # {}
        /\ (1..k) \ {k} = 1..(k - 1)
    <3>1. k \in Nat /\ k <= n /\ k \in 1..k
      OBVIOUS
    <3>2. \A i \in 1..k : i <= k /\ i \in Nat /\ i \in 1..n
      BY <3>1
    <3>3. (1..k) \ {k} = 1..(k - 1)
      BY <3>1
    <3> QED BY <3>1, <3>2, <3>3
  <2>2. Max(1..k) = k
    BY <2>1, MaxIs
  <2> QED BY <1>1, <2>1, <2>2 DEF TakeStep, StepBy
<1>4. g[1..0] = b
  BY <1>1, <1>2 DEF TakeStep
<1> QED BY <1>3, <1>4 DEF StepsBy

\* Two of them agree as far as their elements do.
LEMMA FoldsAgree ==
  ASSUME NEW fold, NEW b, NEW t, NEW u, NEW n \in Nat, NEW m \in Nat, NEW g, NEW h,
         Folded(fold, b, t, g, n), Folded(fold, b, u, h, m), n <= m,
         \A i \in 1..n : u[i] = t[i]
  PROVE  h[1..n] = g[1..n]
<1>1. StepsBy(fold, b, t, g, n)
  BY FoldTakes
<1>2. StepsBy(fold, b, u, h, m)
  BY FoldTakes
<1> DEFINE S == {k \in Nat : k <= n => h[1..k] = g[1..k]}
<1>3. 0 \in S
  BY <1>1, <1>2 DEF StepsBy
<1>4. ASSUME NEW k \in Nat, k \in S
      PROVE  k + 1 \in S
  <2>1. CASE k + 1 <= n
    <3>1. k + 1 \in 1..n /\ k + 1 \in 1..m /\ (k + 1) - 1 = k /\ k <= n
      BY <2>1
    <3>2. h[1..k] = g[1..k]
      BY <1>4, <3>1
    <3>3. g[1..(k + 1)] = Takes(fold, g[1..k], t[k + 1])
      BY <1>1, <3>1 DEF StepsBy, StepBy
    <3>4. h[1..(k + 1)] = Takes(fold, h[1..k], u[k + 1])
      BY <1>2, <3>1 DEF StepsBy, StepBy
    <3> QED BY <3>1, <3>2, <3>3, <3>4
  <2>2. CASE ~(k + 1 <= n)
    BY <2>2
  <2> QED BY <2>1, <2>2
<1>5. \A k \in Nat : k \in S
  <2> HIDE DEF S
  <2> QED BY <1>3, <1>4, SetInduction
<1> QED BY <1>5

\* r is the fold over t, whichever function it is taken from.
IsFold(fold, b, t, r) == \E g : Folded(fold, b, t, g, Len(t)) /\ r = g[1..Len(t)]

\* One element more is taken last.
LEMMA FoldGrows ==
  ASSUME NEW fold, NEW b, NEW t, IsSeq(t), NEW e, NEW r, NEW q,
         IsFold(fold, b, t, r), IsFold(fold, b, Append(t, e), q)
  PROVE  q = Takes(fold, r, e)
<1> DEFINE n == Len(t)
           u == Append(t, e)
<1>1. n \in Nat /\ Len(u) = n + 1 /\ u[n + 1] = e /\ \A i \in 1..n : u[i] = t[i]
  BY Appended
<1>2. PICK g : Folded(fold, b, t, g, n) /\ r = g[1..n]
  BY DEF IsFold
<1> HIDE DEF n, u
<1>3. PICK h : Folded(fold, b, u, h, n + 1) /\ q = h[1..(n + 1)]
  BY <1>1 DEF IsFold, u
<1>4. n + 1 \in Nat /\ n <= n + 1 /\ n + 1 \in 1..(n + 1) /\ (n + 1) - 1 = n
  BY <1>1
<1>5. h[1..n] = g[1..n]
  BY <1>1, <1>2, <1>3, <1>4, FoldsAgree
<1>6. StepsBy(fold, b, u, h, n + 1)
  BY <1>3, <1>4, FoldTakes
<1>7. h[1..(n + 1)] = Takes(fold, h[1..n], u[n + 1])
  BY <1>4, <1>6 DEF StepsBy, StepBy
<1> QED BY <1>1, <1>2, <1>3, <1>5, <1>7

\* Of nothing it is where it begins.
LEMMA FoldNothing ==
  ASSUME NEW fold, NEW b, NEW r, NEW t, t = <<>>, IsFold(fold, b, t, r)
  PROVE  r = b
<1>1. Len(t) = 0
  OBVIOUS
<1>2. PICK g : Folded(fold, b, t, g, 0) /\ r = g[1..0]
  BY <1>1 DEF IsFold
<1>3. 0 \in Nat
  OBVIOUS
<1>4. StepsBy(fold, b, t, g, 0)
  BY <1>2, <1>3, FoldTakes
<1> QED BY <1>2, <1>4 DEF StepsBy

\* The folds of the model are such folds.
LEMMA BlocksFold ==
  ASSUME NEW t, IsSeq(t)
  PROVE  IsFold("blocks", <<>>, t, Blocks(t))
<1> DEFINE n == Len(t)
           b == <<>>
           Step(g, S) == IF S = {} THEN b ELSE ReadBlock(g[S \ {Max(S)}], t[Max(S)])
           G == CHOOSE g : g = [S \in SUBSET (1..n) |-> Step(g, S)]
<1>1. DOMAIN t = 1..n /\ n \in Nat
  BY Appended
<1>2. Blocks(t) = G[1..n]
  BY <1>1 DEF Blocks, FoldLeft, MapThenFoldSet
<1>3. \A g, S : Step(g, S) = TakeStep("blocks", b, t, g, S)
  BY DEF TakeStep, Takes
<1> HIDE DEF n, b, Step
<1>4. PICK f : Folded("blocks", b, t, f, n)
  BY <1>1, FoldExists
<1>5. f = [S \in SUBSET (1..n) |-> Step(f, S)]
  BY <1>3, <1>4 DEF Folded
<1>6. G = [S \in SUBSET (1..n) |-> Step(G, S)]
  BY <1>5
<1> HIDE DEF G
<1>7. Folded("blocks", b, t, G, n)
  BY <1>3, <1>6 DEF Folded
<1> QED BY <1>2, <1>7 DEF IsFold, n, b

LEMMA ItemsFold ==
  ASSUME NEW t, IsSeq(t)
  PROVE  IsFold("items", <<>>, t, Items(t))
<1> DEFINE n == Len(t)
           b == <<>>
           Step(g, S) == IF S = {} THEN b ELSE ReadItem(g[S \ {Max(S)}], t[Max(S)])
           G == CHOOSE g : g = [S \in SUBSET (1..n) |-> Step(g, S)]
<1>1. DOMAIN t = 1..n /\ n \in Nat
  BY Appended
<1>2. Items(t) = G[1..n]
  BY <1>1 DEF Items, FoldLeft, MapThenFoldSet
<1>3. \A g, S : Step(g, S) = TakeStep("items", b, t, g, S)
  BY DEF TakeStep, Takes
<1> HIDE DEF n, b, Step
<1>4. PICK f : Folded("items", b, t, f, n)
  BY <1>1, FoldExists
<1>5. f = [S \in SUBSET (1..n) |-> Step(f, S)]
  BY <1>3, <1>4 DEF Folded
<1>6. G = [S \in SUBSET (1..n) |-> Step(G, S)]
  BY <1>5
<1> HIDE DEF G
<1>7. Folded("items", b, t, G, n)
  BY <1>3, <1>6 DEF Folded
<1> QED BY <1>2, <1>7 DEF IsFold, n, b

LEMMA LinesFold ==
  ASSUME NEW b, NEW t, IsSeq(t)
  PROVE  IsFold("lines", b, t, FoldLeft(HearTwin, b, t))
<1> DEFINE n == Len(t)
           Step(g, S) == IF S = {} THEN b ELSE HearTwin(g[S \ {Max(S)}], t[Max(S)])
           G == CHOOSE g : g = [S \in SUBSET (1..n) |-> Step(g, S)]
<1>1. DOMAIN t = 1..n /\ n \in Nat
  BY Appended
<1>2. FoldLeft(HearTwin, b, t) = G[1..n]
  BY <1>1 DEF FoldLeft, MapThenFoldSet
<1>3. \A g, S : Step(g, S) = TakeStep("lines", b, t, g, S)
  BY DEF TakeStep, Takes
<1> HIDE DEF n, Step
<1>4. PICK f : Folded("lines", b, t, f, n)
  BY <1>1, FoldExists
<1>5. f = [S \in SUBSET (1..n) |-> Step(f, S)]
  BY <1>3, <1>4 DEF Folded
<1>6. G = [S \in SUBSET (1..n) |-> Step(G, S)]
  BY <1>5
<1> HIDE DEF G
<1>7. Folded("lines", b, t, G, n)
  BY <1>3, <1>6 DEF Folded
<1> QED BY <1>2, <1>7 DEF IsFold, n

\* What a client has read when one event more has arrived, and of none.
LEMMA BlocksGrow ==
  ASSUME NEW out, IsSeq(out), NEW e
  PROVE  Blocks(Append(out, e)) = ReadBlock(Blocks(out), e)
<1> DEFINE b == <<>>
<1>1. IsFold("blocks", b, out, Blocks(out)) /\ IsSeq(Append(out, e))
  BY BlocksFold, Appended
<1>2. IsFold("blocks", b, Append(out, e), Blocks(Append(out, e)))
  BY <1>1, BlocksFold
<1> HIDE DEF b
<1>3. Blocks(Append(out, e)) = Takes("blocks", Blocks(out), e)
  BY <1>1, <1>2, FoldGrows
<1> QED BY <1>3 DEF Takes

LEMMA ItemsGrow ==
  ASSUME NEW out, IsSeq(out), NEW e
  PROVE  Items(Append(out, e)) = ReadItem(Items(out), e)
<1> DEFINE b == <<>>
<1>1. IsFold("items", b, out, Items(out)) /\ IsSeq(Append(out, e))
  BY ItemsFold, Appended
<1>2. IsFold("items", b, Append(out, e), Items(Append(out, e)))
  BY <1>1, ItemsFold
<1> HIDE DEF b
<1>3. Items(Append(out, e)) = Takes("items", Items(out), e)
  BY <1>1, <1>2, FoldGrows
<1> QED BY <1>3 DEF Takes

LEMMA LinesGrow ==
  ASSUME NEW b, NEW out, IsSeq(out), NEW e
  PROVE  FoldLeft(HearTwin, b, Append(out, e)) = HearTwin(FoldLeft(HearTwin, b, out), e)
<1>1. IsFold("lines", b, out, FoldLeft(HearTwin, b, out)) /\ IsSeq(Append(out, e))
  BY LinesFold, Appended
<1>2. IsFold("lines", b, Append(out, e), FoldLeft(HearTwin, b, Append(out, e)))
  BY <1>1, LinesFold
<1>3. FoldLeft(HearTwin, b, Append(out, e)) = Takes("lines", FoldLeft(HearTwin, b, out), e)
  BY <1>1, <1>2, FoldGrows
<1> QED BY <1>3 DEF Takes

LEMMA NothingRead ==
  /\ Blocks(<<>>) = <<>> /\ Items(<<>>) = <<>>
  /\ \A b : FoldLeft(HearTwin, b, <<>>) = b
<1> DEFINE e == <<>>
<1>1. IsSeq(e) /\ e = <<>>
  BY NothingIsSeq
<1> HIDE DEF e
<1>2. IsFold("blocks", e, e, Blocks(e)) /\ IsFold("items", e, e, Items(e))
  BY <1>1, BlocksFold, ItemsFold
<1>3. Blocks(e) = e /\ Items(e) = e
  BY <1>1, <1>2, FoldNothing
<1>4. ASSUME NEW b
      PROVE  FoldLeft(HearTwin, b, e) = b
  <2>1. IsFold("lines", b, e, FoldLeft(HearTwin, b, e))
    BY <1>1, LinesFold
  <2> QED BY <1>1, <2>1, FoldNothing
<1> QED BY <1>1, <1>3, <1>4

-----------------------------------------------------------------------------
(* The steps, as the client and the model know them. *)

\* A call as it is heard.
WholeCall(c) == DOMAIN c = {"id", "name", "args"} /\ IsSeq(c.args) /\ c.name # None

\* What is heard is a reply, and what it is made of are sequences.
ReplyOK(r) ==
  /\ DOMAIN r = SaidFields /\ IsSeq(r.text) /\ IsSeq(r.reasoning) /\ IsSeq(r.calls)
  /\ \A k \in 1..Len(r.calls) : WholeCall(r.calls[k])
  /\ r.calling => Len(r.calls) >= 1
  /\ r.error \in BOOLEAN
  /\ r.usage = NoUsage \/ (r.usage # None /\ r.usage.prompt \in {3, 10} /\ r.usage.cached = 4)
  /\ r.finish \in FinishReasons \cup {None}

\* A line the gateway reads after r, with m calls begun after it: what it
\* says, and what the gateway has made of it for an OpenAI client.
Line(l, r, m) ==
  /\ m \in Nat /\ Sent(l, Len(r.calls), m, r.calling) /\ Whole(l)
  /\ l.usage = None \/ (l.usage.prompt \in {3, 10} /\ l.usage.cached = 4)
  /\ l.kind = "chunk" => l.model = "alias" /\ l.twin = (l.reasoning # <<>>)
  /\ l.usage # None => /\ r.usage = NoUsage /\ l.kind = "chunk" /\ l.finish = None
                       /\ l.reasoning = <<>> /\ l.text = <<>> /\ l.tools = <<>>
  /\ l.finish \in FinishReasons \cup {None} /\ (l.kind # "chunk" => l.finish = None)

\* The steps: nothing is said, a line is read, the stream ends, a reply begins.
Keeps ==
  /\ UNCHANGED <<stream, said, dialect, wish, telemetry, request, pieces>>
  /\ phase = "asked" /\ phase' \in {"open", "refused"}
  /\ phase' = "open" => timing' = MarkOpen(timing, pieces)
Reads(l, m) ==
  /\ Line(l, said, m) /\ ~said.error /\ phase = "open" /\ phase' = "open"
  /\ l.usage # None => Has(request, "include_usage")
  /\ stream' = Translate(stream, l) /\ said' = Hear(said, l)
  /\ UNCHANGED <<dialect, wish, telemetry, request>> /\ pieces' \in {pieces, pieces + 1}
  /\ \/ timing' = Observe(timing, l, pieces)
     \/ l.kind = "error" /\ timing' = [timing EXCEPT !.error = "bad_gateway"]
StreamEnds ==
  /\ UNCHANGED <<said, dialect, wish, telemetry, pieces>>
  /\ phase = "open" /\ phase' = "closed" /\ stream' = Close(stream)
  /\ timing' = Finalize(Observe(timing, [BlankLine EXCEPT !.kind = "done"], pieces), pieces)
ReplyBegins ==
  /\ said' = Silence /\ stream' = Start /\ phase' \in {"asked", "refused"}
  /\ UNCHANGED <<dialect, wish, telemetry, pieces>>
  /\ dialect \in {"anthropic", "responses", "ollama"} /\ timing' = NewTiming(pieces)

\* What the lines of the upstream are.
LEMMA ContentLine ==
  ASSUME NEW line \in ContentLines, ReplyOK(said)
  PROVE  \E m : Line(Restored(line), said, m) /\ Hear(said, Restored(line)) = Hear(said, line)
                /\ Restored(line).usage = None
<1>1. PICK m \in Nat : Sent(line, Len(said.calls), m, said.calling)
  BY ContentSent DEF ReplyOK
<1>2. Whole(line)
  BY LinesWhole
<1>3. line.usage = None /\ line.finish = None
  BY DEF ContentLines, BlankLine
<1> DEFINE l == Restored(line)
<1>4. DOMAIN line = LineFields
  BY <1>1 DEF Sent
<1>5. l.usage = line.usage /\ l.finish = line.finish
      /\ (l.kind = "chunk" => l.model = "alias" /\ l.twin = (l.reasoning # <<>>))
  BY <1>4 DEF Restored, LineFields
<1>6. Sent(l, Len(said.calls), m, said.calling) /\ Whole(l) /\ l.kind = line.kind
  BY <1>1, <1>2, RestoredSent
<1>7. l.kind = line.kind /\ l.reasoning = line.reasoning /\ l.text = line.text /\ l.tools = line.tools
  BY <1>4, RestoredKeeps
<1> HIDE DEF l
<1>8. Hear(said, l) = Hear(said, line)
  BY <1>5, <1>7 DEF Hear
<1>9. Line(l, said, m)
  BY <1>1, <1>3, <1>5, <1>6 DEF Line
<1> QED BY <1>3, <1>5, <1>8, <1>9 DEF l

LEMMA ControlLine ==
  ASSUME NEW line, \/ line \in ControlLines /\ said.usage = NoUsage
                   \/ line = [BlankLine EXCEPT !.kind = "error"],
         ReplyOK(said)
  PROVE  \E m : Line(Restored(line), said, m) /\ Hear(said, Restored(line)) = Hear(said, line)
                /\ (Restored(line).usage # None => Has(request, "include_usage"))
<1> DEFINE m == Len(said.calls)
<1>1. Sent(line, m, m, said.calling) /\ m \in Nat
  BY ControlSent, Appended DEF ReplyOK
<1>2. Whole(line)
  BY LinesWhole
<1>3. \/ line.usage = None
      \/ line = [BlankLine EXCEPT !.usage = Usage] /\ Has(request, "include_usage") /\ said.usage = NoUsage
  BY DEF ControlLines, BlankLine
<1>12. line.finish \in FinishReasons \cup {None} /\ (line.kind # "chunk" => line.finish = None)
  BY DEF ControlLines, BlankLine
<1> DEFINE l == Restored(line)
<1>4. DOMAIN line = LineFields
  BY <1>1 DEF Sent
<1>5. l.usage = line.usage /\ l.finish = line.finish
      /\ (l.kind = "chunk" => l.model = "alias" /\ l.twin = (l.reasoning # <<>>))
  BY <1>4 DEF Restored, LineFields
<1>6. Sent(l, m, m, said.calling) /\ Whole(l) /\ l.kind = line.kind
  BY <1>1, <1>2, RestoredSent
<1>7. l.kind = line.kind /\ l.reasoning = line.reasoning /\ l.text = line.text /\ l.tools = line.tools
  BY <1>4, RestoredKeeps
<1> HIDE DEF l, m
<1>8. Hear(said, l) = Hear(said, line)
  BY <1>5, <1>7 DEF Hear
<1>9. l.usage = None \/ (l.usage.prompt \in {3, 10} /\ l.usage.cached = 4)
  BY <1>3, <1>5 DEF BlankLine, Usage
<1>10. l.usage # None => /\ said.usage = NoUsage /\ l.kind = "chunk" /\ l.finish = None
                         /\ l.reasoning = <<>> /\ l.text = <<>> /\ l.tools = <<>>
  BY <1>3, <1>5, <1>7 DEF BlankLine
<1>11. Line(l, said, m)
  BY <1>1, <1>5, <1>6, <1>9, <1>10, <1>12 DEF Line, m
<1> QED BY <1>3, <1>5, <1>8, <1>11 DEF l

\* Every step of the specification is one of them.
LEMMA Steps ==
  ASSUME ReplyOK(said), [Next]_vars
  PROVE  UNCHANGED vars \/ Keeps \/ (\E l, m : Reads(l, m)) \/ StreamEnds \/ ReplyBegins
<1>1. CASE UNCHANGED vars
  BY <1>1
<1>2. CASE Opened
  BY <1>2 DEF Opened, client, Keeps
<1>3. CASE Content
  <2>1. PICK line \in ContentLines : Receive(line)
    BY <1>3 DEF Content
  <2>2. PICK m : Line(Restored(line), said, m) /\ Hear(said, Restored(line)) = Hear(said, line)
                 /\ Restored(line).usage = None
    BY ContentLine
  <2> DEFINE l == Restored(line)
  <2> HIDE DEF l
  <2>3. Reads(l, m)
    BY <1>3, <2>1, <2>2 DEF Content, Receive, client, Reads, l
  <2> QED BY <2>3
<1>4. CASE Control
  <2>1. PICK line \in ControlLines : Receive(line)
    BY <1>4 DEF Control
  <2>2. PICK m : Line(Restored(line), said, m) /\ Hear(said, Restored(line)) = Hear(said, line)
                 /\ (Restored(line).usage # None => Has(request, "include_usage"))
    BY <1>4, ControlLine DEF Control
  <2> DEFINE l == Restored(line)
  <2> HIDE DEF l
  <2>3. Reads(l, m)
    BY <1>4, <2>1, <2>2 DEF Control, Receive, client, Reads, l
  <2> QED BY <2>3
<1>5. CASE Breaks
  <2>1. PICK line : /\ line = [BlankLine EXCEPT !.kind = "error"]
                    /\ stream' = Translate(stream, line) /\ said' = Hear(said, line)
    BY <1>5 DEF Breaks
  <2>2. PICK m : Line(Restored(line), said, m) /\ Hear(said, Restored(line)) = Hear(said, line)
                 /\ (Restored(line).usage # None => Has(request, "include_usage"))
    BY <2>1, ControlLine
  <2>3. Restored(line) = line
    BY <2>1 DEF Restored, BlankLine
  <2>4. Reads(line, m)
    BY <1>5, <2>1, <2>2, <2>3 DEF Breaks, client, Reads, BlankLine
  <2> QED BY <2>4
<1>6. CASE End
  BY <1>6 DEF End, client, StreamEnds
<1>7. ASSUME NEW f, Fails(f)
      PROVE  Keeps
  BY <1>7 DEF Fails, client, Keeps
<1>8. ASSUME NEW backwards, NEW more, NEW keys, NextTurn(backwards, more, keys)
      PROVE  ReplyBegins
  <2>1. phase' \in {"asked", "refused"}
    BY <1>8 DEF NextTurn, Send
  <2> QED BY <1>8, <2>1 DEF NextTurn, ReplyBegins
<1> QED BY <1>1, <1>2, <1>3, <1>4, <1>5, <1>6, <1>7, <1>8 DEF Next

-----------------------------------------------------------------------------
(* The calls: those heard, and those the client has assembled. *)

SameCall(c, x) ==
  /\ c.name = x.name /\ c.args = x.args /\ WholeCall(x)
  /\ x.id # <<>> => c.id = x.id
CallsAgree(cs, h) ==
  /\ IsSeq(cs) /\ IsSeq(h) /\ Len(cs) = Len(h)
  /\ \A k \in 1..Len(h) : SameCall(cs[k], h[k])

\* Each call has an id of its own: the last part of it is its number.
OwnId(id, i) == id[Len(id)] = i
OwnIds(cs) == \A k \in 1..Len(cs) : OwnId(cs[k].id, k - 1)

\* How a line tells of the calls, c being those heard after it.
CallOf(d) == [id |-> d.id, name |-> d.name, args |-> d.args]
Extends(h, d) == [h EXCEPT ![Len(h)].args = @ \o d.args]
Telling(l, r, m, c) ==
  LET n == Len(r.calls)
  IN  \/ l.tools = <<>> /\ m = n /\ c = r.calls
      \/ \E d : /\ l.tools = <<d>> /\ Begins(d, n) /\ m = n + 1 /\ IsSeq(d.args)
                /\ c = Append(r.calls, CallOf(d))
      \/ \E d, e : /\ l.tools = <<d, e>> /\ Begins(d, n) /\ Begins(e, n + 1) /\ m = n + 2
                   /\ IsSeq(d.args) /\ IsSeq(e.args)
                   /\ c = Append(Append(r.calls, CallOf(d)), CallOf(e))
      \/ \E d : /\ l.tools = <<d>> /\ Continues(d, n - 1) /\ n >= 1 /\ m = n /\ r.calling
                /\ IsSeq(d.args) /\ l.reasoning = <<>> /\ l.text = <<>>
                /\ c = Extends(r.calls, d)

LEMMA TellsCalls ==
  ASSUME NEW r, ReplyOK(r), NEW l, NEW m, Line(l, r, m)
  PROVE  Telling(l, r, m, FoldLeft(HearCall, r.calls, l.tools))
<1> DEFINE n == Len(r.calls)
           h == r.calls
<1>1. n \in Nat /\ IsSeq(h) /\ Len(h) = n
  BY Appended DEF ReplyOK
<1>2. Tells(l, n, m, r.calling) /\ \A k \in DOMAIN l.tools : IsSeq(l.tools[k].args)
  BY DEF Line, Sent, Whole
<1> HIDE DEF n, h
<1>3. ASSUME NEW g, NEW d, d.index = Len(g)
      PROVE  HearCall(g, d) = Append(g, CallOf(d)) \/ Len(g) \notin Nat
  BY <1>3 DEF HearCall, CallOf
<1>4. CASE l.tools = <<>> /\ m = n
  <2>1. DOMAIN <<>> = {}
    OBVIOUS
  <2>2. FoldLeft(HearCall, h, <<>>) = h
    BY <2>1, HearCalls
  <2> QED BY <1>4, <2>2 DEF Telling, n, h
<1>5. ASSUME NEW d, l.tools = <<d>>, Begins(d, n), m = n + 1
      PROVE  Telling(l, r, m, FoldLeft(HearCall, h, l.tools))
  <2>1. DOMAIN <<d>> = {1} /\ {1} # {} /\ <<d>>[1] = d
    OBVIOUS
  <2>2. FoldLeft(HearCall, h, <<d>>) = HearCall(h, d)
    BY <2>1, HearCalls
  <2>3. HearCall(h, d) = Append(h, CallOf(d)) /\ IsSeq(d.args)
    BY <1>1, <1>2, <1>3, <1>5, <2>1 DEF Begins
  <2> QED BY <1>5, <2>2, <2>3 DEF Telling, n, h
<1>6. ASSUME NEW d, NEW e, l.tools = <<d, e>>, Begins(d, n), Begins(e, n + 1), m = n + 2
      PROVE  Telling(l, r, m, FoldLeft(HearCall, h, l.tools))
  <2>1. /\ DOMAIN <<d, e>> = {1, 2} /\ {1, 2} # {} /\ {1, 2} # {1} /\ <<d, e>>[1] = d
        /\ <<d, e>>[2] = e
    OBVIOUS
  <2>2. FoldLeft(HearCall, h, <<d, e>>) = HearCall(HearCall(h, d), e)
    BY <2>1, HearCalls
  <2>3. IsSeq(d.args) /\ IsSeq(e.args)
    BY <1>2, <1>6, <2>1
  <2>4. HearCall(h, d) = Append(h, CallOf(d))
    BY <1>1, <1>3, <1>6 DEF Begins
  <2> DEFINE g == Append(h, CallOf(d))
  <2>5. Len(g) = n + 1 /\ n + 1 \in Nat
    BY <1>1, Appended
  <2> HIDE DEF g
  <2>6. HearCall(g, e) = Append(g, CallOf(e))
    BY <1>3, <1>6, <2>5 DEF Begins
  <2> QED BY <1>6, <2>2, <2>3, <2>4, <2>6 DEF Telling, n, h, g
<1>7. ASSUME NEW d, l.tools = <<d>>, Continues(d, n - 1), n >= 1, m = n, r.calling,
             l.reasoning = <<>>, l.text = <<>>
      PROVE  Telling(l, r, m, FoldLeft(HearCall, h, l.tools))
  <2>1. DOMAIN <<d>> = {1} /\ {1} # {} /\ <<d>>[1] = d
    OBVIOUS
  <2>2. FoldLeft(HearCall, h, <<d>>) = HearCall(h, d)
    BY <2>1, HearCalls
  <2>3. IsSeq(d.args)
    BY <1>2, <1>7, <2>1
  <2>4. d.index = n - 1 /\ d.index < Len(h) /\ d.index + 1 = n
    BY <1>1, <1>7 DEF Continues
  <2>5. HearCall(h, d) = Extends(h, d)
    BY <1>1, <2>4 DEF HearCall, Extends
  <2> QED BY <1>7, <2>2, <2>3, <2>5 DEF Telling, n, h
<1> QED BY <1>2, <1>4, <1>5, <1>6, <1>7 DEF Tells, h

LEMMA CallFields ==
  ASSUME NEW d
  PROVE  /\ CallOf(d).id = d.id /\ CallOf(d).name = d.name /\ CallOf(d).args = d.args
         /\ IsSeq(d.args) /\ d.name # None => WholeCall(CallOf(d))
BY DEF CallOf, WholeCall

\* The parts of Extends.
IsExtended(q, h, d) ==
  /\ IsSeq(q) /\ Len(q) = Len(h)
  /\ q[Len(h)] = [h[Len(h)] EXCEPT !.args = @ \o d.args]
  /\ \A k \in 1..Len(h) : k # Len(h) => q[k] = h[k]

LEMMA Extended ==
  ASSUME NEW h, IsSeq(h), Len(h) >= 1, NEW d
  PROVE  IsExtended(Extends(h, d), h, d)
<1> DEFINE n == Len(h)
           x == [h[n] EXCEPT !.args = @ \o d.args]
<1>1. n \in Nat /\ n >= 1
  BY Appended
<1>2. Extends(h, d) = [h EXCEPT ![n] = x]
  BY DEF Extends
<1>3. PICK S : h \in Seq(S)
  BY DEF IsSeq
<1> DEFINE T == S \cup {x}
<1> HIDE DEF x
<1>4. h \in Seq(T) /\ x \in T
  BY <1>3
<1> HIDE DEF T
<1>5. n = Len(h)
  OBVIOUS
<1> HIDE DEF n
<1>6. LET q == [h EXCEPT ![n] = x]
      IN  q \in Seq(T) /\ Len(q) = n /\ q[n] = x /\ \A k \in 1..n : k # n => q[k] = h[k]
  BY <1>1, <1>4, <1>5
<1> QED BY <1>2, <1>5, <1>6 DEF IsSeq, x, IsExtended

\* h is what is heard when the line l comes after r.
HeardWith(h, r, l, m) ==
  /\ ReplyOK(h) /\ Len(h.calls) = m
  /\ r.error = FALSE => h.error = (l.kind = "error")
  /\ l.kind # "error" =>
       /\ h.reasoning = r.reasoning \o l.reasoning /\ h.text = r.text \o l.text
       /\ Telling(l, r, m, h.calls)
       /\ h.usage = (IF l.usage = None THEN r.usage ELSE l.usage)
  /\ l.kind = "error" => /\ h.reasoning = r.reasoning /\ h.text = r.text
                         /\ h.calls = r.calls /\ h.usage = r.usage
  /\ h.finish = (IF l.kind = "error" \/ l.finish = None THEN r.finish ELSE l.finish)

\* What is heard stays a reply.
LEMMA HearsReply ==
  ASSUME NEW r, ReplyOK(r), NEW l, NEW m, Line(l, r, m)
  PROVE  HeardWith(Hear(r, l), r, l, m)
<1> DEFINE h == Hear(r, l)
           c == FoldLeft(HearCall, r.calls, l.tools)
           n == Len(r.calls)
<1>1. Telling(l, r, m, c)
  BY TellsCalls
<1>2. n \in Nat /\ IsSeq(r.calls) /\ \A k \in 1..n : WholeCall(r.calls[k])
  BY Appended DEF ReplyOK
<1>3. /\ l.kind # "error" =>
           /\ h.reasoning = r.reasoning \o l.reasoning /\ h.text = r.text \o l.text
           /\ h.calls = c /\ h.usage = (IF l.usage = None THEN r.usage ELSE l.usage)
           /\ h.error = r.error
      /\ l.kind = "error" => /\ h.reasoning = r.reasoning /\ h.text = r.text /\ h.error = TRUE
                             /\ h.calls = r.calls /\ h.usage = r.usage
      /\ h.finish = (IF l.kind = "error" \/ l.finish = None THEN r.finish ELSE l.finish)
  BY DEF Hear, ReplyOK, SaidFields
<1>4. /\ IsSeq(h.calls) /\ DOMAIN h = SaidFields /\ Len(h.calls) = m
      /\ h.calling => m >= 1
  BY Heard DEF Line, ReplyOK
<1>5. IsSeq(l.reasoning) /\ IsSeq(l.text)
  BY DEF Line, Whole
<1> HIDE DEF h, c, n
<1>6. IsSeq(h.text) /\ IsSeq(h.reasoning)
  BY <1>3, <1>5, Concatenated DEF ReplyOK
<1>7. \A k \in 1..Len(h.calls) : WholeCall(h.calls[k])
  <2>1. CASE l.kind = "error"
    BY <1>2, <1>3, <2>1 DEF n
  <2>2. ASSUME NEW g, IsSeq(g), \A k \in 1..Len(g) : WholeCall(g[k]), NEW d, IsSeq(d.args),
               d.name # None
        PROVE  LET q == Append(g, CallOf(d))
               IN  IsSeq(q) /\ \A k \in 1..Len(q) : WholeCall(q[k])
    <3> DEFINE q == Append(g, CallOf(d))
    <3>1. /\ IsSeq(q) /\ Len(g) \in Nat /\ Len(q) = Len(g) + 1 /\ q[Len(g) + 1] = CallOf(d)
          /\ \A k \in 1..Len(g) : q[k] = g[k]
      BY <2>2, Appended
    <3> HIDE DEF q
    <3>2. \A k \in 1..Len(q) : k \in 1..Len(g) \/ k = Len(g) + 1
      BY <3>1
    <3>3. \A k \in 1..Len(q) : WholeCall(q[k])
      BY <2>2, <3>1, <3>2, CallFields
    <3> QED BY <3>1, <3>3 DEF q
  <2>3. CASE l.kind # "error" /\ l.tools = <<>> /\ c = r.calls
    BY <1>2, <1>3, <2>3 DEF n
  <2>4. ASSUME l.kind # "error", NEW d, IsSeq(d.args), d.name # None, c = Append(r.calls, CallOf(d))
        PROVE  \A k \in 1..Len(h.calls) : WholeCall(h.calls[k])
    BY <1>2, <1>3, <2>2, <2>4 DEF n
  <2>5. ASSUME l.kind # "error", NEW d, NEW e, IsSeq(d.args), IsSeq(e.args), d.name # None,
               e.name # None, c = Append(Append(r.calls, CallOf(d)), CallOf(e))
        PROVE  \A k \in 1..Len(h.calls) : WholeCall(h.calls[k])
    <3> DEFINE g == Append(r.calls, CallOf(d))
    <3>1. IsSeq(g) /\ \A k \in 1..Len(g) : WholeCall(g[k])
      BY <1>2, <2>2, <2>5 DEF n
    <3> HIDE DEF g
    <3> QED BY <1>3, <2>2, <2>5, <3>1 DEF g
  <2>6. ASSUME l.kind # "error", NEW d, IsSeq(d.args), n >= 1, c = Extends(r.calls, d)
        PROVE  \A k \in 1..Len(h.calls) : WholeCall(h.calls[k])
    <3> DEFINE x == r.calls[n]
               y == [x EXCEPT !.args = @ \o d.args]
               g == r.calls
    <3>1. Len(c) = n /\ c[n] = y /\ \A k \in 1..n : k # n => c[k] = g[k]
      <4>1. IsSeq(g) /\ Len(g) = n /\ n >= 1
        BY <1>2, <2>6 DEF n
      <4> HIDE DEF g, n
      <4>2. IsExtended(Extends(g, d), g, d)
        BY <4>1, Extended
      <4> QED BY <2>6, <4>1, <4>2 DEF g, IsExtended
    <3>2. WholeCall(y)
      <4>1. WholeCall(x)
        BY <1>2, <2>6
      <4> HIDE DEF x
      <4>2. y.args = x.args \o d.args /\ DOMAIN y = {"id", "name", "args"} /\ IsSeq(x.args)
        BY <4>1 DEF WholeCall
      <4>4. y.name # None
        BY <4>1 DEF WholeCall
      <4> HIDE DEF y
      <4>3. IsSeq(y.args)
        BY <2>6, <4>2, Concatenated
      <4> QED BY <4>2, <4>3, <4>4 DEF WholeCall
    <3> HIDE DEF x, y
    <3> QED BY <1>2, <1>3, <2>6, <3>1, <3>2
  <2> QED BY <1>1, <2>1, <2>3, <2>4, <2>5, <2>6 DEF Telling, Begins, n
<1>8. h.error \in BOOLEAN
  BY <1>3 DEF ReplyOK
<1>9. h.usage = NoUsage \/ (h.usage # None /\ h.usage.prompt \in {3, 10} /\ h.usage.cached = 4)
  BY <1>3 DEF ReplyOK, Line
<1>12. h.finish \in FinishReasons \cup {None}
  BY <1>3 DEF ReplyOK, Line
<1>10. ReplyOK(h)
  BY <1>4, <1>6, <1>7, <1>8, <1>9, <1>12 DEF ReplyOK
<1>11. r.error = FALSE => h.error = (l.kind = "error")
  BY <1>3
<1> QED BY <1>1, <1>3, <1>4, <1>10, <1>11 DEF h, c, HeardWith

\* One call more, of both.
LEMMA AgreeAppend ==
  ASSUME NEW cs, NEW h, CallsAgree(cs, h), NEW c, NEW x, SameCall(c, x)
  PROVE  CallsAgree(Append(cs, c), Append(h, x))
<1> DEFINE n == Len(h)
           q == Append(cs, c)
           g == Append(h, x)
<1>1. IsSeq(cs) /\ IsSeq(h) /\ Len(cs) = n /\ \A k \in 1..n : SameCall(cs[k], h[k])
  BY DEF CallsAgree
<1>2. /\ IsSeq(q) /\ n \in Nat /\ Len(q) = n + 1 /\ q[n + 1] = c
      /\ \A k \in 1..n : q[k] = cs[k]
  BY <1>1, Appended
<1>3. IsSeq(g) /\ Len(g) = n + 1 /\ g[n + 1] = x /\ \A k \in 1..n : g[k] = h[k]
  BY <1>1, Appended
<1> HIDE DEF q, g, n
<1>4. \A k \in 1..(n + 1) : k \in 1..n \/ k = n + 1
  BY <1>2
<1>5. \A k \in 1..(n + 1) : SameCall(q[k], g[k])
  BY <1>1, <1>2, <1>3, <1>4
<1> QED BY <1>2, <1>3, <1>5 DEF CallsAgree, q, g

\* The last call is longer.
LastLonger(d, c, p) ==
  /\ IsSeq(d) /\ Len(c) \in Nat /\ Len(c) >= 1 /\ Len(d) = Len(c)
  /\ \A k \in 1..Len(c) : k # Len(c) => d[k] = c[k]
  /\ d[Len(c)].id = c[Len(c)].id /\ d[Len(c)].name = c[Len(c)].name
  /\ d[Len(c)].args = c[Len(c)].args \o p

LEMMA LastGrowsIs ==
  ASSUME NEW c, NEW d, NEW p, LastGrows(c, d, p)
  PROVE  LastLonger(d, c, p)
<1>1. PICK x, y : /\ Spliced(c, d, <<x>>, <<y>>)
                  /\ y.id = x.id /\ y.name = x.name /\ y.args = x.args \o p
  BY DEF LastGrows
<1>2. PICK pre : IsSeq(pre) /\ c = pre \o <<x>> /\ d = pre \o <<y>>
  BY <1>1 DEF Spliced
<1>3. c = Append(pre, x) /\ d = Append(pre, y)
  BY <1>2, Single
<1> DEFINE n == Len(pre)
<1>4. n \in Nat /\ Len(c) = n + 1 /\ c[n + 1] = x /\ \A k \in 1..n : c[k] = pre[k]
  BY <1>2, <1>3, Appended
<1>5. IsSeq(d) /\ Len(d) = n + 1 /\ d[n + 1] = y /\ \A k \in 1..n : d[k] = pre[k]
  <2>1. LET q == Append(pre, y)
        IN  IsSeq(q) /\ Len(q) = n + 1 /\ q[n + 1] = y /\ \A k \in 1..n : q[k] = pre[k]
    BY <1>2, Appended
  <2> HIDE DEF n
  <2> QED BY <1>3, <2>1
<1> HIDE DEF n
<1>6. \A k \in 1..(n + 1) : k # n + 1 => d[k] = c[k]
  BY <1>4, <1>5
<1> QED BY <1>1, <1>4, <1>5, <1>6 DEF LastLonger

\* A call goes on.
LEMMA AgreeExtends ==
  ASSUME NEW cs, NEW h, CallsAgree(cs, h), NEW q, NEW d, IsSeq(d.args), LastGrows(cs, q, d.args)
  PROVE  CallsAgree(q, Extends(h, d))
<1> DEFINE n == Len(h)
           g == Extends(h, d)
<1>1. IsSeq(h) /\ Len(cs) = n /\ \A k \in 1..n : SameCall(cs[k], h[k])
  BY DEF CallsAgree
<1>2. /\ IsSeq(q) /\ n \in Nat /\ n >= 1 /\ Len(q) = n
      /\ \A k \in 1..n : k # n => q[k] = cs[k]
      /\ q[n].id = cs[n].id /\ q[n].name = cs[n].name /\ q[n].args = cs[n].args \o d.args
  <2> DEFINE p == d.args
  <2> HIDE DEF p, n
  <2>1. LastGrows(cs, q, p)
    BY DEF p
  <2>2. LastLonger(q, cs, p)
    BY <2>1, LastGrowsIs
  <2> QED BY <1>1, <2>2 DEF LastLonger, p
<1>3. IsExtended(g, h, d)
  BY <1>1, <1>2, Extended
<1> DEFINE x == h[n]
           y == [x EXCEPT !.args = @ \o d.args]
<1>4. IsSeq(g) /\ Len(g) = n /\ g[n] = y /\ \A k \in 1..n : k # n => g[k] = h[k]
  BY <1>3 DEF IsExtended
<1>5. SameCall(cs[n], x)
  BY <1>1, <1>2
<1> HIDE DEF x
<1>6. y.id = x.id /\ y.name = x.name /\ y.args = x.args \o d.args /\ DOMAIN y = DOMAIN x
  BY <1>5 DEF SameCall, WholeCall
<1>7. IsSeq(x.args \o d.args)
  BY <1>5, Concatenated DEF SameCall, WholeCall
<1> HIDE DEF y
<1>8. SameCall(q[n], y)
  BY <1>2, <1>5, <1>6, <1>7 DEF SameCall, WholeCall
<1> HIDE DEF g, n
<1>9. \A k \in 1..n : SameCall(q[k], g[k])
  BY <1>1, <1>2, <1>4, <1>8
<1> QED BY <1>2, <1>4, <1>9 DEF CallsAgree, g

\* A call begins, and goes on at once.
LEMMA AgreeBegins ==
  ASSUME NEW cs, NEW h, CallsAgree(cs, h), NEW c, NEW q, NEW d, IsSeq(d.args), d.name # None,
         c.name = d.name, c.args = <<>>, d.id # <<>> => c.id = d.id,
         LastGrows(Append(cs, c), q, d.args)
  PROVE  CallsAgree(q, Append(h, CallOf(d)))
<1> DEFINE b == Append(cs, c)
           n == Len(cs)
           g == Append(h, CallOf(d))
<1>1. IsSeq(cs) /\ IsSeq(h) /\ Len(h) = n /\ \A k \in 1..n : SameCall(cs[k], h[k])
  BY DEF CallsAgree
<1>2. n \in Nat /\ Len(b) = n + 1 /\ b[n + 1] = c /\ \A k \in 1..n : b[k] = cs[k]
  BY <1>1, Appended
<1>3. /\ IsSeq(g) /\ Len(g) = n + 1 /\ g[n + 1] = CallOf(d) /\ \A k \in 1..n : g[k] = h[k]
  BY <1>1, Appended
<1>4. LastLonger(q, b, d.args)
  BY LastGrowsIs
<1> HIDE DEF b, n, g
<1>5. /\ IsSeq(q) /\ Len(q) = n + 1 /\ \A k \in 1..(n + 1) : k # n + 1 => q[k] = b[k]
      /\ q[n + 1].id = c.id /\ q[n + 1].name = c.name /\ q[n + 1].args = c.args \o d.args
  BY <1>2, <1>4 DEF LastLonger
<1>6. c.args \o d.args = d.args
  BY Concatenated
<1>7. SameCall(q[n + 1], CallOf(d))
  BY <1>5, <1>6, CallFields DEF SameCall
<1>8. \A k \in 1..(n + 1) : k # n + 1 => k \in 1..n
  BY <1>2
<1>9. \A k \in 1..(n + 1) : SameCall(q[k], g[k])
  BY <1>1, <1>2, <1>3, <1>5, <1>7, <1>8
<1> QED BY <1>3, <1>5, <1>9 DEF CallsAgree, g

\* What the property asks of calls that agree.
LEMMA AgreeSays ==
  ASSUME NEW cs, NEW h, CallsAgree(cs, h)
  PROVE  /\ Calls(cs) = Calls(h) /\ Len(cs) = Len(h)
         /\ \A k \in 1..Len(cs) : h[k].id # <<>> => cs[k].id = h[k].id
<1>1. Len(cs) = Len(h) /\ \A k \in 1..Len(h) : SameCall(cs[k], h[k])
  BY DEF CallsAgree
<1>2. \A k \in 1..Len(h) : /\ cs[k].name = h[k].name /\ cs[k].args = h[k].args
                           /\ h[k].id # <<>> => cs[k].id = h[k].id
  BY <1>1 DEF SameCall
<1>3. Calls(cs) = Calls(h)
  BY <1>1, <1>2 DEF Calls
<1> QED BY <1>1, <1>2, <1>3

\* The ids stay each call's own when the last of them goes on, when one begins
\* with an id of its own, and both at once.
LEMMA OwnExtends ==
  ASSUME NEW cs, OwnIds(cs), NEW q, NEW p, LastGrows(cs, q, p)
  PROVE  OwnIds(q)
<1>1. LastLonger(q, cs, p)
  BY LastGrowsIs
<1>2. Len(q) = Len(cs) /\ \A k \in 1..Len(cs) : q[k].id = cs[k].id
  BY <1>1 DEF LastLonger
<1> QED BY <1>2 DEF OwnIds

LEMMA OwnAppends ==
  ASSUME NEW cs, IsSeq(cs), OwnIds(cs), NEW c, OwnId(c.id, Len(cs))
  PROVE  OwnIds(Append(cs, c))
<1> DEFINE n == Len(cs)
           b == Append(cs, c)
<1>1. n \in Nat /\ Len(b) = n + 1 /\ b[n + 1] = c /\ \A k \in 1..n : b[k] = cs[k]
  BY Appended
<1> HIDE DEF b, n
<1>2. \A k \in 1..(n + 1) : k \in 1..n \/ (k = n + 1 /\ k - 1 = n)
  BY <1>1
<1>3. \A k \in 1..n : OwnId(cs[k].id, k - 1)
  BY DEF OwnIds, n
<1>4. OwnId(c.id, n)
  BY DEF n
<1> QED BY <1>1, <1>2, <1>3, <1>4 DEF OwnIds, b

\* An id that the upstream or the gateway gives a call.
LEMMA OwnDefault ==
  ASSUME NEW id, NEW i, NEW prefix, id = <<>> \/ \E p : id = <<"id", p, i>>
  PROVE  OwnId(Default(id, prefix, i), i)
<1>1. CASE id = <<>>
  <2> DEFINE x == <<prefix, i>>
  <2>1. Default(id, prefix, i) = x
    BY <1>1 DEF Default
  <2>2. Len(x) = 2 /\ x[2] = i
    OBVIOUS
  <2> HIDE DEF x
  <2> QED BY <2>1, <2>2 DEF OwnId
<1>2. CASE id # <<>>
  <2>1. PICK p : id = <<"id", p, i>>
    BY <1>2
  <2>2. Default(id, prefix, i) = id
    BY <1>2 DEF Default
  <2>3. Len(id) = 3 /\ id[3] = i
    BY <2>1
  <2> QED BY <2>2, <2>3 DEF OwnId
<1> QED BY <1>1, <1>2

\* At the beginning there is none.
LEMMA AgreeNothing == CallsAgree(<<>>, Silence.calls)
<1> DEFINE e == <<>>
<1>1. IsSeq(e) /\ Len(e) = 0
  BY NothingIsSeq
<1>2. Silence.calls = e
  BY DEF Silence
<1> HIDE DEF e
<1> QED BY <1>1, <1>2 DEF CallsAgree, e

LEMMA SilenceIsReply == ReplyOK(Silence)
<1> DEFINE e == <<>>
<1>1. IsSeq(e) /\ Len(e) = 0
  BY NothingIsSeq
<1>2. /\ Silence.text = e /\ Silence.reasoning = e /\ Silence.calls = e
      /\ Silence.usage = NoUsage /\ Silence.error = FALSE /\ Silence.calling = FALSE
      /\ Silence.finish = None /\ DOMAIN Silence = SaidFields
  BY DEF Silence, SaidFields
<1> HIDE DEF e
<1>3. IsSeq(Silence.text) /\ IsSeq(Silence.reasoning) /\ IsSeq(Silence.calls) /\ Len(Silence.calls) = 0
  BY <1>1, <1>2
<1>4. \A k \in 1..Len(Silence.calls) : WholeCall(Silence.calls[k])
  BY <1>3
<1> QED BY <1>2, <1>3, <1>4 DEF ReplyOK

-----------------------------------------------------------------------------
(* What is recorded of the request. *)

TimingFields == {"started", "opened", "first", "visible", "end", "usage", "error", "row"}
Spoke(r) == r.text # <<>> \/ r.reasoning # <<>> \/ r.calls # <<>>
Counted(r) == IF r.usage = NoUsage THEN None ELSE Tokens(r.usage)

\* The collector of an open stream knows what was said of r, and the times of
\* it are in the order of the events.
TimingOK(t, r, now) ==
  /\ DOMAIN t = TimingFields /\ now \in Nat /\ t.started \in Nat /\ t.opened \in Nat
  /\ t.started <= t.opened /\ t.opened <= now
  /\ t.first # None <=> Spoke(r)
  /\ t.visible # None <=> r.text # <<>>
  /\ t.first # None => t.first \in Nat /\ t.opened <= t.first /\ t.first <= now
  /\ t.visible # None => /\ t.visible \in Nat /\ t.first # None
                         /\ t.first <= t.visible /\ t.visible <= now
  /\ t.usage = Counted(r) /\ (t.error # None => r.error) /\ t.row = None

\* The property of the row, for the reply r.
Records(row, r) ==
  /\ Spoke(r) = (row.ttft # None) /\ (r.text # <<>>) = (row.visible_ttft # None)
  /\ r.text # <<>> => row.ttft <= row.visible_ttft /\ row.visible_ttft <= row.total
  /\ Spoke(r) => row.prefill <= row.ttft /\ row.total = row.ttft + row.generation
  /\ row.usage = Counted(r)
  /\ row.error # None => r.error

LEMMA EmptyParts ==
  ASSUME NEW s, NEW t, IsSeq(s), IsSeq(t)
  PROVE  /\ s \o t = <<>> <=> (s = <<>> /\ t = <<>>)
         /\ s = <<>> <=> Len(s) = 0
<1>1. PICK S : s \in Seq(S)
  BY DEF IsSeq
<1>2. PICK T : t \in Seq(T)
  BY DEF IsSeq
<1> DEFINE U == S \cup T
<1>3. s \in Seq(U) /\ t \in Seq(U)
  BY <1>1, <1>2
<1> HIDE DEF U
<1>4. Len(s) \in Nat /\ Len(t) \in Nat /\ Len(s \o t) = Len(s) + Len(t) /\ s \o t \in Seq(U)
  BY <1>3
<1>5. \A q \in Seq(U) : q = <<>> <=> Len(q) = 0
  OBVIOUS
<1> QED BY <1>3, <1>4, <1>5

\* What a line adds to what was said.
LEMMA SpokeMore ==
  ASSUME NEW r, ReplyOK(r), NEW l, NEW m, Line(l, r, m)
  PROVE  /\ Hear(r, l).text # <<>> <=> (r.text # <<>> \/ l.text # <<>>)
         /\ Spoke(Hear(r, l)) <=> (\/ Spoke(r) \/ l.text # <<>> \/ l.reasoning # <<>>
                                   \/ l.tools # <<>>)
<1> DEFINE h == Hear(r, l)
           n == Len(r.calls)
<1>1. /\ ReplyOK(h) /\ Len(h.calls) = m
      /\ l.kind # "error" =>
           /\ h.reasoning = r.reasoning \o l.reasoning /\ h.text = r.text \o l.text
           /\ Telling(l, r, m, h.calls)
      /\ l.kind = "error" => /\ h.reasoning = r.reasoning /\ h.text = r.text
                             /\ h.calls = r.calls
  <2>1. HeardWith(Hear(r, l), r, l, m)
    BY HearsReply
  <2> QED BY <2>1 DEF HeardWith
<1>2. l.kind = "error" => l.reasoning = <<>> /\ l.text = <<>> /\ l.tools = <<>>
  BY DEF Line, Sent
<1>3. IsSeq(r.text) /\ IsSeq(r.reasoning) /\ IsSeq(r.calls) /\ IsSeq(l.text) /\ IsSeq(l.reasoning)
      /\ IsSeq(h.calls)
  BY <1>1 DEF ReplyOK, Line, Whole
<1> HIDE DEF h, n
<1>4. h.text # <<>> <=> (r.text # <<>> \/ l.text # <<>>)
  <2>1. r.text \o l.text = <<>> <=> (r.text = <<>> /\ l.text = <<>>)
    BY <1>3, EmptyParts
  <2> QED BY <1>1, <1>2, <2>1
<1>5. h.reasoning # <<>> <=> (r.reasoning # <<>> \/ l.reasoning # <<>>)
  <2>1. r.reasoning \o l.reasoning = <<>> <=> (r.reasoning = <<>> /\ l.reasoning = <<>>)
    BY <1>3, EmptyParts
  <2> QED BY <1>1, <1>2, <2>1
<1>6. h.calls # <<>> <=> (r.calls # <<>> \/ l.tools # <<>>)
  <2>1. CASE l.kind = "error"
    BY <1>1, <1>2, <2>1
  <2>2. CASE l.kind # "error"
    <3>1. n \in Nat /\ (r.calls # <<>> <=> n # 0) /\ (h.calls # <<>> <=> m # 0)
      <4>1. n \in Nat
        BY <1>3, Appended DEF n
      <4>2. r.calls = <<>> <=> n = 0
        BY <1>3, EmptyParts DEF n
      <4>3. h.calls = <<>> <=> m = 0
        BY <1>1, <1>3, EmptyParts
      <4> QED BY <4>1, <4>2, <4>3
    <3>2. \/ l.tools = <<>> /\ m = n
          \/ l.tools # <<>> /\ n >= 1 /\ m = n
          \/ l.tools # <<>> /\ m = n + 1
          \/ l.tools # <<>> /\ m = n + 2
      <4>1. \A d, e : <<d>> # <<>> /\ <<d, e>> # <<>>
        OBVIOUS
      <4> QED BY <1>1, <2>2, <4>1 DEF Telling, n
    <3> QED BY <3>1, <3>2
  <2> QED BY <2>1, <2>2
<1> QED BY <1>4, <1>5, <1>6 DEF Spoke, h

\* The parser's line has the usage of a line that is heard.
LEMMA ParsedUsage ==
  ASSUME NEW r, NEW l, NEW m, Line(l, r, m)
  PROVE  LET p == Parse(l)
         IN  /\ p.text = l.text /\ p.reasoning = l.reasoning /\ p.tools = l.tools
             /\ p.usage = l.usage /\ p.finish = l.finish
             /\ p.kind = "noise" => /\ l.text = <<>> /\ l.reasoning = <<>> /\ l.tools = <<>>
                                    /\ l.usage = None /\ l.finish = None
             /\ p.kind = "error" <=> l.kind = "error"
<1> DEFINE p == Parse(l)
<1>1. Sent(l, Len(r.calls), m, r.calling) /\ Whole(l)
  BY DEF Line
<1>2. /\ p.reasoning = l.reasoning /\ p.text = l.text /\ p.tools = l.tools
      /\ p.kind = "error" <=> l.kind = "error"
  BY <1>1, ParsedWhole
<1>3. l.kind # "chunk" => l.usage = None /\ p.usage = None /\ p.reasoning = <<>> /\ p.text = <<>>
                          /\ p.tools = <<>> /\ l.finish = None /\ p.finish = None
  BY DEF Line, Parse, BlankLine
<1>4. CASE l.kind = "chunk" /\ IsEmpty(l)
  <2> DEFINE b == [l EXCEPT !.model = BlankLine.model, !.twin = FALSE]
  <2>1. b.usage = l.usage /\ b.finish = l.finish
    BY <1>1 DEF Sent, LineFields
  <2>2. b = BlankLine
    BY <1>4 DEF IsEmpty
  <2> HIDE DEF b
  <2>3. l.usage = None /\ l.finish = None
    BY <2>1, <2>2 DEF BlankLine
  <2>4. p.usage = None /\ p.reasoning = <<>> /\ p.text = <<>> /\ p.tools = <<>> /\ p.finish = None
    BY <1>4 DEF Parse, BlankLine
  <2> QED BY <1>2, <2>3, <2>4
<1>5. CASE l.kind = "chunk" /\ ~IsEmpty(l)
  <2>1. p = l
    BY <1>5 DEF Parse
  <2> HIDE DEF p
  <2>2. p.kind # "noise"
    BY <1>5, <2>1
  <2> QED BY <1>2, <2>1, <2>2 DEF p
<1>6. CASE l.kind # "chunk"
  BY <1>2, <1>3, <1>6
<1> QED BY <1>4, <1>5, <1>6

\* The collector is opened with the stream.
LEMMA TimingOpens ==
  ASSUME NEW t, NEW now \in Nat, NEW start \in Nat, start <= now, t = NewTiming(start)
  PROVE  TimingOK(MarkOpen(t, now), Silence, now)
<1> DEFINE q == MarkOpen(t, now)
<1>1. /\ DOMAIN q = TimingFields /\ q.started = start /\ q.opened = now /\ q.first = None
      /\ q.visible = None /\ q.usage = None /\ q.error = None /\ q.row = None
  BY DEF MarkOpen, NewTiming, Earliest, TimingFields
<1>2. ~Spoke(Silence) /\ Silence.text = <<>> /\ Counted(Silence) = None
  BY DEF Spoke, Silence, Counted
<1> HIDE DEF q
<1>3. TimingOK(q, Silence, now)
  BY <1>1, <1>2 DEF TimingOK
<1> QED BY <1>3 DEF q

\* It takes a line in.
LEMMA TimingLine ==
  ASSUME NEW r, ReplyOK(r), r.error = FALSE, NEW l, NEW m, Line(l, r, m), NEW t, NEW now,
         TimingOK(t, r, now), NEW q,
         \/ q = Observe(t, l, now)
         \/ l.kind = "error" /\ q = [t EXCEPT !.error = "bad_gateway"]
  PROVE  TimingOK(q, Hear(r, l), now)
<1> DEFINE h == Hear(r, l)
           p == Parse(l)
           any == l.text # <<>> \/ l.reasoning # <<>> \/ l.tools # <<>>
<1>1. HeardWith(h, r, l, m)
  BY HearsReply
<1>2. /\ h.text # <<>> <=> (r.text # <<>> \/ l.text # <<>>)
      /\ Spoke(h) <=> (Spoke(r) \/ any)
  BY SpokeMore
<1>3. /\ p.text = l.text /\ p.reasoning = l.reasoning /\ p.tools = l.tools /\ p.usage = l.usage
      /\ p.kind = "noise" => /\ l.text = <<>> /\ l.reasoning = <<>> /\ l.tools = <<>>
                             /\ l.usage = None
  BY ParsedUsage
<1>4. Counted(h) = IF l.usage = None THEN Counted(r) ELSE Tokens(l.usage)
  <2>1. CASE l.kind = "error"
    BY <1>1, <2>1 DEF Counted, HeardWith, Line
  <2>2. CASE l.kind # "error" /\ l.usage = None
    BY <1>1, <2>2 DEF Counted, HeardWith
  <2>3. CASE l.kind # "error" /\ l.usage # None
    <3>1. l.usage.prompt \in {3, 10} /\ NoUsage.prompt = 0
      BY <2>3 DEF Line, NoUsage
    <3>2. l.usage # NoUsage
      BY <3>1
    <3> QED BY <1>1, <2>3, <3>2 DEF Counted, HeardWith
  <2> QED BY <2>1, <2>2, <2>3
<1>5. h.error = (l.kind = "error")
  BY <1>1 DEF HeardWith
<1>6. t.error = None
  BY DEF TimingOK
<1>7. CASE q = Observe(t, l, now) /\ p.kind = "noise"
  <2>1. q = t /\ ~any
    BY <1>3, <1>7 DEF Observe
  <2> HIDE DEF h, any
  <2> QED BY <1>2, <1>3, <1>4, <1>6, <1>7, <2>1 DEF TimingOK, h
<1>8. CASE q = Observe(t, l, now) /\ p.kind # "noise"
  <2>1. /\ DOMAIN q = TimingFields /\ q.started = t.started /\ q.opened = t.opened
        /\ q.first = (IF any /\ t.first = None THEN now ELSE t.first)
        /\ q.visible = (IF l.text # <<>> /\ t.visible = None THEN now ELSE t.visible)
        /\ q.usage = (IF l.usage = None THEN t.usage ELSE Tokens(l.usage))
        /\ q.error = t.error /\ q.row = t.row
    BY <1>3, <1>8 DEF Observe, TimingOK, TimingFields, Noted, Earliest
  <2>2. l.text # <<>> => any
    OBVIOUS
  <2>3. now \in Nat /\ now # None
    BY StreamAssumption DEF TimingOK
  <2> HIDE DEF h, any, p
  <2>4. q.first # None <=> Spoke(h)
    BY <1>2, <2>1, <2>3 DEF TimingOK
  <2>5. q.visible # None <=> h.text # <<>>
    BY <1>2, <2>1, <2>3 DEF TimingOK
  <2>6. q.first # None => q.first \in Nat /\ q.opened <= q.first /\ q.first <= now
    BY <2>1, <2>3 DEF TimingOK
  <2>7. q.visible # None => /\ q.visible \in Nat /\ q.first # None
                            /\ q.first <= q.visible /\ q.visible <= now
    BY <2>1, <2>2, <2>3 DEF TimingOK
  <2>8. q.usage = Counted(h) /\ q.error = None /\ q.row = None
    BY <1>4, <1>6, <2>1 DEF TimingOK
  <2> QED BY <2>1, <2>3, <2>4, <2>5, <2>6, <2>7, <2>8 DEF TimingOK, h
<1>9. CASE l.kind = "error" /\ q = [t EXCEPT !.error = "bad_gateway"]
  <2>1. ~any /\ l.usage = None
    BY <1>9 DEF Line, Sent
  <2>2. /\ DOMAIN q = TimingFields /\ q.started = t.started /\ q.opened = t.opened
        /\ q.first = t.first /\ q.visible = t.visible /\ q.usage = t.usage /\ q.row = t.row
    BY <1>9 DEF TimingOK, TimingFields
  <2>3. h.error = TRUE
    BY <1>5, <1>9
  <2> HIDE DEF h, any, p
  <2>4. q.first # None <=> Spoke(h)
    BY <1>2, <2>1, <2>2 DEF TimingOK
  <2>5. q.visible # None <=> h.text # <<>>
    <3>1. l.text = <<>>
      BY <2>1 DEF any
    <3> QED BY <1>2, <2>2, <3>1 DEF TimingOK
  <2>6. q.usage = Counted(h)
    BY <1>4, <2>1, <2>2 DEF TimingOK
  <2> QED BY <2>2, <2>3, <2>4, <2>5, <2>6 DEF TimingOK, h
<1> QED BY <1>7, <1>8, <1>9

\* Time goes on.
LEMMA TimingLater ==
  ASSUME NEW t, NEW r, NEW now, TimingOK(t, r, now), NEW then \in {now, now + 1}
  PROVE  TimingOK(t, r, then)
<1>1. now \in Nat /\ then \in Nat /\ now <= then
  BY DEF TimingOK
<1> QED BY <1>1 DEF TimingOK

\* Its row, at the end, has what the property asks.
LEMMA TimingEnds ==
  ASSUME NEW r, NEW t, NEW now, TimingOK(t, r, now)
  PROVE  Records(Finalize(Observe(t, [BlankLine EXCEPT !.kind = "done"], now), now).row, r)
<1> DEFINE d == [BlankLine EXCEPT !.kind = "done"]
           q == Observe(t, d, now)
           row == Finalize(q, now).row
<1>1. Parse(d) = d /\ d.kind = "done" /\ d.text = <<>> /\ d.reasoning = <<>> /\ d.tools = <<>>
      /\ d.usage = None
  BY DEF Parse, BlankLine
<1> HIDE DEF d
<1>2. /\ DOMAIN q = TimingFields /\ q.started = t.started /\ q.opened = t.opened
      /\ q.first = t.first /\ q.visible = t.visible /\ q.end = now /\ q.usage = t.usage
      /\ q.error = t.error /\ q.row = None
  BY <1>1 DEF Observe, TimingOK, TimingFields, Noted, Earliest
<1> HIDE DEF q
<1>3. row = Snapshot(q, now)
  BY <1>2 DEF Finalize, TimingFields
<1>4. now \in Nat /\ \A n \in Nat : n # None
  BY StreamAssumption DEF TimingOK
<1>5. /\ row.prefill = Elapsed(t.opened, t.first) /\ row.ttft = Elapsed(t.started, t.first)
      /\ row.visible_ttft = Elapsed(t.started, t.visible)
      /\ row.generation = Elapsed(t.first, now) /\ row.total = Elapsed(t.started, now)
      /\ row.usage = t.usage /\ row.error = t.error
  BY <1>2, <1>3, <1>4 DEF Snapshot, Earliest
<1>6. \A m, n \in Nat : m <= n => Elapsed(m, n) = n - m /\ Elapsed(m, n) # None
  <2>1. \A m, n \in Nat : m <= n => Elapsed(m, n) = n - m /\ n - m \in Nat
    BY <1>4 DEF Elapsed
  <2> QED BY <1>4, <2>1
<1>7. \A m \in Nat : Elapsed(m, None) = None
  BY DEF Elapsed
<1> HIDE DEF row
<1>8. /\ t.started \in Nat /\ t.opened \in Nat /\ t.started <= t.opened /\ t.opened <= now
      /\ t.started <= now
  BY <1>4 DEF TimingOK
<1>9. Spoke(r) = (row.ttft # None)
      /\ (Spoke(r) => row.prefill <= row.ttft /\ row.total = row.ttft + row.generation)
  <2>1. CASE t.first = None
    BY <1>5, <1>7, <1>8, <2>1 DEF TimingOK, Spoke
  <2>2. CASE t.first # None
    <3>1. /\ Spoke(r) /\ t.first \in Nat /\ t.opened <= t.first /\ t.first <= now
          /\ t.started <= t.first
      BY <1>8, <2>2 DEF TimingOK
    <3>2. /\ row.prefill = t.first - t.opened /\ row.ttft = t.first - t.started
          /\ row.ttft # None
          /\ row.generation = now - t.first /\ row.total = now - t.started
      BY <1>4, <1>5, <1>6, <1>8, <3>1
    <3>3. Spoke(r) = TRUE
      BY <3>1 DEF Spoke
    <3>4. row.prefill <= row.ttft /\ row.total = row.ttft + row.generation
      BY <1>4, <1>8, <3>1, <3>2
    <3> QED BY <3>2, <3>3, <3>4
  <2> QED BY <2>1, <2>2
<1>10. /\ (r.text # <<>>) = (row.visible_ttft # None)
       /\ r.text # <<>> => row.ttft <= row.visible_ttft /\ row.visible_ttft <= row.total
  <2>1. CASE t.visible = None
    BY <1>5, <1>7, <1>8, <2>1 DEF TimingOK
  <2>2. CASE t.visible # None
    <3>1. /\ r.text # <<>> /\ t.visible \in Nat /\ t.first \in Nat /\ t.first <= t.visible
          /\ t.visible <= now /\ t.started <= t.first /\ t.started <= t.visible
      BY <1>8, <2>2 DEF TimingOK
    <3>2. /\ row.visible_ttft = t.visible - t.started /\ row.ttft = t.first - t.started
          /\ row.visible_ttft # None /\ row.total = now - t.started
      BY <1>4, <1>5, <1>6, <1>8, <3>1
    <3>3. row.ttft <= row.visible_ttft /\ row.visible_ttft <= row.total
      BY <1>4, <1>8, <3>1, <3>2
    <3> QED BY <3>1, <3>2, <3>3
  <2> QED BY <2>1, <2>2
<1>11. row.usage = Counted(r) /\ (row.error # None => r.error)
  BY <1>5 DEF TimingOK
<1> QED BY <1>9, <1>10, <1>11 DEF Records, row, q, d

-----------------------------------------------------------------------------
(* The reply, its row and the answer of a request that fails. *)

\* The answer has the client's own envelope and the failure's status.
Answers(d, f, answer) ==
  /\ answer.shape = IF d = "anthropic" THEN "anthropic" ELSE "openai"
  /\ answer.status = f.status

\* Before its stream nothing was said, of an open one the collector knows
\* what was, and of a closed one the row does.
ReplyInv ==
  /\ dialect \in {"anthropic", "responses", "ollama", "generate", "openai"}
  /\ phase \in {"asked", "open", "closed", "refused"}
  /\ ReplyOK(said) /\ pieces \in Nat
  /\ phase \in {"asked", "refused"} => said = Silence
  /\ phase = "asked" => \E start \in Nat : start <= pieces /\ timing = NewTiming(start)
  /\ phase = "open" => TimingOK(timing, said, pieces)
  /\ phase = "closed" => Records(timing.row, said)
  /\ phase = "refused" => Answers(dialect, failure, told)

LEMMA SentAnswers ==
  ASSUME NEW turns, NEW keys, Send(turns, keys).phase = "refused"
  PROVE  Answers(dialect, Send(turns, keys).failure, Send(turns, keys).told)
<1> DEFINE refusal == Refusal(dialect, Asks)
           fails == IF refusal # None THEN Failure(400, refusal)
                    ELSE IF RouteFailure(wish.model) # None THEN RouteFailure(wish.model)
                    ELSE ModeFailure(wish.model)
<1>1. fails # None /\ Send(turns, keys).failure = fails
      /\ Send(turns, keys).told = RefusalAnswer(dialect, fails)
  BY DEF Send
<1> HIDE DEF fails
<1>2. Answers(dialect, fails, RefusalAnswer(dialect, fails))
  BY DEF Answers, RefusalAnswer, OpenAiEnvelope
<1> QED BY <1>1, <1>2

LEMMA FailureAnswers ==
  ASSUME NEW d, NEW f \in ProxyFailures \cup UpstreamFailures
  PROVE  Answers(d, f, FailureAnswer(d, f))
<1>1. \E type : ProxyAnswer(f) = [shape |-> "openai", status |-> f.status, type |-> type]
  <2>1. OpenAiEnvelope(f) = [shape |-> "openai", status |-> f.status, type |-> OpenAiType(f.code)]
    BY DEF OpenAiEnvelope
  <2>2. \/ f.code = "typed" \/ f.code = "bare" \/ f.code = "text"
        \/ f.code \notin {"typed", "bare", "text"}
    OBVIOUS
  <2> QED BY <2>1, <2>2 DEF ProxyAnswer
<1>2. PICK type : ProxyAnswer(f) = [shape |-> "openai", status |-> f.status, type |-> type]
  BY <1>1
<1> QED BY <1>2 DEF Answers, FailureAnswer, AsAnthropicError

LEMMA InitReply == Init => ReplyInv
<1> SUFFICES ASSUME Init
             PROVE  ReplyInv
  OBVIOUS
<1> DEFINE sent == Send(<<>>, "written")
<1>1. phase = sent.phase /\ failure = sent.failure /\ told = sent.told
  BY DEF Init
<1>2. phase \in {"asked", "refused"}
  BY <1>1 DEF Send
<1>3. phase = "refused" => Answers(dialect, failure, told)
  <2> DEFINE t == <<>>
             k == "written"
  <2>1. sent = Send(t, k)
    OBVIOUS
  <2> HIDE DEF t, k, sent
  <2> QED BY <1>1, <2>1, SentAnswers
<1>4. dialect \in {"anthropic", "responses", "ollama", "generate", "openai"}
  BY StreamAssumption DEF Init
<1>5. pieces \in Nat /\ timing = NewTiming(pieces) /\ said = Silence
  BY StreamAssumption DEF Init
<1> HIDE DEF sent
<1> QED BY <1>2, <1>3, <1>4, <1>5, SilenceIsReply DEF ReplyInv

LEMMA NextReply == ReplyInv /\ [Next]_vars => ReplyInv'
<1> SUFFICES ASSUME ReplyInv, [Next]_vars
             PROVE  ReplyInv'
  OBVIOUS
<1>1. ReplyOK(said) /\ pieces \in Nat
  BY DEF ReplyInv
<1>2. CASE UNCHANGED vars
  BY <1>2 DEF ReplyInv, vars
<1>3. CASE Keeps
  <2>1. /\ said' = said /\ dialect' = dialect /\ pieces' = pieces /\ said = Silence
        /\ phase' = "open" \/ phase' = "refused"
    BY <1>3 DEF Keeps, ReplyInv
  <2>2. phase' = "open" => TimingOK(timing', said', pieces')
    <3>1. PICK start \in Nat : start <= pieces /\ timing = NewTiming(start)
      BY <1>3 DEF Keeps, ReplyInv
    <3>2. TimingOK(MarkOpen(timing, pieces), Silence, pieces)
      BY <1>1, <3>1, TimingOpens
    <3> QED BY <1>3, <2>1, <3>2 DEF Keeps
  <2>3. phase' = "refused" => Answers(dialect', failure', told')
    <3>1. CASE UNCHANGED vars
      BY <1>3, <3>1 DEF vars, Keeps
    <3>2. CASE \E f \in ProxyFailures \cup UpstreamFailures : Fails(f)
      BY <2>1, <3>2, FailureAnswers DEF Fails
    <3>3. CASE Opened \/ Content \/ Control \/ Breaks \/ End
      BY <1>3, <3>3 DEF Opened, Content, Control, Breaks, End, Keeps
    <3>4. ASSUME NEW backwards, NEW more, NEW keys, NextTurn(backwards, more, keys)
          PROVE  FALSE
      BY <1>3, <3>4 DEF NextTurn, Keeps
    <3> QED BY <3>1, <3>2, <3>3, <3>4 DEF Next
  <2> QED BY <1>1, <2>1, <2>2, <2>3 DEF ReplyInv
<1>4. ASSUME NEW l, NEW m, Reads(l, m)
      PROVE  ReplyInv'
  <2>1. /\ Line(l, said, m) /\ said' = Hear(said, l) /\ phase = "open" /\ phase' = "open"
        /\ dialect' = dialect /\ ~said.error /\ pieces' \in {pieces, pieces + 1}
        /\ \/ timing' = Observe(timing, l, pieces)
           \/ l.kind = "error" /\ timing' = [timing EXCEPT !.error = "bad_gateway"]
    BY <1>4 DEF Reads
  <2>2. ReplyOK(said')
    BY <1>1, <2>1, HearsReply DEF HeardWith
  <2>3. said.error = FALSE /\ TimingOK(timing, said, pieces)
    BY <1>1, <2>1 DEF ReplyOK, ReplyInv
  <2>4. TimingOK(timing', said', pieces)
    BY <1>1, <2>1, <2>3, TimingLine
  <2>5. TimingOK(timing', said', pieces')
    BY <2>1, <2>4, TimingLater
  <2> QED BY <1>1, <2>1, <2>2, <2>5 DEF ReplyInv
<1>5. CASE StreamEnds
  <2> DEFINE q == Observe(timing, [BlankLine EXCEPT !.kind = "done"], pieces)
  <2>1. /\ said' = said /\ dialect' = dialect /\ pieces' = pieces /\ phase' = "closed"
        /\ timing' = Finalize(q, pieces) /\ TimingOK(timing, said, pieces)
    BY <1>5 DEF StreamEnds, ReplyInv
  <2>2. Records(Finalize(q, pieces).row, said)
    BY <2>1, TimingEnds
  <2> QED BY <1>1, <2>1, <2>2 DEF ReplyInv
<1>6. CASE ReplyBegins
  <2>1. /\ said' = Silence /\ dialect' = dialect /\ pieces' = pieces
        /\ timing' = NewTiming(pieces) /\ (phase' = "asked" \/ phase' = "refused")
    BY <1>6 DEF ReplyBegins
  <2>2. phase' = "refused" => Answers(dialect', failure', told')
    <3>1. ASSUME NEW backwards, NEW more, NEW keys, NextTurn(backwards, more, keys),
                 phase' = "refused"
          PROVE  Answers(dialect', failure', told')
      <4> DEFINE sent == Send(conv', keys)
      <4>1. phase' = sent.phase /\ failure' = sent.failure /\ told' = sent.told
        BY <3>1 DEF NextTurn
      <4>2. sent.phase = "refused" => Answers(dialect, sent.failure, sent.told)
        BY SentAnswers
      <4> QED BY <2>1, <3>1, <4>1, <4>2
    <3>2. ASSUME \/ UNCHANGED vars \/ Opened \/ Content \/ Control \/ Breaks \/ End
                 \/ \E f \in ProxyFailures \cup UpstreamFailures : Fails(f),
                 phase' = "refused"
          PROVE  Answers(dialect', failure', told')
      <4>1. CASE UNCHANGED vars
        BY <3>2, <4>1 DEF ReplyInv, vars
      <4>2. CASE Opened \/ Content \/ Control \/ Breaks \/ End
        BY <3>2, <4>2 DEF Opened, Content, Control, Breaks, End, Receive
      <4>3. CASE \E f \in ProxyFailures \cup UpstreamFailures : Fails(f)
        BY <2>1, <4>3, FailureAnswers DEF Fails
      <4> QED BY <3>2, <4>1, <4>2, <4>3
    <3> QED BY <3>1, <3>2 DEF Next
  <2> QED BY <1>1, <2>1, <2>2, SilenceIsReply DEF ReplyInv
<1> QED BY <1>1, <1>2, <1>3, <1>4, <1>5, <1>6, Steps

-----------------------------------------------------------------------------
(* An OpenAI client. *)

LEMMA Joined ==
  ASSUME NEW f, NEW g, NEW x
  PROVE  x \in DOMAIN (f ++ g) <=> x \in DOMAIN f \/ x \in DOMAIN g
BY DEF ++

\* The client's body asks for the usage if the client wishes it.
LEMMA AsksUsage ==
  ASSUME dialect = "openai"
  PROVE  Has(Asks, "include_usage") <=> wish.usage
<1> DEFINE k == "include_usage"
           A == Present("model", wish.model)
           B == Lists("tools", dialect, wish.tools)
           C == Present("tool_choice", ChoiceIn(dialect, wish.choice))
           D == Present("max_tokens", wish.limit)
           E == Present("temperature", wish.temperature)
           F == Present("stop", wish.stop)
           G == Present("seed", wish.seed)
           H == Field("stream", TRUE)
           I == Present("response_format", wish.format)
           J == Present("reasoning_effort", wish.think)
           K == Optional(wish.usage, Field("include_usage", TRUE))
           L == D ++ E ++ F ++ G ++ H ++ I ++ J ++ K
<1>1. Asks = A ++ B ++ C ++ L
  BY DEF Asks, Written
<1>2. \A field, value : field # k => k \notin DOMAIN Present(field, value)
  BY DEF Present, Optional, NoFields, Field
<1>3. k \notin DOMAIN B
  BY DEF Lists, Optional, NoFields, Field
<1>4. k \notin DOMAIN H
  BY DEF Field
<1>5. k \in DOMAIN K <=> wish.usage
  BY DEF Optional, NoFields, Field
<1>6. /\ k \notin DOMAIN A /\ k \notin DOMAIN C /\ k \notin DOMAIN D /\ k \notin DOMAIN E
      /\ k \notin DOMAIN F /\ k \notin DOMAIN G /\ k \notin DOMAIN I /\ k \notin DOMAIN J
  BY <1>2
<1> HIDE DEF k, A, B, C, D, E, F, G, H, I, J, K
<1>7. k \in DOMAIN L <=> k \in DOMAIN K
  BY <1>4, <1>6, Joined
<1> HIDE DEF L
<1>8. k \in DOMAIN (A ++ B ++ C ++ L) <=> k \in DOMAIN L
  BY <1>3, <1>6, Joined
<1> QED BY <1>1, <1>5, <1>7, <1>8 DEF Has, k

\* The request asks for it if the client or the gateway's telemetry does.
LEMMA RequestUsage ==
  ASSUME dialect = "openai", NEW turns, NEW keys,
         Has(Send(turns, keys).request, "include_usage")
  PROVE  telemetry \/ wish.usage
<1> DEFINE k == "include_usage"
           b == Asks
           forced == IF ForcesUsage /\ Has(b, "stream") /\ b["stream"]
                     THEN Field("include_usage", TRUE) ++ b ELSE b
           plain == Restrict(forced, DOMAIN forced \ {"reasoning_effort"})
           kwargs == TemplateKwargs(dialect, Asks)
           whole == Field("model", "upstream") ++ plain
           q == Send(turns, keys).request
<1>1. q = WithKwargs(whole, kwargs) \/ q = NoFields
  BY DEF Send, UpstreamBody, ChatBody
<1>2. k \in DOMAIN q
  BY DEF Has
<1>3. k \notin DOMAIN NoFields
  BY DEF NoFields
<1>4. k \in DOMAIN WithKwargs(whole, kwargs) => k \in DOMAIN whole
  <2> HIDE DEF whole, kwargs
  <2>1. \A x : k \notin DOMAIN Field("chat_template_kwargs", x)
    BY DEF Field
  <2> QED BY <2>1, Joined DEF WithKwargs
<1>5. k \in DOMAIN whole => k \in DOMAIN forced
  <2>1. k \notin DOMAIN Field("model", "upstream")
    BY DEF Field
  <2>2. DOMAIN plain \subseteq DOMAIN forced
    <3> HIDE DEF forced
    <3> QED BY DEF Restrict
  <2> HIDE DEF plain, forced
  <2> QED BY <2>1, <2>2, Joined
<1>6. k \in DOMAIN forced => ForcesUsage \/ k \in DOMAIN b
  OBVIOUS
<1>7. k \in DOMAIN b <=> wish.usage
  BY AsksUsage DEF Has
<1>8. ForcesUsage => telemetry
  BY DEF ForcesUsage
<1> HIDE DEF q, whole, kwargs, forced, b, k
<1> QED BY <1>1, <1>2, <1>3, <1>4, <1>5, <1>6, <1>7, <1>8

\* A usage-only line is one with a usage.
LEMMA UsageLine ==
  ASSUME NEW r, NEW l, NEW m, Line(l, r, m)
  PROVE  UsageOnly(l) <=> l.usage # None
<1>1. ASSUME l.usage # None
      PROVE  UsageOnly(l)
  <2> DEFINE a == [l EXCEPT !.usage = None]
             b == [a EXCEPT !.model = BlankLine.model, !.twin = FALSE]
  <2>1. DOMAIN l = LineFields /\ l.kind = "chunk" /\ l.finish = None
        /\ l.reasoning = <<>> /\ l.text = <<>> /\ l.tools = <<>>
    BY <1>1 DEF Line, Sent
  <2>2. DOMAIN a = LineFields /\ a.kind = "chunk" /\ a.finish = None
        /\ a.reasoning = <<>> /\ a.text = <<>> /\ a.tools = <<>> /\ a.usage = None
    BY <2>1 DEF LineFields
  <2>3. IsEmpty(a) <=> b = BlankLine
    BY DEF IsEmpty
  <2> HIDE DEF a
  <2>4. DOMAIN b = LineFields /\ b.kind = "chunk" /\ b.finish = None
        /\ b.reasoning = <<>> /\ b.text = <<>> /\ b.tools = <<>> /\ b.usage = None
        /\ b.model = "upstream" /\ b.twin = FALSE
    BY <2>2 DEF LineFields, BlankLine
  <2>5. b = BlankLine
    <3> DEFINE c == BlankLine
    <3>1. DOMAIN c = LineFields /\ c.kind = "chunk" /\ c.finish = None
        /\ c.reasoning = <<>> /\ c.text = <<>> /\ c.tools = <<>> /\ c.usage = None
        /\ c.model = "upstream" /\ c.twin = FALSE
      BY DEF BlankLine, LineFields
    <3>2. b = [x \in DOMAIN b |-> b[x]] /\ c = [x \in DOMAIN c |-> c[x]]
      BY DEF BlankLine
    <3> HIDE DEF b, c
    <3>3. \A x \in LineFields : b[x] = c[x]
      BY <2>4, <3>1 DEF LineFields
    <3>4. [x \in DOMAIN b |-> b[x]] = [x \in DOMAIN c |-> c[x]]
      BY <2>4, <3>1, <3>3
    <3> QED BY <3>2, <3>4 DEF c
  <2> QED BY <1>1, <2>3, <2>5 DEF UsageOnly, a
<1> QED BY <1>1 DEF UsageOnly

\* An OpenAI client that has heard r hears what the line adds.
SameReply(h, r) ==
  /\ DOMAIN h = SaidFields /\ h.text = r.text /\ h.reasoning = r.reasoning /\ h.calls = r.calls

LEMMA HearsTwin ==
  ASSUME NEW h, NEW r, SameReply(h, r), ReplyOK(r), NEW l, NEW m, Line(l, r, m)
  PROVE  SameReply(HearTwin(h, l), Hear(r, l))
<1>1. DOMAIN l = LineFields /\ l.kind \in {"chunk", "noise", "error"}
      /\ (l.twin \/ l.reasoning = <<>>)
  BY DEF Line, Sent, Whole
<1>2. CASE l.twin
  BY <1>2 DEF HearTwin, Hear, SameReply, ReplyOK, SaidFields
<1>3. CASE ~l.twin /\ l.reasoning = <<>>
  <2> DEFINE k == [l EXCEPT !.reasoning = <<>>]
  <2>1. /\ k.kind = l.kind /\ k.reasoning = l.reasoning /\ k.text = l.text
        /\ k.tools = l.tools /\ k.finish = l.finish /\ k.usage = l.usage
    BY <1>1, <1>3 DEF LineFields
  <2>2. HearTwin(h, l) = Hear(h, k)
    BY <1>3 DEF HearTwin
  <2> HIDE DEF k
  <2> QED BY <2>1, <2>2 DEF Hear, SameReply, ReplyOK, SaidFields
<1> QED BY <1>1, <1>2, <1>3

\* A usage-only line adds nothing to it.
LEMMA UsageAddsNothing ==
  ASSUME NEW r, ReplyOK(r), NEW l, NEW m, Line(l, r, m), l.usage # None
  PROVE  SameReply(r, Hear(r, l))
<1> DEFINE e == <<>>
<1>1. l.kind # "error" /\ l.reasoning = e /\ l.text = e /\ l.tools = e
  BY DEF Line
<1>2. HeardWith(Hear(r, l), r, l, m)
  BY HearsReply
<1>3. \A s : IsSeq(s) => s \o e = s
  BY DEF IsSeq
<1> HIDE DEF e
<1>4. Hear(r, l).reasoning = r.reasoning /\ Hear(r, l).text = r.text
  BY <1>1, <1>2, <1>3 DEF HeardWith, ReplyOK
<1>5. Hear(r, l).calls = r.calls
  <2>1. Telling(l, r, m, Hear(r, l).calls)
    BY <1>1, <1>2 DEF HeardWith
  <2>2. \A d : l.tools # <<d>>
    BY <1>1 DEF e
  <2>3. \A d, f : l.tools # <<d, f>>
    BY <1>1 DEF e
  <2> QED BY <2>1, <2>2, <2>3 DEF Telling
<1> QED BY <1>4, <1>5 DEF SameReply, ReplyOK

\* What an OpenAI client has heard of these lines.
TwinHeard(out) == FoldLeft(HearTwin, Silence, out)

LEMMA TwinHears ==
  ASSUME NEW out, IsSeq(out), NEW l
  PROVE  TwinHeard(Append(out, l)) = HearTwin(TwinHeard(out), l)
BY LinesGrow DEF TwinHeard

UsageSeen(out) == \E i \in DOMAIN out : UsageOnly(out[i])
Aliased(out) == \A i \in DOMAIN out : out[i].kind = "chunk" => out[i].model = "alias"

\* The client of an OpenAI stream has heard r.
OpenAiHas(s, r) ==
  /\ DOMAIN s = {"out", "failed", "strip"} /\ IsSeq(s.out) /\ s.failed = r.error
  /\ s.strip <=> telemetry /\ ~wish.usage
  /\ SameReply(TwinHeard(s.out), r)
  /\ UsageSeen(s.out) <=> wish.usage /\ r.usage # NoUsage
  /\ Aliased(s.out)

OpenAiInv ==
  dialect = "openai" =>
    /\ OpenAiHas(stream, said)
    /\ phase \in {"asked", "open"} /\ Has(request, "include_usage") => telemetry \/ wish.usage

LEMMA OpenAiStarts ==
  ASSUME dialect = "openai"
  PROVE  OpenAiHas(Start, Silence)
<1> DEFINE e == <<>>
           s == Start
<1>1. s = [out |-> e, failed |-> FALSE, strip |-> StripsUsage]
  BY DEF Start, OpenAiStart
<1>2. /\ DOMAIN s = {"out", "failed", "strip"} /\ s.out = e /\ s.failed = FALSE
      /\ s.strip <=> StripsUsage
  BY <1>1
<1>3. DOMAIN e = {} /\ IsSeq(e)
  BY NothingIsSeq
<1>4. TwinHeard(s.out) = Silence
  BY <1>2, NothingRead DEF e, TwinHeard
<1>5. /\ DOMAIN Silence = SaidFields /\ Silence.error = FALSE /\ Silence.usage = NoUsage
  BY DEF Silence, SaidFields
<1> HIDE DEF s, e
<1>6. StripsUsage <=> telemetry /\ ~wish.usage
  BY AsksUsage DEF StripsUsage
<1>7. ~UsageSeen(s.out) /\ Aliased(s.out)
  BY <1>2, <1>3 DEF UsageSeen, Aliased
<1>8. SameReply(Silence, Silence)
  BY <1>5 DEF SameReply
<1> QED BY <1>2, <1>3, <1>4, <1>5, <1>6, <1>7, <1>8 DEF OpenAiHas, s

\* A line is forwarded, or hidden if the client did not ask for it.
LEMMA OpenAiReads ==
  ASSUME NEW s, NEW r, ReplyOK(r), OpenAiHas(s, r), r.error = FALSE, NEW l, NEW m, Line(l, r, m),
         l.usage # None => telemetry \/ wish.usage
  PROVE  OpenAiHas(OpenAiLine(s, l), Hear(r, l))
<1> DEFINE q == OpenAiLine(s, l)
           h == Hear(r, l)
           f == TwinHeard(s.out)
           hidden == s.strip /\ UsageOnly(l)
<1>1. /\ DOMAIN q = {"out", "failed", "strip"} /\ q.strip = s.strip
      /\ q.failed = (s.failed \/ l.kind = "error")
      /\ q.out = IF hidden THEN s.out ELSE Append(s.out, l)
  BY DEF OpenAiHas, OpenAiLine
<1>2. HeardWith(h, r, l, m)
  BY HearsReply
<1>3. h.error = (l.kind = "error") /\ h.usage = IF l.usage = None THEN r.usage ELSE l.usage
  <2>1. l.kind = "error" => l.usage = None
    BY DEF Line
  <2> QED BY <1>2, <2>1 DEF HeardWith
<1>4. l.usage # None => l.usage # NoUsage
  BY DEF Line, NoUsage
<1>5. UsageOnly(l) <=> l.usage # None
  BY UsageLine
<1>6. IsSeq(s.out) /\ s.failed = FALSE /\ (s.strip <=> telemetry /\ ~wish.usage)
      /\ SameReply(f, r) /\ (UsageSeen(s.out) <=> wish.usage /\ r.usage # NoUsage)
      /\ Aliased(s.out)
  BY DEF OpenAiHas
<1>7. r.usage # NoUsage => l.usage = None
  BY DEF Line
<1> HIDE DEF q, h, f
<1>0. (q.strip <=> telemetry /\ ~wish.usage) /\ DOMAIN q = {"out", "failed", "strip"}
  BY <1>1, <1>6
<1>8. CASE hidden
  <2>1. SameReply(r, h)
    BY <1>5, <1>8, UsageAddsNothing DEF h
  <2>0. IsSeq(q.out) /\ Aliased(q.out)
    BY <1>1, <1>6, <1>8
  <2>2. SameReply(TwinHeard(q.out), h)
    <3>1. q.out = s.out
      BY <1>1, <1>8
    <3> QED BY <1>6, <2>1, <3>1 DEF SameReply, f
  <2>3. q.failed = h.error
    BY <1>1, <1>3, <1>6
  <2>4. UsageSeen(q.out) <=> wish.usage /\ h.usage # NoUsage
    BY <1>1, <1>6, <1>8
  <2> QED BY <1>0, <2>0, <2>2, <2>3, <2>4 DEF OpenAiHas, q, h
<1>9. CASE ~hidden
  <2> DEFINE t == s.out
  <2>1. q.out = Append(t, l)
    BY <1>1, <1>9
  <2>2. SameReply(TwinHeard(q.out), h)
    <3>1. TwinHeard(q.out) = HearTwin(f, l)
      BY <1>6, <2>1, TwinHears DEF f
    <3> QED BY <1>6, <3>1, HearsTwin DEF h
  <2> HIDE DEF t
  <2>3. /\ IsSeq(q.out) /\ Len(t) \in Nat /\ DOMAIN t = 1..Len(t)
        /\ DOMAIN q.out = 1..(Len(t) + 1) /\ q.out[Len(t) + 1] = l
        /\ \A i \in 1..Len(t) : q.out[i] = t[i]
    BY <1>6, <2>1, Appended DEF t
  <2>4. Len(t) + 1 \in DOMAIN q.out /\ \A i \in DOMAIN q.out : i \in DOMAIN t \/ i = Len(t) + 1
    BY <2>3
  <2>5. UsageSeen(q.out) <=> UsageSeen(t) \/ UsageOnly(l)
    BY <2>3, <2>4 DEF UsageSeen
  <2>6. l.kind = "chunk" => l.model = "alias"
    BY DEF Line
  <2>7. Aliased(q.out)
    BY <1>6, <2>3, <2>4, <2>6 DEF Aliased, t
  <2>8. UsageSeen(q.out) <=> wish.usage /\ h.usage # NoUsage
    BY <1>3, <1>4, <1>5, <1>6, <1>7, <1>9, <2>5 DEF t
  <2>9. q.failed = h.error
    BY <1>1, <1>3, <1>6
  <2> QED BY <1>0, <2>2, <2>3, <2>7, <2>8, <2>9 DEF OpenAiHas, q, h
<1> QED BY <1>8, <1>9 DEF q, h

LEMMA InitOpenAi == Init => OpenAiInv
<1> SUFFICES ASSUME Init, dialect = "openai" PROVE OpenAiInv
  BY DEF OpenAiInv
<1>1. stream = Start /\ said = Silence /\ request = Send(<<>>, "written").request
  BY DEF Init
<1>2. Has(request, "include_usage") => telemetry \/ wish.usage
  BY <1>1, RequestUsage
<1> QED BY <1>1, <1>2, OpenAiStarts DEF OpenAiInv

LEMMA NextOpenAi == ReplyInv /\ OpenAiInv /\ [Next]_vars => OpenAiInv'
<1> SUFFICES ASSUME ReplyInv, OpenAiInv, [Next]_vars PROVE OpenAiInv'
  OBVIOUS
<1>1. ReplyOK(said)
  BY DEF ReplyInv
<1>2. CASE UNCHANGED vars \/ Keeps
  <2>1. UNCHANGED <<stream, said, dialect, wish, telemetry, request>>
        /\ (phase' \in {"asked", "open"} => phase \in {"asked", "open"})
    BY <1>2 DEF Keeps, vars
  <2> QED BY <2>1 DEF OpenAiInv, OpenAiHas
<1>3. ASSUME NEW l, NEW m, Reads(l, m), dialect = "openai"
      PROVE  OpenAiInv'
  <2>1. /\ Line(l, said, m) /\ ~said.error /\ phase = "open" /\ phase' = "open"
        /\ (l.usage # None => Has(request, "include_usage"))
        /\ stream' = OpenAiLine(stream, l) /\ said' = Hear(said, l)
        /\ UNCHANGED <<dialect, wish, telemetry, request>>
    BY <1>3 DEF Reads, Translate
  <2>2. l.usage # None => telemetry \/ wish.usage
    BY <1>3, <2>1 DEF OpenAiInv
  <2>3. said.error = FALSE
    BY <1>1, <2>1 DEF ReplyOK
  <2>4. OpenAiHas(OpenAiLine(stream, l), Hear(said, l))
    BY <1>1, <1>3, <2>1, <2>2, <2>3, OpenAiReads DEF OpenAiInv
  <2>5. OpenAiHas(stream, said)'
    BY <2>1, <2>4 DEF OpenAiHas
  <2> QED BY <1>3, <2>1, <2>5 DEF OpenAiInv
<1>4. CASE StreamEnds
  BY <1>4 DEF StreamEnds, Close, OpenAiInv, OpenAiHas
<1>5. CASE ReplyBegins
  BY <1>5 DEF ReplyBegins, OpenAiInv
<1>6. CASE dialect # "openai"
  <2>1. dialect' = dialect
    BY <1>1, Steps DEF vars, Keeps, Reads, StreamEnds, ReplyBegins
  <2> QED BY <1>6, <2>1 DEF OpenAiInv
<1> QED BY <1>1, <1>2, <1>3, <1>4, <1>5, <1>6, Steps

-----------------------------------------------------------------------------
(* The calls that a translator gathers. *)

\* The accumulator has the calls h of the model, each at its index.
GatheredCall(t, c, k) ==
  /\ t.name = c.name /\ t.args = c.args /\ t.id = c.id /\ t.name # None /\ IsSeq(t.args)
  /\ t.id = <<>> \/ \E p : t.id = <<"id", p, k>>
Gathered(tools, h) ==
  /\ IsSeq(h) /\ DOMAIN tools = 0..(Len(h) - 1)
  /\ \A k \in 0..(Len(h) - 1) : GatheredCall(tools[k], h[k + 1], k)

\* A call begun is gathered, and one that goes on.
LEMMA GathersBegun ==
  ASSUME NEW tools, NEW h, Gathered(tools, h), NEW d, Begins(d, Len(h)), IsSeq(d.args)
  PROVE  Gathered(Ingest(tools, d), Append(h, CallOf(d)))
<1> DEFINE n == Len(h)
           c == Ingest(tools, d)
           g == Append(h, CallOf(d))
<1>1. IsSeq(h) /\ DOMAIN tools = 0..(n - 1) /\ \A k \in 0..(n - 1) : GatheredCall(tools[k], h[k + 1], k)
  BY DEF Gathered
<1>2. IsSeq(g) /\ n \in Nat /\ Len(g) = n + 1 /\ g[n + 1] = CallOf(d) /\ \A k \in 1..n : g[k] = h[k]
  BY <1>1, Appended
<1>3. d.index = n /\ d.name # None /\ (d.id = <<>> \/ \E p : d.id = <<"id", p, n>>)
  BY DEF Begins
<1>4. n \notin DOMAIN tools
  BY <1>1, <1>2
<1>5. Ingested(c, tools, d)
  BY <1>3, <1>4, IngestIs
<1> HIDE DEF n, c, g
<1>6. /\ DOMAIN c = DOMAIN tools \cup {n} /\ \A k \in DOMAIN tools : c[k] = tools[k]
      /\ c[n].id = d.id /\ c[n].name = d.name /\ c[n].args = d.args
  BY <1>3, <1>4, <1>5 DEF Ingested
<1>7. DOMAIN c = 0..(Len(g) - 1)
  BY <1>1, <1>2, <1>6
<1>8. GatheredCall(c[n], g[n + 1], n)
  BY <1>2, <1>3, <1>6, CallFields DEF GatheredCall
<1>9. ASSUME NEW k \in 0..(Len(g) - 1)
      PROVE  GatheredCall(c[k], g[k + 1], k)
  <2>1. k = n \/ (k \in 0..(n - 1) /\ k + 1 \in 1..n)
    BY <1>2
  <2> QED BY <1>1, <1>2, <1>6, <1>8, <2>1
<1> QED BY <1>2, <1>7, <1>9 DEF Gathered, c, g

LEMMA GathersMore ==
  ASSUME NEW tools, NEW h, Gathered(tools, h), Len(h) >= 1, NEW d, Continues(d, Len(h) - 1),
         IsSeq(d.args), \A k \in 1..Len(h) : WholeCall(h[k])
  PROVE  Gathered(Ingest(tools, d), Extends(h, d))
<1> DEFINE n == Len(h)
           c == Ingest(tools, d)
           g == Extends(h, d)
           x == h[n]
           y == [x EXCEPT !.args = @ \o d.args]
<1>1. IsSeq(h) /\ DOMAIN tools = 0..(n - 1) /\ \A k \in 0..(n - 1) : GatheredCall(tools[k], h[k + 1], k)
  BY DEF Gathered
<1>2. n \in Nat /\ n >= 1 /\ n - 1 \in 0..(n - 1) /\ (n - 1) + 1 = n /\ n \in 1..n
  BY <1>1, Appended
<1>3. IsSeq(g) /\ Len(g) = n /\ g[n] = y /\ \A k \in 1..n : k # n => g[k] = h[k]
  <2>1. IsExtended(Extends(h, d), h, d)
    BY <1>1, Extended
  <2> QED BY <2>1 DEF IsExtended
<1>4. d.index = n - 1 /\ d.name = None /\ d.id = <<>>
  BY DEF Continues
<1>5. WholeCall(x)
  BY <1>2
<1>6. GatheredCall(tools[n - 1], x, n - 1)
  BY <1>1, <1>2
<1> HIDE DEF x, n
<1>7. y.id = x.id /\ y.name = x.name /\ y.args = x.args \o d.args
  BY <1>5 DEF WholeCall
<1>8. Ingested(c, tools, d)
  <2>1. d.index \in DOMAIN tools => IsSeq(tools[d.index].args)
    BY <1>4, <1>6 DEF GatheredCall
  <2> QED BY <2>1, IngestIs
<1> HIDE DEF y, c, g
<1>9. /\ DOMAIN c = DOMAIN tools \cup {n - 1}
      /\ \A k \in DOMAIN tools \ {n - 1} : c[k] = tools[k]
      /\ c[n - 1].id = tools[n - 1].id /\ c[n - 1].name = tools[n - 1].name
      /\ c[n - 1].args = tools[n - 1].args \o d.args /\ IsSeq(c[n - 1].args)
  BY <1>1, <1>2, <1>4, <1>8 DEF Ingested
<1>10. DOMAIN c = 0..(Len(g) - 1)
  BY <1>1, <1>2, <1>3, <1>9
<1>11. GatheredCall(c[n - 1], g[n], n - 1)
  BY <1>3, <1>6, <1>7, <1>9 DEF GatheredCall
<1>12. ASSUME NEW k \in 0..(Len(g) - 1)
       PROVE  GatheredCall(c[k], g[k + 1], k)
  <2>1. k \in 0..(n - 1) /\ (k = n - 1 \/ (k # n - 1 /\ k + 1 \in 1..n /\ k + 1 # n))
    BY <1>2, <1>3
  <2>2. CASE k = n - 1
    BY <1>2, <1>11, <2>2
  <2>3. CASE k # n - 1
    BY <1>1, <1>3, <1>9, <2>1, <2>3
  <2> QED BY <2>2, <2>3
<1> QED BY <1>3, <1>10, <1>12 DEF Gathered, c, g

\* The deltas of a line, one or two.
LEMMA IngestsAll ==
  ASSUME NEW b, NEW t, DOMAIN t = {} \/ DOMAIN t = {1} \/ DOMAIN t = {1, 2}
  PROVE  FoldLeft(Ingest, b, t) = CASE DOMAIN t = {} -> b
                                  [] DOMAIN t = {1} -> Ingest(b, t[1])
                                  [] OTHER -> Ingest(Ingest(b, t[1]), t[2])
<1> DEFINE S == DOMAIN t
           Step(g, s) == IF s = {} THEN b ELSE Ingest(g[s \ {Max(s)}], t[Max(s)])
           F == [s \in SUBSET S |-> CASE s = {} -> b
                                      [] s = {1} -> Ingest(b, t[1])
                                      [] s = {2} -> Ingest(b, t[2])
                                      [] OTHER -> Ingest(Ingest(b, t[1]), t[2])]
           G == CHOOSE g : g = [s \in SUBSET S |-> Step(g, s)]
<1>1. \A s \in SUBSET S : s = {} \/ s = {1} \/ s = {2} \/ s = {1, 2}
  OBVIOUS
<1>2. FoldLeft(Ingest, b, t) = G[S]
  BY DEF FoldLeft, MapThenFoldSet
<1>3. {1} # {} /\ {2} # {} /\ {1, 2} # {} /\ {2} # {1} /\ {1, 2} # {1} /\ {1, 2} # {2}
  OBVIOUS
<1>4. \A s \in SUBSET S : F[s] = Step(F, s)
  <2> SUFFICES ASSUME NEW s \in SUBSET S
               PROVE  F[s] = Step(F, s)
    OBVIOUS
  <2>1. CASE s = {}
    BY <2>1
  <2>2. CASE s = {1}
    <3>1. F[s] = Ingest(b, t[1]) /\ F[{}] = b
      BY <1>3, <2>2
    <3> HIDE DEF F
    <3>2. Step(F, s) = Ingest(F[{1} \ {1}], t[1]) /\ {1} \ {1} = {}
      BY <1>3, <2>2, MaxOfTwo
    <3> QED BY <3>1, <3>2
  <2>3. CASE s = {2}
    <3>1. F[s] = Ingest(b, t[2]) /\ F[{}] = b
      BY <1>3, <2>3
    <3> HIDE DEF F
    <3>2. Step(F, s) = Ingest(F[{2} \ {2}], t[2]) /\ {2} \ {2} = {}
      BY <1>3, <2>3, MaxOfTwo
    <3> QED BY <3>1, <3>2
  <2>4. CASE s = {1, 2}
    <3>1. F[s] = Ingest(Ingest(b, t[1]), t[2]) /\ F[{1}] = Ingest(b, t[1])
      BY <1>3, <2>4
    <3> HIDE DEF F
    <3>2. Step(F, s) = Ingest(F[{1, 2} \ {2}], t[2]) /\ {1, 2} \ {2} = {1}
      BY <1>3, <2>4, MaxOfTwo
    <3> QED BY <3>1, <3>2
  <2> QED BY <1>1, <2>1, <2>2, <2>3, <2>4
<1>5. G = [s \in SUBSET S |-> Step(G, s)]
  <2>1. F = [s \in SUBSET S |-> Step(F, s)]
    <3>1. F = [s \in SUBSET S |-> F[s]]
      OBVIOUS
    <3> HIDE DEF F, Step
    <3> QED BY <1>4, <3>1
  <2> HIDE DEF F, Step, S
  <2> QED BY <2>1
<1> HIDE DEF F, G
<1>6. \A s \in SUBSET S : G[s] = Step(G, s)
  <2> HIDE DEF Step, S
  <2> QED BY <1>5
<1>7. G[{}] = b
  BY <1>6
<1>8. {1} \in SUBSET S => G[{1}] = Ingest(b, t[1])
  <2>1. {1} \ {1} = {}
    OBVIOUS
  <2> QED BY <1>3, <1>6, <1>7, <2>1, MaxOfTwo
<1>9. {1, 2} \in SUBSET S => G[{1, 2}] = Ingest(Ingest(b, t[1]), t[2])
  <2>1. {1, 2} \ {2} = {1}
    OBVIOUS
  <2> QED BY <1>3, <1>6, <1>8, <2>1, MaxOfTwo
<1> QED BY <1>2, <1>3, <1>7, <1>8, <1>9
\* The accumulator has the calls that the model has made after a line.
LEMMA GathersLine ==
  ASSUME NEW r, ReplyOK(r), NEW l, NEW m, Line(l, r, m), NEW tools, Gathered(tools, r.calls),
         NEW h, Telling(l, r, m, h)
  PROVE  Gathered(FoldLeft(Ingest, tools, l.tools), h)
<1> DEFINE n == Len(r.calls)
           t == l.tools
           c == r.calls
<1>1. IsSeq(c) /\ n \in Nat /\ \A k \in 1..n : WholeCall(c[k])
  BY Appended DEF ReplyOK
<1>2. CASE t = <<>> /\ h = c
  <2>1. DOMAIN t = {}
    BY <1>2
  <2> HIDE DEF t
  <2> QED BY <1>2, <2>1, IngestsAll DEF t
<1>3. ASSUME NEW d, t = <<d>>, IsSeq(d.args),
             \/ Begins(d, n) /\ h = Append(c, CallOf(d))
             \/ Continues(d, n - 1) /\ n >= 1 /\ h = Extends(c, d)
      PROVE  Gathered(FoldLeft(Ingest, tools, t), h)
  <2>1. DOMAIN t = {1} /\ t[1] = d
    BY <1>3
  <2>2. DOMAIN t # {}
    BY <2>1
  <2> HIDE DEF t
  <2>3. FoldLeft(Ingest, tools, t) = Ingest(tools, d)
    BY <2>1, <2>2, IngestsAll
  <2>4. Gathered(Ingest(tools, d), h)
    <3>1. Gathered(tools, c) /\ Len(c) = n
      OBVIOUS
    <3> HIDE DEF c, n
    <3> QED BY <1>1, <1>3, <3>1, GathersBegun, GathersMore
  <2> QED BY <2>3, <2>4
<1>4. ASSUME NEW d, NEW e, t = <<d, e>>, IsSeq(d.args), IsSeq(e.args), Begins(d, n),
             Begins(e, n + 1), h = Append(Append(c, CallOf(d)), CallOf(e))
      PROVE  Gathered(FoldLeft(Ingest, tools, t), h)
  <2>1. DOMAIN t = {1, 2} /\ t[1] = d /\ t[2] = e
    BY <1>4
  <2>2. DOMAIN t # {} /\ DOMAIN t # {1}
    BY <2>1
  <2> HIDE DEF t
  <2>3. FoldLeft(Ingest, tools, t) = Ingest(Ingest(tools, d), e)
    BY <2>1, <2>2, IngestsAll
  <2> DEFINE g == Append(c, CallOf(d))
             i == Ingest(tools, d)
  <2>4. Gathered(tools, c) /\ Len(c) = n
    OBVIOUS
  <2> HIDE DEF c, n
  <2>5. Gathered(i, g) /\ Len(g) = n + 1
    BY <1>1, <1>4, <2>4, GathersBegun, Appended
  <2> HIDE DEF g, i
  <2>6. Gathered(Ingest(i, e), Append(g, CallOf(e)))
    BY <1>4, <2>5, GathersBegun
  <2> QED BY <1>4, <2>3, <2>6 DEF g, i
<1> QED BY <1>2, <1>3, <1>4 DEF Telling

-----------------------------------------------------------------------------
(* An Ollama client. *)

\* One field of all chunks, and its parts joined.
Column(out, f) == [k \in 1..Len(out) |-> out[k][f]]
ColumnSays(out, f, x) == FlattenSeq(Column(out, f)) = x

LEMMA ColumnGrows ==
  ASSUME NEW out, IsSeq(out), NEW f, NEW x, ColumnSays(out, f, x), NEW c, IsSeq(c[f])
  PROVE  ColumnSays(Append(out, c), f, x \o c[f])
<1> DEFINE n == Len(out)
           q == Append(out, c)
           ss == Column(out, f)
           y == c[f]
           tt == Append(ss, y)
<1>1. /\ IsSeq(q) /\ n \in Nat /\ Len(q) = n + 1 /\ q[n + 1] = c
      /\ \A k \in 1..n : q[k] = out[k]
  BY Appended
<1>2. DOMAIN ss = 1..n /\ ss = [k \in 1..n |-> ss[k]] /\ \A k \in 1..n : ss[k] = out[k][f]
  BY DEF Column
<1>3. IsSeq(ss) /\ Len(ss) = n
  <2> HIDE DEF ss, n
  <2> QED BY <1>1, <1>2, Numbered
<1>4. /\ IsSeq(tt) /\ Len(tt) = n + 1 /\ tt[n + 1] = y /\ DOMAIN tt = 1..(n + 1)
      /\ \A k \in 1..n : tt[k] = ss[k]
  <2> HIDE DEF ss, y, n
  <2> QED BY <1>3, Appended
<1>5. Column(q, f) = tt
  <2> DEFINE uu == Column(q, f)
  <2>1. DOMAIN uu = 1..(n + 1) /\ uu = [k \in 1..(n + 1) |-> uu[k]]
        /\ \A k \in 1..(n + 1) : uu[k] = q[k][f]
    <3> HIDE DEF q, n
    <3> QED BY <1>1 DEF Column
  <2> HIDE DEF uu, q, ss
  <2>2. \A k \in 1..(n + 1) : uu[k] = tt[k]
    <3>1. \A k \in 1..(n + 1) : k \in 1..n \/ k = n + 1
      BY <1>1
    <3> HIDE DEF tt, n
    <3> QED BY <1>1, <1>2, <1>4, <2>1, <3>1
  <2>3. tt = [k \in 1..(n + 1) |-> tt[k]]
    <3>1. PICK S : tt \in Seq(S)
      BY <1>4 DEF IsSeq
    <3> HIDE DEF tt, n
    <3> QED BY <1>4, <3>1
  <2> HIDE DEF tt, n
  <2>4. uu = tt
    BY <2>1, <2>2, <2>3
  <2> QED BY <2>4 DEF uu
<1>6. FlattenSeq(tt) = FlattenSeq(ss) \o y
  <2> HIDE DEF ss, y
  <2> QED BY <1>3, FlattenAppend DEF y
<1> QED BY <1>5, <1>6 DEF ColumnSays

LEMMA NoColumn ==
  ASSUME NEW f, NEW e, e = <<>>
  PROVE  ColumnSays(e, f, e)
<1>1. Column(e, f) = e /\ Len(e) = 0
  BY DEF Column
<1> HIDE DEF Column
<1>2. FlattenSeq(e) = e
  BY <1>1 DEF FlattenSeq
<1> QED BY <1>1, <1>2 DEF ColumnSays

\* What the chunks say.
ChunksSay(out, text, thinking, calls) ==
  /\ IsSeq(out) /\ ColumnSays(out, "content", text) /\ ColumnSays(out, "thinking", thinking)
  /\ ColumnSays(out, "calls", calls)

LEMMA ChunksGrow ==
  ASSUME NEW out, NEW text, NEW thinking, NEW calls, ChunksSay(out, text, thinking, calls),
         NEW c, IsSeq(c.content), IsSeq(c.thinking), IsSeq(c.calls)
  PROVE  ChunksSay(Append(out, c), text \o c.content, thinking \o c.thinking, calls \o c.calls)
<1>1. IsSeq(Append(out, c))
  BY Appended DEF ChunksSay
<1>2. /\ ColumnSays(Append(out, c), "content", text \o c["content"])
      /\ ColumnSays(Append(out, c), "thinking", thinking \o c["thinking"])
      /\ ColumnSays(Append(out, c), "calls", calls \o c["calls"])
  BY ColumnGrows DEF ChunksSay
<1> QED BY <1>1, <1>2 DEF ChunksSay

OllamaFields == {"out", "tools", "reason", "usage", "thinking", "chat", "failed"}
Shown(s, r) == IF s.thinking /\ s.chat THEN r.reasoning ELSE <<>>

\* The client of an Ollama stream has the text of r, and the translator the rest.
OllamaHas(s, r) ==
  /\ DOMAIN s = OllamaFields /\ s.failed = r.error /\ s.usage = r.usage
  /\ s.chat <=> dialect = "ollama"
  /\ s.thinking <=> Thinking
  /\ Gathered(s.tools, r.calls)
  /\ ChunksSay(s.out, r.text, Shown(s, r), <<>>)
  /\ ~r.error => s.reason = DoneReason(r.finish)

LEMMA OllamaStarts ==
  ASSUME dialect \in {"ollama", "generate"}
  PROVE  OllamaHas(Start, Silence)
<1> DEFINE e == <<>>
           s == Start
           r == Silence
<1>1. s = [out |-> e, tools |-> e, reason |-> "stop", usage |-> NoUsage,
           thinking |-> Thinking, chat |-> dialect = "ollama", failed |-> FALSE]
  BY DEF Start, OllamaStart, NoCalls
<1>2. DOMAIN s = OllamaFields /\ s.out = e /\ s.tools = e /\ s.usage = NoUsage /\ s.failed = FALSE
      /\ (s.thinking <=> Thinking) /\ (s.chat <=> dialect = "ollama") /\ s.reason = "stop"
  BY <1>1 DEF OllamaFields
<1>3. r.text = e /\ r.reasoning = e /\ r.calls = e /\ r.usage = NoUsage /\ r.error = FALSE
      /\ r.finish = None
  BY DEF Silence
<1>9. DoneReason(None) = "stop"
  BY StreamAssumption DEF DoneReason, FinishReasons
<1>4. IsSeq(e) /\ Len(e) = 0 /\ DOMAIN e = 0..(0 - 1)
  BY NothingIsSeq
<1>5. Shown(s, r) = e
  BY <1>3 DEF Shown
<1> HIDE DEF s, r, e
<1>6. Gathered(s.tools, r.calls)
  BY <1>2, <1>3, <1>4 DEF Gathered
<1>7. ChunksSay(s.out, r.text, e, e)
  <2>1. e = <<>>
    BY DEF e
  <2> QED BY <1>2, <1>3, <1>4, <2>1, NoColumn DEF ChunksSay
<1> QED BY <1>2, <1>3, <1>5, <1>6, <1>7, <1>9 DEF OllamaHas, s, r, e

\* Chunks that say what they say and nothing else.
Thought(p) == [Chunk EXCEPT !.thinking = p]
Spoken(p) == [Chunk EXCEPT !.content = p]

LEMMA ChunkFields ==
  ASSUME NEW p
  PROVE  /\ Thought(p).thinking = p /\ Thought(p).content = <<>> /\ Thought(p).calls = <<>>
         /\ Spoken(p).content = p /\ Spoken(p).thinking = <<>> /\ Spoken(p).calls = <<>>
BY DEF Thought, Spoken, Chunk

\* An optional chunk.
LEMMA ChunksSaid ==
  ASSUME NEW out, NEW text, NEW thinking, ChunksSay(out, text, thinking, <<>>),
         IsSeq(text), IsSeq(thinking), NEW p, IsSeq(p), NEW e, NEW said1
  PROVE  /\ (said1 /\ e = <<Thought(p)>>) \/ (~said1 /\ e = <<>>) =>
              ChunksSay(out \o e, text, IF said1 THEN thinking \o p ELSE thinking, <<>>)
         /\ e = (IF p # <<>> THEN <<Spoken(p)>> ELSE <<>>) =>
              ChunksSay(out \o e, text \o p, thinking, <<>>)
<1> DEFINE z == <<>>
<1>0. IsSeq(z) /\ z \o z = z /\ text \o z = text /\ thinking \o z = thinking /\ out \o z = out
      /\ IsSeq(out)
  BY NothingIsSeq, Concatenated DEF ChunksSay
<1>1. \A c : out \o <<c>> = Append(out, c)
  BY <1>0, Single
<1>2. ChunksSay(out, text, thinking, z)
  OBVIOUS
<1>3. /\ Thought(p).thinking = p /\ Thought(p).content = z /\ Thought(p).calls = z
      /\ Spoken(p).content = p /\ Spoken(p).thinking = z /\ Spoken(p).calls = z
  BY ChunkFields
<1>6. p = z => Append(out, Spoken(p)) = Append(out, Spoken(p)) /\ text \o p = text
  BY <1>0
<1> HIDE DEF z
<1>4. ChunksSay(Append(out, Thought(p)), text, thinking \o p, z)
  <2>1. ChunksSay(Append(out, Thought(p)), text \o Thought(p).content,
                  thinking \o Thought(p).thinking, z \o Thought(p).calls)
    BY <1>0, <1>2, <1>3, ChunksGrow
  <2> QED BY <1>0, <1>3, <2>1
<1>5. ChunksSay(Append(out, Spoken(p)), text \o p, thinking, z)
  <2>1. ChunksSay(Append(out, Spoken(p)), text \o Spoken(p).content,
                  thinking \o Spoken(p).thinking, z \o Spoken(p).calls)
    BY <1>0, <1>2, <1>3, ChunksGrow
  <2> QED BY <1>0, <1>3, <2>1
<1>7. (said1 /\ e = <<Thought(p)>>) \/ (~said1 /\ e = z) =>
         ChunksSay(out \o e, text, IF said1 THEN thinking \o p ELSE thinking, z)
  BY <1>0, <1>1, <1>2, <1>4
<1>8. e = (IF p # z THEN <<Spoken(p)>> ELSE z) => ChunksSay(out \o e, text \o p, thinking, z)
  BY <1>0, <1>1, <1>2, <1>5, <1>6
<1> QED BY <1>7, <1>8 DEF z

\* A line is translated.
LEMMA OllamaReads ==
  ASSUME NEW s, NEW r, ReplyOK(r), OllamaHas(s, r), r.error = FALSE, NEW l, NEW m, Line(l, r, m)
  PROVE  OllamaHas(OllamaLine(s, l), Hear(r, l))
<1> DEFINE p == Parse(l)
           q == OllamaLine(s, l)
           h == Hear(r, l)
           think == p.reasoning # <<>> /\ s.thinking /\ s.chat
           thought == IF think THEN <<[Chunk EXCEPT !.thinking = p.reasoning]>> ELSE <<>>
           spoken == IF p.text # <<>> THEN <<[Chunk EXCEPT !.content = p.text]>> ELSE <<>>
           tools == FoldLeft(Ingest, s.tools, p.tools)
           e == <<>>
<1>1. /\ p.text = l.text /\ p.reasoning = l.reasoning /\ p.tools = l.tools /\ p.usage = l.usage
      /\ p.kind = "noise" => /\ l.text = e /\ l.reasoning = e /\ l.tools = e /\ l.usage = None
                             /\ l.finish = None
      /\ p.finish = l.finish
      /\ p.kind = "error" <=> l.kind = "error"
  BY ParsedUsage
<1>2. HeardWith(h, r, l, m)
  BY HearsReply
<1>3. /\ DOMAIN s = OllamaFields /\ s.failed = FALSE /\ s.usage = r.usage
      /\ (s.chat <=> dialect = "ollama") /\ (s.thinking <=> Thinking)
      /\ Gathered(s.tools, r.calls) /\ ChunksSay(s.out, r.text, Shown(s, r), e)
      /\ s.reason = DoneReason(r.finish)
  BY DEF OllamaHas
<1>4. IsSeq(r.text) /\ IsSeq(r.reasoning) /\ IsSeq(l.text) /\ IsSeq(l.reasoning) /\ IsSeq(e)
      /\ IsSeq(Shown(s, r)) /\ r.text \o e = r.text /\ r.reasoning \o e = r.reasoning
  BY NothingIsSeq, Concatenated DEF ReplyOK, Line, Whole, Shown
<1>5. CASE p.kind = "noise"
  <2>1. q = s
    BY <1>5 DEF OllamaLine
  <2>2. l.kind # "error"
    BY <1>1, <1>5
  <2>3. h.calls = r.calls
    <3>1. Telling(l, r, m, h.calls) /\ l.tools = e
      BY <1>1, <1>2, <1>5, <2>2 DEF HeardWith
    <3>2. (\A d : l.tools # <<d>>) /\ \A d, f : l.tools # <<d, f>>
      BY <3>1
    <3> QED BY <3>1, <3>2 DEF Telling
  <2> HIDE DEF e, h, q, p
  <2>4. h.text = r.text /\ h.reasoning = r.reasoning /\ h.usage = r.usage /\ h.error = FALSE
        /\ h.finish = r.finish
    BY <1>1, <1>2, <1>4, <1>5, <2>2 DEF HeardWith
  <2>5. Shown(s, h) = Shown(s, r)
    BY <2>4 DEF Shown
  <2> QED BY <1>3, <2>1, <2>3, <2>4, <2>5 DEF OllamaHas, q, h, e
<1>6. CASE p.kind = "error"
  <2> DEFINE c == [Chunk EXCEPT !.done = TRUE, !.reason = "error", !.error = TRUE]
  <2>1. /\ DOMAIN q = OllamaFields /\ q.failed = TRUE /\ q.out = Append(s.out, c)
        /\ q.tools = s.tools /\ q.usage = s.usage /\ q.chat = s.chat /\ q.thinking = s.thinking
    BY <1>3, <1>6 DEF OllamaLine, OllamaFields
  <2>2. c.content = e /\ c.thinking = e /\ c.calls = e
    BY DEF Chunk
  <2>3. h.text = r.text /\ h.reasoning = r.reasoning /\ h.usage = r.usage /\ h.error = TRUE
        /\ h.calls = r.calls
    BY <1>1, <1>2, <1>6 DEF HeardWith
  <2>4. e \o e = e /\ r.text \o e = r.text /\ Shown(s, r) \o e = Shown(s, r)
    BY <1>4, Concatenated
  <2> HIDE DEF e, h, q, p, c
  <2>5. ChunksSay(q.out, r.text \o c.content, Shown(s, r) \o c.thinking, e \o c.calls)
    BY <1>3, <1>4, <2>1, <2>2, ChunksGrow
  <2>6. ChunksSay(q.out, r.text, Shown(s, r), e)
    BY <2>2, <2>4, <2>5
  <2>7. Shown(q, h) = Shown(s, r)
    BY <2>1, <2>3 DEF Shown
  <2>8. (q.chat <=> dialect = "ollama") /\ (q.thinking <=> Thinking)
    BY <1>3, <2>1
  <2> QED BY <1>3, <2>1, <2>3, <2>6, <2>7, <2>8 DEF OllamaHas, q, h, e
<1>7. CASE p.kind \notin {"noise", "error"}
  <2>1. /\ DOMAIN q = OllamaFields /\ q.failed = FALSE /\ q.out = s.out \o thought \o spoken
        /\ q.tools = tools /\ q.chat = s.chat /\ q.thinking = s.thinking
        /\ q.usage = (IF p.usage # None THEN p.usage ELSE s.usage)
        /\ q.reason = (IF p.finish = None THEN s.reason
                       ELSE IF p.finish = "tool_calls" THEN "stop" ELSE p.finish)
    BY <1>3, <1>7 DEF OllamaLine, OllamaFields
  <2>2. l.kind # "error"
    BY <1>1, <1>7
  <2>3. /\ h.reasoning = r.reasoning \o l.reasoning /\ h.text = r.text \o l.text
        /\ Telling(l, r, m, h.calls) /\ h.error = FALSE
        /\ h.usage = (IF l.usage = None THEN r.usage ELSE l.usage)
        /\ h.finish = (IF l.finish = None THEN r.finish ELSE l.finish)
    BY <1>2, <2>2 DEF HeardWith
  <2>4. Gathered(q.tools, h.calls)
    <3>1. Gathered(FoldLeft(Ingest, s.tools, l.tools), h.calls)
      <4> HIDE DEF h, q, p
      <4> QED BY <1>3, <2>3, GathersLine
    <3> QED BY <1>1, <2>1, <3>1
  <2>5. (think /\ thought = <<Thought(l.reasoning)>>) \/ (~think /\ thought = e)
    BY <1>1 DEF Thought
  <2>6. spoken = (IF l.text # <<>> THEN <<Spoken(l.text)>> ELSE <<>>)
    BY <1>1 DEF Spoken
  <2> DEFINE shown == IF think THEN Shown(s, r) \o l.reasoning ELSE Shown(s, r)
  <2>7. IsSeq(shown)
    BY <1>4, Concatenated
  <2>8. shown = Shown(q, h)
    <3>1. CASE think
      BY <2>1, <2>3, <3>1 DEF Shown
    <3>2. CASE ~think
      BY <1>1, <1>4, <2>1, <2>3, <3>2 DEF Shown
    <3> QED BY <3>1, <3>2
  <2>9. ChunksSay(s.out \o thought, r.text, shown, e)
    <3>1. ChunksSay(s.out, r.text, Shown(s, r), <<>>)
      BY <1>3
    <3> HIDE DEF think, thought
    <3> QED BY <1>4, <2>5, <3>1, ChunksSaid
  <2>10. ChunksSay(q.out, r.text \o l.text, shown, e)
    <3> DEFINE o == s.out \o thought
    <3>1. ChunksSay(o, r.text, shown, <<>>)
      BY <2>9
    <3>2. q.out = o \o spoken
      BY <2>1
    <3> HIDE DEF o, shown, spoken, q
    <3> QED BY <1>4, <2>6, <2>7, <3>1, <3>2, ChunksSaid
  <2>11. q.usage = h.usage
    BY <1>1, <1>3, <2>1, <2>3
  <2>12. (q.chat <=> dialect = "ollama") /\ (q.thinking <=> Thinking)
    BY <1>3, <2>1
  <2>14. q.reason = DoneReason(h.finish)
    <3>1. l.finish \in FinishReasons \cup {None}
      BY DEF Line
    <3> HIDE DEF h, q, p
    <3> QED BY <1>1, <1>3, <2>1, <2>3, <3>1 DEF DoneReason, FinishReasons
  <2> HIDE DEF h, q, shown
  <2>13. ChunksSay(q.out, h.text, Shown(q, h), <<>>)
    BY <2>3, <2>8, <2>10
  <2> QED BY <2>1, <2>3, <2>4, <2>11, <2>12, <2>13, <2>14 DEF OllamaHas, q, h
<1> QED BY <1>5, <1>6, <1>7

\* The calls that are gathered are completed in the order the model made them.
CompletedAre(c, h) ==
  /\ IsSeq(c) /\ Len(c) = Len(h)
  /\ \A k \in 1..Len(h) : c[k].name = h[k].name /\ c[k].args = h[k].args

LEMMA GatheredComplete ==
  ASSUME NEW tools, NEW h, Gathered(tools, h)
  PROVE  CompletedAre(CompletedCalls(tools), h)
<1> DEFINE n == Len(h)
           items == [k \in 0..(n - 1) |-> [id |-> <<"fc", Default(tools[k].id, "index", k)>>]]
           x == [tools |-> tools, itemOf |-> items]
           c == CompletedCalls(tools)
<1>1. /\ n \in Nat /\ DOMAIN tools = 0..(n - 1)
      /\ \A k \in 0..(n - 1) : GatheredCall(tools[k], h[k + 1], k)
  BY Appended DEF Gathered
<1>2. x.tools = tools /\ x.itemOf = items
  OBVIOUS
<1>3. /\ DOMAIN items = 0..(n - 1)
      /\ \A k \in 0..(n - 1) : items[k].id = <<"fc", Default(tools[k].id, "index", k)>>
  OBVIOUS
<1> HIDE DEF x, items, n
<1>4. CallsOK(x, n)
  BY <1>1, <1>2, <1>3 DEF CallsOK, GatheredCall
<1>5. /\ DOMAIN c = 1..n
      /\ \A k \in 1..n : c[k].name = tools[k - 1].name /\ c[k].args = tools[k - 1].args
  <2>1. LET d == CompletedCalls(x.tools)
        IN  /\ DOMAIN d = 1..n
            /\ \A k \in 1..n : d[k].name = x.tools[k - 1].name /\ d[k].args = x.tools[k - 1].args
    BY <1>4, CallsInOrder
  <2> QED BY <1>2, <2>1
<1>6. c = [k \in DOMAIN c |-> c[k]]
  BY DEF CompletedCalls
<1> HIDE DEF c
<1>7. IsSeq(c) /\ Len(c) = n
  BY <1>1, <1>5, <1>6, Numbered
<1>8. ASSUME NEW k \in 1..n
      PROVE  c[k].name = h[k].name /\ c[k].args = h[k].args
  <2>1. k - 1 \in 0..(n - 1) /\ (k - 1) + 1 = k
    BY <1>1
  <2>2. GatheredCall(tools[k - 1], h[k], k - 1)
    BY <1>1, <2>1
  <2> QED BY <1>5, <2>2 DEF GatheredCall
<1> QED BY <1>7, <1>8 DEF CompletedAre, n, c

LEMMA CompletedSay ==
  ASSUME NEW c, NEW h, CompletedAre(c, h)
  PROVE  IsSeq(AsOllama(c)) /\ AsOllama(c) = AsOllama(h)
<1> DEFINE a == AsOllama(c)
           n == Len(h)
<1>1. n \in Nat /\ Len(c) = n /\ \A k \in 1..n : c[k].name = h[k].name /\ c[k].args = h[k].args
  BY Appended DEF CompletedAre
<1>2. DOMAIN a = 1..n /\ a = [k \in 1..n |-> a[k]]
  BY <1>1 DEF AsOllama
<1> HIDE DEF a, n
<1>3. IsSeq(a) /\ Len(a) = n
  BY <1>1, <1>2, Numbered
<1>4. a = AsOllama(h)
  BY <1>1 DEF AsOllama, a, n
<1> QED BY <1>3, <1>4 DEF a

\* The client of an ended stream has the calls of r too, and its usage.
OllamaDone(s, r) ==
  /\ s.failed = r.error
  /\ s.chat <=> dialect = "ollama"
  /\ s.thinking <=> Thinking
  /\ ChunksSay(s.out, r.text, Shown(s, r), IF s.chat /\ ~r.error THEN AsOllama(r.calls) ELSE <<>>)
  /\ ~r.error => /\ s.out[Len(s.out)].prompt = r.usage.prompt
                 /\ s.out[Len(s.out)].eval = r.usage.completion
                 /\ s.out[Len(s.out)].reason = DoneReason(r.finish)

LEMMA OllamaEnds ==
  ASSUME NEW s, NEW r, ReplyOK(r), OllamaHas(s, r)
  PROVE  OllamaDone(OllamaClose(s), r)
<1> DEFINE q == OllamaClose(s)
           calls == IF s.chat THEN AsOllama(CompletedCalls(s.tools)) ELSE <<>>
           c == [Chunk EXCEPT !.done = TRUE, !.reason = s.reason, !.calls = calls,
                              !.prompt = s.usage.prompt, !.eval = s.usage.completion]
           e == <<>>
<1>1. /\ DOMAIN s = OllamaFields /\ s.failed = r.error /\ s.usage = r.usage
      /\ (s.chat <=> dialect = "ollama") /\ (s.thinking <=> Thinking)
      /\ Gathered(s.tools, r.calls) /\ ChunksSay(s.out, r.text, Shown(s, r), e)
  BY DEF OllamaHas
<1>0. IsSeq(e)
  BY NothingIsSeq
<1>2. CASE s.failed
  <2>1. q = s
    BY <1>2 DEF OllamaClose
  <2> HIDE DEF e, q
  <2>2. ChunksSay(s.out, r.text, Shown(s, r), IF s.chat /\ ~r.error THEN AsOllama(r.calls) ELSE e)
    BY <1>1, <1>2
  <2> QED BY <1>1, <1>2, <2>1, <2>2 DEF OllamaDone, q, e
<1>3. CASE ~s.failed
  <2>1. /\ q.out = Append(s.out, c) /\ q.failed = s.failed /\ q.chat = s.chat
        /\ q.thinking = s.thinking
    BY <1>1, <1>3 DEF OllamaClose, OllamaFields
  <2>2. IsSeq(calls) /\ calls = IF s.chat THEN AsOllama(r.calls) ELSE e
    BY <1>0, <1>1, GatheredComplete, CompletedSay
  <2>3. c.content = e /\ c.thinking = e /\ c.calls = calls
        /\ c.prompt = s.usage.prompt /\ c.eval = s.usage.completion /\ c.reason = s.reason
    BY DEF Chunk
  <2>4. IsSeq(s.out) /\ IsSeq(r.text) /\ IsSeq(Shown(s, r))
    BY <1>0, <1>1 DEF ChunksSay, ReplyOK, Shown
  <2>5. e \o calls = calls /\ r.text \o e = r.text /\ Shown(s, r) \o e = Shown(s, r)
    <3> HIDE DEF calls
    <3> QED BY <2>2, <2>4, Concatenated
  <2> HIDE DEF e, q, c, calls
  <2>6. ChunksSay(q.out, r.text \o c.content, Shown(s, r) \o c.thinking, e \o c.calls)
    BY <1>0, <1>1, <2>1, <2>2, <2>3, ChunksGrow
  <2>7. ChunksSay(q.out, r.text, Shown(s, r), calls)
    BY <2>3, <2>5, <2>6
  <2>8. Shown(q, r) = Shown(s, r)
    BY <2>1 DEF Shown
  <2>9. q.out[Len(q.out)] = c
    BY <2>1, <2>4, Appended
  <2>10. (q.chat <=> dialect = "ollama") /\ (q.thinking <=> Thinking) /\ q.failed = r.error
    BY <1>1, <2>1
  <2>11. calls = IF q.chat /\ ~r.error THEN AsOllama(r.calls) ELSE <<>>
    BY <1>1, <1>3, <2>1, <2>2 DEF e
  <2>12. q.out[Len(q.out)].prompt = r.usage.prompt /\ q.out[Len(q.out)].eval = r.usage.completion
         /\ (~r.error => q.out[Len(q.out)].reason = DoneReason(r.finish))
    BY <1>1, <2>3, <2>9 DEF OllamaHas
  <2> QED BY <2>7, <2>8, <2>10, <2>11, <2>12 DEF OllamaDone, q
<1> QED BY <1>2, <1>3 DEF q

OllamaInv ==
  dialect \in {"ollama", "generate"} =>
    IF phase = "closed" THEN OllamaDone(stream, said) ELSE OllamaHas(stream, said)

LEMMA InitOllama == Init => OllamaInv
<1> SUFFICES ASSUME Init, dialect \in {"ollama", "generate"} PROVE OllamaInv
  BY DEF OllamaInv
<1>1. stream = Start /\ said = Silence
  BY DEF Init
<1>2. phase # "closed"
  BY DEF Init, Send
<1> QED BY <1>1, <1>2, OllamaStarts DEF OllamaInv

LEMMA NextOllama == ReplyInv /\ OllamaInv /\ [Next]_vars => OllamaInv'
<1> SUFFICES ASSUME ReplyInv, OllamaInv, [Next]_vars, dialect \in {"ollama", "generate"}
             PROVE  OllamaInv'
  <2>1. ReplyInv /\ [Next]_vars => dialect' = dialect
    BY Steps DEF ReplyInv, vars, Keeps, Reads, StreamEnds, ReplyBegins
  <2> QED BY <2>1 DEF OllamaInv
<1>1. ReplyOK(said)
  BY DEF ReplyInv
<1>2. CASE UNCHANGED vars
  BY <1>2 DEF OllamaInv, OllamaHas, OllamaDone, vars, Thinking
<1>3. CASE Keeps
  <2>1. UNCHANGED <<stream, said, dialect, wish>> /\ phase # "closed" /\ phase' # "closed"
    BY <1>3 DEF Keeps
  <2> QED BY <2>1 DEF OllamaInv, OllamaHas, Thinking
<1>4. ASSUME NEW l, NEW m, Reads(l, m)
      PROVE  OllamaInv'
  <2>1. /\ Line(l, said, m) /\ ~said.error /\ phase = "open" /\ phase' = "open"
        /\ stream' = OllamaLine(stream, l) /\ said' = Hear(said, l)
        /\ UNCHANGED <<dialect, wish>>
    BY <1>4 DEF Reads, Translate
  <2>2. said.error = FALSE
    BY <1>1, <2>1 DEF ReplyOK
  <2>3. OllamaHas(OllamaLine(stream, l), Hear(said, l))
    BY <1>1, <2>1, <2>2, OllamaReads DEF OllamaInv
  <2>4. OllamaHas(stream, said)'
    BY <2>1, <2>3 DEF OllamaHas, Thinking
  <2> QED BY <2>1, <2>4 DEF OllamaInv
<1>5. CASE StreamEnds
  <2>1. UNCHANGED <<said, dialect, wish>> /\ stream' = OllamaClose(stream)
        /\ phase = "open" /\ phase' = "closed"
    BY <1>5 DEF StreamEnds, Close
  <2>2. OllamaDone(OllamaClose(stream), said)
    BY <1>1, <2>1, OllamaEnds DEF OllamaInv
  <2>3. OllamaDone(stream, said)'
    BY <2>1, <2>2 DEF OllamaDone, Thinking
  <2> QED BY <2>1, <2>3 DEF OllamaInv
<1>6. CASE ReplyBegins
  <2>1. UNCHANGED <<dialect, wish>> /\ said' = Silence /\ stream' = Start /\ phase' # "closed"
    BY <1>6 DEF ReplyBegins
  <2>2. OllamaHas(Start, Silence)
    BY OllamaStarts
  <2>3. OllamaHas(stream, said)'
    BY <2>1, <2>2 DEF OllamaHas, Thinking
  <2> QED BY <2>1, <2>3 DEF OllamaInv
<1> QED BY <1>1, <1>2, <1>3, <1>4, <1>5, <1>6, Steps

-----------------------------------------------------------------------------
(* An Anthropic client: the blocks and the translator's state. *)

BlockFields == {"type", "id", "name", "piece"}
BlockTypes == {"text", "thinking", "tool_use"}
BlockList(bs) ==
  ListOK(bs) /\ \A k \in 1..Len(bs) : DOMAIN bs[k] = BlockFields /\ bs[k].type \in BlockTypes

\* The open block is the last one, and of the type its owner has.
OpenFits(s, b) ==
  /\ s.open + 1 = s.next
  /\ s.textAt = s.open => b.type = "text"
  /\ s.thinkingAt = s.open => b.type = "thinking"
  /\ \A t \in DOMAIN s.toolBlock : s.toolBlock[t] = s.open => b.type = "tool_use"

\* The state fits the blocks that the client has assembled.
Laid(s) ==
  /\ DOMAIN s = AnthropicFields /\ IsSeq(s.out) /\ s.next \in Nat
  /\ BlockList(Blocks(s.out)) /\ Len(Blocks(s.out)) = s.next
  /\ Known(s.open, s.next) /\ Known(s.textAt, s.next) /\ Known(s.thinkingAt, s.next)
  /\ \A t \in DOMAIN s.toolBlock : s.toolBlock[t] \in Nat /\ s.toolBlock[t] < s.next
  /\ s.open # None => OpenFits(s, Blocks(s.out)[s.next])

\* What the blocks do not depend on.
Rest(q, s) ==
  /\ q.tools = s.tools /\ q.failed = s.failed /\ q.usage = s.usage /\ q.thinking = s.thinking
  /\ q.stop = s.stop

\* The open block is closed: the client's blocks stay as they are.
ClosedOf(c, s) ==
  /\ Laid(c) /\ Rest(c, s) /\ Blocks(c.out) = Blocks(s.out) /\ c.open = None /\ c.next = s.next
  /\ DOMAIN c.toolBlock \subseteq DOMAIN s.toolBlock

LEMMA Closes ==
  ASSUME NEW s, Laid(s)
  PROVE  ClosedOf(CloseBlock(s), s)
<1> DEFINE c == CloseBlock(s)
           e == [ev |-> "block_stop", index |-> s.open]
<1>1. CASE s.open = None
  BY <1>1 DEF CloseBlock, ClosedOf, Rest
<1>2. CASE s.open # None
  <2>1. /\ DOMAIN c = AnthropicFields /\ c.out = Append(s.out, e)
        /\ c.open = None /\ c.next = s.next /\ c.tools = s.tools /\ c.failed = s.failed
        /\ c.textAt = (IF s.textAt = s.open THEN None ELSE s.textAt)
        /\ c.thinkingAt = (IF s.thinkingAt = s.open THEN None ELSE s.thinkingAt)
        /\ c.toolBlock = Restrict(s.toolBlock,
                           {t \in DOMAIN s.toolBlock : s.toolBlock[t] # s.open})
        /\ c.usage = s.usage /\ c.thinking = s.thinking /\ c.stop = s.stop
    BY <1>2, CloseBlockIs DEF Laid
  <2>2. /\ DOMAIN c.toolBlock \subseteq DOMAIN s.toolBlock
        /\ \A t \in DOMAIN c.toolBlock : c.toolBlock[t] = s.toolBlock[t]
    <3> HIDE DEF c
    <3> QED BY <2>1 DEF Restrict
  <2>3. e.ev = "block_stop"
    OBVIOUS
  <2> HIDE DEF c, e
  <2>4. IsSeq(s.out) /\ IsSeq(c.out)
    BY <2>1, Appended DEF Laid
  <2>5. Blocks(c.out) = Blocks(s.out)
    <3>1. Blocks(Append(s.out, e)) = ReadBlock(Blocks(s.out), e)
      BY <2>4, BlocksGrow
    <3>2. \A bs : ReadBlock(bs, e) = bs
      BY <2>3 DEF ReadBlock
    <3> QED BY <2>1, <3>1, <3>2
  <2>6. Known(c.open, c.next) /\ Known(c.textAt, c.next) /\ Known(c.thinkingAt, c.next)
    BY <2>1 DEF Laid, Known
  <2>7. \A t \in DOMAIN c.toolBlock : c.toolBlock[t] \in Nat /\ c.toolBlock[t] < c.next
    BY <2>1, <2>2 DEF Laid
  <2>8. Laid(c)
    BY <2>1, <2>4, <2>5, <2>6, <2>7 DEF Laid
  <2> QED BY <2>1, <2>2, <2>5, <2>8 DEF ClosedOf, Rest, c
<1> QED BY <1>1, <1>2

NewBlock(block) == [type |-> block.type, id |-> block.id, name |-> block.name, piece |-> <<>>]

\* A block is begun, which nobody owns yet.
NowOpen(b, s, block) ==
  /\ DOMAIN b = AnthropicFields /\ IsSeq(b.out) /\ Rest(b, s)
  /\ Blocks(b.out) = Append(Blocks(s.out), NewBlock(block))
  /\ b.open = s.next /\ b.next = s.next + 1
  /\ Known(b.textAt, s.next) /\ Known(b.thinkingAt, s.next)
  /\ DOMAIN b.toolBlock \subseteq DOMAIN s.toolBlock
  /\ \A t \in DOMAIN b.toolBlock : b.toolBlock[t] \in Nat /\ b.toolBlock[t] < s.next

LEMMA Opens ==
  ASSUME NEW s, Laid(s), NEW block
  PROVE  NowOpen(OpenBlock(s, block), s, block)
<1> DEFINE c == CloseBlock(s)
           b == OpenBlock(s, block)
           e == [ev |-> "block_start", index |-> s.next, block |-> block]
<1>1. ClosedOf(c, s)
  BY Closes
<1>2. DOMAIN c = AnthropicFields
  BY <1>1 DEF ClosedOf, Laid
<1>3. /\ DOMAIN b = AnthropicFields /\ b.out = Append(c.out, e)
      /\ b.open = s.next /\ b.next = c.next + 1
      /\ b.tools = c.tools /\ b.toolBlock = c.toolBlock /\ b.failed = c.failed
      /\ b.textAt = c.textAt /\ b.thinkingAt = c.thinkingAt
  BY <1>2, OpenBlockIs
<1>4. b.usage = c.usage /\ b.thinking = c.thinking /\ b.stop = c.stop
  <2>1. b = [WriteEvent(c, e) EXCEPT !.open = s.next, !.next = @ + 1]
    BY DEF OpenBlock
  <2> HIDE DEF c, b, e
  <2> QED BY <1>2, <2>1 DEF WriteEvent, AnthropicFields
<1>5. e.ev = "block_start" /\ e.block = block
  OBVIOUS
<1> HIDE DEF b, c, e
<1>6. IsSeq(c.out) /\ IsSeq(b.out)
  BY <1>1, <1>3, Appended DEF ClosedOf, Laid
<1>7. Blocks(b.out) = Append(Blocks(s.out), NewBlock(block))
  <2>1. Blocks(b.out) = ReadBlock(Blocks(c.out), e)
    BY <1>3, <1>6, BlocksGrow
  <2> QED BY <1>1, <1>5, <2>1 DEF ReadBlock, NewBlock, ClosedOf
<1>8. Rest(b, s) /\ b.next = s.next + 1
  BY <1>1, <1>3, <1>4 DEF Rest, ClosedOf
<1>9. /\ Known(b.textAt, s.next) /\ Known(b.thinkingAt, s.next)
      /\ DOMAIN b.toolBlock \subseteq DOMAIN s.toolBlock
      /\ \A t \in DOMAIN b.toolBlock : b.toolBlock[t] \in Nat /\ b.toolBlock[t] < s.next
  BY <1>1, <1>3 DEF ClosedOf, Laid
<1> QED BY <1>3, <1>6, <1>7, <1>8, <1>9 DEF NowOpen, b

\* It gets an owner of its type.
OwnedBy(o, b, type) ==
  /\ DOMAIN o = AnthropicFields /\ o.out = b.out /\ o.open = b.open /\ o.next = b.next
  /\ Rest(o, b)
  /\ o.textAt = b.textAt \/ (o.textAt = b.open /\ type = "text")
  /\ o.thinkingAt = b.thinkingAt \/ (o.thinkingAt = b.open /\ type = "thinking")
  /\ \A t \in DOMAIN o.toolBlock :
       \/ t \in DOMAIN b.toolBlock /\ o.toolBlock[t] = b.toolBlock[t]
       \/ o.toolBlock[t] = b.open /\ type = "tool_use"

LEMMA Owning ==
  ASSUME NEW s, Laid(s), NEW block, block.type \in BlockTypes, NEW b, NowOpen(b, s, block),
         NEW o, OwnedBy(o, b, block.type)
  PROVE  /\ Laid(o) /\ o.open # None /\ Rest(o, s) /\ o.open = s.next /\ o.next = s.next + 1
         /\ Added(Blocks(o.out), Blocks(s.out), NewBlock(block))
         /\ Blocks(o.out)[o.next].type = block.type
<1> DEFINE bs == Blocks(s.out)
           nb == NewBlock(block)
           cs == Append(bs, nb)
           n == s.next
<1>1. BlockList(bs) /\ ListOK(bs) /\ IsSeq(bs) /\ Len(bs) = n /\ n \in Nat
  BY DEF Laid, BlockList, ListOK
<1>2. /\ IsSeq(cs) /\ Len(cs) = n + 1 /\ cs[n + 1] = nb /\ \A k \in 1..n : cs[k] = bs[k]
  <2>1. LET q == Append(bs, nb)
        IN  IsSeq(q) /\ Len(q) = Len(bs) + 1 /\ q[Len(bs) + 1] = nb /\ \A k \in 1..Len(bs) : q[k] = bs[k]
    <3> HIDE DEF bs, nb
    <3> QED BY <1>1, Appended
  <2> HIDE DEF bs, nb, n
  <2> QED BY <1>1, <2>1
<1>3. nb.type = block.type /\ nb.piece = <<>> /\ DOMAIN nb = BlockFields
  BY DEF NewBlock, BlockFields
<1>4. Body(nb) = <<>>
  BY <1>3 DEF Body, BlockFields
<1>5. /\ DOMAIN o = AnthropicFields /\ IsSeq(o.out) /\ Blocks(o.out) = cs
      /\ o.open = n /\ o.next = n + 1 /\ Rest(o, s)
  BY DEF NowOpen, OwnedBy, Rest
<1> HIDE DEF bs, nb, n
<1>6. Added(cs, bs, nb)
  BY <1>1, <1>4, Adding
<1> HIDE DEF cs
<1>7. BlockList(cs)
  <2>1. \A k \in 1..(n + 1) : k \in 1..n \/ k = n + 1
    BY <1>1
  <2> QED BY <1>1, <1>2, <1>3, <1>6, <2>1 DEF BlockList, Added
<1>8. n # None
  BY <1>1, StreamAssumption
<1>9. Known(o.open, o.next) /\ Known(o.textAt, o.next) /\ Known(o.thinkingAt, o.next)
  BY <1>1, <1>5 DEF Known, NowOpen, OwnedBy, n
<1>10. \A t \in DOMAIN o.toolBlock : o.toolBlock[t] \in Nat /\ o.toolBlock[t] < o.next
  BY <1>1, <1>5 DEF NowOpen, OwnedBy, n
<1>11. OpenFits(o, cs[n + 1])
  <2>1. b.textAt # n /\ b.thinkingAt # n /\ \A t \in DOMAIN b.toolBlock : b.toolBlock[t] # n
    BY <1>1, <1>8 DEF NowOpen, Known, n
  <2> QED BY <1>2, <1>3, <1>5, <2>1 DEF OpenFits, OwnedBy
<1>12. Laid(o)
  BY <1>1, <1>2, <1>5, <1>7, <1>9, <1>10, <1>11 DEF Laid
<1> QED BY <1>1, <1>2, <1>3, <1>5, <1>6, <1>8, <1>12 DEF bs, nb, n

\* More is written into the open block.
LEMMA Writes ==
  ASSUME NEW o, Laid(o), o.open # None, NEW type, NEW p, IsSeq(p)
  PROVE  LET q == Delta(o, o.open, type, p)
         IN  /\ Laid(q) /\ Rest(q, o) /\ q.open = o.open /\ q.toolBlock = o.toolBlock
             /\ Grown(Blocks(q.out), Blocks(o.out), Blocks(o.out)[o.next].type, p)
<1> DEFINE q == Delta(o, o.open, type, p)
           e == [ev |-> "block_delta", index |-> o.open, type |-> type, piece |-> p]
           bs == Blocks(o.out)
           n == o.next
           x == bs[n]
           y == [x EXCEPT !.piece = @ \o p]
           cs == [bs EXCEPT ![n] = y]
<1>1. /\ DOMAIN q = AnthropicFields /\ q.out = Append(o.out, e) /\ q.next = o.next
      /\ q.open = o.open /\ q.textAt = o.textAt /\ q.thinkingAt = o.thinkingAt
      /\ q.toolBlock = o.toolBlock /\ Rest(q, o)
  BY DEF Delta, WriteEvent, Laid, AnthropicFields, Rest
<1>2. e.ev = "block_delta" /\ e.index = o.open /\ e.piece = p
  OBVIOUS
<1>3. /\ BlockList(bs) /\ ListOK(bs) /\ IsSeq(bs) /\ Len(bs) = n /\ n \in Nat /\ o.open + 1 = n
      /\ n >= 1 /\ n \in 1..n /\ IsSeq(o.out) /\ OpenFits(o, x)
  BY DEF Laid, BlockList, ListOK, OpenFits, Known
<1>4. DOMAIN x = BlockFields /\ IsSeq(Body(x)) /\ x.type \in BlockTypes
  BY <1>3 DEF BlockList, ListOK
<1> HIDE DEF q, e
<1>5. IsSeq(q.out) /\ Blocks(q.out) = ReadBlock(bs, e)
  BY <1>1, <1>3, Appended, BlocksGrow
<1>6. ReadBlock(bs, e) = cs
  <2>1. ReadBlock(bs, e) = [bs EXCEPT ![o.open + 1].piece = @ \o p]
    BY <1>2 DEF ReadBlock
  <2> HIDE DEF bs, n
  <2> QED BY <1>3, <2>1
<1>7. y.type = x.type /\ y.id = x.id /\ y.name = x.name /\ y.piece = x.piece \o p
      /\ DOMAIN y = BlockFields
  <2> HIDE DEF x
  <2> QED BY <1>4 DEF BlockFields
<1>8. IsSeq(cs) /\ Len(cs) = n /\ cs[n] = y /\ \A k \in 1..n : k # n => cs[k] = bs[k]
  <2>1. PICK S : bs \in Seq(S)
    BY <1>3 DEF IsSeq
  <2> DEFINE T == S \cup {y}
  <2> HIDE DEF y, bs, n
  <2>2. bs \in Seq(T) /\ y \in T
    BY <2>1
  <2> HIDE DEF T
  <2>3. cs \in Seq(T) /\ Len(cs) = n /\ cs[n] = y /\ \A k \in 1..n : k # n => cs[k] = bs[k]
    BY <1>3, <2>2
  <2> QED BY <2>3 DEF IsSeq
<1> HIDE DEF cs, y
<1>9. GoesOn(y, x, p)
  BY <1>4, <1>7 DEF GoesOn, Body, AsCall, BlockFields
<1>10. Grown(cs, bs, x.type, p)
  <2>1. \A i \in 1..Len(bs) : i > n => bs[i].type # bs[n].type
    <3> HIDE DEF bs, n
    <3> QED BY <1>3
  <2>2. x = bs[n]
    OBVIOUS
  <2> HIDE DEF bs, n, x
  <2> QED BY <1>3, <1>8, <1>9, <2>1, <2>2, Growing
<1>11. BlockList(cs)
  <2>1. ListOK(cs)
    BY <1>10 DEF Grown
  <2> HIDE DEF x, bs, n
  <2>2. \A k \in 1..n : DOMAIN cs[k] = BlockFields /\ cs[k].type \in BlockTypes
    BY <1>3, <1>4, <1>7, <1>8 DEF BlockList
  <2> QED BY <1>8, <2>1, <2>2 DEF BlockList
<1>12. OpenFits(q, cs[n])
  BY <1>1, <1>3, <1>7, <1>8 DEF OpenFits
<1>13. Laid(q)
  <2>1. /\ Known(q.open, q.next) /\ Known(q.textAt, q.next) /\ Known(q.thinkingAt, q.next)
        /\ \A t \in DOMAIN q.toolBlock : q.toolBlock[t] \in Nat /\ q.toolBlock[t] < q.next
    BY <1>1 DEF Laid
  <2> QED BY <1>1, <1>3, <1>5, <1>6, <1>8, <1>11, <1>12, <2>1 DEF Laid
<1> QED BY <1>1, <1>5, <1>6, <1>10, <1>13 DEF q

\* The parts of one type say p more, all the others what they said.
Further(q, s, type, p) ==
  /\ Laid(q) /\ Rest(q, s) /\ DOMAIN q.toolBlock \subseteq DOMAIN s.toolBlock
  /\ Join(Blocks(q.out), type) = Join(Blocks(s.out), type) \o p
  /\ \A U : U # type => /\ Join(Blocks(q.out), U) = Join(Blocks(s.out), U)
                        /\ CallsIn(Blocks(q.out), U) = CallsIn(Blocks(s.out), U)

\* A piece of reasoning, and of text, is what the client reads more.
LEMMA PutThinkingSays ==
  ASSUME NEW s, Laid(s), NEW p, IsSeq(p)
  PROVE  Further(PutThinking(s, p), s, "thinking", p)
<1> DEFINE q == PutThinking(s, p)
           bs == Blocks(s.out)
<1>1. CASE Active(s, s.thinkingAt)
  <2>1. q = Delta(s, s.open, "thinking", p) /\ s.open # None
    BY <1>1 DEF PutThinking, Active
  <2>2. bs[s.next].type = "thinking"
    BY <1>1, <2>1 DEF Laid, OpenFits, Active
  <2> HIDE DEF q
  <2>3. /\ Laid(q) /\ Rest(q, s) /\ q.open = s.open /\ q.toolBlock = s.toolBlock
        /\ Grown(Blocks(q.out), bs, bs[s.next].type, p)
    BY <2>1, Writes
  <2> QED BY <2>2, <2>3 DEF Further, Grown, q
<1>2. CASE ~Active(s, s.thinkingAt)
  <2> DEFINE block == [NoBlock EXCEPT !.type = "thinking"]
             b == OpenBlock(s, block)
             o == [b EXCEPT !.thinkingAt = s.next]
  <2>1. q = Delta(o, o.thinkingAt, "thinking", p)
    BY <1>2 DEF PutThinking
  <2>2. block.type = "thinking"
    BY DEF NoBlock
  <2>3. NowOpen(b, s, block)
    BY Opens
  <2> HIDE DEF b, block
  <2>4. OwnedBy(o, b, block.type) /\ o.thinkingAt = b.open /\ o.toolBlock = b.toolBlock
    BY <2>2, <2>3 DEF OwnedBy, NowOpen, AnthropicFields, Rest
  <2> HIDE DEF o
  <2>5. /\ Laid(o) /\ o.open # None /\ Rest(o, s)
        /\ Added(Blocks(o.out), bs, NewBlock(block))
        /\ Blocks(o.out)[o.next].type = block.type
    BY <2>2, <2>3, <2>4, Owning DEF BlockTypes
  <2>6. q = Delta(o, o.open, "thinking", p)
    BY <2>1, <2>4 DEF OwnedBy
  <2> HIDE DEF q
  <2>7. /\ Laid(q) /\ Rest(q, o) /\ q.toolBlock = o.toolBlock
        /\ Grown(Blocks(q.out), Blocks(o.out), "thinking", p)
    BY <2>2, <2>5, <2>6, Writes
  <2>8. DOMAIN q.toolBlock \subseteq DOMAIN s.toolBlock
    BY <2>3, <2>4, <2>7 DEF NowOpen
  <2>9. NewBlock(block).type = "thinking"
    BY <2>2 DEF NewBlock
  <2>10. /\ \A U : Join(Blocks(o.out), U) = Join(bs, U)
         /\ \A U : U # "thinking" => CallsIn(Blocks(o.out), U) = CallsIn(bs, U)
    BY <2>5, <2>9 DEF Added
  <2>11. Rest(q, s)
    BY <2>5, <2>7 DEF Rest
  <2> HIDE DEF bs
  <2> QED BY <2>7, <2>8, <2>10, <2>11 DEF Further, Grown, bs, q
<1> QED BY <1>1, <1>2

LEMMA PutTextSays ==
  ASSUME NEW s, Laid(s), NEW p, IsSeq(p)
  PROVE  Further(PutText(s, p), s, "text", p)
<1> DEFINE q == PutText(s, p)
           bs == Blocks(s.out)
<1>1. CASE Active(s, s.textAt)
  <2>1. q = Delta(s, s.open, "text", p) /\ s.open # None
    BY <1>1 DEF PutText, Active
  <2>2. bs[s.next].type = "text"
    BY <1>1, <2>1 DEF Laid, OpenFits, Active
  <2> HIDE DEF q
  <2>3. /\ Laid(q) /\ Rest(q, s) /\ q.open = s.open /\ q.toolBlock = s.toolBlock
        /\ Grown(Blocks(q.out), bs, bs[s.next].type, p)
    BY <2>1, Writes
  <2> QED BY <2>2, <2>3 DEF Further, Grown, q
<1>2. CASE ~Active(s, s.textAt)
  <2> DEFINE block == [NoBlock EXCEPT !.type = "text"]
             b == OpenBlock(s, block)
             o == [b EXCEPT !.textAt = s.next]
  <2>1. q = Delta(o, o.textAt, "text", p)
    BY <1>2 DEF PutText
  <2>2. block.type = "text"
    BY DEF NoBlock
  <2>3. NowOpen(b, s, block)
    BY Opens
  <2> HIDE DEF b, block
  <2>4. OwnedBy(o, b, block.type) /\ o.textAt = b.open /\ o.toolBlock = b.toolBlock
    BY <2>2, <2>3 DEF OwnedBy, NowOpen, AnthropicFields, Rest
  <2> HIDE DEF o
  <2>5. /\ Laid(o) /\ o.open # None /\ Rest(o, s)
        /\ Added(Blocks(o.out), bs, NewBlock(block))
        /\ Blocks(o.out)[o.next].type = block.type
    BY <2>2, <2>3, <2>4, Owning DEF BlockTypes
  <2>6. q = Delta(o, o.open, "text", p)
    BY <2>1, <2>4 DEF OwnedBy
  <2> HIDE DEF q
  <2>7. /\ Laid(q) /\ Rest(q, o) /\ q.toolBlock = o.toolBlock
        /\ Grown(Blocks(q.out), Blocks(o.out), "text", p)
    BY <2>2, <2>5, <2>6, Writes
  <2>8. DOMAIN q.toolBlock \subseteq DOMAIN s.toolBlock
    BY <2>3, <2>4, <2>7 DEF NowOpen
  <2>9. NewBlock(block).type = "text"
    BY <2>2 DEF NewBlock
  <2>10. /\ \A U : Join(Blocks(o.out), U) = Join(bs, U)
         /\ \A U : U # "text" => CallsIn(Blocks(o.out), U) = CallsIn(bs, U)
    BY <2>5, <2>9 DEF Added
  <2>11. Rest(q, s)
    BY <2>5, <2>7 DEF Rest
  <2> HIDE DEF bs
  <2> QED BY <2>7, <2>8, <2>10, <2>11 DEF Further, Grown, bs, q
<1> QED BY <1>1, <1>2

-----------------------------------------------------------------------------
(* An Anthropic client: the calls. *)

\* The blocks say text, thinking and the calls h, which the translator has gathered.
Talks(s, text, thinking, h) ==
  /\ Laid(s) /\ Join(Blocks(s.out), "text") = text /\ Join(Blocks(s.out), "thinking") = thinking
  /\ CallsAgree(CallsIn(Blocks(s.out), "tool_use"), h)
  /\ OwnIds(CallsIn(Blocks(s.out), "tool_use"))
  /\ Gathered(s.tools, h) /\ DOMAIN s.toolBlock \subseteq 0..(Len(h) - 1)

Kept3(q, s) ==
  q.failed = s.failed /\ q.usage = s.usage /\ q.thinking = s.thinking /\ q.stop = s.stop

\* The state with the delta gathered.
Gathering(m, s, d) ==
  /\ DOMAIN m = AnthropicFields /\ m.out = s.out /\ m.open = s.open /\ m.next = s.next
  /\ m.textAt = s.textAt /\ m.thinkingAt = s.thinkingAt
  /\ m.toolBlock = s.toolBlock /\ m.tools = Ingest(s.tools, d) /\ Kept3(m, s)

LEMMA GatheringIs ==
  ASSUME NEW s, Laid(s), NEW d
  PROVE  /\ Gathering([s EXCEPT !.tools = Ingest(@, d)], s, d)
         /\ Laid([s EXCEPT !.tools = Ingest(@, d)])
<1> DEFINE m == [s EXCEPT !.tools = Ingest(@, d)]
<1>1. Gathering(m, s, d)
  <2> DEFINE c == Ingest(s.tools, d)
  <2>1. m = [s EXCEPT !.tools = c]
    OBVIOUS
  <2> HIDE DEF c
  <2>2. /\ DOMAIN m = AnthropicFields /\ m.out = s.out /\ m.open = s.open /\ m.next = s.next
        /\ m.textAt = s.textAt /\ m.thinkingAt = s.thinkingAt
        /\ m.toolBlock = s.toolBlock /\ m.tools = c /\ Kept3(m, s)
    BY <2>1 DEF Laid, AnthropicFields, Kept3
  <2> HIDE DEF m
  <2> QED BY <2>2 DEF Gathering, c
<1> HIDE DEF m
<1>2. Laid(m)
  BY <1>1 DEF Gathering, Laid, OpenFits
<1> QED BY <1>1, <1>2 DEF m

\* _emit_tool_deltas begins a block for a call.
LEMMA BeginBlock ==
  ASSUME NEW s, NEW text, NEW thinking, NEW h, Talks(s, text, thinking, h),
         NEW d, Begins(d, Len(h)), IsSeq(d.args)
  PROVE  LET q == PutTool(s, d)
         IN  /\ Talks(q, text, thinking, Append(h, CallOf(d))) /\ InCall(q, Len(h))
             /\ Kept3(q, s)
<1> DEFINE n == Len(h)
           m == [s EXCEPT !.tools = Ingest(@, d)]
           call == m.tools[n]
           block == [type |-> "tool_use", name |-> call.name, id |-> Default(call.id, "toolu", n)]
           b == OpenBlock(m, block)
           o == [b EXCEPT !.toolBlock = With(@, n, m.next)]
           q == PutTool(s, d)
           g == Append(h, CallOf(d))
           bs == Blocks(s.out)
           w == Delta(o, o.toolBlock[n], "input_json", d.args)
<1>1. /\ Laid(s) /\ Join(bs, "text") = text /\ Join(bs, "thinking") = thinking
      /\ CallsAgree(CallsIn(bs, "tool_use"), h) /\ Gathered(s.tools, h)
      /\ DOMAIN s.toolBlock \subseteq 0..(n - 1) /\ OwnIds(CallsIn(bs, "tool_use"))
  BY DEF Talks
<1>2. Gathering(m, s, d) /\ Laid(m)
  BY <1>1, GatheringIs
<1>3. Gathered(m.tools, g)
  BY <1>1, <1>2, GathersBegun DEF Gathering
<1>4. n \in Nat /\ IsSeq(h) /\ Len(g) = n + 1 /\ g[n + 1] = CallOf(d)
  BY <1>1, Appended DEF CallsAgree
<1>5. n \notin DOMAIN s.toolBlock /\ n \notin DOMAIN m.toolBlock
  BY <1>1, <1>2, <1>4 DEF Gathering
<1>6. d.index = n /\ d.name # None /\ call.name = d.name /\ call.id = d.id
  <2>1. n \in 0..(Len(g) - 1)
    BY <1>4
  <2>2. GatheredCall(call, g[n + 1], n)
    <3> HIDE DEF m, n, g
    <3> QED BY <1>3, <2>1 DEF Gathered
  <2> HIDE DEF call, n
  <2>3. d.index = n /\ d.name # None
    BY DEF Begins, n
  <2> QED BY <1>4, <2>2, <2>3, CallFields DEF GatheredCall
<1>7. q = IF d.args = <<>> THEN o ELSE w
  <2>1. ~Active(m, None)
    BY DEF Active
  <2>2. \E x \in {m} : q = IF d.args = <<>> THEN o ELSE w
    BY <1>5, <1>6, <2>1 DEF PutTool
  <2> QED BY <2>2
<1>8. block.type = "tool_use" /\ block.name = d.name /\ (d.id # <<>> => block.id = d.id)
  BY <1>6 DEF Default
<1>19. OwnId(block.id, n)
  <2>1. d.id = <<>> \/ \E p : d.id = <<"id", p, n>>
    BY DEF Begins
  <2>2. block.id = Default(d.id, "toolu", n)
    BY <1>6
  <2> HIDE DEF block, n
  <2> QED BY <2>1, <2>2, OwnDefault
<1> HIDE DEF block, m, call
<1>9. NowOpen(b, m, block)
  BY <1>2, Opens
<1> HIDE DEF b
<1>10. OwnedBy(o, b, "tool_use") /\ o.toolBlock = With(b.toolBlock, n, b.open)
  <2>1. /\ o.toolBlock = With(b.toolBlock, n, b.open) /\ DOMAIN o = AnthropicFields
        /\ o.out = b.out /\ o.open = b.open /\ o.next = b.next /\ Rest(o, b)
        /\ o.textAt = b.textAt /\ o.thinkingAt = b.thinkingAt
    BY <1>9 DEF NowOpen, AnthropicFields, Rest
  <2> HIDE DEF o
  <2>2. \A t \in DOMAIN o.toolBlock : \/ t \in DOMAIN b.toolBlock /\ o.toolBlock[t] = b.toolBlock[t]
                                      \/ o.toolBlock[t] = b.open
    BY <2>1 DEF With
  <2> QED BY <2>1, <2>2 DEF OwnedBy
<1> HIDE DEF o
<1>11. /\ Laid(o) /\ o.open # None /\ Rest(o, m) /\ o.open = m.next
       /\ Added(Blocks(o.out), Blocks(m.out), NewBlock(block))
       /\ Blocks(o.out)[o.next].type = block.type
  BY <1>2, <1>8, <1>9, <1>10, Owning DEF BlockTypes
<1>12. InCall(o, n) /\ o.toolBlock[n] = o.open
  <2>1. n \in DOMAIN o.toolBlock /\ o.toolBlock[n] = b.open /\ o.open = b.open
    BY <1>10 DEF With, OwnedBy
  <2> QED BY <1>11, <2>1 DEF InCall
<1>13. DOMAIN o.toolBlock \subseteq 0..(Len(g) - 1)
  <2>1. DOMAIN b.toolBlock \subseteq 0..(n - 1)
    BY <1>1, <1>2, <1>9 DEF NowOpen, Gathering
  <2>2. DOMAIN o.toolBlock = DOMAIN b.toolBlock \cup {n}
    BY <1>10 DEF With
  <2> HIDE DEF n, g
  <2> QED BY <1>4, <2>1, <2>2
<1> DEFINE x == AsCall(NewBlock(block))
           cs == CallsIn(bs, "tool_use")
           e == <<>>
<1>14. x.name = d.name /\ x.args = e /\ (d.id # <<>> => x.id = d.id) /\ x.id = block.id
  BY <1>8 DEF NewBlock, AsCall, Body
<1>20. OwnIds(Append(cs, x))
  <2>1. IsSeq(cs) /\ Len(cs) = n /\ OwnIds(cs)
    BY <1>1 DEF CallsAgree
  <2> HIDE DEF x, cs, n
  <2> QED BY <1>14, <1>19, <2>1, OwnAppends
<1>15. /\ Join(Blocks(o.out), "text") = text /\ Join(Blocks(o.out), "thinking") = thinking
       /\ CallsIn(Blocks(o.out), "tool_use") = Append(cs, x)
  <2>1. NewBlock(block).type = "tool_use" /\ Blocks(m.out) = bs
    BY <1>2, <1>8 DEF NewBlock, Gathering
  <2> HIDE DEF bs
  <2> QED BY <1>1, <1>11, <2>1 DEF Added
<1>16. Gathered(o.tools, g) /\ Kept3(o, s)
  BY <1>2, <1>3, <1>11 DEF Rest, Gathering, Kept3
<1> HIDE DEF x, cs, q
<1>17. CASE d.args = e
  <2>1. SameCall(x, CallOf(d))
    BY <1>6, <1>14, <1>17, CallFields DEF SameCall
  <2>2. CallsAgree(Append(cs, x), g)
    BY <1>1, <2>1, AgreeAppend DEF cs
  <2>3. q = o
    BY <1>7, <1>17
  <2> HIDE DEF g, n, e
  <2> QED BY <1>11, <1>12, <1>13, <1>15, <1>16, <1>20, <2>2, <2>3 DEF Talks, q, g, n
<1>18. CASE d.args # e
  <2>1. w = Delta(o, o.open, "input_json", d.args)
    BY <1>12
  <2> HIDE DEF w
  <2>2. /\ Laid(w) /\ Rest(w, o) /\ w.open = o.open /\ w.toolBlock = o.toolBlock
        /\ Grown(Blocks(w.out), Blocks(o.out), "tool_use", d.args)
    BY <1>8, <1>11, <2>1, Writes
  <2>3. q = w
    BY <1>7, <1>18
  <2>4. LastGrows(Append(cs, x), CallsIn(Blocks(w.out), "tool_use"), d.args)
    BY <1>15, <2>2 DEF Grown
  <2>5. CallsAgree(CallsIn(Blocks(w.out), "tool_use"), g)
    <3>1. CallsAgree(cs, h)
      BY <1>1 DEF cs
    <3> HIDE DEF e
    <3> QED BY <1>6, <1>14, <2>4, <3>1, AgreeBegins DEF e
  <2>8. OwnIds(CallsIn(Blocks(w.out), "tool_use"))
    BY <1>20, <2>4, OwnExtends
  <2>6. /\ Join(Blocks(w.out), "text") = text /\ Join(Blocks(w.out), "thinking") = thinking
    BY <1>15, <2>2 DEF Grown
  <2>7. InCall(w, n) /\ Kept3(w, s) /\ Gathered(w.tools, g)
    BY <1>12, <1>16, <2>2 DEF InCall, Kept3, Rest
  <2> HIDE DEF g, n, e
  <2> QED BY <1>13, <2>2, <2>3, <2>5, <2>6, <2>7, <2>8 DEF Talks, q, g, n
<1> QED BY <1>17, <1>18

\* A call that goes on with nothing.
LEMMA AgreeStays ==
  ASSUME NEW cs, NEW h, CallsAgree(cs, h), Len(h) >= 1, NEW d, d.args = <<>>
  PROVE  CallsAgree(cs, Extends(h, d))
<1> DEFINE n == Len(h)
           g == Extends(h, d)
           x == h[n]
           y == [x EXCEPT !.args = @ \o d.args]
<1>1. IsSeq(h) /\ IsSeq(cs) /\ Len(cs) = n /\ \A k \in 1..n : SameCall(cs[k], h[k])
  BY DEF CallsAgree
<1>2. n \in Nat /\ n \in 1..n
  BY <1>1, Appended
<1>3. IsSeq(g) /\ Len(g) = n /\ g[n] = y /\ \A k \in 1..n : k # n => g[k] = h[k]
  <2>1. IsExtended(Extends(h, d), h, d)
    BY <1>1, Extended
  <2> QED BY <2>1 DEF IsExtended
<1>4. SameCall(cs[n], x) /\ WholeCall(x) /\ IsSeq(x.args)
  BY <1>1, <1>2 DEF SameCall, WholeCall
<1>5. x.args \o d.args = x.args
  BY <1>4, Concatenated
<1> HIDE DEF x
<1>6. y.id = x.id /\ y.name = x.name /\ y.args = x.args /\ DOMAIN y = DOMAIN x
  BY <1>4, <1>5 DEF WholeCall
<1> HIDE DEF y, g
<1>7. SameCall(cs[n], y)
  BY <1>4, <1>6 DEF SameCall, WholeCall
<1> HIDE DEF n
<1>8. \A k \in 1..n : SameCall(cs[k], g[k])
  BY <1>1, <1>3, <1>7
<1> QED BY <1>1, <1>3, <1>8 DEF CallsAgree, g

\* More of the call whose block is open is written into it.
LEMMA ContinueBlock ==
  ASSUME NEW s, NEW text, NEW thinking, NEW h, Talks(s, text, thinking, h), Len(h) >= 1,
         \A k \in 1..Len(h) : WholeCall(h[k]), InCall(s, Len(h) - 1),
         NEW d, Continues(d, Len(h) - 1), IsSeq(d.args)
  PROVE  LET q == PutTool(s, d)
         IN  /\ Talks(q, text, thinking, Extends(h, d)) /\ InCall(q, Len(h) - 1)
             /\ Kept3(q, s)
<1> DEFINE n == Len(h)
           i == n - 1
           m == [s EXCEPT !.tools = Ingest(@, d)]
           q == PutTool(s, d)
           g == Extends(h, d)
           bs == Blocks(s.out)
           cs == CallsIn(bs, "tool_use")
           w == Delta(m, m.toolBlock[i], "input_json", d.args)
<1>1. /\ Laid(s) /\ Join(bs, "text") = text /\ Join(bs, "thinking") = thinking
      /\ CallsAgree(cs, h) /\ Gathered(s.tools, h) /\ OwnIds(cs)
      /\ DOMAIN s.toolBlock \subseteq 0..(n - 1)
  BY DEF Talks
<1>2. Gathering(m, s, d) /\ Laid(m)
  BY <1>1, GatheringIs
<1>3. Gathered(m.tools, g)
  BY <1>1, <1>2, GathersMore DEF Gathering
<1>4. IsSeq(g) /\ Len(g) = n
  <2>1. IsExtended(Extends(h, d), h, d)
    BY <1>1, Extended DEF CallsAgree
  <2> QED BY <2>1 DEF IsExtended
<1>5. i \in DOMAIN s.toolBlock /\ s.toolBlock[i] = s.open /\ s.open # None /\ d.index = i
  BY DEF InCall, Continues
<1>6. i \in DOMAIN m.toolBlock /\ m.toolBlock[i] = m.open /\ m.open # None
      /\ Active(m, s.toolBlock[i]) /\ Blocks(m.out) = bs
  BY <1>2, <1>5 DEF Gathering, Active
<1>7. q = IF d.args = <<>> THEN m ELSE w
  BY <1>5, <1>6 DEF PutTool
<1> HIDE DEF m, n, i, q
<1>8. Kept3(m, s) /\ InCall(m, i) /\ DOMAIN m.toolBlock = DOMAIN s.toolBlock
  BY <1>2, <1>5, <1>6 DEF Gathering, InCall
<1>9. CASE d.args = <<>>
  <2>1. CallsAgree(cs, g)
    BY <1>1, <1>9, AgreeStays
  <2>2. q = m
    BY <1>7, <1>9
  <2> HIDE DEF g
  <2> QED BY <1>1, <1>2, <1>3, <1>4, <1>6, <1>8, <2>1, <2>2 DEF Talks, q, g, n, i
<1>10. CASE d.args # <<>>
  <2>1. w = Delta(m, m.open, "input_json", d.args)
    BY <1>6
  <2>2. Blocks(m.out)[m.next].type = "tool_use"
    BY <1>2, <1>6 DEF Laid, OpenFits
  <2> HIDE DEF w
  <2>3. /\ Laid(w) /\ Rest(w, m) /\ w.open = m.open /\ w.toolBlock = m.toolBlock
        /\ Grown(Blocks(w.out), bs, "tool_use", d.args)
    BY <1>2, <1>6, <2>1, <2>2, Writes
  <2>4. q = w
    BY <1>7, <1>10
  <2>5. CallsAgree(CallsIn(Blocks(w.out), "tool_use"), g)
    <3>1. LastGrows(cs, CallsIn(Blocks(w.out), "tool_use"), d.args)
      BY <2>3 DEF Grown
    <3> HIDE DEF cs
    <3> QED BY <1>1, <3>1, AgreeExtends
  <2>8. OwnIds(CallsIn(Blocks(w.out), "tool_use"))
    <3>1. LastGrows(cs, CallsIn(Blocks(w.out), "tool_use"), d.args)
      BY <2>3 DEF Grown
    <3> HIDE DEF cs
    <3> QED BY <1>1, <3>1, OwnExtends
  <2>6. /\ Join(Blocks(w.out), "text") = text /\ Join(Blocks(w.out), "thinking") = thinking
    BY <1>1, <2>3 DEF Grown
  <2>7. InCall(w, i) /\ Kept3(w, s) /\ Gathered(w.tools, g)
    BY <1>3, <1>8, <2>3 DEF InCall, Kept3, Rest
  <2> HIDE DEF g
  <2> QED BY <1>1, <1>4, <1>8, <2>3, <2>4, <2>5, <2>6, <2>7, <2>8 DEF Talks, q, g, n, i
<1> QED BY <1>9, <1>10

Puts(s, tools) == FoldLeft(PutTool, s, tools)
PutsWell(q, s, text, thinking, r, l, c) ==
  /\ Talks(q, text, thinking, c) /\ Kept3(q, s)
  /\ IF l.tools = <<>> THEN q = s /\ c = r.calls ELSE InCall(q, Len(c) - 1)

\* The calls of a line are put one after the other.
LEMMA PutsCalls ==
  ASSUME NEW s, NEW text, NEW thinking, NEW r, ReplyOK(r), Talks(s, text, thinking, r.calls),
         NEW l, NEW m, NEW c, Telling(l, r, m, c),
         (l.reasoning = <<>> /\ l.text = <<>> /\ r.calling) => InCall(s, Len(r.calls) - 1)
  PROVE  PutsWell(Puts(s, l.tools), s, text, thinking, r, l, c)
<1> DEFINE n == Len(r.calls)
           t == l.tools
           h == r.calls
           q == Puts(s, l.tools)
<1>0. q = FoldLeft(PutTool, s, t)
  BY DEF Puts
<1> HIDE DEF q
<1>1. IsSeq(h) /\ n \in Nat /\ \A k \in 1..n : WholeCall(h[k])
  BY Appended DEF ReplyOK
<1>2. CASE t = <<>> /\ c = h
  <2>1. DOMAIN t = {}
    BY <1>2
  <2> HIDE DEF t
  <2>2. q = s
    BY <1>0, <2>1, PutTools
  <2> HIDE DEF h
  <2> QED BY <1>2, <2>2 DEF Kept3, t, h, q, PutsWell
<1>3. ASSUME NEW d, t = <<d>>, IsSeq(d.args), Begins(d, n), c = Append(h, CallOf(d))
      PROVE  Talks(q, text, thinking, c) /\ Kept3(q, s) /\ InCall(q, Len(c) - 1)
  <2>1. DOMAIN t = {1} /\ t[1] = d
    BY <1>3
  <2>2. DOMAIN t # {}
    BY <2>1
  <2> HIDE DEF t
  <2>3. q = PutTool(s, d)
    BY <1>0, <2>1, <2>2, PutTools
  <2>4. Talks(PutTool(s, d), text, thinking, c) /\ InCall(PutTool(s, d), n) /\ Kept3(PutTool(s, d), s)
    BY <1>3, BeginBlock
  <2>5. Len(c) - 1 = n
    <3> HIDE DEF h, n
    <3>1. Len(c) = Len(h) + 1
      BY <1>1, <1>3, Appended
    <3>2. Len(h) = n
      BY DEF n, h
    <3> QED BY <1>1, <3>1, <3>2
  <2> HIDE DEF h, n
  <2> QED BY <2>3, <2>4, <2>5
<1>4. ASSUME NEW d, NEW e, t = <<d, e>>, IsSeq(d.args), IsSeq(e.args), Begins(d, n),
             Begins(e, n + 1), c = Append(Append(h, CallOf(d)), CallOf(e))
      PROVE  Talks(q, text, thinking, c) /\ Kept3(q, s) /\ InCall(q, Len(c) - 1)
  <2>1. DOMAIN t = {1, 2} /\ t[1] = d /\ t[2] = e
    BY <1>4
  <2>2. DOMAIN t # {} /\ DOMAIN t # {1}
    BY <2>1
  <2> HIDE DEF t
  <2> DEFINE x == PutTool(s, d)
             g == Append(h, CallOf(d))
  <2>3. q = PutTool(x, e)
    BY <1>0, <2>1, <2>2, PutTools
  <2>4. Talks(x, text, thinking, g) /\ Kept3(x, s)
    BY <1>4, BeginBlock
  <2>5. Len(h) = n
    OBVIOUS
  <2> HIDE DEF h, n
  <2>6. Len(g) = n + 1 /\ IsSeq(g)
    BY <1>1, <2>5, Appended
  <2> HIDE DEF x, g
  <2>7. /\ Talks(PutTool(x, e), text, thinking, Append(g, CallOf(e)))
        /\ InCall(PutTool(x, e), Len(g)) /\ Kept3(PutTool(x, e), x)
    <3>1. Begins(e, Len(g))
      BY <1>4, <2>6
    <3> QED BY <1>4, <2>4, <3>1, BeginBlock
  <2>8. c = Append(g, CallOf(e)) /\ Len(c) - 1 = Len(g)
    <3>1. c = Append(g, CallOf(e))
      BY <1>4 DEF g
    <3>2. Len(c) = Len(g) + 1
      BY <2>6, <3>1, Appended
    <3> QED BY <1>1, <2>6, <3>1, <3>2
  <2>9. Kept3(q, s)
    BY <2>3, <2>4, <2>7 DEF Kept3
  <2> QED BY <2>3, <2>7, <2>8, <2>9
<1>5. ASSUME NEW d, t = <<d>>, IsSeq(d.args), Continues(d, n - 1), n >= 1, r.calling,
             l.reasoning = <<>>, l.text = <<>>, c = Extends(h, d)
      PROVE  Talks(q, text, thinking, c) /\ Kept3(q, s) /\ InCall(q, Len(c) - 1)
  <2>1. DOMAIN t = {1} /\ t[1] = d
    BY <1>5
  <2>2. DOMAIN t # {}
    BY <2>1
  <2> HIDE DEF t
  <2>3. q = PutTool(s, d)
    BY <1>0, <2>1, <2>2, PutTools
  <2>4. InCall(s, n - 1)
    BY <1>5
  <2>5. /\ Talks(PutTool(s, d), text, thinking, c) /\ InCall(PutTool(s, d), n - 1)
        /\ Kept3(PutTool(s, d), s)
    BY <1>1, <1>5, <2>4, ContinueBlock
  <2>6. Len(c) = n
    <3>1. IsExtended(Extends(h, d), h, d)
      BY <1>1, <1>5, Extended
    <3> QED BY <1>5, <3>1 DEF IsExtended
  <2> HIDE DEF h, n
  <2> QED BY <2>3, <2>5, <2>6
<1>6. t # <<>> <=> l.tools # <<>>
  OBVIOUS
<1>7. /\ \A d : <<d>> # <<>>
      /\ \A d, e : <<d, e>> # <<>>
  OBVIOUS
<1> HIDE DEF h, n
<1>8. Telling(l, r, m, c)
  OBVIOUS
<1>9. \/ t = <<>> /\ c = h
      \/ \E d : /\ t = <<d>> /\ Begins(d, n) /\ IsSeq(d.args) /\ c = Append(h, CallOf(d))
      \/ \E d, e : /\ t = <<d, e>> /\ Begins(d, n) /\ Begins(e, n + 1)
                   /\ IsSeq(d.args) /\ IsSeq(e.args)
                   /\ c = Append(Append(h, CallOf(d)), CallOf(e))
      \/ \E d : /\ t = <<d>> /\ Continues(d, n - 1) /\ n >= 1 /\ r.calling
                /\ IsSeq(d.args) /\ l.reasoning = <<>> /\ l.text = <<>> /\ c = Extends(h, d)
  BY <1>8 DEF Telling, h, n
<1> HIDE DEF t
<1>10. CASE t = <<>>
  <2>1. c = h
    BY <1>7, <1>9, <1>10
  <2> QED BY <1>2, <1>10, <2>1 DEF t, h
<1>11. CASE t # <<>>
  <2>1. Talks(q, text, thinking, c) /\ Kept3(q, s) /\ InCall(q, Len(c) - 1)
    BY <1>3, <1>4, <1>5, <1>9, <1>11
  <2> QED BY <1>6, <1>11, <2>1 DEF t, q, PutsWell
<1> QED BY <1>10, <1>11

\* The blocks say what they said and p more of one type that is no call.
LEMMA FurtherTalks ==
  ASSUME NEW s, NEW text, NEW thinking, NEW h, Talks(s, text, thinking, h),
         NEW q, NEW type, NEW p, Further(q, s, type, p), type \in {"text", "thinking"}
  PROVE  /\ type = "text" => Talks(q, text \o p, thinking, h)
         /\ type = "thinking" => Talks(q, text, thinking \o p, h)
         /\ Kept3(q, s)
<1>1. "text" # "thinking" /\ "tool_use" # "text" /\ "tool_use" # "thinking"
  OBVIOUS
<1>2. CallsIn(Blocks(q.out), "tool_use") = CallsIn(Blocks(s.out), "tool_use")
  BY <1>1 DEF Further
<1>3. Laid(q) /\ q.tools = s.tools /\ DOMAIN q.toolBlock \subseteq 0..(Len(h) - 1) /\ Kept3(q, s)
  BY DEF Further, Rest, Talks, Kept3
<1> QED BY <1>1, <1>2, <1>3 DEF Talks, Further

\* The client of an open Anthropic stream has r: its reasoning if it asked for it.
Seen(s, r) == IF s.thinking THEN r.reasoning ELSE <<>>
Stopping(r) == IF r.finish = None THEN "end_turn" ELSE StopReason(r.finish)
AnthropicHas(s, r) ==
  /\ ~r.error => s.stop = Stopping(r)
  /\ Talks(s, r.text, Seen(s, r), r.calls)
  /\ s.failed = r.error /\ s.usage = r.usage /\ (s.thinking <=> Thinking)
  /\ r.calling /\ ~r.error => InCall(s, Len(r.calls) - 1)

\* What a line says of the usage and of the end changes no block.
Noting(q, s, u) ==
  /\ DOMAIN q = AnthropicFields /\ q.out = s.out /\ q.failed = s.failed /\ q.next = s.next
  /\ q.open = s.open /\ q.textAt = s.textAt /\ q.thinkingAt = s.thinkingAt
  /\ q.toolBlock = s.toolBlock /\ q.tools = s.tools /\ q.usage = u /\ q.thinking = s.thinking

LEMMA NotedTalks ==
  ASSUME NEW s, NEW text, NEW thinking, NEW h, Talks(s, text, thinking, h), NEW u, NEW q,
         Noting(q, s, u)
  PROVE  Talks(q, text, thinking, h)
<1>1. Laid(q)
  BY DEF Talks, Laid, OpenFits, Noting
<1> QED BY <1>1 DEF Talks, Noting

\* An event that is none of a block's is not read.
LEMMA OtherEvent ==
  ASSUME NEW s, Laid(s), NEW e, e.ev \notin {"block_start", "block_delta"}, NEW q,
         DOMAIN q = AnthropicFields, q.out = Append(s.out, e), q.next = s.next,
         q.open = s.open, q.textAt = s.textAt, q.thinkingAt = s.thinkingAt,
         q.toolBlock = s.toolBlock
  PROVE  Laid(q) /\ Blocks(q.out) = Blocks(s.out)
<1>1. IsSeq(s.out) /\ IsSeq(q.out)
  BY Appended DEF Laid
<1>2. Blocks(q.out) = ReadBlock(Blocks(s.out), e)
  BY <1>1, BlocksGrow
<1>3. Blocks(q.out) = Blocks(s.out)
  BY <1>2 DEF ReadBlock
<1> QED BY <1>1, <1>3 DEF Laid, OpenFits

\* A line is translated.
LEMMA AnthropicReads ==
  ASSUME NEW s, NEW r, ReplyOK(r), AnthropicHas(s, r), r.error = FALSE, NEW l, NEW m, Line(l, r, m)
  PROVE  AnthropicHas(AnthropicLine(s, l), Hear(r, l))
<1> DEFINE p == Parse(l)
           q == AnthropicLine(s, l)
           h == Hear(r, l)
           usage == IF p.usage # None THEN p.usage ELSE s.usage
           stop == IF p.finish # None THEN StopReason(p.finish) ELSE s.stop
           noted == [s EXCEPT !.usage = usage, !.stop = stop]
           think == p.reasoning # <<>> /\ s.thinking
           thought == IF think THEN PutThinking(noted, p.reasoning) ELSE noted
           spoken == IF p.text # <<>> THEN PutText(thought, p.text) ELSE thought
           e == <<>>
<1>1. /\ p.text = l.text /\ p.reasoning = l.reasoning /\ p.tools = l.tools /\ p.usage = l.usage
      /\ p.kind = "noise" => /\ l.text = e /\ l.reasoning = e /\ l.tools = e /\ l.usage = None
                             /\ l.finish = None
      /\ p.finish = l.finish
      /\ p.kind = "error" <=> l.kind = "error"
  BY ParsedUsage
<1>2. HeardWith(h, r, l, m)
  BY HearsReply
<1>3. /\ Talks(s, r.text, Seen(s, r), r.calls) /\ s.failed = FALSE /\ s.usage = r.usage
      /\ (s.thinking <=> Thinking) /\ (r.calling => InCall(s, Len(r.calls) - 1))
      /\ s.stop = Stopping(r)
  BY DEF AnthropicHas
<1>4. IsSeq(r.text) /\ IsSeq(r.reasoning) /\ IsSeq(l.text) /\ IsSeq(l.reasoning) /\ IsSeq(e)
      /\ IsSeq(Seen(s, r)) /\ r.text \o e = r.text /\ r.reasoning \o e = r.reasoning
  BY NothingIsSeq, Concatenated DEF ReplyOK, Line, Whole, Seen
<1>5. h.calling => \/ l.tools # e
                   \/ r.calling /\ l.reasoning = e /\ l.text = e
  BY Heard DEF ReplyOK, Line
<1>6. CASE p.kind = "noise"
  <2>1. q = s
    BY <1>6 DEF AnthropicLine
  <2>2. l.kind # "error"
    BY <1>1, <1>6
  <2>3. h.calls = r.calls
    <3>1. Telling(l, r, m, h.calls) /\ l.tools = e
      BY <1>1, <1>2, <1>6, <2>2 DEF HeardWith
    <3>2. (\A d : l.tools # <<d>>) /\ \A d, f : l.tools # <<d, f>>
      BY <3>1
    <3> QED BY <3>1, <3>2 DEF Telling
  <2> HIDE DEF e, h, q, p
  <2>4. h.text = r.text /\ h.reasoning = r.reasoning /\ h.usage = r.usage /\ h.error = FALSE
        /\ (h.calling => r.calling) /\ h.finish = r.finish
    BY <1>1, <1>2, <1>4, <1>5, <1>6, <2>2 DEF HeardWith
  <2>5. Seen(s, h) = Seen(s, r) /\ Stopping(h) = Stopping(r)
    BY <2>4 DEF Seen, Stopping
  <2> QED BY <1>3, <2>1, <2>3, <2>4, <2>5 DEF AnthropicHas, q, h
<1>7. CASE p.kind = "error"
  <2> DEFINE c == [ev |-> "error"]
  <2>1. /\ DOMAIN q = AnthropicFields /\ q.failed = TRUE /\ q.out = Append(s.out, c)
        /\ q.tools = s.tools /\ q.usage = s.usage /\ q.thinking = s.thinking
        /\ q.next = s.next /\ q.open = s.open /\ q.textAt = s.textAt
        /\ q.thinkingAt = s.thinkingAt /\ q.toolBlock = s.toolBlock
    BY <1>3, <1>7 DEF AnthropicLine, WriteEvent, Talks, Laid, AnthropicFields
  <2>2. c.ev \notin {"block_start", "block_delta"}
    OBVIOUS
  <2>3. h.text = r.text /\ h.reasoning = r.reasoning /\ h.usage = r.usage /\ h.error = TRUE
        /\ h.calls = r.calls
    BY <1>1, <1>2, <1>7 DEF HeardWith
  <2> HIDE DEF e, h, q, p, c
  <2>4. Laid(q) /\ Blocks(q.out) = Blocks(s.out)
    BY <1>3, <2>1, <2>2, OtherEvent DEF Talks
  <2>5. Seen(q, h) = Seen(s, r)
    BY <2>1, <2>3 DEF Seen
  <2>6. Talks(q, r.text, Seen(s, r), r.calls)
    BY <1>3, <2>1, <2>4 DEF Talks
  <2> QED BY <1>3, <2>1, <2>3, <2>5, <2>6 DEF AnthropicHas, q, h
<1>8. CASE p.kind \notin {"noise", "error"}
  <2>1. q = Puts(spoken, l.tools)
    BY <1>1, <1>3, <1>8 DEF AnthropicLine, Puts
  <2>2. l.kind # "error"
    BY <1>1, <1>8
  <2>3. /\ h.reasoning = r.reasoning \o l.reasoning /\ h.text = r.text \o l.text
        /\ Telling(l, r, m, h.calls) /\ h.error = FALSE
        /\ h.usage = (IF l.usage = None THEN r.usage ELSE l.usage)
        /\ h.finish = (IF l.finish = None THEN r.finish ELSE l.finish)
    BY <1>2, <2>2 DEF HeardWith
  <2>4. /\ Talks(noted, r.text, Seen(s, r), r.calls) /\ noted.usage = usage
        /\ noted.failed = FALSE /\ noted.thinking = s.thinking
        /\ noted.toolBlock = s.toolBlock /\ noted.open = s.open /\ noted.stop = stop
    <3> HIDE DEF usage, stop
    <3>1. Noting(noted, s, usage) /\ noted.stop = stop
      BY <1>3 DEF Noting, Talks, Laid, AnthropicFields
    <3> HIDE DEF noted
    <3>2. Talks(noted, r.text, Seen(s, r), r.calls)
      BY <1>3, <3>1, NotedTalks
    <3> QED BY <1>3, <3>1, <3>2 DEF Noting
  <2> HIDE DEF noted
  <2> DEFINE shown == IF think THEN Seen(s, r) \o l.reasoning ELSE Seen(s, r)
  <2>5. Talks(thought, r.text, shown, r.calls) /\ Kept3(thought, noted)
    <3>1. CASE think
      <4>1. thought = PutThinking(noted, l.reasoning)
        BY <1>1, <3>1
      <4>2. Further(thought, noted, "thinking", l.reasoning)
        <5> HIDE DEF thought
        <5> QED BY <1>4, <2>4, <4>1, PutThinkingSays DEF Talks
      <4> HIDE DEF thought
      <4> QED BY <2>4, <3>1, <4>2, FurtherTalks
    <3>2. CASE ~think
      BY <2>4, <3>2 DEF Kept3
    <3> QED BY <3>1, <3>2
  <2>6. (shown = Seen(q, h) /\ IsSeq(shown)) \/ q.thinking # s.thinking
    <3>1. CASE think /\ q.thinking = s.thinking
      BY <1>4, <2>3, <3>1, Concatenated DEF Seen
    <3>2. CASE ~think /\ q.thinking = s.thinking
      <4>1. ~s.thinking \/ l.reasoning = e
        BY <1>1, <3>2
      <4> HIDE DEF q, h, e
      <4> QED BY <1>4, <2>3, <3>2, <4>1 DEF Seen, e
    <3> QED BY <3>1, <3>2
  <2>7. think => l.reasoning # e
    BY <1>1
  <2>8. (l.reasoning = e /\ l.text = e) => spoken = noted
    BY <1>1
  <2>9. Talks(spoken, r.text \o l.text, shown, r.calls) /\ Kept3(spoken, noted)
    <3> HIDE DEF thought, shown
    <3>1. CASE l.text # e
      <4>1. spoken = PutText(thought, l.text)
        BY <1>1, <3>1
      <4>2. Further(spoken, thought, "text", l.text)
        <5> HIDE DEF spoken
        <5> QED BY <1>4, <2>5, <4>1, PutTextSays DEF Talks
      <4> HIDE DEF spoken
      <4>3. Talks(spoken, r.text \o l.text, shown, r.calls) /\ Kept3(spoken, thought)
        BY <2>5, <4>2, FurtherTalks
      <4> QED BY <2>5, <4>3 DEF Kept3
    <3>2. CASE l.text = e
      <4>1. spoken = thought
        BY <1>1, <3>2
      <4> QED BY <1>4, <2>5, <3>2, <4>1
    <3> QED BY <3>1, <3>2
  <2> HIDE DEF spoken, thought, shown, e
  <2>10. (l.reasoning = <<>> /\ l.text = <<>> /\ r.calling) => InCall(spoken, Len(r.calls) - 1)
    BY <1>3, <2>4, <2>8 DEF InCall, e
  <2>11. /\ Talks(q, r.text \o l.text, shown, h.calls) /\ Kept3(q, spoken)
         /\ IF l.tools = <<>> THEN q = spoken /\ h.calls = r.calls
            ELSE InCall(q, Len(h.calls) - 1)
    <3> HIDE DEF h, q
    <3>1. Telling(l, r, m, h.calls)
      BY <2>3
    <3>2. PutsWell(Puts(spoken, l.tools), spoken, r.text \o l.text, shown, r, l, h.calls)
      BY <2>9, <2>10, <3>1, PutsCalls
    <3> QED BY <2>1, <3>2 DEF PutsWell
  <2>12. h.calling => InCall(q, Len(h.calls) - 1)
    <3> HIDE DEF h, q
    <3> QED BY <1>5, <2>10, <2>11 DEF e
  <2>13. q.failed = FALSE /\ q.thinking = s.thinking /\ q.usage = h.usage /\ q.stop = Stopping(h)
    <3>1. q.failed = FALSE /\ q.thinking = s.thinking /\ q.usage = usage /\ q.stop = stop
      BY <2>4, <2>9, <2>11 DEF Kept3
    <3>2. usage = h.usage
      BY <1>1, <1>3, <2>3
    <3>3. stop = Stopping(h)
      BY <1>1, <1>3, <2>3 DEF Stopping
    <3> QED BY <3>1, <3>2, <3>3
  <2> HIDE DEF h, q
  <2> QED BY <1>3, <2>3, <2>6, <2>11, <2>12, <2>13 DEF AnthropicHas, q, h
<1> QED BY <1>6, <1>7, <1>8

\* No blocks, or items, say nothing.
LEMMA NothingSaid ==
  ASSUME NEW e, e = <<>>, NEW type
  PROVE  Join(e, type) = e /\ CallsIn(e, type) = e
<1>1. Len(e) = 0
  OBVIOUS
<1>2. Parts(e, type) = e /\ CallParts(e, type) = e
  BY <1>1 DEF Parts, CallParts
<1>3. FlattenSeq(e) = e
  BY <1>1 DEF FlattenSeq
<1>4. Join(e, type) = FlattenSeq(Parts(e, type)) /\ CallsIn(e, type) = FlattenSeq(CallParts(e, type))
  BY DEF Join, CallsIn, Parts, CallParts
<1> QED BY <1>2, <1>3, <1>4

LEMMA AnthropicStarts ==
  ASSUME dialect = "anthropic"
  PROVE  AnthropicHas(Start, Silence)
<1> DEFINE e == <<>>
           s == Start
           r == Silence
           x == [ev |-> "message_start"]
           out == <<x>>
<1>1. s = [out |-> out, stop |-> "end_turn", next |-> 0, open |-> None,
           tools |-> e, toolBlock |-> e, thinkingAt |-> None, textAt |-> None,
           thinking |-> Thinking, usage |-> NoUsage, failed |-> FALSE]
  BY DEF Start, AnthropicStart, NoCalls
<1>2. /\ DOMAIN s = AnthropicFields /\ s.out = out /\ s.tools = e /\ s.toolBlock = e
      /\ s.usage = NoUsage /\ s.failed = FALSE /\ (s.thinking <=> Thinking) /\ s.next = 0
      /\ s.open = None /\ s.textAt = None /\ s.thinkingAt = None /\ s.stop = "end_turn"
  <2> HIDE DEF e, out
  <2> QED BY <1>1 DEF AnthropicFields
<1>3. r.text = e /\ r.reasoning = e /\ r.calls = e /\ r.usage = NoUsage /\ r.error = FALSE
      /\ r.calling = FALSE /\ r.finish = None
  BY DEF Silence
<1>4. IsSeq(e) /\ Len(e) = 0 /\ DOMAIN e = 0..(0 - 1) /\ DOMAIN e = {} /\ Append(e, x) = out
  BY NothingIsSeq
<1>5. Seen(s, r) = e
  BY <1>3 DEF Seen
<1>6. x.ev = "message_start" /\ Blocks(e) = e
  BY NothingRead
<1> HIDE DEF s, r, x, out
<1>7. IsSeq(out) /\ Blocks(out) = e
  <2>1. Blocks(Append(e, x)) = ReadBlock(Blocks(e), x)
    BY <1>4, BlocksGrow
  <2> HIDE DEF e
  <2> QED BY <1>4, <1>6, <2>1, Appended DEF ReadBlock
<1>8. Join(e, "text") = e /\ Join(e, "thinking") = e /\ CallsIn(e, "tool_use") = e
  <2>1. e = <<>>
    OBVIOUS
  <2> HIDE DEF e
  <2> QED BY <2>1, NothingSaid
<1> HIDE DEF e
<1>9. BlockList(Blocks(out))
  BY <1>4, <1>7 DEF BlockList, ListOK
<1>10. Laid(s)
  BY <1>2, <1>4, <1>7, <1>9 DEF Laid, Known
<1>11. CallsAgree(e, e)
  BY AgreeNothing, <1>3 DEF e, r
<1>12. Gathered(s.tools, r.calls) /\ DOMAIN s.toolBlock \subseteq 0..(Len(r.calls) - 1)
  BY <1>2, <1>3, <1>4 DEF Gathered
<1>13. OwnIds(e)
  BY <1>4 DEF OwnIds
<1>14. Talks(s, r.text, e, r.calls)
  BY <1>2, <1>3, <1>7, <1>8, <1>10, <1>11, <1>12, <1>13 DEF Talks
<1> QED BY <1>2, <1>3, <1>5, <1>14 DEF AnthropicHas, Stopping, s, r

\* The client of an ended stream has r and its usage.
AnthropicDone(s, r) ==
  /\ s.failed = r.error /\ (s.thinking <=> Thinking) /\ BlockList(Blocks(s.out))
  /\ Join(Blocks(s.out), "text") = r.text /\ Join(Blocks(s.out), "thinking") = Seen(s, r)
  /\ CallsAgree(CallsIn(Blocks(s.out), "tool_use"), r.calls)
  /\ OwnIds(CallsIn(Blocks(s.out), "tool_use"))
  /\ ~r.error => /\ s.out[Len(s.out) - 1].usage = AnthropicUsage(r.usage)
                 /\ s.out[Len(s.out) - 1].stop = FinishToStop(r)

LEMMA AnthropicEnds ==
  ASSUME NEW s, NEW r, ReplyOK(r), AnthropicHas(s, r)
  PROVE  AnthropicDone(AnthropicClose(s), r)
<1> DEFINE q == AnthropicClose(s)
           c == CloseBlock(s)
           stop == IF HasCalls(s.tools) /\ s.stop = "end_turn" THEN "tool_use" ELSE s.stop
           d == [c EXCEPT !.stop = stop]
           x == [ev |-> "message_delta", stop |-> stop, usage |-> AnthropicUsage(d.usage)]
           y == [ev |-> "message_stop"]
<1>1. /\ Talks(s, r.text, Seen(s, r), r.calls) /\ s.failed = r.error /\ s.usage = r.usage
      /\ (s.thinking <=> Thinking) /\ (~r.error => s.stop = Stopping(r))
      /\ BlockList(Blocks(s.out))
  BY DEF AnthropicHas, Talks, Laid
<1>2. CASE s.failed
  <2>1. q = s
    BY <1>2 DEF AnthropicClose
  <2> QED BY <1>1, <1>2, <2>1 DEF AnthropicDone, Talks
<1>3. CASE ~s.failed
  <2>1. ClosedOf(c, s)
    BY <1>1, Closes DEF Talks
  <2>2. q = WriteEvent(WriteEvent(d, x), y)
    BY <1>3 DEF AnthropicClose, EndMessage
  <2>3. x.ev = "message_delta" /\ y.ev = "message_stop" /\ x.usage = AnthropicUsage(d.usage)
        /\ x.stop = stop
    OBVIOUS
  <2>13. stop = FinishToStop(r)
    <3>1. Gathered(s.tools, r.calls) /\ IsSeq(r.calls) /\ Len(r.calls) \in Nat
      BY <1>1, Appended DEF Talks, Gathered
    <3>2. HasCalls(s.tools) <=> Len(r.calls) # 0
      <4>1. DOMAIN s.tools = 0..(Len(r.calls) - 1) /\ \A k \in DOMAIN s.tools : s.tools[k].name # None
        BY <3>1 DEF Gathered, GatheredCall
      <4>2. Len(r.calls) # 0 => 0 \in DOMAIN s.tools
        BY <3>1, <4>1
      <4>3. Len(r.calls) = 0 => DOMAIN s.tools = {}
        BY <3>1, <4>1
      <4> QED BY <4>1, <4>2, <4>3 DEF HasCalls
    <3>3. r.calls = <<>> <=> Len(r.calls) = 0
      BY <3>1, EmptyParts
    <3>4. r.finish \in FinishReasons \cup {None} /\ None \notin FinishReasons
      BY StreamAssumption DEF ReplyOK
    <3>5. s.stop = Stopping(r)
      BY <1>1, <1>3
    <3> QED BY <3>2, <3>3, <3>4, <3>5 DEF FinishToStop, Stopping, StopReason, FinishReasons
  <2> HIDE DEF c, stop
  <2>4. /\ d.out = c.out /\ d.usage = s.usage /\ d.thinking = s.thinking /\ d.failed = s.failed
        /\ DOMAIN d = AnthropicFields
    BY <2>1 DEF ClosedOf, Laid, AnthropicFields, Rest
  <2> HIDE DEF d, x, y, q
  <2>5. /\ q.out = Append(Append(d.out, x), y) /\ q.failed = d.failed /\ q.thinking = d.thinking
    BY <2>2, <2>4 DEF WriteEvent, AnthropicFields
  <2> DEFINE o == Append(c.out, x)
  <2>6. IsSeq(c.out) /\ Blocks(c.out) = Blocks(s.out)
    BY <2>1 DEF ClosedOf, Laid
  <2>7. IsSeq(o) /\ Len(o) \in Nat /\ o[Len(o)] = x
    <3>1. /\ IsSeq(o) /\ Len(o) = Len(c.out) + 1 /\ o[Len(c.out) + 1] = x /\ Len(c.out) \in Nat
      BY <2>6, Appended
    <3> QED BY <3>1
  <2>8. Blocks(o) = Blocks(s.out)
    <3>1. Blocks(o) = ReadBlock(Blocks(c.out), x)
      BY <2>6, BlocksGrow
    <3> HIDE DEF o
    <3> QED BY <2>3, <2>6, <3>1 DEF ReadBlock
  <2> HIDE DEF o
  <2>9. q.out = Append(o, y)
    BY <2>4, <2>5 DEF o
  <2>10. Blocks(q.out) = Blocks(s.out)
    <3>1. Blocks(q.out) = ReadBlock(Blocks(o), y)
      BY <2>7, <2>9, BlocksGrow
    <3> QED BY <2>3, <2>8, <3>1 DEF ReadBlock
  <2>11. q.out[Len(q.out) - 1] = x
    <3>1. Len(q.out) = Len(o) + 1 /\ \A k \in 1..Len(o) : q.out[k] = o[k]
      BY <2>7, <2>9, Appended
    <3>2. Len(q.out) - 1 = Len(o)
      BY <2>7, <3>1
    <3>3. Len(o) >= 1
      <4>1. Len(o) = Len(c.out) + 1 /\ Len(c.out) \in Nat
        BY <2>6, Appended DEF o
      <4> QED BY <4>1
    <3>4. Len(o) \in 1..Len(o)
      BY <2>7, <3>3
    <3> QED BY <2>7, <3>1, <3>2, <3>4
  <2>12. Seen(q, r) = Seen(s, r)
    BY <2>4, <2>5 DEF Seen
  <2> QED BY <1>1, <2>3, <2>4, <2>5, <2>10, <2>11, <2>12, <2>13 DEF AnthropicDone, Talks, q
<1> QED BY <1>2, <1>3

AnthropicSees ==
  dialect = "anthropic" =>
    IF phase = "closed" THEN AnthropicDone(stream, said) ELSE AnthropicHas(stream, said)

LEMMA InitSees == Init => AnthropicSees
<1>0. dialect # "anthropic" => AnthropicSees
  BY DEF AnthropicSees
<1> SUFFICES ASSUME Init, dialect = "anthropic" PROVE AnthropicSees
  BY <1>0
<1>1. stream = Start /\ said = Silence
  BY DEF Init
<1>2. phase # "closed"
  BY DEF Init, Send
<1> QED BY <1>1, <1>2, AnthropicStarts DEF AnthropicSees

LEMMA NextSees == ReplyInv /\ AnthropicSees /\ [Next]_vars => AnthropicSees'
<1>0. ReplyInv /\ [Next]_vars /\ dialect # "anthropic" => AnthropicSees'
  <2>1. ReplyInv /\ [Next]_vars => dialect' = dialect
    BY Steps DEF ReplyInv, vars, Keeps, Reads, StreamEnds, ReplyBegins
  <2> QED BY <2>1 DEF AnthropicSees
<1> SUFFICES ASSUME ReplyInv, AnthropicSees, [Next]_vars, dialect = "anthropic"
             PROVE  AnthropicSees'
  BY <1>0
<1>1. ReplyOK(said)
  BY DEF ReplyInv
<1>2. CASE UNCHANGED vars
  BY <1>2 DEF AnthropicSees, AnthropicHas, AnthropicDone, vars, Thinking
<1>3. CASE Keeps
  <2>1. UNCHANGED <<stream, said, dialect, wish>> /\ phase # "closed" /\ phase' # "closed"
    BY <1>3 DEF Keeps
  <2> QED BY <2>1 DEF AnthropicSees, AnthropicHas, Thinking
<1>4. ASSUME NEW l, NEW m, Reads(l, m)
      PROVE  AnthropicSees'
  <2>1. /\ Line(l, said, m) /\ ~said.error /\ phase = "open" /\ phase' = "open"
        /\ stream' = AnthropicLine(stream, l) /\ said' = Hear(said, l)
        /\ UNCHANGED <<dialect, wish>>
    BY <1>4 DEF Reads, Translate
  <2>2. said.error = FALSE
    BY <1>1, <2>1 DEF ReplyOK
  <2>3. AnthropicHas(AnthropicLine(stream, l), Hear(said, l))
    BY <1>1, <2>1, <2>2, AnthropicReads DEF AnthropicSees
  <2>4. AnthropicHas(stream, said)'
    BY <2>1, <2>3 DEF AnthropicHas, Thinking
  <2> QED BY <2>1, <2>4 DEF AnthropicSees
<1>5. CASE StreamEnds
  <2>1. UNCHANGED <<said, dialect, wish>> /\ stream' = AnthropicClose(stream)
        /\ phase = "open" /\ phase' = "closed"
    BY <1>5 DEF StreamEnds, Close
  <2>2. AnthropicDone(AnthropicClose(stream), said)
    BY <1>1, <2>1, AnthropicEnds DEF AnthropicSees
  <2>3. AnthropicDone(stream, said)'
    BY <2>1, <2>2 DEF AnthropicDone, Thinking
  <2> QED BY <2>1, <2>3 DEF AnthropicSees
<1>6. CASE ReplyBegins
  <2>1. UNCHANGED <<dialect, wish>> /\ said' = Silence /\ stream' = Start /\ phase' # "closed"
    BY <1>6 DEF ReplyBegins
  <2>2. AnthropicHas(Start, Silence)
    BY AnthropicStarts
  <2>3. AnthropicHas(stream, said)'
    BY <2>1, <2>2 DEF AnthropicHas, Thinking
  <2> QED BY <2>1, <2>3 DEF AnthropicSees
<1> QED BY <1>1, <1>2, <1>3, <1>4, <1>5, <1>6, Steps

-----------------------------------------------------------------------------
(* A Responses client: the items and the translator's state. *)

ItemKeys == {"type", "id", "call_id", "name", "body"}
ItemTypes == {"message", "reasoning", "function_call"}
ItemIs(x) == /\ DOMAIN x = ItemKeys /\ x.type \in ItemTypes
             /\ x.type = "function_call" => x.name # None
ItemList(is) == ListOK(is) /\ \A k \in 1..Len(is) : ItemIs(is[k])

\* The item at an output index is of a type, and the last of it.
LastOf(is, at, type) ==
  /\ at \in Nat /\ at < Len(is) /\ is[at + 1].type = type
  /\ \A i \in 1..Len(is) : i > at + 1 => is[i].type # type

\* The state fits the items that the client has assembled: they say text, reasoning
\* and the calls h, which the translator has gathered.
Speaks(s, text, reasoning, h) ==
  /\ DOMAIN s = ResponsesFields /\ IsSeq(s.out)
  /\ ItemList(Items(s.out)) /\ Len(Items(s.out)) = s.next
  /\ Join(Items(s.out), "message") = text /\ Join(Items(s.out), "reasoning") = reasoning
  /\ CallsAgree(CallsIn(Items(s.out), "function_call"), h)
  /\ OwnIds(CallsIn(Items(s.out), "function_call"))
  /\ Gathered(s.tools, h) /\ DOMAIN s.itemOf = 0..(Len(h) - 1)
  /\ s.messageAt # None => LastOf(Items(s.out), s.messageAt, "message")
  /\ s.thinking => LastOf(Items(s.out), s.thinkingAt, "reasoning")
  /\ Len(h) >= 1 => LastOf(Items(s.out), s.itemOf[Len(h) - 1].at, "function_call")

\* What an event leaves as it was, with the token counts.
Framing(q, s) == Frame(q, s) /\ q.usage = s.usage

\* The client's items stay as they are, and what the state says of them.
SameItems(q, s) ==
  /\ DOMAIN q = ResponsesFields /\ IsSeq(q.out) /\ Items(q.out) = Items(s.out)
  /\ q.next = s.next /\ q.messageAt = s.messageAt /\ q.thinkingAt = s.thinkingAt
  /\ (q.thinking => s.thinking) /\ q.tools = s.tools /\ q.itemOf = s.itemOf
  /\ q.failed = s.failed /\ q.usage = s.usage

LEMMA SameSpeaks ==
  ASSUME NEW s, NEW text, NEW reasoning, NEW h, Speaks(s, text, reasoning, h),
         NEW q, SameItems(q, s)
  PROVE  Speaks(q, text, reasoning, h)
BY DEF Speaks, SameItems

Quiet(s) == DOMAIN s = ResponsesFields /\ IsSeq(s.out)

\* An event that neither adds an item nor carries a piece of one.
LEMMA QuietEvent ==
  ASSUME NEW s, Quiet(s), NEW e, DOMAIN e = DOMAIN ResponseEvent,
         e.ev \notin Deltas, e.ev # "item_added"
  PROVE  SameItems(PutEvent(s, e), s) /\ PutEvent(s, e).thinking = s.thinking
<1> DEFINE q == PutEvent(s, e)
           f == [e EXCEPT !.seq = s.seq + 1]
<1>1. /\ DOMAIN q = ResponsesFields /\ Frame(q, s) /\ q.out = Append(s.out, f) /\ f.ev = e.ev
      /\ q.usage = s.usage
  BY PutIs DEF Quiet
<1> HIDE DEF q, f
<1>2. IsSeq(q.out) /\ Items(q.out) = ReadItem(Items(s.out), f)
  BY <1>1, Appended, ItemsGrow DEF Quiet
<1>3. Items(q.out) = Items(s.out)
  BY <1>1, <1>2 DEF ReadItem, Deltas
<1> QED BY <1>1, <1>2, <1>3 DEF SameItems, Frame, q

LEMMA QuietPiece ==
  ASSUME NEW s, Quiet(s), NEW ev, ev \notin Deltas, ev # "item_added", NEW at, NEW id, NEW body
  PROVE  /\ SameItems(PutPiece(s, ev, at, id, body), s)
         /\ PutPiece(s, ev, at, id, body).thinking = s.thinking
<1> DEFINE e == [ResponseEvent EXCEPT !.ev = ev, !.at = at, !.id = id, !.body = body]
<1>1. DOMAIN e = DOMAIN ResponseEvent /\ e.ev = ev
  BY DEF ResponseEvent
<1>2. PutPiece(s, ev, at, id, body) = PutEvent(s, e)
  BY DEF PutPiece
<1> HIDE DEF e
<1> QED BY <1>1, <1>2, QuietEvent

LEMMA QuietEnd ==
  ASSUME NEW s, Quiet(s), NEW at, NEW item
  PROVE  /\ SameItems(FinishItem(s, at, item), s)
         /\ FinishItem(s, at, item).thinking = s.thinking
<1> DEFINE e == [ResponseEvent EXCEPT !.ev = "item_done", !.at = at, !.id = item.id,
                                      !.item = item]
           c == PutEvent(s, e)
           q == FinishItem(s, at, item)
<1>1. DOMAIN e = DOMAIN ResponseEvent /\ e.ev = "item_done"
  BY DEF ResponseEvent
<1>2. q = [c EXCEPT !.done = Append(@, [at |-> at, item |-> item])]
  BY DEF FinishItem
<1> HIDE DEF e
<1>3. SameItems(c, s) /\ c.thinking = s.thinking
  BY <1>1, QuietEvent DEF Deltas
<1> HIDE DEF c
<1>4. /\ DOMAIN q = ResponsesFields /\ q.out = c.out /\ q.next = c.next
      /\ q.messageAt = c.messageAt /\ q.thinkingAt = c.thinkingAt /\ q.thinking = c.thinking
      /\ q.tools = c.tools /\ q.itemOf = c.itemOf /\ q.failed = c.failed /\ q.usage = c.usage
  BY <1>2, <1>3 DEF SameItems, ResponsesFields
<1> QED BY <1>3, <1>4 DEF SameItems

\* Such steps one after the other.
LEMMA SameTwice ==
  ASSUME NEW q, NEW p, NEW s, SameItems(q, p), SameItems(p, s)
  PROVE  SameItems(q, s) /\ Quiet(q)
BY DEF SameItems, Quiet

\* The end of a reasoning, and of the message.
LEMMA QuietReasoning ==
  ASSUME NEW s, Quiet(s)
  PROVE  /\ SameItems(CloseReasoning(s), s) /\ Quiet(CloseReasoning(s))
         /\ ~CloseReasoning(s).thinking
<1> DEFINE q == CloseReasoning(s)
           t == PutPiece(s, "summary_text_done", s.thinkingAt, s.rid, s.reasoning)
           x == PutPiece(t, "summary_done", s.thinkingAt, s.rid, s.reasoning)
           p == IF ~s.part THEN t ELSE [x EXCEPT !.part = FALSE]
           item == [OutputItem EXCEPT !.type = "reasoning", !.id = s.rid, !.body = s.reasoning]
           f == FinishItem(p, s.thinkingAt, item)
<1>1. CASE ~s.thinking
  BY <1>1 DEF CloseReasoning, SameItems, Quiet
<1>2. CASE s.thinking
  <2>1. SameItems(t, s)
    BY QuietPiece DEF Deltas
  <2>2. Quiet(t)
    BY <2>1 DEF SameItems, Quiet
  <2> HIDE DEF t
  <2>3. SameItems(x, t)
    BY <2>2, QuietPiece DEF Deltas
  <2> HIDE DEF x
  <2>4. SameItems([x EXCEPT !.part = FALSE], t)
    BY <2>3 DEF SameItems, ResponsesFields
  <2>5. SameItems(t, t)
    BY <2>1 DEF SameItems
  <2>6. SameItems(p, t)
    BY <2>4, <2>5
  <2>7. q = [f EXCEPT !.thinking = FALSE]
    BY <1>2 DEF CloseReasoning, t, x
  <2> HIDE DEF p, item
  <2>8. SameItems(p, s) /\ Quiet(p)
    BY <2>1, <2>6, SameTwice
  <2>9. SameItems(f, p)
    BY <2>8, QuietEnd
  <2>10. SameItems(f, s)
    BY <2>8, <2>9, SameTwice
  <2> HIDE DEF f, q
  <2>11. /\ DOMAIN q = ResponsesFields /\ q.out = f.out /\ q.next = f.next
         /\ q.messageAt = f.messageAt /\ q.thinkingAt = f.thinkingAt /\ q.thinking = FALSE
         /\ q.tools = f.tools /\ q.itemOf = f.itemOf /\ q.failed = f.failed /\ q.usage = f.usage
    BY <2>7, <2>10 DEF SameItems, ResponsesFields
  <2> QED BY <2>10, <2>11 DEF SameItems, Quiet, q
<1> QED BY <1>1, <1>2

LEMMA QuietMessage ==
  ASSUME NEW s, Quiet(s)
  PROVE  SameItems(CloseMessage(s), s) /\ Quiet(CloseMessage(s))
<1> DEFINE q == CloseMessage(s)
           t == PutPiece(s, "text_done", s.messageAt, MessageId, s.text)
           p == PutPiece(t, "part_done", s.messageAt, MessageId, s.text)
           item == [OutputItem EXCEPT !.type = "message", !.id = MessageId, !.body = s.text]
<1>1. CASE s.messageAt = None
  BY <1>1 DEF CloseMessage, SameItems, Quiet
<1>2. CASE s.messageAt # None
  <2>1. q = FinishItem(p, s.messageAt, item)
    BY <1>2 DEF CloseMessage
  <2>2. SameItems(t, s)
    BY QuietPiece DEF Deltas
  <2>3. Quiet(t)
    BY <2>2 DEF SameItems, Quiet
  <2> HIDE DEF t, item, q
  <2>4. SameItems(p, t)
    BY <2>3, QuietPiece DEF Deltas
  <2> HIDE DEF p
  <2>5. SameItems(p, s) /\ Quiet(p)
    BY <2>2, <2>4, SameTwice
  <2>6. SameItems(q, p)
    BY <2>1, <2>5, QuietEnd
  <2> QED BY <2>5, <2>6, SameTwice DEF q
<1> QED BY <1>1, <1>2

LEMMA QuietCall ==
  ASSUME NEW s, Quiet(s), NEW call
  PROVE  SameItems(CloseCall(s, call), s) /\ Quiet(CloseCall(s, call))
<1> DEFINE q == CloseCall(s, call)
           known == call.index \in DOMAIN s.itemOf
           at == IF known THEN s.itemOf[call.index].at ELSE s.next
           id == IF known THEN s.itemOf[call.index].id ELSE call.id
           p == PutPiece(s, "args_done", at, id, call.args)
           item == [type |-> "function_call", id |-> id, call_id |-> call.id,
                    name |-> call.name, body |-> call.args]
<1>1. q = FinishItem(p, at, item)
  BY DEF CloseCall
<1> HIDE DEF at, id, q, item
<1>2. SameItems(p, s)
  BY QuietPiece DEF Deltas
<1> HIDE DEF p
<1>3. Quiet(p)
  BY <1>2 DEF SameItems, Quiet
<1>4. SameItems(q, p)
  BY <1>1, <1>3, QuietEnd
<1> QED BY <1>2, <1>4, SameTwice DEF q

\* An item that says nothing yet was added to those of m.
NewItem(q, m, item) ==
  /\ DOMAIN q = ResponsesFields /\ IsSeq(q.out) /\ Framing(q, m)
  /\ Items(q.out) = Append(Items(m.out), item) /\ ItemList(Items(q.out))
  /\ Added(Items(q.out), Items(m.out), item)

LEMMA ItemIsAdded ==
  ASSUME NEW m, Quiet(m), ItemList(Items(m.out)), NEW at, NEW item, ItemIs(item),
         item.body = <<>>
  PROVE  NewItem(AddItem(m, at, item), m, item)
<1> DEFINE e == [ResponseEvent EXCEPT !.ev = "item_added", !.at = at, !.id = item.id,
                                      !.item = item]
           q == AddItem(m, at, item)
           f == [e EXCEPT !.seq = m.seq + 1]
           is == Items(m.out)
<1>1. DOMAIN e = DOMAIN ResponseEvent /\ e.ev = "item_added" /\ e.item = item
  BY DEF ResponseEvent
<1>2. q = PutEvent(m, e)
  BY DEF AddItem
<1> HIDE DEF e, q
<1>3. /\ DOMAIN q = ResponsesFields /\ Framing(q, m) /\ q.out = Append(m.out, f)
      /\ f.ev = e.ev /\ f.item = e.item
  BY <1>1, <1>2, PutIs DEF Quiet, Framing
<1> HIDE DEF f
<1>4. IsSeq(q.out) /\ Items(q.out) = ReadItem(is, f)
  BY <1>3, Appended, ItemsGrow DEF Quiet
<1>5. Items(q.out) = Append(is, item)
  BY <1>1, <1>3, <1>4 DEF ReadItem
<1>6. Body(item) = <<>>
  BY DEF Body, ItemIs, ItemKeys
<1>7. Added(Append(is, item), is, item)
  BY <1>6, Adding DEF ItemList
<1> HIDE DEF is
<1>8. /\ Len(Append(is, item)) = Len(is) + 1 /\ Len(is) \in Nat
      /\ Append(is, item)[Len(is) + 1] = item
      /\ \A k \in 1..Len(is) : Append(is, item)[k] = is[k] /\ ItemIs(is[k])
  BY Appended DEF ItemList, ListOK, is
<1> DEFINE js == Append(is, item)
<1>9. ListOK(js)
  BY <1>7 DEF Added
<1> HIDE DEF js
<1>10. \A k \in 1..Len(js) : ItemIs(js[k])
  <2>1. Len(js) = Len(is) + 1
    BY <1>8 DEF js
  <2>2. \A k \in 1..Len(js) : k \in 1..Len(is) \/ k = Len(is) + 1
    BY <1>8, <2>1
  <2> QED BY <1>8, <2>2 DEF js
<1>11. ItemList(js)
  BY <1>9, <1>10 DEF ItemList
<1> QED BY <1>3, <1>4, <1>5, <1>7, <1>11 DEF NewItem, js, is, q

\* It is the last of its type, and the others stay the last ones of theirs.
LastsKept(js, is, n, item) ==
  /\ LastOf(js, n, item.type)
  /\ \A at, type : LastOf(is, at, type) /\ type # item.type => LastOf(js, at, type)

LEMMA NewIsLast ==
  ASSUME NEW is, IsSeq(is), NEW item, NEW n, n = Len(is)
  PROVE  LastsKept(Append(is, item), is, n, item)
<1> DEFINE js == Append(is, item)
<1>1. /\ n \in Nat /\ Len(js) = n + 1 /\ js[n + 1] = item
      /\ \A i \in 1..n : js[i] = is[i]
  BY Appended
<1> HIDE DEF js
<1>2. \A i \in 1..Len(js) : i \in 1..n \/ i = n + 1
  BY <1>1
<1>3. LastOf(js, n, item.type)
  BY <1>1 DEF LastOf
<1>4. ASSUME NEW at, NEW type, LastOf(is, at, type), type # item.type
      PROVE  LastOf(js, at, type)
  <2>1. at \in Nat /\ at < n /\ is[at + 1].type = type
        /\ \A i \in 1..n : i > at + 1 => is[i].type # type
    BY <1>4 DEF LastOf
  <2>2. at + 1 \in 1..n /\ at < Len(js)
    BY <1>1, <2>1
  <2>3. js[at + 1].type = type
    BY <1>1, <2>1, <2>2
  <2>4. ASSUME NEW i \in 1..Len(js), i > at + 1
        PROVE  js[i].type # type
    BY <1>1, <1>2, <1>4, <2>1, <2>4
  <2> QED BY <2>1, <2>2, <2>3, <2>4 DEF LastOf
<1> QED BY <1>3, <1>4 DEF LastsKept, js

\* The last item of a type goes on with p.
MoreOf(q, m, type, p) ==
  /\ DOMAIN q = ResponsesFields /\ IsSeq(q.out) /\ Framing(q, m) /\ ItemList(Items(q.out))
  /\ Grown(Items(q.out), Items(m.out), type, p)
  /\ \A at, t : LastOf(Items(m.out), at, t) => LastOf(Items(q.out), at, t)

LEMMA PieceIsMore ==
  ASSUME NEW m, Quiet(m), ItemList(Items(m.out)), NEW ev \in Deltas, NEW at, NEW id, NEW type,
         LastOf(Items(m.out), at, type), NEW p, IsSeq(p)
  PROVE  MoreOf(PutPiece(m, ev, at, id, p), m, type, p)
<1> DEFINE e == [ResponseEvent EXCEPT !.ev = ev, !.at = at, !.id = id, !.body = p]
           q == PutPiece(m, ev, at, id, p)
           f == [e EXCEPT !.seq = m.seq + 1]
           is == Items(m.out)
           k == at + 1
           x == is[k]
           y == [x EXCEPT !.body = @ \o p]
           js == [is EXCEPT ![k] = y]
<1>1. DOMAIN e = DOMAIN ResponseEvent /\ e.ev = ev /\ e.at = at /\ e.body = p
  BY DEF ResponseEvent
<1>2. q = PutEvent(m, e)
  BY DEF PutPiece
<1> HIDE DEF e, q
<1>3. /\ DOMAIN q = ResponsesFields /\ Framing(q, m) /\ q.out = Append(m.out, f)
      /\ f.ev = ev /\ f.at = at /\ f.body = p
  BY <1>1, <1>2, PutIs DEF Quiet, Framing
<1> HIDE DEF f
<1>4. IsSeq(q.out) /\ Items(q.out) = ReadItem(is, f)
  BY <1>3, Appended, ItemsGrow DEF Quiet
<1>5. /\ IsSeq(is) /\ ListOK(is) /\ Len(is) \in Nat /\ k \in 1..Len(is) /\ DOMAIN x = ItemKeys
      /\ IsSeq(Body(x)) /\ x.type = type /\ \A i \in 1..Len(is) : i > k => is[i].type # type
      /\ \A i \in 1..Len(is) : ItemIs(is[i])
  <2> HIDE DEF is
  <2>1. IsSeq(is) /\ ListOK(is) /\ Len(is) \in Nat
    BY Appended DEF is, ItemList, ListOK
  <2>2. at \in Nat /\ at < Len(is) /\ x.type = type
        /\ \A i \in 1..Len(is) : i > k => is[i].type # type
    BY DEF is, LastOf
  <2>3. k \in 1..Len(is)
    BY <2>1, <2>2
  <2> QED BY <2>1, <2>2, <2>3 DEF ItemList, ItemIs, ListOK, is
<1>6. ReadItem(is, f) = js
  <2>1. ReadItem(is, f) = [is EXCEPT ![f.at + 1].body = @ \o f.body]
    BY <1>3 DEF ReadItem, Deltas
  <2> HIDE DEF is
  <2> QED BY <1>3, <1>5, <2>1
<1>7. /\ y.type = x.type /\ y.id = x.id /\ y.call_id = x.call_id /\ y.name = x.name
      /\ y.body = x.body \o p /\ ItemIs(y)
  <2>1. ItemIs(x)
    <3> HIDE DEF is, k
    <3> QED BY <1>5
  <2> HIDE DEF x
  <2> QED BY <1>5, <2>1 DEF ItemKeys, ItemIs
<1>8. /\ IsSeq(js) /\ Len(js) = Len(is) /\ js[k] = y
      /\ \A i \in 1..Len(is) : i # k => js[i] = is[i]
  <2>1. PICK S : is \in Seq(S)
    BY <1>5 DEF IsSeq
  <2> DEFINE T == S \cup {y}
  <2> HIDE DEF y, is, k
  <2>2. is \in Seq(T) /\ y \in T
    BY <2>1
  <2> HIDE DEF T
  <2>3. js \in Seq(T) /\ Len(js) = Len(is) /\ js[k] = y
        /\ \A i \in 1..Len(is) : i # k => js[i] = is[i]
    BY <1>5, <2>2
  <2> QED BY <2>3 DEF IsSeq
<1> HIDE DEF js, y
<1>9. GoesOn(y, x, p)
  BY <1>5, <1>7 DEF GoesOn, Body, AsCall, ItemKeys, ItemIs
<1>10. Grown(js, is, type, p)
  <2>1. x = is[k]
    OBVIOUS
  <2> HIDE DEF x, is, k
  <2>2. \A i \in 1..Len(is) : i > k => is[i].type # is[k].type
    BY <1>5, <2>1
  <2>3. Grown(js, is, is[k].type, p)
    BY <1>5, <1>8, <1>9, <2>1, <2>2, Growing
  <2> QED BY <1>5, <2>1, <2>3
<1>11. ItemList(js)
  <2>1. ListOK(js)
    BY <1>10 DEF Grown
  <2> HIDE DEF x, is, k
  <2>2. \A i \in 1..Len(js) : ItemIs(js[i])
    BY <1>5, <1>7, <1>8
  <2> QED BY <2>1, <2>2 DEF ItemList
<1>12. \A i \in 1..Len(is) : js[i].type = is[i].type
  <2>1. x = is[k]
    OBVIOUS
  <2> HIDE DEF x, is, k
  <2> QED BY <1>7, <1>8, <2>1
<1>13. ASSUME NEW a, NEW t, LastOf(is, a, t)
       PROVE  LastOf(js, a, t)
  <2>1. a \in Nat /\ a < Len(is) /\ is[a + 1].type = t
        /\ \A i \in 1..Len(is) : i > a + 1 => is[i].type # t
    BY <1>13 DEF LastOf
  <2> HIDE DEF is
  <2>2. a + 1 \in 1..Len(is)
    BY <1>5, <2>1
  <2> QED BY <1>8, <1>12, <2>1, <2>2 DEF LastOf
<1>14. Items(q.out) = js
  BY <1>4, <1>6
<1> QED BY <1>3, <1>4, <1>10, <1>11, <1>13, <1>14 DEF MoreOf, is, q

\* What an item is begun with: m is s with its next output index taken by it.
Taking(m, s, item) ==
  /\ DOMAIN m = ResponsesFields /\ m.out = s.out /\ m.next = s.next + 1 /\ m.tools = s.tools
  /\ m.itemOf = s.itemOf /\ item.type \in {"message", "reasoning"} /\ DOMAIN item = ItemKeys
  /\ item.body = <<>>
  /\ IF item.type = "message" THEN m.messageAt = s.next ELSE m.messageAt = s.messageAt
  /\ IF item.type = "reasoning" THEN m.thinkingAt = s.next
     ELSE m.thinkingAt = s.thinkingAt /\ (m.thinking => s.thinking)

\* A new message or reasoning says nothing yet.
LEMMA BeginsItem ==
  ASSUME NEW s, NEW text, NEW reasoning, NEW h, Speaks(s, text, reasoning, h),
         NEW m, NEW item, Taking(m, s, item)
  PROVE  /\ Speaks(AddItem(m, s.next, item), text, reasoning, h)
         /\ Framing(AddItem(m, s.next, item), m)
<1> DEFINE q == AddItem(m, s.next, item)
           is == Items(s.out)
           js == Items(q.out)
           n == s.next
<1>1. /\ DOMAIN s = ResponsesFields /\ IsSeq(s.out) /\ ItemList(is) /\ Len(is) = n
      /\ Join(is, "message") = text /\ Join(is, "reasoning") = reasoning
      /\ CallsAgree(CallsIn(is, "function_call"), h)
      /\ OwnIds(CallsIn(is, "function_call"))
      /\ Gathered(s.tools, h) /\ DOMAIN s.itemOf = 0..(Len(h) - 1)
      /\ s.messageAt # None => LastOf(is, s.messageAt, "message")
      /\ s.thinking => LastOf(is, s.thinkingAt, "reasoning")
      /\ Len(h) >= 1 => LastOf(is, s.itemOf[Len(h) - 1].at, "function_call")
  BY DEF Speaks
<1>2. Quiet(m) /\ m.out = s.out
  BY <1>1 DEF Taking, Quiet
<1> HIDE DEF q
<1>3. NewItem(q, m, item)
  <2>1. ItemIs(item)
    BY DEF Taking, ItemIs, ItemTypes
  <2> QED BY <1>1, <1>2, <2>1, ItemIsAdded DEF Taking, q
<1>4. /\ DOMAIN q = ResponsesFields /\ IsSeq(q.out) /\ Framing(q, m) /\ js = Append(is, item)
      /\ ItemList(js) /\ Added(js, is, item)
  BY <1>2, <1>3 DEF NewItem
<1>5. IsSeq(is) /\ n \in Nat
  BY <1>1, Appended DEF ItemList, ListOK
<1>6. LastsKept(js, is, n, item)
  <2> HIDE DEF js, is
  <2> QED BY <1>1, <1>4, <1>5, NewIsLast
<1> HIDE DEF js, is
<1>7. /\ Join(js, "message") = text /\ Join(js, "reasoning") = reasoning
      /\ CallsIn(js, "function_call") = CallsIn(is, "function_call") /\ Len(js) = n + 1
  BY <1>1, <1>4 DEF Added, Taking
<1>8. /\ q.next = n + 1 /\ q.tools = s.tools /\ q.itemOf = s.itemOf /\ q.messageAt = m.messageAt
      /\ q.thinkingAt = m.thinkingAt /\ q.thinking = m.thinking
  BY <1>4 DEF Framing, Frame, Taking
<1>9. q.messageAt # None => LastOf(js, q.messageAt, "message")
  BY <1>1, <1>6, <1>8 DEF LastsKept, Taking
<1>10. q.thinking => LastOf(js, q.thinkingAt, "reasoning")
  BY <1>1, <1>6, <1>8 DEF LastsKept, Taking
<1>11. Len(h) >= 1 => LastOf(js, q.itemOf[Len(h) - 1].at, "function_call")
  BY <1>1, <1>6, <1>8 DEF LastsKept, Taking
<1>12. Speaks(q, text, reasoning, h)
  BY <1>1, <1>4, <1>7, <1>8, <1>9, <1>10, <1>11 DEF Speaks, js
<1> QED BY <1>4, <1>12 DEF q

\* What is said of a message, or of a reasoning, is longer by p.
Says(q, text, reasoning, h, type, p) ==
  /\ type = "message" => Speaks(q, text \o p, reasoning, h)
  /\ type = "reasoning" => Speaks(q, text, reasoning \o p, h)

LEMMA WritesItem ==
  ASSUME NEW s, NEW text, NEW reasoning, NEW h, Speaks(s, text, reasoning, h),
         NEW ev \in Deltas, NEW at, NEW id, NEW type, LastOf(Items(s.out), at, type),
         type \in {"message", "reasoning"}, NEW p, IsSeq(p)
  PROVE  /\ Says(PutPiece(s, ev, at, id, p), text, reasoning, h, type, p)
         /\ Framing(PutPiece(s, ev, at, id, p), s)
<1> DEFINE q == PutPiece(s, ev, at, id, p)
           is == Items(s.out)
           js == Items(q.out)
<1>1. /\ DOMAIN s = ResponsesFields /\ IsSeq(s.out) /\ ItemList(is) /\ Len(is) = s.next
      /\ Join(is, "message") = text /\ Join(is, "reasoning") = reasoning
      /\ CallsAgree(CallsIn(is, "function_call"), h)
      /\ OwnIds(CallsIn(is, "function_call"))
      /\ Gathered(s.tools, h) /\ DOMAIN s.itemOf = 0..(Len(h) - 1)
      /\ s.messageAt # None => LastOf(is, s.messageAt, "message")
      /\ s.thinking => LastOf(is, s.thinkingAt, "reasoning")
      /\ Len(h) >= 1 => LastOf(is, s.itemOf[Len(h) - 1].at, "function_call")
  BY DEF Speaks
<1>2. Quiet(s)
  BY <1>1 DEF Quiet
<1> HIDE DEF q
<1>3. MoreOf(q, s, type, p)
  BY <1>1, <1>2, PieceIsMore DEF q
<1> HIDE DEF is, js
<1>4. /\ DOMAIN q = ResponsesFields /\ IsSeq(q.out) /\ Framing(q, s) /\ ItemList(js)
      /\ Grown(js, is, type, p) /\ \A a, t : LastOf(is, a, t) => LastOf(js, a, t)
  BY <1>3 DEF MoreOf, is, js
<1>5. /\ q.next = s.next /\ q.tools = s.tools /\ q.itemOf = s.itemOf /\ q.messageAt = s.messageAt
      /\ q.thinkingAt = s.thinkingAt /\ q.thinking = s.thinking
  BY <1>4 DEF Framing, Frame
<1>6. Len(js) = s.next
  BY <1>1, <1>4 DEF Grown
<1>7. CallsIn(js, "function_call") = CallsIn(is, "function_call")
  BY <1>4 DEF Grown
<1>8. /\ Join(js, "message") = IF type = "message" THEN text \o p ELSE text
      /\ Join(js, "reasoning") = IF type = "reasoning" THEN reasoning \o p ELSE reasoning
  BY <1>1, <1>4 DEF Grown
<1>9. Speaks(q, Join(js, "message"), Join(js, "reasoning"), h)
  BY <1>1, <1>4, <1>5, <1>6, <1>7 DEF Speaks, js
<1>10. Says(q, text, reasoning, h, type, p)
  BY <1>8, <1>9 DEF Says
<1> QED BY <1>4, <1>10 DEF q

\* A message is open.
LEMMA OpensMessage ==
  ASSUME NEW s, NEW text, NEW reasoning, NEW h, Speaks(s, text, reasoning, h)
  PROVE  /\ Speaks(OpenMessage(s), text, reasoning, h) /\ OpenMessage(s).messageAt # None
         /\ OpenMessage(s).failed = s.failed /\ OpenMessage(s).usage = s.usage
<1> DEFINE q == OpenMessage(s)
           m == [s EXCEPT !.messageAt = s.next, !.next = @ + 1]
           item == [OutputItem EXCEPT !.type = "message", !.id = MessageId]
           a == AddItem(m, s.next, item)
<1>1. CASE s.messageAt # None
  BY <1>1 DEF OpenMessage
<1>2. CASE s.messageAt = None
  <2>1. q = PutPiece(a, "part_added", s.next, MessageId, <<>>)
    BY <1>2 DEF OpenMessage
  <2>2. s.next \in Nat /\ s.next # None /\ DOMAIN s = ResponsesFields
    <3>1. Len(Items(s.out)) \in Nat
      BY Appended DEF Speaks, ItemList, ListOK
    <3> QED BY <3>1, StreamAssumption DEF Speaks
  <2>3. item.type = "message" /\ DOMAIN item = ItemKeys /\ item.body = <<>>
    BY DEF OutputItem, ItemKeys
  <2> HIDE DEF item
  <2>4. Taking(m, s, item) /\ m.failed = s.failed /\ m.usage = s.usage /\ m.messageAt = s.next
    BY <2>2, <2>3 DEF Taking, ResponsesFields
  <2> HIDE DEF m, q
  <2>5. Speaks(a, text, reasoning, h) /\ Framing(a, m)
    BY <2>4, BeginsItem
  <2> HIDE DEF a
  <2>6. SameItems(q, a)
    BY <2>1, <2>5, QuietPiece DEF Deltas, Speaks, Quiet
  <2>7. Speaks(q, text, reasoning, h)
    BY <2>5, <2>6, SameSpeaks
  <2> QED BY <2>2, <2>4, <2>5, <2>6, <2>7 DEF SameItems, Framing, Frame, q
<1> QED BY <1>1, <1>2

\* A reasoning is open.
LEMMA OpensReasoning ==
  ASSUME NEW s, NEW text, NEW reasoning, NEW h, Speaks(s, text, reasoning, h)
  PROVE  /\ Speaks(OpenReasoning(s), text, reasoning, h) /\ OpenReasoning(s).thinking
         /\ OpenReasoning(s).failed = s.failed /\ OpenReasoning(s).usage = s.usage
<1> DEFINE q == OpenReasoning(s)
           rid == IF s.thoughts = 0 THEN s.rid ELSE ReasoningId(s.thoughts)
           m == [s EXCEPT !.thinking = TRUE, !.part = FALSE, !.reasoning = <<>>,
                          !.thinkingAt = s.next, !.next = @ + 1, !.thoughts = @ + 1, !.rid = rid]
           item == [OutputItem EXCEPT !.type = "reasoning", !.id = rid]
<1>1. CASE s.thinking
  BY <1>1 DEF OpenReasoning
<1>2. CASE ~s.thinking
  <2>1. q = AddItem(m, s.next, item)
    BY <1>2 DEF OpenReasoning
  <2>2. DOMAIN s = ResponsesFields
    BY DEF Speaks
  <2> HIDE DEF rid
  <2>3. item.type = "reasoning" /\ DOMAIN item = ItemKeys /\ item.body = <<>>
    BY DEF OutputItem, ItemKeys
  <2> HIDE DEF item
  <2>4. Taking(m, s, item) /\ m.failed = s.failed /\ m.usage = s.usage /\ m.thinking = TRUE
    BY <2>2, <2>3 DEF Taking, ResponsesFields
  <2> HIDE DEF m, q
  <2>5. Speaks(q, text, reasoning, h) /\ Framing(q, m)
    BY <2>1, <2>4, BeginsItem
  <2> QED BY <2>4, <2>5 DEF Framing, Frame, q
<1> QED BY <1>1, <1>2

LEMMA OpensPart ==
  ASSUME NEW s, Quiet(s)
  PROVE  SameItems(OpenPart(s), s) /\ (s.thinking => OpenPart(s).thinking)
<1> DEFINE q == OpenPart(s)
           m == [s EXCEPT !.part = TRUE]
<1>1. CASE s.part
  BY <1>1 DEF OpenPart, SameItems, Quiet
<1>2. CASE ~s.part
  <2>1. q = PutPiece(m, "summary_added", s.thinkingAt, s.rid, <<>>)
    BY <1>2 DEF OpenPart
  <2>2. SameItems(m, s) /\ m.thinking = s.thinking
    BY DEF SameItems, Quiet, ResponsesFields
  <2> HIDE DEF m, q
  <2>3. Quiet(m)
    BY <2>2 DEF SameItems, Quiet
  <2>4. SameItems(q, m) /\ q.thinking = m.thinking
    BY <2>1, <2>3, QuietPiece DEF Deltas
  <2> QED BY <2>2, <2>4, SameTwice DEF q
<1> QED BY <1>1, <1>2

\* A piece of reasoning, and of text, is what the client reads more.
LEMMA SaysReasoning ==
  ASSUME NEW s, NEW text, NEW reasoning, NEW h, Speaks(s, text, reasoning, h), NEW p, IsSeq(p)
  PROVE  /\ Speaks(PutReasoning(s, p), text, reasoning \o p, h)
         /\ PutReasoning(s, p).failed = s.failed /\ PutReasoning(s, p).usage = s.usage
<1> DEFINE q == PutReasoning(s, p)
           x == OpenReasoning(s)
           o == OpenPart(x)
           w == [o EXCEPT !.reasoning = @ \o p]
<1>1. q = PutPiece(w, "summary_delta", o.thinkingAt, o.rid, p)
  BY DEF PutReasoning
<1>2. Speaks(x, text, reasoning, h) /\ x.thinking /\ x.failed = s.failed /\ x.usage = s.usage
  BY OpensReasoning
<1> HIDE DEF x
<1>3. Quiet(x)
  BY <1>2 DEF Speaks, Quiet
<1>4. SameItems(o, x) /\ o.thinking
  BY <1>2, <1>3, OpensPart
<1> HIDE DEF o
<1>5. SameItems(w, o) /\ w.thinking = o.thinking
  BY <1>4 DEF SameItems, ResponsesFields
<1> HIDE DEF w, q
<1>6. Speaks(o, text, reasoning, h) /\ Speaks(w, text, reasoning, h)
  BY <1>2, <1>4, <1>5, SameSpeaks
<1>7. LastOf(Items(w.out), o.thinkingAt, "reasoning")
  BY <1>4, <1>5, <1>6 DEF Speaks, SameItems
<1>8. Says(q, text, reasoning, h, "reasoning", p) /\ Framing(q, w)
  BY <1>1, <1>6, <1>7, WritesItem DEF Deltas
<1>9. Speaks(q, text, reasoning \o p, h)
  BY <1>8 DEF Says
<1> QED BY <1>2, <1>4, <1>5, <1>8, <1>9 DEF SameItems, Framing, Frame, q

LEMMA SaysText ==
  ASSUME NEW s, NEW text, NEW reasoning, NEW h, Speaks(s, text, reasoning, h), NEW p, IsSeq(p)
  PROVE  /\ Speaks(PutMessage(s, p), text \o p, reasoning, h)
         /\ PutMessage(s, p).failed = s.failed /\ PutMessage(s, p).usage = s.usage
<1> DEFINE q == PutMessage(s, p)
           x == CloseReasoning(s)
           o == OpenMessage(x)
           w == [o EXCEPT !.text = @ \o p]
<1>1. q = PutPiece(w, "text_delta", o.messageAt, MessageId, p)
  BY DEF PutMessage
<1>2. SameItems(x, s)
  BY QuietReasoning DEF Speaks, Quiet
<1> HIDE DEF x
<1>3. Speaks(x, text, reasoning, h)
  BY <1>2, SameSpeaks
<1>4. /\ Speaks(o, text, reasoning, h) /\ o.messageAt # None
      /\ o.failed = x.failed /\ o.usage = x.usage
  BY <1>3, OpensMessage
<1> HIDE DEF o
<1>5. SameItems(w, o)
  BY <1>4 DEF SameItems, ResponsesFields, Speaks
<1> HIDE DEF w, q
<1>6. Speaks(w, text, reasoning, h)
  BY <1>4, <1>5, SameSpeaks
<1>7. LastOf(Items(w.out), o.messageAt, "message")
  BY <1>4, <1>5, <1>6 DEF Speaks, SameItems
<1>8. Says(q, text, reasoning, h, "message", p) /\ Framing(q, w)
  BY <1>1, <1>6, <1>7, WritesItem DEF Deltas
<1>9. Speaks(q, text \o p, reasoning, h)
  BY <1>8 DEF Says
<1> QED BY <1>2, <1>4, <1>5, <1>8, <1>9 DEF SameItems, Framing, Frame, q

\* The items have the calls cs, those of h but for the arguments of the last one.
Partly(s, text, reasoning, cs, h) ==
  /\ DOMAIN s = ResponsesFields /\ IsSeq(s.out)
  /\ ItemList(Items(s.out)) /\ Len(Items(s.out)) = s.next
  /\ Join(Items(s.out), "message") = text /\ Join(Items(s.out), "reasoning") = reasoning
  /\ CallsIn(Items(s.out), "function_call") = cs
  /\ Gathered(s.tools, h) /\ DOMAIN s.itemOf = 0..(Len(h) - 1)
  /\ s.messageAt # None => LastOf(Items(s.out), s.messageAt, "message")
  /\ s.thinking => LastOf(Items(s.out), s.thinkingAt, "reasoning")
  /\ Len(h) >= 1 => LastOf(Items(s.out), s.itemOf[Len(h) - 1].at, "function_call")

LEMMA PartlySpeaks ==
  ASSUME NEW s, NEW text, NEW reasoning, NEW h
  PROVE  /\ Speaks(s, text, reasoning, h) =>
              /\ Partly(s, text, reasoning, CallsIn(Items(s.out), "function_call"), h)
              /\ CallsAgree(CallsIn(Items(s.out), "function_call"), h)
              /\ OwnIds(CallsIn(Items(s.out), "function_call"))
         /\ \A cs : Partly(s, text, reasoning, cs, h) /\ CallsAgree(cs, h) /\ OwnIds(cs) =>
              Speaks(s, text, reasoning, h)
BY DEF Partly, Speaks

\* The arguments of the last call go on with p.
ArgsLonger(q, s, text, reasoning, cs, h, p) ==
  /\ \E ds : LastGrows(cs, ds, p) /\ Partly(q, text, reasoning, ds, h)
  /\ q.failed = s.failed /\ q.usage = s.usage

LEMMA WritesArgs ==
  ASSUME NEW s, NEW text, NEW reasoning, NEW cs, NEW h, Partly(s, text, reasoning, cs, h),
         Len(h) >= 1, NEW at, at = s.itemOf[Len(h) - 1].at, NEW id, NEW p, IsSeq(p)
  PROVE  ArgsLonger(PutPiece(s, "args_delta", at, id, p), s, text, reasoning, cs, h, p)
<1> DEFINE q == PutPiece(s, "args_delta", at, id, p)
           is == Items(s.out)
           js == Items(q.out)
           ds == CallsIn(js, "function_call")
<1>1. /\ DOMAIN s = ResponsesFields /\ IsSeq(s.out) /\ ItemList(is) /\ Len(is) = s.next
      /\ Join(is, "message") = text /\ Join(is, "reasoning") = reasoning
      /\ CallsIn(is, "function_call") = cs
      /\ Gathered(s.tools, h) /\ DOMAIN s.itemOf = 0..(Len(h) - 1)
      /\ s.messageAt # None => LastOf(is, s.messageAt, "message")
      /\ s.thinking => LastOf(is, s.thinkingAt, "reasoning")
      /\ LastOf(is, at, "function_call")
  BY DEF Partly
<1>2. Quiet(s)
  BY <1>1 DEF Quiet
<1> HIDE DEF q
<1>3. MoreOf(q, s, "function_call", p)
  BY <1>1, <1>2, PieceIsMore DEF q, Deltas
<1> HIDE DEF is, js
<1>4. /\ DOMAIN q = ResponsesFields /\ IsSeq(q.out) /\ Framing(q, s) /\ ItemList(js)
      /\ Grown(js, is, "function_call", p) /\ \A a, t : LastOf(is, a, t) => LastOf(js, a, t)
  BY <1>3 DEF MoreOf, is, js
<1>5. /\ q.next = s.next /\ q.tools = s.tools /\ q.itemOf = s.itemOf /\ q.messageAt = s.messageAt
      /\ q.thinkingAt = s.thinkingAt /\ q.thinking = s.thinking
      /\ q.failed = s.failed /\ q.usage = s.usage
  BY <1>4 DEF Framing, Frame
<1>6. /\ Len(js) = s.next /\ Join(js, "message") = text /\ Join(js, "reasoning") = reasoning
      /\ LastGrows(cs, ds, p)
  BY <1>1, <1>4 DEF Grown
<1>7. Partly(q, text, reasoning, ds, h)
  BY <1>1, <1>4, <1>5, <1>6 DEF Partly, js
<1> HIDE DEF ds
<1> QED BY <1>5, <1>6, <1>7 DEF ArgsLonger, q

\* The state with the delta gathered, of the call that has an item or has not.
Collecting(m, s, d) ==
  /\ DOMAIN m = ResponsesFields /\ m.out = s.out /\ m.next = s.next /\ m.messageAt = s.messageAt
  /\ m.thinking = s.thinking /\ m.thinkingAt = s.thinkingAt
  /\ m.failed = s.failed /\ m.usage = s.usage
  /\ m.itemOf = s.itemOf /\ m.tools = Ingest(s.tools, d)

LEMMA CollectingIs ==
  ASSUME NEW s, DOMAIN s = ResponsesFields, NEW d
  PROVE  Collecting([s EXCEPT !.tools = Ingest(@, d)], s, d)
<1> DEFINE c == Ingest(s.tools, d)
           m == [s EXCEPT !.tools = Ingest(@, d)]
<1>1. m = [s EXCEPT !.tools = c]
  OBVIOUS
<1> HIDE DEF c
<1>2. /\ DOMAIN m = ResponsesFields /\ m.out = s.out /\ m.next = s.next /\ m.messageAt = s.messageAt
      /\ m.thinking = s.thinking /\ m.thinkingAt = s.thinkingAt
      /\ m.failed = s.failed /\ m.usage = s.usage
      /\ m.itemOf = s.itemOf /\ m.tools = c
  BY <1>1 DEF ResponsesFields
<1> QED BY <1>2 DEF Collecting, c

\* _map_tool_call_deltas adds an item for a call.
LEMMA AddsCall ==
  ASSUME NEW s, NEW text, NEW reasoning, NEW h, Speaks(s, text, reasoning, h),
         NEW g, IsSeq(g), Len(g) = Len(h) + 1, NEW b, NEW item,
         DOMAIN b = ResponsesFields, b.out = s.out, b.next = s.next + 1,
         b.messageAt = s.messageAt, b.thinking = s.thinking, b.thinkingAt = s.thinkingAt,
         b.failed = s.failed /\ b.usage = s.usage,
         b.itemOf = With(s.itemOf, Len(h), [id |-> item.id, at |-> s.next]),
         Gathered(b.tools, g), item.type = "function_call", ItemIs(item),
         item.body = <<>>
  PROVE  /\ Partly(AddItem(b, s.next, item), text, reasoning,
                   Append(CallsIn(Items(s.out), "function_call"), AsCall(item)), g)
         /\ Framing(AddItem(b, s.next, item), b)
<1> DEFINE q == AddItem(b, s.next, item)
           is == Items(s.out)
           js == Items(q.out)
           n == s.next
           cs == CallsIn(is, "function_call")
<1>1. /\ DOMAIN s = ResponsesFields /\ IsSeq(s.out) /\ ItemList(is) /\ Len(is) = n
      /\ Join(is, "message") = text /\ Join(is, "reasoning") = reasoning
      /\ DOMAIN s.itemOf = 0..(Len(h) - 1) /\ IsSeq(h)
      /\ s.messageAt # None => LastOf(is, s.messageAt, "message")
      /\ s.thinking => LastOf(is, s.thinkingAt, "reasoning")
  BY DEF Speaks, CallsAgree
<1>2. Quiet(b)
  BY <1>1 DEF Quiet
<1> HIDE DEF q
<1>3. NewItem(q, b, item)
  BY <1>1, <1>2, ItemIsAdded DEF q
<1>4. /\ DOMAIN q = ResponsesFields /\ IsSeq(q.out) /\ Framing(q, b) /\ js = Append(is, item)
      /\ ItemList(js) /\ Added(js, is, item)
  BY <1>3 DEF NewItem
<1>5. IsSeq(is) /\ n \in Nat /\ Len(h) \in Nat
  BY <1>1, Appended DEF ItemList, ListOK
<1>6. LastsKept(js, is, n, item)
  <2> HIDE DEF js, is
  <2> QED BY <1>1, <1>4, <1>5, NewIsLast
<1> HIDE DEF js, is
<1>7. /\ Join(js, "message") = text /\ Join(js, "reasoning") = reasoning
      /\ CallsIn(js, "function_call") = Append(cs, AsCall(item)) /\ Len(js) = n + 1
  BY <1>1, <1>4 DEF Added
<1>8. /\ q.next = n + 1 /\ q.tools = b.tools /\ q.itemOf = b.itemOf /\ q.messageAt = s.messageAt
      /\ q.thinkingAt = s.thinkingAt /\ q.thinking = s.thinking
  BY <1>4 DEF Framing, Frame
<1>9. q.messageAt # None => LastOf(js, q.messageAt, "message")
  BY <1>1, <1>6, <1>8 DEF LastsKept
<1>10. q.thinking => LastOf(js, q.thinkingAt, "reasoning")
  BY <1>1, <1>6, <1>8 DEF LastsKept
<1>11. DOMAIN q.itemOf = 0..(Len(g) - 1) /\ q.itemOf[Len(g) - 1].at = n
  <2>1. Len(g) - 1 = Len(h)
    BY <1>5
  <2>2. DOMAIN q.itemOf = DOMAIN s.itemOf \cup {Len(h)}
        /\ q.itemOf[Len(h)] = [id |-> item.id, at |-> n]
    BY <1>8 DEF With
  <2>3. 0..Len(h) = (0..(Len(h) - 1)) \cup {Len(h)}
    BY <1>5
  <2> QED BY <1>1, <2>1, <2>2, <2>3
<1>12. Len(g) >= 1 => LastOf(js, q.itemOf[Len(g) - 1].at, "function_call")
  BY <1>6, <1>11 DEF LastsKept
<1>13. Partly(q, text, reasoning, Append(cs, AsCall(item)), g)
  BY <1>4, <1>7, <1>8, <1>9, <1>10, <1>11, <1>12 DEF Partly, js
<1> QED BY <1>4, <1>13 DEF q, cs, is

LEMMA BeginItem ==
  ASSUME NEW s, NEW text, NEW reasoning, NEW h, Speaks(s, text, reasoning, h),
         NEW d, Begins(d, Len(h)), IsSeq(d.args)
  PROVE  /\ Speaks(PutCall(s, d), text, reasoning, Append(h, CallOf(d)))
         /\ PutCall(s, d).failed = s.failed /\ PutCall(s, d).usage = s.usage
<1> DEFINE n == Len(h)
           m == [s EXCEPT !.tools = Ingest(@, d)]
           call == m.tools[n]
           item == [OutputItem EXCEPT !.type = "function_call", !.name = call.name,
                      !.id = <<"fc", Default(call.id, "index", n)>>,
                      !.call_id = Default(call.id, "call", n)]
           b == [m EXCEPT !.next = @ + 1, !.itemOf = With(@, n, [id |-> item.id, at |-> m.next])]
           o == AddItem(b, m.next, item)
           q == PutCall(s, d)
           g == Append(h, CallOf(d))
           w == PutPiece(o, "args_delta", o.itemOf[n].at, o.itemOf[n].id, d.args)
           cs == CallsIn(Items(s.out), "function_call")
           x == AsCall(item)
           e == <<>>
<1>1. /\ DOMAIN s = ResponsesFields /\ CallsAgree(cs, h) /\ Gathered(s.tools, h)
      /\ DOMAIN s.itemOf = 0..(n - 1) /\ OwnIds(cs)
  BY DEF Speaks
<1>2. Collecting(m, s, d)
  BY <1>1, CollectingIs
<1>3. Gathered(m.tools, g)
  BY <1>1, <1>2, GathersBegun DEF Collecting
<1>4. n \in Nat /\ IsSeq(h) /\ IsSeq(g) /\ Len(g) = n + 1 /\ g[n + 1] = CallOf(d)
  BY <1>1, Appended DEF CallsAgree
<1>5. n \notin DOMAIN m.itemOf
  BY <1>1, <1>2, <1>4 DEF Collecting
<1>6. d.index = n /\ d.name # None /\ call.name = d.name /\ call.id = d.id
  <2>1. n \in 0..(Len(g) - 1)
    BY <1>4
  <2>2. GatheredCall(call, g[n + 1], n)
    <3> HIDE DEF m, n, g
    <3> QED BY <1>3, <2>1 DEF Gathered
  <2> HIDE DEF call, n
  <2>3. d.index = n /\ d.name # None
    BY DEF Begins, n
  <2> QED BY <1>4, <2>2, <2>3, CallFields DEF GatheredCall
<1>7. q = IF d.args = <<>> THEN o ELSE w
  <2>1. \E y \in {m} : q = IF d.args = <<>> THEN o ELSE w
    BY <1>5, <1>6 DEF PutCall
  <2> QED BY <2>1
<1>8. /\ item.type = "function_call" /\ item.name = d.name /\ ItemIs(item)
      /\ item.body = e /\ (d.id # <<>> => item.call_id = d.id)
      /\ item.call_id = Default(d.id, "call", n)
  <2>1. /\ item.type = "function_call" /\ item.name = d.name /\ DOMAIN item = ItemKeys
        /\ item.body = e /\ item.call_id = Default(d.id, "call", n)
    BY <1>6 DEF OutputItem, ItemKeys
  <2> HIDE DEF item
  <2> QED BY <1>6, <2>1 DEF Default, ItemIs, ItemTypes
<1>9. x.name = d.name /\ x.args = e /\ (d.id # <<>> => x.id = d.id) /\ x.id = item.call_id
  <2> HIDE DEF item
  <2> QED BY <1>8 DEF AsCall, Body, ItemKeys, ItemIs
<1>17. OwnId(x.id, Len(cs))
  <2>1. d.id = <<>> \/ \E p : d.id = <<"id", p, n>>
    BY DEF Begins
  <2>2. Len(cs) = n
    BY <1>1 DEF CallsAgree
  <2> HIDE DEF item, x, cs, n
  <2> QED BY <1>8, <1>9, <2>1, <2>2, OwnDefault
<1>18. OwnIds(Append(cs, x))
  <2>1. IsSeq(cs)
    BY <1>1 DEF CallsAgree
  <2> HIDE DEF item, x, cs
  <2> QED BY <1>1, <1>17, <2>1, OwnAppends
<1> HIDE DEF item, m, call, x, cs, e
<1>10. /\ DOMAIN b = ResponsesFields /\ b.out = s.out /\ b.next = s.next + 1
       /\ b.messageAt = s.messageAt /\ b.thinking = s.thinking /\ b.thinkingAt = s.thinkingAt
       /\ b.failed = s.failed /\ b.usage = s.usage
       /\ b.itemOf = With(s.itemOf, n, [id |-> item.id, at |-> s.next])
       /\ b.tools = m.tools
  BY <1>2 DEF Collecting, ResponsesFields
<1>11. o = AddItem(b, s.next, item)
  BY <1>2 DEF Collecting
<1> HIDE DEF b, o, w, q, g
<1>12. Partly(o, text, reasoning, Append(cs, x), g) /\ Framing(o, b)
  BY <1>3, <1>4, <1>8, <1>10, <1>11, AddsCall DEF cs, x, e
<1>13. o.failed = s.failed /\ o.usage = s.usage
  BY <1>10, <1>12 DEF Framing, Frame
<1> HIDE DEF n
<1>14. Len(g) - 1 = n /\ Len(g) >= 1
  BY <1>4
<1>15. CASE d.args = <<>>
  <2>1. SameCall(x, CallOf(d))
    BY <1>6, <1>9, <1>15, CallFields DEF SameCall, e
  <2>2. CallsAgree(Append(cs, x), g)
    BY <1>1, <2>1, AgreeAppend DEF g
  <2>3. Speaks(o, text, reasoning, g)
    BY <1>12, <1>18, <2>2, PartlySpeaks
  <2> QED BY <1>7, <1>13, <1>15, <2>3 DEF q, g
<1>16. CASE d.args # <<>>
  <2>1. ArgsLonger(w, o, text, reasoning, Append(cs, x), g, d.args)
    BY <1>12, <1>14, WritesArgs DEF w
  <2>2. PICK ds : LastGrows(Append(cs, x), ds, d.args) /\ Partly(w, text, reasoning, ds, g)
    BY <2>1 DEF ArgsLonger
  <2>3. CallsAgree(ds, g) /\ OwnIds(ds)
    BY <1>1, <1>6, <1>9, <1>18, <2>2, AgreeBegins, OwnExtends DEF g, e
  <2>4. Speaks(w, text, reasoning, g) /\ w.failed = s.failed /\ w.usage = s.usage
    BY <1>13, <2>1, <2>2, <2>3, PartlySpeaks DEF ArgsLonger
  <2> QED BY <1>7, <1>16, <2>4 DEF q, g
<1> QED BY <1>15, <1>16

\* More of the call begun last is written into its item.
LEMMA ContinueItem ==
  ASSUME NEW s, NEW text, NEW reasoning, NEW h, Speaks(s, text, reasoning, h), Len(h) >= 1,
         \A k \in 1..Len(h) : WholeCall(h[k]), NEW d, Continues(d, Len(h) - 1), IsSeq(d.args)
  PROVE  /\ Speaks(PutCall(s, d), text, reasoning, Extends(h, d))
         /\ PutCall(s, d).failed = s.failed /\ PutCall(s, d).usage = s.usage
<1> DEFINE i == Len(h) - 1
           m == [s EXCEPT !.tools = Ingest(@, d)]
           q == PutCall(s, d)
           g == Extends(h, d)
           cs == CallsIn(Items(s.out), "function_call")
           w == PutPiece(m, "args_delta", m.itemOf[i].at, m.itemOf[i].id, d.args)
<1>1. /\ DOMAIN s = ResponsesFields /\ CallsAgree(cs, h) /\ Gathered(s.tools, h)
      /\ DOMAIN s.itemOf = 0..i /\ Partly(s, text, reasoning, cs, h) /\ OwnIds(cs)
  BY DEF Speaks, Partly
<1>2. Collecting(m, s, d)
  BY <1>1, CollectingIs
<1>3. Gathered(m.tools, g)
  BY <1>1, <1>2, GathersMore DEF Collecting
<1>4. IsSeq(h) /\ Len(h) \in Nat /\ IsSeq(g) /\ Len(g) = Len(h)
  <2>1. IsSeq(h) /\ Len(h) \in Nat
    BY <1>1, Appended DEF CallsAgree
  <2>2. IsExtended(Extends(h, d), h, d)
    BY <2>1, Extended
  <2> QED BY <2>1, <2>2 DEF IsExtended
<1>5. d.index = i
  BY DEF Continues
<1>6. i \in DOMAIN m.itemOf
  BY <1>1, <1>2, <1>4 DEF Collecting
<1>7. q = IF d.args = <<>> THEN m ELSE w
  BY <1>5, <1>6 DEF PutCall
<1> HIDE DEF m, q, g, cs, w
<1>8. Partly(m, text, reasoning, cs, g) /\ m.failed = s.failed /\ m.usage = s.usage
  BY <1>1, <1>2, <1>3, <1>4 DEF Partly, Collecting
<1>9. CASE d.args = <<>>
  <2>1. CallsAgree(cs, g)
    BY <1>1, <1>9, AgreeStays DEF g
  <2>2. Speaks(m, text, reasoning, g)
    BY <1>1, <1>8, <2>1, PartlySpeaks
  <2> QED BY <1>7, <1>8, <1>9, <2>2 DEF q, g
<1>10. CASE d.args # <<>>
  <2>1. ArgsLonger(w, m, text, reasoning, cs, g, d.args)
    BY <1>4, <1>8, WritesArgs DEF w
  <2>2. PICK ds : LastGrows(cs, ds, d.args) /\ Partly(w, text, reasoning, ds, g)
    BY <2>1 DEF ArgsLonger
  <2>3. CallsAgree(ds, g) /\ OwnIds(ds)
    BY <1>1, <2>2, AgreeExtends, OwnExtends DEF g
  <2>4. Speaks(w, text, reasoning, g) /\ w.failed = s.failed /\ w.usage = s.usage
    BY <1>8, <2>1, <2>2, <2>3, PartlySpeaks DEF ArgsLonger
  <2> QED BY <1>7, <1>10, <2>4 DEF q, g
<1> QED BY <1>9, <1>10

Takings(s, tools) == FoldLeft(PutCall, s, tools)
TakesWell(q, s, text, reasoning, c) ==
  Speaks(q, text, reasoning, c) /\ q.failed = s.failed /\ q.usage = s.usage

\* The calls of a line are put one after the other.
LEMMA TakesCalls ==
  ASSUME NEW s, NEW text, NEW reasoning, NEW r, ReplyOK(r), Speaks(s, text, reasoning, r.calls),
         NEW l, NEW m, NEW c, Telling(l, r, m, c)
  PROVE  TakesWell(Takings(s, l.tools), s, text, reasoning, c)
<1> DEFINE n == Len(r.calls)
           t == l.tools
           h == r.calls
           q == Takings(s, l.tools)
<1>0. q = FoldLeft(PutCall, s, t)
  BY DEF Takings
<1> HIDE DEF q
<1>1. IsSeq(h) /\ n \in Nat /\ \A k \in 1..n : WholeCall(h[k])
  BY Appended DEF ReplyOK
<1>2. CASE t = <<>> /\ c = h
  <2>1. DOMAIN t = {}
    BY <1>2
  <2> HIDE DEF t
  <2>2. q = s
    BY <1>0, <2>1, PutCalls
  <2> HIDE DEF h
  <2> QED BY <1>2, <2>2 DEF t, h, q, TakesWell
<1>3. ASSUME NEW d, t = <<d>>, IsSeq(d.args), Begins(d, n), c = Append(h, CallOf(d))
      PROVE  Speaks(q, text, reasoning, c) /\ q.failed = s.failed /\ q.usage = s.usage
  <2>1. DOMAIN t = {1} /\ t[1] = d
    BY <1>3
  <2>2. DOMAIN t # {}
    BY <2>1
  <2> HIDE DEF t
  <2>3. q = PutCall(s, d)
    BY <1>0, <2>1, <2>2, PutCalls
  <2> QED BY <1>3, <2>3, BeginItem
<1>4. ASSUME NEW d, NEW e, t = <<d, e>>, IsSeq(d.args), IsSeq(e.args), Begins(d, n),
             Begins(e, n + 1), c = Append(Append(h, CallOf(d)), CallOf(e))
      PROVE  Speaks(q, text, reasoning, c) /\ q.failed = s.failed /\ q.usage = s.usage
  <2>1. DOMAIN t = {1, 2} /\ t[1] = d /\ t[2] = e
    BY <1>4
  <2>2. DOMAIN t # {} /\ DOMAIN t # {1}
    BY <2>1
  <2> HIDE DEF t
  <2> DEFINE x == PutCall(s, d)
             g == Append(h, CallOf(d))
  <2>3. q = PutCall(x, e)
    BY <1>0, <2>1, <2>2, PutCalls
  <2>4. Speaks(x, text, reasoning, g) /\ x.failed = s.failed /\ x.usage = s.usage
    BY <1>4, BeginItem
  <2>5. Len(h) = n
    OBVIOUS
  <2> HIDE DEF h, n
  <2>6. Len(g) = n + 1 /\ IsSeq(g)
    BY <1>1, <2>5, Appended
  <2> HIDE DEF x, g
  <2>7. /\ Speaks(PutCall(x, e), text, reasoning, Append(g, CallOf(e)))
        /\ PutCall(x, e).failed = x.failed /\ PutCall(x, e).usage = x.usage
    <3>1. Begins(e, Len(g))
      BY <1>4, <2>6
    <3> QED BY <1>4, <2>4, <3>1, BeginItem
  <2> QED BY <1>4, <2>3, <2>4, <2>7 DEF g
<1>5. ASSUME NEW d, t = <<d>>, IsSeq(d.args), Continues(d, n - 1), n >= 1, c = Extends(h, d)
      PROVE  Speaks(q, text, reasoning, c) /\ q.failed = s.failed /\ q.usage = s.usage
  <2>1. DOMAIN t = {1} /\ t[1] = d
    BY <1>5
  <2>2. DOMAIN t # {}
    BY <2>1
  <2> HIDE DEF t
  <2>3. q = PutCall(s, d)
    BY <1>0, <2>1, <2>2, PutCalls
  <2> QED BY <1>1, <1>5, <2>3, ContinueItem
<1> HIDE DEF h, n
<1>6. Telling(l, r, m, c)
  OBVIOUS
<1>7. \/ t = <<>> /\ c = h
      \/ \E d : /\ t = <<d>> /\ Begins(d, n) /\ IsSeq(d.args) /\ c = Append(h, CallOf(d))
      \/ \E d, e : /\ t = <<d, e>> /\ Begins(d, n) /\ Begins(e, n + 1)
                   /\ IsSeq(d.args) /\ IsSeq(e.args)
                   /\ c = Append(Append(h, CallOf(d)), CallOf(e))
      \/ \E d : /\ t = <<d>> /\ Continues(d, n - 1) /\ n >= 1
                /\ IsSeq(d.args) /\ c = Extends(h, d)
  BY <1>6 DEF Telling, h, n
<1> HIDE DEF t
<1> QED BY <1>2, <1>3, <1>4, <1>5, <1>7 DEF TakesWell, q

\* The client of a Responses stream has r.
ResponsesHas(s, r) ==
  Speaks(s, r.text, r.reasoning, r.calls) /\ s.failed = r.error /\ s.usage = r.usage

LEMMA ResponsesReads ==
  ASSUME NEW s, NEW r, ReplyOK(r), ResponsesHas(s, r), r.error = FALSE, NEW l, NEW m, Line(l, r, m)
  PROVE  ResponsesHas(ResponsesLine(s, l), Hear(r, l))
<1> DEFINE p == Parse(l)
           q == ResponsesLine(s, l)
           h == Hear(r, l)
           usage == IF p.usage # None THEN p.usage ELSE s.usage
           noted == [s EXCEPT !.usage = usage]
           thought == IF p.reasoning # <<>> THEN PutReasoning(noted, p.reasoning) ELSE noted
           spoken == IF p.text # <<>> THEN PutMessage(thought, p.text) ELSE thought
           closed == CloseReasoning(spoken)
           e == <<>>
<1>1. /\ p.text = l.text /\ p.reasoning = l.reasoning /\ p.tools = l.tools /\ p.usage = l.usage
      /\ p.kind = "noise" => /\ l.text = e /\ l.reasoning = e /\ l.tools = e /\ l.usage = None
      /\ p.kind = "error" <=> l.kind = "error"
  BY ParsedUsage
<1>2. HeardWith(h, r, l, m)
  BY HearsReply
<1>3. Speaks(s, r.text, r.reasoning, r.calls) /\ s.failed = FALSE /\ s.usage = r.usage
  BY DEF ResponsesHas
<1>9. /\ l.kind = "error" => h.usage = r.usage
      /\ l.kind # "error" => h.usage = IF l.usage = None THEN r.usage ELSE l.usage
  BY <1>2 DEF HeardWith
<1>4. IsSeq(r.text) /\ IsSeq(r.reasoning) /\ IsSeq(l.text) /\ IsSeq(l.reasoning) /\ IsSeq(e)
      /\ r.text \o e = r.text /\ r.reasoning \o e = r.reasoning
  BY NothingIsSeq, Concatenated DEF ReplyOK, Line, Whole
<1>5. l.tools = e /\ Telling(l, r, m, h.calls) => h.calls = r.calls
  <2>1. (\A d : e # <<d>>) /\ \A d, f : e # <<d, f>>
    OBVIOUS
  <2> HIDE DEF h, e
  <2> QED BY <2>1 DEF Telling
<1>6. CASE p.kind = "noise"
  <2>1. q = s
    BY <1>6 DEF ResponsesLine
  <2>2. l.kind # "error"
    BY <1>1, <1>6
  <2> HIDE DEF e, h, q, p
  <2>3. /\ h.text = r.text /\ h.reasoning = r.reasoning /\ h.error = FALSE /\ h.calls = r.calls
        /\ h.usage = r.usage
    BY <1>1, <1>2, <1>4, <1>5, <1>6, <1>9, <2>2 DEF HeardWith
  <2> QED BY <1>3, <2>1, <2>3 DEF ResponsesHas, q, h
<1>7. CASE p.kind = "error"
  <2> DEFINE c == [ResponseEvent EXCEPT !.ev = "failed"]
             z == [s EXCEPT !.failed = TRUE]
  <2>1. q = PutEvent(z, c)
    BY <1>3, <1>7 DEF ResponsesLine
  <2>2. c.ev \notin Deltas /\ c.ev # "item_added" /\ DOMAIN c = DOMAIN ResponseEvent
    BY DEF Deltas, ResponseEvent
  <2>3. Speaks(z, r.text, r.reasoning, r.calls) /\ z.failed = TRUE /\ z.usage = r.usage
    <3>1. DOMAIN s = ResponsesFields
      BY <1>3 DEF Speaks
    <3>2. /\ DOMAIN z = ResponsesFields /\ z.out = s.out /\ z.next = s.next
          /\ z.messageAt = s.messageAt /\ z.thinking = s.thinking /\ z.thinkingAt = s.thinkingAt
          /\ z.tools = s.tools /\ z.itemOf = s.itemOf /\ z.failed = TRUE /\ z.usage = s.usage
      BY <3>1 DEF ResponsesFields
    <3> HIDE DEF z
    <3> QED BY <1>3, <3>2 DEF Speaks
  <2>4. /\ h.text = r.text /\ h.reasoning = r.reasoning /\ h.error = TRUE /\ h.calls = r.calls
        /\ h.usage = r.usage
    BY <1>1, <1>2, <1>7, <1>9 DEF HeardWith
  <2> HIDE DEF e, h, q, p, c, z
  <2>5. SameItems(q, z)
    BY <2>1, <2>2, <2>3, QuietEvent DEF Speaks, Quiet
  <2>6. Speaks(q, r.text, r.reasoning, r.calls) /\ q.failed = TRUE /\ q.usage = r.usage
    BY <2>3, <2>5, SameSpeaks DEF SameItems
  <2> QED BY <2>4, <2>6 DEF ResponsesHas, q, h
<1>8. CASE p.kind \notin {"noise", "error"}
  <2>1. q = IF l.tools = <<>> THEN spoken ELSE Takings(closed, l.tools)
    BY <1>1, <1>3, <1>8 DEF ResponsesLine, Takings
  <2>2. l.kind # "error"
    BY <1>1, <1>8
  <2>3. /\ h.reasoning = r.reasoning \o l.reasoning /\ h.text = r.text \o l.text
        /\ Telling(l, r, m, h.calls) /\ h.error = FALSE /\ h.usage = usage
    BY <1>1, <1>2, <1>3, <1>9, <2>2 DEF HeardWith
  <2>4. Speaks(noted, r.text, r.reasoning, r.calls) /\ noted.failed = FALSE /\ noted.usage = usage
    <3> HIDE DEF usage
    <3>1. DOMAIN s = ResponsesFields
      BY <1>3 DEF Speaks
    <3>2. /\ DOMAIN noted = ResponsesFields /\ noted.out = s.out /\ noted.next = s.next
          /\ noted.messageAt = s.messageAt /\ noted.thinking = s.thinking
          /\ noted.thinkingAt = s.thinkingAt /\ noted.tools = s.tools
          /\ noted.itemOf = s.itemOf /\ noted.failed = s.failed /\ noted.usage = usage
      BY <3>1 DEF ResponsesFields
    <3> HIDE DEF noted
    <3> QED BY <1>3, <3>2 DEF Speaks
  <2> HIDE DEF noted, usage
  <2>5. /\ Speaks(thought, r.text, r.reasoning \o l.reasoning, r.calls)
        /\ thought.failed = FALSE /\ thought.usage = usage
    <3>1. CASE l.reasoning # e
      <4>1. thought = PutReasoning(noted, l.reasoning)
        BY <1>1, <3>1
      <4> HIDE DEF thought
      <4> QED BY <1>4, <2>4, <4>1, SaysReasoning
    <3>2. CASE l.reasoning = e
      <4>1. thought = noted
        BY <1>1, <3>2
      <4> QED BY <1>4, <2>4, <3>2, <4>1
    <3> QED BY <3>1, <3>2
  <2>6. /\ Speaks(spoken, h.text, h.reasoning, r.calls)
        /\ spoken.failed = FALSE /\ spoken.usage = usage
    <3> HIDE DEF thought, h
    <3>1. CASE l.text # e
      <4>1. spoken = PutMessage(thought, l.text)
        BY <1>1, <3>1
      <4> HIDE DEF spoken
      <4>2. /\ Speaks(spoken, r.text \o l.text, r.reasoning \o l.reasoning, r.calls)
            /\ spoken.failed = FALSE /\ spoken.usage = usage
        BY <1>4, <2>5, <4>1, SaysText
      <4> QED BY <2>3, <4>2
    <3>2. CASE l.text = e
      <4>1. spoken = thought
        BY <1>1, <3>2
      <4> QED BY <1>4, <2>3, <2>5, <3>2, <4>1
    <3> QED BY <3>1, <3>2
  <2> HIDE DEF spoken, thought, h, q
  <2>7. CASE l.tools = e
    <3>1. q = spoken /\ h.calls = r.calls
      BY <1>5, <2>1, <2>3, <2>7
    <3> QED BY <2>3, <2>6, <3>1 DEF ResponsesHas, q, h
  <2>8. CASE l.tools # e
    <3>1. SameItems(closed, spoken)
      BY <2>6, QuietReasoning DEF Speaks, Quiet
    <3> HIDE DEF closed
    <3>2. /\ Speaks(closed, h.text, h.reasoning, r.calls)
          /\ closed.failed = FALSE /\ closed.usage = usage
      BY <2>6, <3>1, SameSpeaks DEF SameItems
    <3>3. q = Takings(closed, l.tools)
      BY <2>1, <2>8
    <3>4. TakesWell(Takings(closed, l.tools), closed, h.text, h.reasoning, h.calls)
      BY <2>3, <3>2, TakesCalls
    <3> QED BY <2>3, <3>2, <3>3, <3>4 DEF TakesWell, ResponsesHas, q, h
  <2> QED BY <2>7, <2>8
<1> QED BY <1>6, <1>7, <1>8

LEMMA ResponsesStarts == ResponsesHas(ResponsesStart, Silence)
<1> DEFINE e == <<>>
           z == [out |-> e, seq |-> 0, next |-> 0, messageAt |-> None, text |-> e,
                 thinking |-> FALSE, part |-> FALSE, thinkingAt |-> None, thoughts |-> 0,
                 rid |-> ReasoningId(0), reasoning |-> e, tools |-> NoCalls, itemOf |-> e,
                 done |-> e, usage |-> NoUsage, failed |-> FALSE]
           c == [ResponseEvent EXCEPT !.ev = "created"]
           s == ResponsesStart
           r == Silence
<1>1. s = PutEvent(z, c)
  BY DEF ResponsesStart
<1>2. r.text = e /\ r.reasoning = e /\ r.calls = e /\ r.error = FALSE /\ r.usage = NoUsage
  BY DEF Silence
<1>3. DOMAIN c = DOMAIN ResponseEvent /\ c.ev \notin Deltas /\ c.ev # "item_added"
  BY DEF ResponseEvent, Deltas
<1>4. /\ DOMAIN z = ResponsesFields /\ z.out = e /\ z.next = 0 /\ z.messageAt = None
      /\ z.thinking = FALSE /\ z.tools = e /\ z.itemOf = e /\ z.failed = FALSE
      /\ z.usage = NoUsage
  <2>1. NoCalls = e
    BY DEF NoCalls
  <2> HIDE DEF e
  <2> QED BY <2>1 DEF ResponsesFields
<1>5. IsSeq(e) /\ Len(e) = 0 /\ DOMAIN e = 0..(0 - 1) /\ Items(e) = e
  BY NothingIsSeq, NothingRead
<1>6. Join(e, "message") = e /\ Join(e, "reasoning") = e /\ CallsIn(e, "function_call") = e
  <2>1. e = <<>>
    OBVIOUS
  <2> HIDE DEF e
  <2> QED BY <2>1, NothingSaid
<1>7. CallsAgree(e, e)
  BY <1>2, AgreeNothing DEF r
<1> HIDE DEF e, z, c, s, r
<1>8. ItemList(e)
  BY <1>5 DEF ItemList, ListOK
<1>9. Gathered(e, e)
  BY <1>5 DEF Gathered
<1>10. Speaks(z, e, e, e)
  BY <1>4, <1>5, <1>6, <1>7, <1>8, <1>9 DEF Speaks, OwnIds
<1>11. SameItems(s, z)
  BY <1>1, <1>3, <1>10, QuietEvent DEF Speaks, Quiet
<1>12. Speaks(s, e, e, e) /\ s.failed = FALSE /\ s.usage = NoUsage
  BY <1>4, <1>10, <1>11, SameSpeaks DEF SameItems
<1> QED BY <1>2, <1>12 DEF ResponsesHas, s, r

\* The calls are closed one after the other: no item changes.
LEMMA QuietCalls ==
  ASSUME NEW s, Quiet(s), NEW t, NEW n \in Nat, DOMAIN t = 1..n
  PROVE  SameItems(FoldLeft(CloseCall, s, t), s)
<1> DEFINE q == FoldLeft(CloseCall, s, t)
<1>1. PICK G : /\ q = G[n] /\ G[0] = s
               /\ \A k \in 0..(n - 1) : G[k + 1] = CloseCall(G[k], t[k + 1])
  <2>1. \E G : ClosesAll(G, s, t, n, q)
    BY FoldCalls
  <2> HIDE DEF q
  <2> QED BY <2>1 DEF ClosesAll
<1> HIDE DEF q
<1> DEFINE S == {k \in Nat : k <= n => SameItems(G[k], s)}
<1>2. 0 \in S
  BY <1>1 DEF SameItems, Quiet
<1>3. ASSUME NEW k \in Nat, k \in S
      PROVE  k + 1 \in S
  <2>1. CASE k + 1 <= n
    <3>1. k \in 0..(n - 1) /\ k <= n
      BY <2>1
    <3>2. SameItems(G[k], s) /\ G[k + 1] = CloseCall(G[k], t[k + 1])
      BY <1>1, <1>3, <3>1
    <3> DEFINE x == G[k]
               call == t[k + 1]
    <3> HIDE DEF x, call
    <3>3. SameItems(x, s) /\ Quiet(x)
      BY <3>2 DEF x, SameItems, Quiet
    <3>4. SameItems(CloseCall(x, call), x)
      BY <3>3, QuietCall
    <3>5. SameItems(CloseCall(x, call), s)
      BY <3>3, <3>4, SameTwice
    <3> QED BY <3>2, <3>5 DEF x, call
  <2>2. CASE ~(k + 1 <= n)
    <3>1. k + 1 \in Nat
      OBVIOUS
    <3> QED BY <2>2, <3>1
  <2> QED BY <2>1, <2>2
<1>4. SameItems(G[n], s)
  <2>1. \A k \in Nat : k \in S
    <3> HIDE DEF S
    <3> QED BY <1>2, <1>3, SetInduction
  <2> QED BY <2>1
<1> QED BY <1>1, <1>4 DEF q

\* The client of an ended stream has the usage of r too.
ResponsesDone(s, r) ==
  ResponsesHas(s, r) /\ (~r.error => s.out[Len(s.out)].usage = ResponsesUsage(r.usage))

LEMMA ResponsesEnds ==
  ASSUME NEW s, NEW r, ResponsesHas(s, r)
  PROVE  ResponsesDone(ResponsesClose(s), r)
<1> DEFINE q == ResponsesClose(s)
           x == CloseReasoning(s)
           y == CloseMessage(x)
           t == CompletedCalls(s.tools)
           c == FoldLeft(CloseCall, y, t)
           usage == ResponsesUsage(s.usage)
           e == [ResponseEvent EXCEPT !.ev = "completed", !.output = Ordered(c.done),
                                      !.usage = usage]
           f == [e EXCEPT !.seq = c.seq + 1]
<1>1. Speaks(s, r.text, r.reasoning, r.calls) /\ s.failed = r.error /\ s.usage = r.usage
  BY DEF ResponsesHas
<1>2. CASE s.failed
  <2>1. q = s
    BY <1>2 DEF ResponsesClose
  <2> QED BY <1>1, <1>2, <2>1 DEF ResponsesDone
<1>3. CASE ~s.failed
  <2>1. q = PutEvent(c, e)
    BY <1>3 DEF ResponsesClose
  <2>2. DOMAIN e = DOMAIN ResponseEvent /\ e.ev = "completed" /\ e.usage = usage
    BY DEF ResponseEvent
  <2> HIDE DEF e, usage
  <2>3. SameItems(x, s) /\ Quiet(x)
    BY <1>1, QuietReasoning DEF Speaks, Quiet
  <2> HIDE DEF x
  <2>4. SameItems(y, x) /\ Quiet(y)
    BY <2>3, QuietMessage
  <2> HIDE DEF y
  <2>5. SameItems(y, s)
    BY <2>3, <2>4, SameTwice
  <2>6. DOMAIN t = 1..Len(t) /\ Len(t) \in Nat
    <3>1. Gathered(s.tools, r.calls)
      BY <1>1 DEF Speaks
    <3>2. CompletedAre(t, r.calls)
      BY <3>1, GatheredComplete
    <3>3. IsSeq(t)
      BY <3>2 DEF CompletedAre
    <3> HIDE DEF t
    <3> QED BY <3>3, Appended
  <2> HIDE DEF t
  <2>7. SameItems(c, y)
    BY <2>4, <2>6, QuietCalls
  <2> HIDE DEF c
  <2>8. SameItems(c, s) /\ Quiet(c)
    BY <2>5, <2>7, SameTwice
  <2>9. SameItems(q, c)
    BY <2>1, <2>2, <2>8, QuietEvent DEF Deltas
  <2>10. SameItems(q, s)
    BY <2>8, <2>9, SameTwice
  <2>12. q.out = Append(c.out, f) /\ f.usage = usage
    BY <2>1, <2>2, <2>8, PutIs DEF Quiet
  <2> HIDE DEF q, f
  <2>11. Speaks(q, r.text, r.reasoning, r.calls) /\ q.failed = s.failed /\ q.usage = s.usage
    BY <1>1, <2>10, SameSpeaks DEF SameItems
  <2>13. q.out[Len(q.out)].usage = ResponsesUsage(r.usage)
    <3>1. Len(q.out) = Len(c.out) + 1 /\ q.out[Len(c.out) + 1] = f
      BY <2>8, <2>12, Appended DEF Quiet
    <3> QED BY <1>1, <2>12, <3>1 DEF usage
  <2> QED BY <1>1, <2>11, <2>13 DEF ResponsesHas, ResponsesDone, q
<1> QED BY <1>2, <1>3

ResponsesSees ==
  dialect = "responses" =>
    ResponsesHas(stream, said) /\ (phase = "closed" => ResponsesDone(stream, said))

LEMMA InitResponsesSees == Init => ResponsesSees
<1>0. dialect # "responses" => ResponsesSees
  BY DEF ResponsesSees
<1> SUFFICES ASSUME Init, dialect = "responses" PROVE ResponsesSees
  BY <1>0
<1>1. stream = ResponsesStart /\ said = Silence
  BY DEF Init, Start
<1>2. phase # "closed"
  BY DEF Init, Send
<1> QED BY <1>1, <1>2, ResponsesStarts DEF ResponsesSees

LEMMA NextResponsesSees == ReplyInv /\ ResponsesSees /\ [Next]_vars => ResponsesSees'
<1>0. ReplyInv /\ [Next]_vars /\ dialect # "responses" => ResponsesSees'
  <2>1. ReplyInv /\ [Next]_vars => dialect' = dialect
    BY Steps DEF ReplyInv, vars, Keeps, Reads, StreamEnds, ReplyBegins
  <2> QED BY <2>1 DEF ResponsesSees
<1> SUFFICES ASSUME ReplyInv, ResponsesSees, [Next]_vars, dialect = "responses"
             PROVE  ResponsesSees'
  BY <1>0
<1>1. ReplyOK(said)
  BY DEF ReplyInv
<1>2. ResponsesHas(stream, said)
  BY DEF ResponsesSees
<1>3. CASE UNCHANGED vars \/ Keeps
  <2>1. UNCHANGED <<stream, said>> /\ (phase' = "closed" => phase = "closed")
    BY <1>3 DEF vars, Keeps
  <2>2. ResponsesHas(stream', said') /\ (phase' = "closed" => ResponsesDone(stream', said'))
    BY <1>2, <2>1 DEF ResponsesSees
  <2> QED BY <2>2 DEF ResponsesSees
<1>4. ASSUME NEW l, NEW m, Reads(l, m)
      PROVE  ResponsesSees'
  <2>1. /\ Line(l, said, m) /\ ~said.error
        /\ stream' = ResponsesLine(stream, l) /\ said' = Hear(said, l)
    BY <1>4 DEF Reads, Translate
  <2>2. said.error = FALSE
    BY <1>1, <2>1 DEF ReplyOK
  <2>3. ResponsesHas(stream', said')
    BY <1>1, <1>2, <2>1, <2>2, ResponsesReads
  <2>4. phase' # "closed"
    BY <1>4 DEF Reads
  <2> QED BY <2>3, <2>4 DEF ResponsesSees
<1>5. CASE StreamEnds
  <2>1. UNCHANGED said /\ stream' = ResponsesClose(stream)
    BY <1>5 DEF StreamEnds, Close
  <2>2. ResponsesDone(stream', said')
    BY <1>2, <2>1, ResponsesEnds
  <2> QED BY <2>2 DEF ResponsesSees, ResponsesDone
<1>6. CASE ReplyBegins
  <2>1. said' = Silence /\ stream' = ResponsesStart
    BY <1>6 DEF ReplyBegins, Start
  <2>2. ResponsesHas(stream', said')
    BY <2>1, ResponsesStarts
  <2>3. phase' # "closed"
    BY <1>6 DEF ReplyBegins
  <2> QED BY <2>2, <2>3 DEF ResponsesSees
<1> QED BY <1>1, <1>3, <1>4, <1>5, <1>6, Steps

-----------------------------------------------------------------------------
(* What every client sees. *)

\* The part of the property that is about the reply, the part about the
\* tokens, and the part about an OpenAI client's lines.
SeesReply ==
  LET shown == CASE dialect \in {"responses", "openai"} -> TRUE
                 [] dialect = "generate" -> FALSE
                 [] OTHER -> Thinking
      late == dialect \in {"ollama", "generate"}
      whole == phase = "closed" /\ ~said.error
  IN  /\ Received.text = said.text
      /\ Received.reasoning = (IF shown THEN said.reasoning ELSE <<>>)
      /\ Calls(Received.calls) =
           (IF dialect = "generate" \/ (late /\ ~whole) THEN <<>> ELSE Tellable(said.calls))
      /\ \A k \in 1..Len(Received.calls) :
           ~late /\ said.calls[k].id # <<>> => Received.calls[k].id = said.calls[k].id
      /\ stream.failed = said.error
SeesTokens ==
  LET late == dialect \in {"ollama", "generate"}
      whole == phase = "closed" /\ ~said.error
  IN  /\ whole /\ dialect = "anthropic" =>
           LET u == stream.out[Len(stream.out) - 1].usage
           IN  u.input + u.cache_read = said.usage.prompt /\ u.output = said.usage.completion
      /\ whole /\ dialect = "responses" =>
           LET u == FinalChunk.usage
           IN  u.input = said.usage.prompt /\ u.output = said.usage.completion
               /\ u.total = said.usage.total
      /\ whole /\ late => /\ FinalChunk.prompt = said.usage.prompt
                          /\ FinalChunk.eval = said.usage.completion
SeesLines ==
  /\ dialect = "openai" =>
       (\E i \in DOMAIN stream.out : UsageOnly(stream.out[i]))
         = (wish.usage /\ said.usage # NoUsage)
  /\ dialect = "openai" => \A i \in DOMAIN stream.out :
       stream.out[i].kind = "chunk" => stream.out[i].model = "alias"

LEMMA UsageAddsUp ==
  ASSUME NEW u, u = NoUsage \/ (u.prompt \in {3, 10} /\ u.cached = 4)
  PROVE  LET a == AnthropicUsage(u)
         IN  a.input + a.cache_read = u.prompt /\ a.output = u.completion
<1>1. u.prompt \in {0, 3, 10} /\ u.cached \in {0, 4}
  BY DEF NoUsage
<1> QED BY <1>1 DEF AnthropicUsage, Least

\* Only Ollama's dialect cannot tell some arguments.
LEMMA WhatIsTellable ==
  ASSUME NEW h
  PROVE  /\ dialect = "ollama" => Tellable(h) = AsOllama(h)
         /\ dialect # "ollama" => Tellable(h) = Calls(h)
BY DEF Tellable, AsOllama, Coerced, Calls

LEMMA AnthropicClient ==
  ASSUME dialect = "anthropic", AnthropicSees, ReplyOK(said)
  PROVE  SeesReply /\ SeesTokens
<1> DEFINE bs == Blocks(stream.out)
           cs == CallsIn(bs, "tool_use")
           x == Received
<1>1. x = [reasoning |-> Join(bs, "thinking"), text |-> Join(bs, "text"), calls |-> cs]
  BY DEF Received, FromBlocks
<1>2. /\ stream.failed = said.error /\ (stream.thinking <=> Thinking)
      /\ Join(bs, "text") = said.text /\ Join(bs, "thinking") = Seen(stream, said)
      /\ CallsAgree(cs, said.calls)
  BY DEF AnthropicSees, AnthropicDone, AnthropicHas, Talks
<1> HIDE DEF bs, cs
<1>3. x.text = said.text /\ x.reasoning = Seen(stream, said) /\ x.calls = cs
  BY <1>1, <1>2
<1>4. Calls(cs) = Tellable(said.calls)
      /\ \A k \in 1..Len(cs) : said.calls[k].id # <<>> => cs[k].id = said.calls[k].id
  BY <1>2, AgreeSays, WhatIsTellable
<1> HIDE DEF x
<1>5. SeesReply
  <2>1. x.reasoning = IF Thinking THEN said.reasoning ELSE <<>>
    BY <1>2, <1>3 DEF Seen
  <2> QED BY <1>2, <1>3, <1>4, <2>1 DEF SeesReply, x
<1>6. SeesTokens
  <2> SUFFICES ASSUME phase = "closed", ~said.error
               PROVE  LET u == stream.out[Len(stream.out) - 1].usage
                      IN  u.input + u.cache_read = said.usage.prompt
                          /\ u.output = said.usage.completion
    BY DEF SeesTokens
  <2>1. stream.out[Len(stream.out) - 1].usage = AnthropicUsage(said.usage)
    BY DEF AnthropicSees, AnthropicDone
  <2>2. said.usage = NoUsage \/ (said.usage.prompt \in {3, 10} /\ said.usage.cached = 4)
    BY DEF ReplyOK
  <2> QED BY <2>1, <2>2, UsageAddsUp
<1> QED BY <1>5, <1>6

LEMMA ResponsesClient ==
  ASSUME dialect = "responses", ResponsesSees
  PROVE  SeesReply /\ SeesTokens
<1> DEFINE is == Items(stream.out)
           cs == CallsIn(is, "function_call")
           x == Received
<1>1. x = [reasoning |-> Join(is, "reasoning"), text |-> Join(is, "message"), calls |-> cs]
  BY DEF Received, FromItems
<1>2. /\ stream.failed = said.error
      /\ Join(is, "message") = said.text /\ Join(is, "reasoning") = said.reasoning
      /\ CallsAgree(cs, said.calls)
  BY DEF ResponsesSees, ResponsesHas, Speaks
<1> HIDE DEF is, cs
<1>3. x.text = said.text /\ x.reasoning = said.reasoning /\ x.calls = cs
  BY <1>1, <1>2
<1>4. Calls(cs) = Tellable(said.calls)
      /\ \A k \in 1..Len(cs) : said.calls[k].id # <<>> => cs[k].id = said.calls[k].id
  BY <1>2, AgreeSays, WhatIsTellable
<1> HIDE DEF x
<1>5. SeesReply
  BY <1>2, <1>3, <1>4 DEF SeesReply, x
<1>6. SeesTokens
  BY DEF SeesTokens, ResponsesSees, ResponsesDone, FinalChunk, ResponsesUsage
<1> QED BY <1>5, <1>6

LEMMA OpenAiClient ==
  ASSUME dialect = "openai", OpenAiInv, ReplyOK(said)
  PROVE  SeesReply /\ SeesLines
<1> DEFINE t == TwinHeard(stream.out)
           x == Received
<1>1. OpenAiHas(stream, said)
  BY DEF OpenAiInv
<1>2. x.text = t.text /\ x.reasoning = t.reasoning /\ x.calls = t.calls
  BY DEF Received, TwinHeard
<1>3. t.text = said.text /\ t.reasoning = said.reasoning /\ t.calls = said.calls
      /\ stream.failed = said.error
  BY <1>1 DEF OpenAiHas, SameReply
<1> HIDE DEF t, x
<1>4. SeesReply
  BY <1>2, <1>3, WhatIsTellable DEF SeesReply, x
<1>5. SeesLines
  BY <1>1 DEF OpenAiHas, UsageSeen, Aliased, SeesLines
<1> QED BY <1>4, <1>5

LEMMA NoCallsSaid == Calls(<<>>) = <<>>
BY DEF Calls

LEMMA CallsTwice ==
  ASSUME NEW h, Len(h) \in Nat
  PROVE  Calls(AsOllama(h)) = AsOllama(h) /\ Len(AsOllama(h)) = Len(h) /\ IsSeq(AsOllama(h))
<1> DEFINE c == AsOllama(h)
           n == Len(h)
<1>1. DOMAIN c = 1..n /\ c = [k \in 1..n |-> c[k]]
      /\ c = [k \in 1..n |-> [name |-> h[k].name, args |-> Coerced(h[k].args)]]
  BY DEF AsOllama
<1> HIDE DEF c
<1>2. IsSeq(c) /\ Len(c) = n
  BY <1>1, Numbered
<1>3. \A k \in 1..n : c[k].name = h[k].name /\ c[k].args = Coerced(h[k].args)
  BY <1>1
<1>4. Calls(c) = [k \in 1..n |-> [name |-> h[k].name, args |-> Coerced(h[k].args)]]
  BY <1>2, <1>3 DEF Calls
<1> QED BY <1>1, <1>2, <1>4 DEF c

LEMMA OllamaClient ==
  ASSUME dialect \in {"ollama", "generate"}, OllamaInv, ReplyOK(said)
  PROVE  SeesReply /\ SeesTokens
<1> DEFINE out == stream.out
           x == Received
           whole == phase = "closed" /\ ~said.error
           want == IF dialect = "generate" \/ ~whole THEN <<>> ELSE Tellable(said.calls)
           reasoning == IF dialect = "generate" THEN <<>>
                        ELSE IF Thinking THEN said.reasoning ELSE <<>>
<1>1. x = FromChunks(out)
  BY DEF Received
<1>2. /\ stream.failed = said.error
      /\ (stream.chat <=> dialect = "ollama") /\ (stream.thinking <=> Thinking)
      /\ \E cs : ChunksSay(out, said.text, Shown(stream, said), cs) /\ Calls(cs) = want
  <2>1. CASE phase = "closed"
    <3>1. OllamaDone(stream, said)
      BY <2>1 DEF OllamaInv
    <3> DEFINE cs == IF stream.chat /\ ~said.error THEN AsOllama(said.calls) ELSE <<>>
    <3>2. ChunksSay(out, said.text, Shown(stream, said), cs)
      BY <3>1 DEF OllamaDone
    <3>3. (stream.chat <=> dialect = "ollama") /\ (stream.thinking <=> Thinking)
          /\ stream.failed = said.error
      BY <3>1 DEF OllamaDone
    <3>4. Calls(cs) = want
      <4>1. Calls(AsOllama(said.calls)) = AsOllama(said.calls)
        BY CallsTwice, Appended DEF ReplyOK
      <4> QED BY <2>1, <3>2, <3>3, <4>1, NoCallsSaid, WhatIsTellable
    <3> HIDE DEF want, cs
    <3> QED BY <3>2, <3>3, <3>4
  <2>2. CASE phase # "closed"
    <3>1. OllamaHas(stream, said)
      BY <2>2 DEF OllamaInv
    <3>2. Calls(<<>>) = want
      BY <2>2, NoCallsSaid
    <3> HIDE DEF want
    <3> QED BY <3>1, <3>2 DEF OllamaHas
  <2> QED BY <2>1, <2>2
<1>3. PICK cs : ChunksSay(out, said.text, Shown(stream, said), cs) /\ Calls(cs) = want
  BY <1>2
<1>4. x.text = said.text /\ x.reasoning = Shown(stream, said) /\ x.calls = cs
  BY <1>1, <1>3 DEF FromChunks, ChunksSay, ColumnSays, Column
<1>5. Shown(stream, said) = reasoning
  BY <1>2 DEF Shown
<1> HIDE DEF x
<1>6. SeesReply
  BY <1>2, <1>3, <1>4, <1>5 DEF SeesReply, x
<1>7. SeesTokens
  BY DEF SeesTokens, OllamaInv, OllamaDone, FinalChunk
<1> QED BY <1>6, <1>7

\* A request that failed was answered, and the row of an ended one is right.
SeesEnds ==
  /\ phase = "refused" =>
       /\ told.shape = IF dialect = "anthropic" THEN "anthropic" ELSE "openai"
       /\ told.status = failure.status
  /\ phase = "closed" => RecordsWhatWasSaid(timing.row)

LEMMA EndsSeen ==
  ASSUME ReplyInv
  PROVE  SeesEnds
<1>1. phase = "refused" => Answers(dialect, failure, told)
  BY DEF ReplyInv
<1>2. phase = "closed" => Records(timing.row, said)
  BY DEF ReplyInv
<1>3. phase = "closed" => RecordsWhatWasSaid(timing.row)
  BY <1>2 DEF Records, RecordsWhatWasSaid, Spoke, Counted
<1> QED BY <1>1, <1>3 DEF SeesEnds, Answers

ClientInv == ReplyInv /\ OpenAiInv /\ OllamaInv /\ AnthropicSees /\ ResponsesSees

LEMMA ClientSees ==
  ASSUME ClientInv
  PROVE  ClientSeesWhatWasSaid
<1>1. ReplyOK(said) /\ dialect \in {"anthropic", "responses", "ollama", "generate", "openai"}
  BY DEF ClientInv, ReplyInv
<1>2. SeesReply
  BY <1>1, AnthropicClient, ResponsesClient, OpenAiClient, OllamaClient DEF ClientInv
<1>3. SeesTokens
  <2>1. dialect \notin {"anthropic", "responses", "ollama", "generate"} => SeesTokens
    BY DEF SeesTokens
  <2> QED BY <1>1, <2>1, AnthropicClient, ResponsesClient, OllamaClient DEF ClientInv
<1>4. SeesLines
  <2>1. dialect # "openai" => SeesLines
    BY DEF SeesLines
  <2> QED BY <1>1, <2>1, OpenAiClient DEF ClientInv
<1>5. SeesEnds
  BY EndsSeen DEF ClientInv
<1> QED BY <1>2, <1>3, <1>4, <1>5
        DEF SeesReply, SeesTokens, SeesLines, SeesEnds, ClientSeesWhatWasSaid

LEMMA ClientInvHolds == Spec => []ClientInv
<1>1. Init => ClientInv
  BY InitReply, InitOpenAi, InitOllama, InitSees, InitResponsesSees DEF ClientInv
<1>2. ClientInv /\ [Next]_vars => ClientInv'
  BY NextReply, NextOpenAi, NextOllama, NextSees, NextResponsesSees DEF ClientInv
<1> QED BY <1>1, <1>2, PTL DEF Spec

\* Whatever the dialect, the tools, the bounds and the interleaving of lines,
\* errors and a broken connection, the client has at every moment exactly what
\* the model said, with {} for arguments that an Ollama client could not read, is
\* told of every error, and is told of and charged for the tokens the upstream
\* counted (the translators of responses_proxy.py, anthropic_proxy.py and
\* ollama_proxy.py, and the timing row of the request).
THEOREM ClientSeesAll == Spec => []ClientSeesWhatWasSaid
<1>1. ClientInv => ClientSeesWhatWasSaid
  BY ClientSees
<1> QED BY <1>1, ClientInvHolds, PTL

-----------------------------------------------------------------------------
(* Concatenations of several parts. *)

\* The elements of a concatenation.
LEMMA Catenated ==
  ASSUME NEW s, NEW t, IsSeq(s), IsSeq(t)
  PROVE  /\ IsSeq(s \o t) /\ Len(s) \in Nat /\ Len(t) \in Nat /\ Len(s \o t) = Len(s) + Len(t)
         /\ \A i \in 1..Len(s) : (s \o t)[i] = s[i]
         /\ \A i \in 1..Len(t) : (s \o t)[Len(s) + i] = t[i]
<1>1. PICK S : s \in Seq(S)
  BY DEF IsSeq
<1>2. PICK T : t \in Seq(T)
  BY DEF IsSeq
<1> DEFINE U == S \cup T
<1>3. s \in Seq(U) /\ t \in Seq(U)
  BY <1>1, <1>2
<1> HIDE DEF U
<1>4. /\ s \o t \in Seq(U) /\ Len(s) \in Nat /\ Len(t) \in Nat /\ Len(s \o t) = Len(s) + Len(t)
      /\ \A i \in 1..Len(s) : (s \o t)[i] = s[i]
      /\ \A i \in 1..Len(t) : (s \o t)[Len(s) + i] = t[i]
  BY <1>3
<1> QED BY <1>4 DEF IsSeq

\* It does not matter which two of three sequences come together first.
Regroups(s, t, u) == (s \o t) \o u = s \o (t \o u)

LEMMA Regrouped ==
  ASSUME NEW s, NEW t, NEW u, IsSeq(s), IsSeq(t), IsSeq(u)
  PROVE  Regroups(s, t, u)
<1>1. PICK S : s \in Seq(S)
  BY DEF IsSeq
<1>2. PICK T : t \in Seq(T)
  BY DEF IsSeq
<1>3. PICK V : u \in Seq(V)
  BY DEF IsSeq
<1> DEFINE U == (S \cup T) \cup V
<1>4. s \in Seq(U) /\ t \in Seq(U) /\ u \in Seq(U)
  BY <1>1, <1>2, <1>3
<1> HIDE DEF U
<1> QED BY <1>4 DEF Regroups

\* What begins a sequence.
Opening(t, n) == [k \in 1..n |-> t[k]]

LEMMA BeginsOf ==
  ASSUME NEW t, IsSeq(t), NEW n \in Nat, n <= Len(t)
  PROVE  /\ IsSeq(Opening(t, n)) /\ Len(Opening(t, n)) = n /\ \A k \in 1..n : Opening(t, n)[k] = t[k]
         /\ n < Len(t) => Opening(t, n + 1) = Append(Opening(t, n), t[n + 1])
         /\ n = Len(t) => Opening(t, n) = t
         /\ n = 0 => Opening(t, n) = <<>>
<1>1. ASSUME NEW i \in Nat
      PROVE  /\ IsSeq(Opening(t, i)) /\ Len(Opening(t, i)) = i
             /\ \A k \in 1..i : Opening(t, i)[k] = t[k]
  <2> DEFINE f == Opening(t, i)
  <2>1. DOMAIN f = 1..i /\ f = [k \in 1..i |-> f[k]] /\ \A k \in 1..i : f[k] = t[k]
    BY DEF Opening
  <2> HIDE DEF f
  <2>2. IsSeq(f) /\ Len(f) = i
    BY <2>1, Numbered
  <2> QED BY <2>1, <2>2 DEF f
<1>2. ASSUME n < Len(t)
      PROVE  Opening(t, n + 1) = Append(Opening(t, n), t[n + 1])
  <2> DEFINE f == Opening(t, n)
             g == Opening(t, n + 1)
             x == t[n + 1]
  <2>1. IsSeq(f) /\ Len(f) = n /\ \A k \in 1..n : f[k] = t[k]
    BY <1>1
  <2>2. IsSeq(g) /\ Len(g) = n + 1 /\ \A k \in 1..(n + 1) : g[k] = t[k]
    BY <1>1
  <2> HIDE DEF f, g, x
  <2>3. /\ IsSeq(Append(f, x)) /\ Len(Append(f, x)) = n + 1 /\ Append(f, x)[n + 1] = x
        /\ \A k \in 1..n : Append(f, x)[k] = f[k]
    BY <2>1, Appended
  <2>4. \A k \in 1..(n + 1) : k \in 1..n \/ k = n + 1
    OBVIOUS
  <2>5. \A k \in 1..(n + 1) : g[k] = Append(f, x)[k]
    BY <2>1, <2>2, <2>3, <2>4 DEF x
  <2>6. g = Append(f, x)
    BY <2>2, <2>3, <2>5, SameSeq
  <2> QED BY <2>6 DEF f, g, x
<1>3. n = Len(t) => Opening(t, n) = t
  BY <1>1, SameSeq
<1>4. n = 0 => Opening(t, n) = <<>>
  BY DEF Opening
<1> QED BY <1>1, <1>2, <1>3, <1>4

\* A function that goes on by each sequence is what they make together.
Follows(f, ss) == f[0] = <<>> /\ \A n \in Nat : n < Len(ss) => f[n + 1] = f[n] \o ss[n + 1]

LEMMA FlattenFollows ==
  ASSUME NEW ss, IsSeq(ss), \A k \in 1..Len(ss) : IsSeq(ss[k]), NEW f, Follows(f, ss)
  PROVE  FlattenSeq(ss) = f[Len(ss)]
<1> DEFINE S == {n \in Nat : n <= Len(ss) => FlattenSeq(Opening(ss, n)) = f[n]}
           N == Len(ss)
<1>1. N \in Nat
  BY Appended
<1>2. 0 \in S
  <2>1. Opening(ss, 0) = <<>>
    BY <1>1, BeginsOf
  <2>2. FlattenSeq(<<>>) = <<>>
    BY DEF FlattenSeq
  <2> QED BY <2>1, <2>2 DEF Follows
<1>3. ASSUME NEW n \in Nat, n \in S
      PROVE  n + 1 \in S
  <2> SUFFICES ASSUME n + 1 <= N
               PROVE  FlattenSeq(Opening(ss, n + 1)) = f[n + 1]
    BY DEF N
  <2>1. n < N /\ n <= N /\ n + 1 \in 1..N
    BY <1>1
  <2> DEFINE p == Opening(ss, n)
             x == ss[n + 1]
  <2>2. IsSeq(p) /\ Opening(ss, n + 1) = Append(p, x) /\ IsSeq(x)
    BY <2>1, BeginsOf
  <2>3. FlattenSeq(p) = f[n] /\ f[n + 1] = f[n] \o x
    BY <1>3, <2>1 DEF Follows
  <2> HIDE DEF p, x
  <2>4. FlattenSeq(Append(p, x)) = FlattenSeq(p) \o x
    BY <2>2, FlattenAppend
  <2> QED BY <2>2, <2>3, <2>4
<1>4. \A n \in Nat : n \in S
  <2> HIDE DEF S
  <2> QED BY <1>2, <1>3, SetInduction
<1>5. Opening(ss, N) = ss
  BY <1>1, BeginsOf
<1> QED BY <1>1, <1>4, <1>5

\* Of two lists of sequences one after the other.
LEMMA FlattenBoth ==
  ASSUME NEW ss, NEW tt, IsSeq(ss), IsSeq(tt),
         \A k \in 1..Len(ss) : IsSeq(ss[k]), \A k \in 1..Len(tt) : IsSeq(tt[k])
  PROVE  FlattenSeq(ss \o tt) = FlattenSeq(ss) \o FlattenSeq(tt)
<1> DEFINE N == Len(tt)
           S == {n \in Nat : n <= N => FlattenSeq(ss \o Opening(tt, n))
                                         = FlattenSeq(ss) \o FlattenSeq(Opening(tt, n))}
<1>1. N \in Nat /\ IsSeq(FlattenSeq(ss))
  BY Appended, FlattenIsSeq
<1>2. 0 \in S
  <2>1. Opening(tt, 0) = <<>>
    BY <1>1, BeginsOf
  <2>2. FlattenSeq(<<>>) = <<>>
    BY DEF FlattenSeq
  <2>3. ss \o <<>> = ss /\ FlattenSeq(ss) \o <<>> = FlattenSeq(ss)
    BY <1>1, Concatenated
  <2> QED BY <2>1, <2>2, <2>3
<1>3. ASSUME NEW n \in Nat, n \in S
      PROVE  n + 1 \in S
  <2> SUFFICES ASSUME n + 1 <= N
               PROVE  FlattenSeq(ss \o Opening(tt, n + 1))
                        = FlattenSeq(ss) \o FlattenSeq(Opening(tt, n + 1))
    OBVIOUS
  <2>1. n < N /\ n <= N /\ n + 1 \in 1..N
    BY <1>1
  <2> DEFINE p == Opening(tt, n)
             x == tt[n + 1]
             a == FlattenSeq(ss)
             b == FlattenSeq(p)
  <2>2. IsSeq(p) /\ Opening(tt, n + 1) = Append(p, x) /\ IsSeq(x)
        /\ Len(p) = n /\ \A k \in 1..n : p[k] = tt[k]
    BY <2>1, BeginsOf
  <2>3. FlattenSeq(ss \o p) = a \o b
    BY <1>3, <2>1
  <2>4. IsSeq(b)
    <3>1. \A k \in 1..Len(p) : IsSeq(p[k])
      BY <1>1, <2>1, <2>2
    <3> HIDE DEF p
    <3> QED BY <2>2, <3>1, FlattenIsSeq
  <2> HIDE DEF p, x, a, b
  <2>5. ss \o Append(p, x) = Append(ss \o p, x)
    <3> DEFINE e == <<x>>
    <3>1. IsSeq(e) /\ \A s : IsSeq(s) => Append(s, x) = s \o e
      BY Single
    <3> HIDE DEF e
    <3>2. IsSeq(ss \o p)
      BY <2>2, Concatenated
    <3>3. Regroups(ss, p, e)
      BY <2>2, <3>1, Regrouped
    <3>4. (ss \o p) \o e = ss \o (p \o e)
      BY <3>3 DEF Regroups
    <3> QED BY <2>2, <3>1, <3>2, <3>4
  <2>6. FlattenSeq(Append(p, x)) = b \o x
    BY <2>2, FlattenAppend DEF b
  <2>7. FlattenSeq(Append(ss \o p, x)) = (a \o b) \o x
    <3>1. IsSeq(ss \o p)
      BY <2>2, Concatenated
    <3> QED BY <2>2, <2>3, <3>1, FlattenAppend
  <2>8. (a \o b) \o x = a \o (b \o x)
    <3>1. IsSeq(a) /\ IsSeq(b) /\ IsSeq(x)
      BY <1>1, <2>2, <2>4 DEF a
    <3>2. Regroups(a, b, x)
      BY <3>1, Regrouped
    <3> QED BY <3>2 DEF Regroups
  <2> QED BY <2>2, <2>5, <2>6, <2>7, <2>8 DEF a
<1>4. \A n \in Nat : n \in S
  <2> HIDE DEF S
  <2> QED BY <1>2, <1>3, SetInduction
<1>5. Opening(tt, N) = tt
  BY <1>1, BeginsOf
<1>6. N \in S
  <2> HIDE DEF S
  <2> QED BY <1>1, <1>4
<1>7. FlattenSeq(ss \o Opening(tt, N)) = FlattenSeq(ss) \o FlattenSeq(Opening(tt, N))
  BY <1>1, <1>6
<1> QED BY <1>5, <1>7

\* Of single elements, and of nothing.
LEMMA FlattenSingles ==
  ASSUME NEW t, IsSeq(t), NEW ss, IsSeq(ss), Len(ss) = Len(t), \A k \in 1..Len(t) : ss[k] = <<t[k]>>
  PROVE  FlattenSeq(ss) = t
<1> DEFINE n == Len(t)
           f == [k \in 0..n |-> Opening(t, k)]
<1>1. n \in Nat
  BY Appended
<1>2. \A k \in 1..n : IsSeq(ss[k])
  BY Single
<1>3. f[0] = <<>> /\ f[n] = t
  BY <1>1, BeginsOf
<1>4. ASSUME NEW k \in Nat, k < n
      PROVE  f[k + 1] = f[k] \o ss[k + 1]
  <2>1. f[k] = Opening(t, k) /\ f[k + 1] = Opening(t, k + 1)
    BY <1>1, <1>4
  <2>2. Opening(t, k + 1) = Append(Opening(t, k), t[k + 1]) /\ IsSeq(Opening(t, k))
    BY <1>1, <1>4, BeginsOf
  <2>3. Append(Opening(t, k), t[k + 1]) = Opening(t, k) \o <<t[k + 1]>>
    BY <2>2, Single
  <2>4. ss[k + 1] = <<t[k + 1]>>
    BY <1>1, <1>4
  <2> QED BY <2>1, <2>2, <2>3, <2>4
<1> HIDE DEF f
<1>5. Follows(f, ss)
  BY <1>3, <1>4 DEF Follows
<1> QED BY <1>2, <1>3, <1>5, FlattenFollows

LEMMA FlattenEmpties ==
  ASSUME NEW ss, IsSeq(ss), \A k \in 1..Len(ss) : ss[k] = <<>>
  PROVE  FlattenSeq(ss) = <<>>
<1> DEFINE n == Len(ss)
           e == <<>>
           f == [k \in 0..n |-> e]
<1>1. n \in Nat /\ IsSeq(e) /\ e \o e = e
  BY Appended, NothingIsSeq, Concatenated
<1>2. f[0] = e /\ f[n] = e /\ \A k \in Nat : k < n => f[k + 1] = e /\ f[k] = e
  BY <1>1
<1> HIDE DEF f
<1>3. Follows(f, ss)
  <2>1. \A k \in Nat : k < n => ss[k + 1] = e
    BY <1>1
  <2> HIDE DEF e
  <2> QED BY <1>1, <1>2, <2>1 DEF Follows, e
<1>4. \A k \in 1..Len(ss) : IsSeq(ss[k])
  BY NothingIsSeq
<1> QED BY <1>2, <1>3, <1>4, FlattenFollows

LEMMA FlattenOne ==
  ASSUME NEW x, IsSeq(x)
  PROVE  FlattenSeq(<<x>>) = x
<1> DEFINE e == <<>>
<1>1. IsSeq(e) /\ FlattenSeq(e) = e /\ Append(e, x) = <<x>> /\ e \o x = x
  BY NothingIsSeq, Concatenated DEF FlattenSeq
<1> HIDE DEF e
<1>2. FlattenSeq(Append(e, x)) = FlattenSeq(e) \o x
  BY <1>1, FlattenAppend
<1> QED BY <1>1, <1>2

\* Two lists of parts, one after the other.
Together(ds, bs, cs) ==
  /\ ListOK(ds)
  /\ \A T : /\ Join(ds, T) = Join(bs, T) \o Join(cs, T)
            /\ CallsIn(ds, T) = CallsIn(bs, T) \o CallsIn(cs, T)

LEMMA PartsTogether ==
  ASSUME NEW bs, NEW cs, ListOK(bs), ListOK(cs)
  PROVE  Together(bs \o cs, bs, cs)
<1> DEFINE ds == bs \o cs
           m == Len(bs)
           n == Len(cs)
<1>1. /\ IsSeq(ds) /\ m \in Nat /\ n \in Nat /\ Len(ds) = m + n
      /\ \A i \in 1..m : ds[i] = bs[i]
      /\ \A i \in 1..n : ds[m + i] = cs[i]
  BY Catenated DEF ListOK
<1> HIDE DEF ds, m, n
<1>2. \A i \in 1..(m + n) : i \in 1..m \/ (i - m \in 1..n /\ m + (i - m) = i)
  BY <1>1
<1>3. ListOK(ds)
  <2>1. /\ \A i \in 1..m : IsSeq(Body(bs[i]))
        /\ \A i \in 1..n : IsSeq(Body(cs[i]))
    BY DEF ListOK, m, n
  <2>2. ASSUME NEW i \in 1..(m + n)
        PROVE  IsSeq(Body(ds[i]))
    <3>1. CASE i \in 1..m
      BY <1>1, <2>1, <3>1
    <3>2. CASE i - m \in 1..n /\ m + (i - m) = i
      <4>1. ds[i] = cs[i - m]
        BY <1>1, <3>2
      <4> QED BY <2>1, <3>2, <4>1
    <3> QED BY <1>2, <3>1, <3>2
  <2> QED BY <1>1, <2>2 DEF ListOK
<1>4. ASSUME NEW T
      PROVE  /\ Join(ds, T) = Join(bs, T) \o Join(cs, T)
             /\ CallsIn(ds, T) = CallsIn(bs, T) \o CallsIn(cs, T)
  <2> DEFINE P(s) == Parts(s, T)
             C(s) == CallParts(s, T)
             p == P(bs)
             q == P(cs)
             x == C(bs)
             y == C(cs)
  <2>1. /\ IsSeq(P(ds)) /\ Len(P(ds)) = m + n /\ IsSeq(C(ds)) /\ Len(C(ds)) = m + n
        /\ \A i \in 1..(m + n) :
             /\ P(ds)[i] = IF ds[i].type = T THEN Body(ds[i]) ELSE <<>>
             /\ C(ds)[i] = IF ds[i].type = T THEN <<AsCall(ds[i])>> ELSE <<>>
    BY <1>1, <1>3, PartsAre
  <2>2. /\ IsSeq(p) /\ Len(p) = m /\ IsSeq(x) /\ Len(x) = m
        /\ \A i \in 1..m : /\ p[i] = (IF bs[i].type = T THEN Body(bs[i]) ELSE <<>>) /\ IsSeq(p[i])
                           /\ x[i] = (IF bs[i].type = T THEN <<AsCall(bs[i])>> ELSE <<>>) /\ IsSeq(x[i])
    BY PartsAre DEF m
  <2>3. /\ IsSeq(q) /\ Len(q) = n /\ IsSeq(y) /\ Len(y) = n
        /\ \A i \in 1..n : /\ q[i] = (IF cs[i].type = T THEN Body(cs[i]) ELSE <<>>) /\ IsSeq(q[i])
                           /\ y[i] = (IF cs[i].type = T THEN <<AsCall(cs[i])>> ELSE <<>>) /\ IsSeq(y[i])
    BY PartsAre DEF n
  <2>4. /\ Join(ds, T) = FlattenSeq(P(ds)) /\ CallsIn(ds, T) = FlattenSeq(C(ds))
        /\ Join(bs, T) = FlattenSeq(p) /\ CallsIn(bs, T) = FlattenSeq(x)
        /\ Join(cs, T) = FlattenSeq(q) /\ CallsIn(cs, T) = FlattenSeq(y)
    BY DEF Join, CallsIn, Parts, CallParts
  <2> DEFINE pq == P(ds)
             xy == C(ds)
  <2> HIDE DEF p, q, x, y, pq, xy
  <2>5. /\ IsSeq(p \o q) /\ Len(p \o q) = m + n /\ IsSeq(x \o y) /\ Len(x \o y) = m + n
        /\ \A i \in 1..m : (p \o q)[i] = p[i] /\ (x \o y)[i] = x[i]
        /\ \A i \in 1..n : (p \o q)[m + i] = q[i] /\ (x \o y)[m + i] = y[i]
    BY <2>2, <2>3, Catenated
  <2>6. ASSUME NEW i \in 1..(m + n)
        PROVE  pq[i] = (p \o q)[i] /\ xy[i] = (x \o y)[i]
    <3>1. CASE i \in 1..m
      <4>1. ds[i] = bs[i] /\ (p \o q)[i] = p[i] /\ (x \o y)[i] = x[i]
        BY <1>1, <2>5, <3>1
      <4> QED BY <2>1, <2>2, <3>1, <4>1 DEF pq, xy
    <3>2. CASE i - m \in 1..n /\ m + (i - m) = i
      <4> DEFINE k == i - m
      <4>1. k \in 1..n /\ m + k = i
        BY <3>2
      <4> HIDE DEF k
      <4>2. ds[i] = cs[k] /\ (p \o q)[i] = q[k] /\ (x \o y)[i] = y[k]
        BY <1>1, <2>5, <4>1
      <4> QED BY <2>1, <2>3, <4>1, <4>2 DEF pq, xy
    <3> QED BY <1>2, <3>1, <3>2
  <2>7. pq = p \o q /\ xy = x \o y
    <3>1. IsSeq(pq) /\ Len(pq) = m + n /\ IsSeq(xy) /\ Len(xy) = m + n
      BY <2>1 DEF pq, xy
    <3> QED BY <2>5, <2>6, <3>1, SameSeq
  <2>8. /\ FlattenSeq(p \o q) = FlattenSeq(p) \o FlattenSeq(q)
        /\ FlattenSeq(x \o y) = FlattenSeq(x) \o FlattenSeq(y)
    BY <2>2, <2>3, FlattenBoth
  <2> QED BY <2>4, <2>7, <2>8 DEF pq, xy
<1> QED BY <1>3, <1>4 DEF Together, ds

\* A part that is there when it says something.
Alone(bs, b) == bs = <<b>> \/ (bs = <<>> /\ Body(b) = <<>>)
SaysAlone(bs, b) ==
  /\ ListOK(bs)
  /\ \A T : /\ Join(bs, T) = IF b.type = T THEN Body(b) ELSE <<>>
            /\ b.type # T => CallsIn(bs, T) = <<>>

LEMMA AloneSays ==
  ASSUME NEW bs, NEW b, IsSeq(Body(b)), Alone(bs, b)
  PROVE  SaysAlone(bs, b)
<1> DEFINE e == <<>>
<1>1. CASE bs = e /\ Body(b) = e
  <2>1. ListOK(bs) /\ \A T : Join(bs, T) = e /\ CallsIn(bs, T) = e
    <3>1. Len(bs) = 0 /\ IsSeq(bs)
      BY <1>1, NothingIsSeq
    <3>2. \A T : Parts(bs, T) = e /\ CallParts(bs, T) = e
      BY <3>1 DEF Parts, CallParts
    <3>3. FlattenSeq(e) = e
      BY DEF FlattenSeq
    <3>4. \A T : Join(bs, T) = FlattenSeq(Parts(bs, T)) /\ CallsIn(bs, T) = FlattenSeq(CallParts(bs, T))
      BY DEF Join, CallsIn, Parts, CallParts
    <3>5. ListOK(bs)
      BY <3>1 DEF ListOK
    <3> HIDE DEF e
    <3> QED BY <3>2, <3>3, <3>4, <3>5
  <2> QED BY <1>1, <2>1 DEF SaysAlone
<1>2. CASE bs = <<b>>
  <2>1. IsSeq(bs) /\ Len(bs) = 1 /\ bs[1] = b
    BY <1>2, Single
  <2>2. ListOK(bs)
    <3>1. \A k \in 1..1 : k = 1
      OBVIOUS
    <3> QED BY <2>1, <3>1 DEF ListOK
  <2>3. ASSUME NEW T
        PROVE  /\ Join(bs, T) = IF b.type = T THEN Body(b) ELSE e
               /\ b.type # T => CallsIn(bs, T) = e
    <3> DEFINE x == IF b.type = T THEN Body(b) ELSE e
               y == IF b.type = T THEN <<AsCall(b)>> ELSE e
    <3>1. Parts(bs, T) = <<x>> /\ CallParts(bs, T) = <<y>>
      BY <2>1 DEF Parts, CallParts
    <3>2. IsSeq(x) /\ IsSeq(y)
      BY NothingIsSeq, Single
    <3>3. Join(bs, T) = FlattenSeq(Parts(bs, T)) /\ CallsIn(bs, T) = FlattenSeq(CallParts(bs, T))
      BY DEF Join, CallsIn, Parts, CallParts
    <3>4. b.type # T => y = e
      OBVIOUS
    <3> HIDE DEF x, y
    <3>5. FlattenSeq(<<x>>) = x /\ FlattenSeq(<<y>>) = y
      BY <3>2, FlattenOne
    <3>6. Join(bs, T) = x /\ CallsIn(bs, T) = y
      BY <3>1, <3>3, <3>5
    <3> QED BY <3>4, <3>6 DEF x
  <2> QED BY <2>2, <2>3 DEF SaysAlone
<1> QED BY <1>1, <1>2 DEF Alone

\* Parts that are all of a type.
AllOf(us, type) == ListOK(us) /\ \A k \in 1..Len(us) : us[k].type = type
SaysCalls(us, type) ==
  /\ IsSeq(CallsIn(us, type)) /\ Len(CallsIn(us, type)) = Len(us)
  /\ \A k \in 1..Len(us) : CallsIn(us, type)[k] = AsCall(us[k])
  /\ \A T : T # type => Join(us, T) = <<>>

LEMMA AllSay ==
  ASSUME NEW us, NEW U, AllOf(us, U)
  PROVE  SaysCalls(us, U)
<1> DEFINE n == Len(us)
           c == [k \in 1..n |-> AsCall(us[k])]
<1>1. ListOK(us) /\ n \in Nat /\ \A k \in 1..n : us[k].type = U
  BY Appended DEF AllOf, ListOK
<1>2. DOMAIN c = 1..n /\ c = [k \in 1..n |-> c[k]] /\ \A k \in 1..n : c[k] = AsCall(us[k])
  OBVIOUS
<1> HIDE DEF c, n
<1>3. IsSeq(c) /\ Len(c) = n
  BY <1>1, <1>2, Numbered
<1>4. CallsIn(us, U) = c
  <2> DEFINE C == CallParts(us, U)
  <2>1. IsSeq(C) /\ Len(C) = n
        /\ \A k \in 1..n : C[k] = IF us[k].type = U THEN <<AsCall(us[k])>> ELSE <<>>
    BY <1>1, PartsAre DEF n
  <2>2. CallsIn(us, U) = FlattenSeq(C)
    BY DEF CallsIn, CallParts
  <2> HIDE DEF C
  <2>3. \A k \in 1..n : C[k] = <<c[k]>>
    BY <1>1, <1>2, <2>1
  <2> QED BY <1>3, <2>1, <2>2, <2>3, FlattenSingles
<1>5. ASSUME NEW T, T # U
      PROVE  Join(us, T) = <<>>
  <2> DEFINE P == Parts(us, T)
  <2>1. IsSeq(P) /\ Len(P) = n
    BY <1>1, PartsAre DEF n
  <2>2. \A k \in 1..n : P[k] = IF us[k].type = T THEN Body(us[k]) ELSE <<>>
    BY DEF Parts, n
  <2>3. Join(us, T) = FlattenSeq(P)
    BY DEF Join, Parts
  <2> HIDE DEF P
  <2>4. \A k \in 1..n : P[k] = <<>>
    BY <1>1, <1>5, <2>2
  <2> QED BY <2>1, <2>3, <2>4, FlattenEmpties
<1> QED BY <1>2, <1>3, <1>4, <1>5 DEF SaysCalls, n

-----------------------------------------------------------------------------
(* The reply of a client that does not stream. *)

\* A list of parts says what the part t says, what the part x says, and the calls h.
SaysWhole(ds, t, x, type, h) ==
  /\ ListOK(ds) /\ Join(ds, t.type) = Body(t) /\ Join(ds, x.type) = Body(x)
  /\ CallsAgree(CallsIn(ds, type), h)

LEMMA ThreeSay ==
  ASSUME NEW a, NEW t, SaysAlone(a, t), IsSeq(Body(t)),
         NEW b, NEW x, SaysAlone(b, x), IsSeq(Body(x)),
         NEW us, NEW type, AllOf(us, type), NEW h, CallsAgree(CallsIn(us, type), h),
         t.type # x.type, t.type # type, x.type # type
  PROVE  /\ SaysWhole((a \o b) \o us, t, x, type, h)
         /\ SaysWhole((a \o us) \o b, t, x, type, h)
<1> DEFINE e == <<>>
           A == t.type
           B == x.type
           c == CallsIn(us, type)
<1>1. ListOK(a) /\ ListOK(b) /\ ListOK(us)
  BY DEF SaysAlone, AllOf
<1>2. /\ Join(a, A) = Body(t) /\ Join(a, B) = e /\ CallsIn(a, type) = e
      /\ Join(b, A) = e /\ Join(b, B) = Body(x) /\ CallsIn(b, type) = e
  BY DEF SaysAlone
<1>3. IsSeq(c) /\ Join(us, A) = e /\ Join(us, B) = e
  BY AllSay DEF SaysCalls
<1>4. /\ IsSeq(e) /\ e \o e = e /\ e \o c = c /\ c \o e = c
      /\ Body(t) \o e = Body(t) /\ Body(x) \o e = Body(x) /\ e \o Body(x) = Body(x)
  BY <1>3, NothingIsSeq, Concatenated
<1> HIDE DEF e, A, B
<1>5. SaysWhole((a \o b) \o us, t, x, type, h)
  <2> DEFINE ds == (a \o b) \o us
  <2>1. Together(a \o b, a, b)
    BY <1>1, PartsTogether
  <2>2. /\ ListOK(a \o b) /\ Join(a \o b, A) = Body(t) /\ Join(a \o b, B) = Body(x)
        /\ CallsIn(a \o b, type) = e
    BY <1>2, <1>4, <2>1 DEF Together
  <2>3. Together(ds, a \o b, us)
    BY <1>1, <2>2, PartsTogether
  <2>4. ListOK(ds) /\ Join(ds, A) = Body(t) /\ Join(ds, B) = Body(x) /\ CallsIn(ds, type) = c
    BY <1>3, <1>4, <2>2, <2>3 DEF Together
  <2> HIDE DEF ds, c
  <2>5. CallsAgree(CallsIn(ds, type), h)
    BY <2>4 DEF c
  <2>6. SaysWhole(ds, t, x, type, h)
    BY <2>4, <2>5 DEF SaysWhole, A, B
  <2> QED BY <2>6 DEF ds
<1>6. SaysWhole((a \o us) \o b, t, x, type, h)
  <2> DEFINE ds == (a \o us) \o b
  <2>1. Together(a \o us, a, us)
    BY <1>1, PartsTogether
  <2>2. /\ ListOK(a \o us) /\ Join(a \o us, A) = Body(t) /\ Join(a \o us, B) = e
        /\ CallsIn(a \o us, type) = c
    BY <1>2, <1>3, <1>4, <2>1 DEF Together
  <2>3. Together(ds, a \o us, b)
    BY <1>1, <2>2, PartsTogether
  <2>4. ListOK(ds) /\ Join(ds, A) = Body(t) /\ Join(ds, B) = Body(x) /\ CallsIn(ds, type) = c
    BY <1>2, <1>3, <1>4, <2>2, <2>3 DEF Together
  <2> HIDE DEF ds, c
  <2>5. CallsAgree(CallsIn(ds, type), h)
    BY <2>4 DEF c
  <2>6. SaysWhole(ds, t, x, type, h)
    BY <2>4, <2>5 DEF SaysWhole, A, B
  <2> QED BY <2>6 DEF ds
<1> QED BY <1>5, <1>6

\* The calls of a completion as parts of a type.
AsParts(us, h, type) ==
  /\ IsSeq(us) /\ Len(us) = Len(h)
  /\ \A k \in 1..Len(h) :
       /\ us[k].type = type /\ Body(us[k]) = h[k].args /\ AsCall(us[k]).name = h[k].name
       /\ h[k].id # <<>> => AsCall(us[k]).id = h[k].id

LEMMA PartsAgree ==
  ASSUME NEW h, IsSeq(h), \A k \in 1..Len(h) : WholeCall(h[k]), NEW us, NEW type,
         AsParts(us, h, type)
  PROVE  AllOf(us, type) /\ CallsAgree(CallsIn(us, type), h)
<1> DEFINE n == Len(h)
           c == CallsIn(us, type)
<1>1. /\ IsSeq(us) /\ Len(us) = n /\ n \in Nat
      /\ \A k \in 1..n : /\ us[k].type = type /\ Body(us[k]) = h[k].args
                         /\ AsCall(us[k]).name = h[k].name
                         /\ h[k].id # <<>> => AsCall(us[k]).id = h[k].id
  BY Appended DEF AsParts
<1>2. \A k \in 1..n : IsSeq(h[k].args) /\ WholeCall(h[k])
  BY DEF WholeCall
<1>3. AllOf(us, type)
  BY <1>1, <1>2 DEF AllOf, ListOK
<1>4. IsSeq(c) /\ Len(c) = n /\ \A k \in 1..n : c[k] = AsCall(us[k])
  BY <1>1, <1>3, AllSay DEF SaysCalls
<1> HIDE DEF c, n
<1>5. ASSUME NEW k \in 1..n
      PROVE  SameCall(c[k], h[k])
  <2>1. c[k] = AsCall(us[k])
    BY <1>4
  <2>2. AsCall(us[k]).args = Body(us[k])
    BY DEF AsCall
  <2>3. c[k].name = h[k].name /\ c[k].args = h[k].args /\ (h[k].id # <<>> => c[k].id = h[k].id)
    BY <1>1, <2>1, <2>2
  <2> QED BY <1>2, <2>3 DEF SameCall
<1>6. CallsAgree(c, h)
  BY <1>4, <1>5 DEF CallsAgree, n
<1> QED BY <1>3, <1>6 DEF c

\* The calls with their arguments as the JSON reply's inputs.
WithInputs(h) ==
  [k \in 1..Len(h) |-> [id |-> h[k].id, name |-> h[k].name, args |-> Input(h[k].args)]]

\* An input is a sequence as its arguments are, and says as much.
LEMMA InputIs ==
  ASSUME NEW text, IsSeq(text)
  PROVE  /\ IsSeq(Input(text))
         /\ JsonKind(text) = "object" => Input(text) = text
         /\ JsonKind(text) # "object" => \E key \in {"raw", "value"} : Input(text) = Under(key, text)
<1>1. ASSUME NEW key PROVE IsSeq(Under(key, text))
  <2> DEFINE x == <<key, text>>
  <2>1. Under(key, text) = <<x>>
    BY DEF Under
  <2>2. <<x>> \in Seq({x})
    OBVIOUS
  <2> QED BY <2>1, <2>2 DEF IsSeq
<1>2. CASE JsonKind(text) = "object"
  BY <1>2 DEF Input
<1>3. CASE JsonKind(text) = "value"
  <2>1. Input(text) = Under("value", text)
    BY <1>3 DEF Input
  <2> QED BY <1>1, <1>3, <2>1
<1>4. CASE JsonKind(text) # "object" /\ JsonKind(text) # "value"
  <2>1. Input(text) = Under("raw", text)
    BY <1>4 DEF Input
  <2> QED BY <1>1, <1>4, <2>1
<1> QED BY <1>2, <1>3, <1>4

LEMMA InputsWhole ==
  ASSUME NEW h, IsSeq(h), \A k \in 1..Len(h) : WholeCall(h[k])
  PROVE  /\ IsSeq(WithInputs(h)) /\ Len(WithInputs(h)) = Len(h)
         /\ \A k \in 1..Len(h) :
              /\ WholeCall(WithInputs(h)[k]) /\ WithInputs(h)[k].id = h[k].id
              /\ WithInputs(h)[k].name = h[k].name /\ WithInputs(h)[k].args = Input(h[k].args)
<1> DEFINE n == Len(h)
           w == WithInputs(h)
<1>1. n \in Nat
  BY Appended
<1>2. DOMAIN w = 1..n /\ w = [k \in 1..n |-> w[k]]
  BY DEF WithInputs
<1>3. ASSUME NEW k \in 1..n
      PROVE  /\ WholeCall(w[k]) /\ w[k].id = h[k].id /\ w[k].name = h[k].name
             /\ w[k].args = Input(h[k].args)
  <2>1. w[k] = [id |-> h[k].id, name |-> h[k].name, args |-> Input(h[k].args)]
    BY DEF WithInputs
  <2>2. IsSeq(h[k].args) /\ h[k].name # None
    BY DEF WholeCall
  <2>3. IsSeq(Input(h[k].args))
    BY <2>2, InputIs
  <2> QED BY <2>1, <2>2, <2>3 DEF WholeCall
<1> HIDE DEF w
<1>4. IsSeq(w) /\ Len(w) = n
  BY <1>1, <1>2, Numbered
<1> QED BY <1>3, <1>4 DEF w, n

LEMMA ToolUsesAre ==
  ASSUME NEW h, IsSeq(h), \A k \in 1..Len(h) : WholeCall(h[k])
  PROVE  AsParts(ToolUses(h), WithInputs(h), "tool_use")
<1> DEFINE n == Len(h)
           us == ToolUses(h)
<1>1. n \in Nat
  BY Appended
<1>2. DOMAIN us = 1..n /\ us = [k \in 1..n |-> us[k]]
  BY DEF ToolUses
<1>3. ASSUME NEW k \in 1..n
      PROVE  /\ us[k].type = "tool_use" /\ Body(us[k]) = Input(h[k].args)
             /\ AsCall(us[k]).name = h[k].name
             /\ h[k].id # <<>> => AsCall(us[k]).id = h[k].id
  <2> DEFINE u == [type |-> "tool_use", id |-> Default(h[k].id, "fresh", k),
                   name |-> h[k].name, piece |-> Input(h[k].args)]
  <2>1. us[k] = u
    BY DEF ToolUses
  <2>2. "piece" \in DOMAIN u /\ "call_id" \notin DOMAIN u
    OBVIOUS
  <2>3. u.type = "tool_use" /\ Body(u) = Input(h[k].args)
    BY <2>2 DEF Body
  <2>4. AsCall(u).name = h[k].name /\ AsCall(u).id = Default(h[k].id, "fresh", k)
    BY <2>2 DEF AsCall
  <2> HIDE DEF u
  <2> QED BY <2>1, <2>3, <2>4 DEF Default
<1> HIDE DEF us
<1>4. IsSeq(us) /\ Len(us) = n
  BY <1>1, <1>2, Numbered
<1>5. AsParts(us, WithInputs(h), "tool_use")
  BY <1>3, <1>4, InputsWhole DEF AsParts
<1> QED BY <1>5 DEF us

LEMMA AnthropicJsonSays ==
  ASSUME NEW r, ReplyOK(r), NEW thinking
  PROVE  \E t, x : /\ SaysWhole(ContentBlocks(r, thinking), t, x, "tool_use", WithInputs(r.calls))
                   /\ t.type = "thinking" /\ Body(t) = IF thinking THEN r.reasoning ELSE <<>>
                   /\ x.type = "text" /\ Body(x) = r.text
<1> DEFINE e == <<>>
           seen == IF thinking THEN r.reasoning ELSE e
           Block(type, piece) == [type |-> type, piece |-> piece]
           Maybe(type, piece) == IF piece = e THEN e ELSE <<Block(type, piece)>>
           t == Block("thinking", seen)
           x == Block("text", r.text)
           z == Block("text", e)
           a == Maybe("thinking", seen)
           b == Maybe("text", r.text)
           us == ToolUses(r.calls)
           w == WithInputs(r.calls)
           all == (a \o b) \o us
           bs == ContentBlocks(r, thinking)
<1>1. IsSeq(seen) /\ IsSeq(r.text) /\ IsSeq(r.calls)
      /\ \A k \in 1..Len(r.calls) : WholeCall(r.calls[k])
  BY NothingIsSeq DEF ReplyOK
<1>2. /\ t.type = "thinking" /\ Body(t) = seen /\ x.type = "text" /\ Body(x) = r.text
      /\ z.type = "text" /\ Body(z) = e
  BY DEF Body
<1>3. bs = IF all = e THEN <<z>> ELSE all
  BY DEF ContentBlocks
<1>4. Alone(a, t) /\ Alone(b, x)
  BY <1>2 DEF Alone
<1> HIDE DEF seen, t, x, z, a, b, us, bs, all, w, Block, Maybe
<1>5. SaysAlone(a, t) /\ SaysAlone(b, x)
  BY <1>1, <1>2, <1>4, AloneSays
<1>6. AllOf(us, "tool_use") /\ CallsAgree(CallsIn(us, "tool_use"), w)
  <2>1. AsParts(us, w, "tool_use")
    BY <1>1, ToolUsesAre DEF us, w
  <2>2. IsSeq(w) /\ \A k \in 1..Len(w) : WholeCall(w[k])
    BY <1>1, InputsWhole DEF w
  <2> HIDE DEF w
  <2> QED BY <2>1, <2>2, PartsAgree
<1>7. SaysWhole(all, t, x, "tool_use", w)
  <2>1. t.type # x.type /\ t.type # "tool_use" /\ x.type # "tool_use"
    BY <1>2
  <2> QED BY <1>1, <1>2, <1>5, <1>6, <2>1, ThreeSay DEF all
<1>8. SaysWhole(bs, t, x, "tool_use", w)
  <2>1. CASE all # e
    BY <1>3, <1>7, <2>1
  <2>2. CASE all = e
    <3>1. SaysAlone(<<z>>, z) /\ SaysAlone(e, z)
      <4>1. Alone(<<z>>, z) /\ Alone(e, z) /\ IsSeq(Body(z))
        BY <1>2, NothingIsSeq DEF Alone
      <4> QED BY <4>1, AloneSays
    <3>2. /\ ListOK(bs) /\ \A T : Join(bs, T) = Join(all, T)
          /\ CallsIn(bs, "tool_use") = CallsIn(all, "tool_use")
      BY <1>2, <1>3, <2>2, <3>1 DEF SaysAlone
    <3> QED BY <1>7, <3>2 DEF SaysWhole
  <2> QED BY <2>1, <2>2
<1> QED BY <1>2, <1>8 DEF bs, seen, w

\* The calls of the completion as items.
CallItems(h) ==
  [k \in 1..Len(h) |->
     LET id == Default(h[k].id, "fresh", k)
     IN  [type |-> "function_call", id |-> id, call_id |-> id, name |-> h[k].name,
          body |-> h[k].args]]

LEMMA CallItemsAre ==
  ASSUME NEW h, IsSeq(h)
  PROVE  AsParts(CallItems(h), h, "function_call")
<1> DEFINE n == Len(h)
           us == CallItems(h)
<1>1. n \in Nat
  BY Appended
<1>2. DOMAIN us = 1..n /\ us = [k \in 1..n |-> us[k]]
  BY DEF CallItems
<1>3. ASSUME NEW k \in 1..n
      PROVE  /\ us[k].type = "function_call" /\ Body(us[k]) = h[k].args
             /\ AsCall(us[k]).name = h[k].name
             /\ h[k].id # <<>> => AsCall(us[k]).id = h[k].id
  <2> DEFINE id == Default(h[k].id, "fresh", k)
             u == [type |-> "function_call", id |-> id, call_id |-> id, name |-> h[k].name,
                   body |-> h[k].args]
  <2>1. us[k] = u
    BY DEF CallItems
  <2>2. "piece" \notin DOMAIN u /\ "call_id" \in DOMAIN u
    OBVIOUS
  <2>3. u.type = "function_call" /\ Body(u) = h[k].args
    BY <2>2 DEF Body
  <2>4. AsCall(u).name = h[k].name /\ AsCall(u).id = id
    BY <2>2 DEF AsCall
  <2> HIDE DEF u
  <2> QED BY <2>1, <2>3, <2>4 DEF Default
<1> HIDE DEF us
<1>4. IsSeq(us) /\ Len(us) = n
  BY <1>1, <1>2, Numbered
<1>5. AsParts(us, h, "function_call")
  BY <1>3, <1>4 DEF AsParts
<1> QED BY <1>5 DEF us

LEMMA ResponsesJsonSays ==
  ASSUME NEW r, ReplyOK(r)
  PROVE  \E t, x : /\ SaysWhole(OutputItems(r), t, x, "function_call", r.calls)
                   /\ t.type = "reasoning" /\ Body(t) = r.reasoning
                   /\ x.type = "message" /\ Body(x) = r.text
<1> DEFINE e == <<>>
           t == [OutputItem EXCEPT !.type = "reasoning", !.id = ReasoningId(0), !.body = r.reasoning]
           x == [OutputItem EXCEPT !.type = "message", !.id = MessageId, !.body = r.text]
           a == IF r.reasoning = e THEN e ELSE <<t>>
           us == CallItems(r.calls)
           b == IF r.text # e \/ a \o us = e THEN <<x>> ELSE e
           is == OutputItems(r)
<1>1. IsSeq(r.reasoning) /\ IsSeq(r.text) /\ IsSeq(r.calls)
      /\ \A k \in 1..Len(r.calls) : WholeCall(r.calls[k])
  BY DEF ReplyOK
<1>2. t.type = "reasoning" /\ Body(t) = r.reasoning /\ x.type = "message" /\ Body(x) = r.text
  BY DEF Body, OutputItem
<1>3. is = (a \o us) \o b
  <2>1. x.body = r.text
    BY DEF OutputItem
  <2> QED BY <2>1 DEF OutputItems, CallItems, AssistantText
<1>4. Alone(a, t) /\ Alone(b, x)
  BY <1>2 DEF Alone
<1> HIDE DEF e, t, x, a, b, us, is
<1>5. SaysAlone(a, t) /\ SaysAlone(b, x)
  BY <1>1, <1>2, <1>4, AloneSays
<1>6. AllOf(us, "function_call") /\ CallsAgree(CallsIn(us, "function_call"), r.calls)
  <2>1. AsParts(us, r.calls, "function_call")
    BY <1>1, CallItemsAre DEF us
  <2> QED BY <1>1, <2>1, PartsAgree
<1>7. SaysWhole((a \o us) \o b, t, x, "function_call", r.calls)
  <2>1. t.type # x.type /\ t.type # "function_call" /\ x.type # "function_call"
    BY <1>2
  <2> QED BY <1>1, <1>2, <1>5, <1>6, <2>1, ThreeSay
<1> QED BY <1>2, <1>3, <1>7 DEF is

LEMMA OllamaJsonSays ==
  ASSUME NEW r, ReplyOK(r), NEW thinking, NEW chat
  PROVE  LET j == OllamaJson(r, thinking, chat)
         IN  /\ ChunksSay(<<j>>, r.text, IF chat /\ thinking THEN r.reasoning ELSE <<>>,
                          IF chat THEN AsOllama(r.calls) ELSE <<>>)
             /\ j.reason = DoneReason(r.finish)
             /\ j.prompt = r.usage.prompt /\ j.eval = r.usage.completion
<1> DEFINE e == <<>>
           thought == IF chat /\ thinking THEN r.reasoning ELSE e
           calls == IF chat THEN AsOllama(r.calls) ELSE e
           j == OllamaJson(r, thinking, chat)
<1>1. IsSeq(r.text) /\ IsSeq(thought) /\ IsSeq(calls) /\ IsSeq(e)
  <2>1. IsSeq(AsOllama(r.calls))
    BY CallsTwice, Appended DEF ReplyOK
  <2> QED BY <2>1, NothingIsSeq DEF ReplyOK
<1>2. /\ j.content = r.text /\ j.thinking = thought /\ j.calls = calls
      /\ j.reason = DoneReason(r.finish) /\ j.prompt = r.usage.prompt
      /\ j.eval = r.usage.completion
  BY DEF OllamaJson, Chunk, ThinkingOf, CallsOf
<1> HIDE DEF j, thought, calls
<1>3. Append(e, j) = <<j>> /\ e \o r.text = r.text /\ e \o thought = thought /\ e \o calls = calls
  BY <1>1, Concatenated
<1> HIDE DEF e
<1>4. ChunksSay(e, e, e, e)
  BY <1>1, NoColumn DEF ChunksSay, e
<1>5. ChunksSay(Append(e, j), e \o j.content, e \o j.thinking, e \o j.calls)
  BY <1>1, <1>2, <1>4, ChunksGrow
<1>6. ChunksSay(<<j>>, r.text, thought, calls)
  BY <1>2, <1>3, <1>5
<1> QED BY <1>2, <1>6 DEF j, thought, calls, e

-----------------------------------------------------------------------------
(* The stream and the JSON reply agree. *)

\* What the client of a finished stream has is what the JSON reply tells.
SameAsJson(r) ==
  /\ r.text = Received.text /\ r.reasoning = Received.reasoning
  /\ Calls(r.calls) = Calls(Received.calls)
  /\ \A k \in {k \in 1..Len(said.calls) : said.calls[k].id # <<>>} :
       r.calls[k].id = Received.calls[k].id
AsAnthropicJson(r) ==
  /\ r.text = Received.text /\ r.reasoning = Received.reasoning
  /\ SameInputs(r.calls, Received.calls)
  /\ \A k \in {k \in 1..Len(said.calls) : said.calls[k].id # <<>>} :
       r.calls[k].id = Received.calls[k].id

LEMMA AgreeingMatch ==
  ASSUME NEW r, r.text = Received.text, r.reasoning = Received.reasoning,
         CallsAgree(r.calls, said.calls), CallsAgree(Received.calls, said.calls)
  PROVE  SameAsJson(r)
<1> DEFINE h == said.calls
           p == r.calls
           q == Received.calls
<1>1. /\ Calls(p) = Calls(h) /\ Len(p) = Len(h)
      /\ \A k \in 1..Len(p) : h[k].id # <<>> => p[k].id = h[k].id
  BY AgreeSays
<1>2. /\ Calls(q) = Calls(h) /\ Len(q) = Len(h)
      /\ \A k \in 1..Len(q) : h[k].id # <<>> => q[k].id = h[k].id
  BY AgreeSays
<1> HIDE DEF h, p, q
<1>3. Calls(p) = Calls(q) /\ \A k \in 1..Len(h) : h[k].id # <<>> => p[k].id = q[k].id
  BY <1>1, <1>2
<1> QED BY <1>3 DEF SameAsJson, h, p, q

\* Calls with their inputs against the calls themselves.
LEMMA InputsMatch ==
  ASSUME NEW r, r.text = Received.text, r.reasoning = Received.reasoning,
         IsSeq(said.calls), \A k \in 1..Len(said.calls) : WholeCall(said.calls[k]),
         CallsAgree(r.calls, WithInputs(said.calls)), CallsAgree(Received.calls, said.calls)
  PROVE  AsAnthropicJson(r)
<1> DEFINE h == said.calls
           w == WithInputs(h)
           p == r.calls
           q == Received.calls
           n == Len(h)
<1>1. /\ Len(w) = n
      /\ \A k \in 1..n : w[k].id = h[k].id /\ w[k].name = h[k].name /\ w[k].args = Input(h[k].args)
  BY InputsWhole
<1>2. Len(p) = n /\ \A k \in 1..n : SameCall(p[k], w[k])
  BY <1>1 DEF CallsAgree
<1>3. Len(q) = n /\ \A k \in 1..n : SameCall(q[k], h[k])
  BY DEF CallsAgree
<1>4. \A k \in 1..n : IsSeq(h[k].args)
  BY DEF WholeCall
<1> HIDE DEF h, w, p, q, n
<1>5. ASSUME NEW k \in 1..n
      PROVE  /\ p[k].name = q[k].name /\ p[k].args = Input(q[k].args) /\ IsSeq(q[k].args)
             /\ h[k].id # <<>> => p[k].id = q[k].id
  BY <1>1, <1>2, <1>3, <1>4 DEF SameCall
<1>6. \A k \in 1..n :
        IF JsonKind(q[k].args) = "object" THEN p[k].args = q[k].args
        ELSE \E key \in {"raw", "value"} : p[k].args = Under(key, q[k].args)
  BY <1>5, InputIs
<1>7. SameInputs(p, q)
  BY <1>2, <1>3, <1>5, <1>6 DEF SameInputs
<1> QED BY <1>5, <1>7 DEF AsAnthropicJson, h, p, q, n

LEMMA UsageMatches ==
  ASSUME ReplyInv, phase = "closed"
  PROVE  Finalize(JsonComplete(NewTiming(0), IF said.usage = NoUsage THEN None ELSE said.usage,
                               0), 0).row.usage = timing.row.usage
<1> DEFINE u == Counted(said)
           t == JsonComplete(NewTiming(0), IF said.usage = NoUsage THEN None ELSE said.usage, 0)
<1>1. timing.row.usage = u
  BY DEF ReplyInv, Records
<1>2. t.usage = u /\ t.row = None
      /\ DOMAIN t = {"started", "opened", "first", "visible", "end", "usage", "error", "row"}
  <2>1. said.usage # NoUsage => said.usage # None
    BY DEF ReplyInv, ReplyOK
  <2> QED BY <2>1 DEF JsonComplete, NewTiming, Counted
<1> HIDE DEF t, u
<1>3. Finalize(t, 0).row.usage = u
  BY <1>2 DEF Finalize, Snapshot
<1> QED BY <1>1, <1>3 DEF t

LEMMA AnthropicMatches ==
  ASSUME dialect = "anthropic", AnthropicSees, ReplyOK(said), phase = "closed", ~said.error
  PROVE  LET j == AnthropicJson(said, Thinking)
             u == stream.out[Len(stream.out) - 1]
         IN  AsAnthropicJson(FromBlocks(j.content)) /\ j.stop = u.stop /\ j.usage = u.usage
<1> DEFINE bs == Blocks(stream.out)
           cs == ContentBlocks(said, Thinking)
           j == AnthropicJson(said, Thinking)
           r == FromBlocks(cs)
           u == stream.out[Len(stream.out) - 1]
           seen == IF Thinking THEN said.reasoning ELSE <<>>
<1>1. AnthropicDone(stream, said)
  BY DEF AnthropicSees
<1>2. /\ Join(bs, "text") = said.text /\ Join(bs, "thinking") = seen
      /\ CallsAgree(CallsIn(bs, "tool_use"), said.calls)
      /\ u.usage = AnthropicUsage(said.usage) /\ u.stop = FinishToStop(said)
  BY <1>1 DEF AnthropicDone, Seen
<1>3. j.content = cs /\ j.stop = FinishToStop(said) /\ j.usage = AnthropicUsage(said.usage)
  BY DEF AnthropicJson
<1>4. PICK t, x : /\ SaysWhole(cs, t, x, "tool_use", WithInputs(said.calls))
                  /\ t.type = "thinking" /\ Body(t) = seen
                  /\ x.type = "text" /\ Body(x) = said.text
  BY AnthropicJsonSays
<1>5. /\ Join(cs, "thinking") = seen /\ Join(cs, "text") = said.text
      /\ CallsAgree(CallsIn(cs, "tool_use"), WithInputs(said.calls))
  BY <1>4 DEF SaysWhole
<1>6. /\ Received.text = Join(bs, "text") /\ Received.reasoning = Join(bs, "thinking")
      /\ Received.calls = CallsIn(bs, "tool_use")
  BY DEF Received, FromBlocks
<1>7. /\ r.text = Join(cs, "text") /\ r.reasoning = Join(cs, "thinking")
      /\ r.calls = CallsIn(cs, "tool_use")
  BY DEF FromBlocks
<1> HIDE DEF bs, cs, r, seen
<1>9. IsSeq(said.calls) /\ \A k \in 1..Len(said.calls) : WholeCall(said.calls[k])
  BY DEF ReplyOK
<1>8. AsAnthropicJson(r)
  BY <1>2, <1>5, <1>6, <1>7, <1>9, InputsMatch
<1> QED BY <1>2, <1>3, <1>8 DEF r

LEMMA ResponsesMatches ==
  ASSUME dialect = "responses", ResponsesSees, ReplyOK(said), phase = "closed", ~said.error
  PROVE  LET j == ResponsesJson(said)
         IN  SameAsJson(FromItems(j.output)) /\ j.usage = FinalChunk.usage
<1> DEFINE is == Items(stream.out)
           js == OutputItems(said)
           r == FromItems(js)
<1>1. /\ Join(is, "message") = said.text /\ Join(is, "reasoning") = said.reasoning
      /\ CallsAgree(CallsIn(is, "function_call"), said.calls)
  BY DEF ResponsesSees, ResponsesHas, Speaks
<1>2. PICK t, x : /\ SaysWhole(js, t, x, "function_call", said.calls)
                  /\ t.type = "reasoning" /\ Body(t) = said.reasoning
                  /\ x.type = "message" /\ Body(x) = said.text
  BY ResponsesJsonSays
<1>3. /\ Join(js, "reasoning") = said.reasoning /\ Join(js, "message") = said.text
      /\ CallsAgree(CallsIn(js, "function_call"), said.calls)
  BY <1>2 DEF SaysWhole
<1>4. /\ Received.text = Join(is, "message") /\ Received.reasoning = Join(is, "reasoning")
      /\ Received.calls = CallsIn(is, "function_call")
  BY DEF Received, FromItems
<1>5. /\ r.text = Join(js, "message") /\ r.reasoning = Join(js, "reasoning")
      /\ r.calls = CallsIn(js, "function_call")
  BY DEF FromItems
<1> HIDE DEF is, js, r
<1>6. SameAsJson(r)
  BY <1>1, <1>3, <1>4, <1>5, AgreeingMatch
<1>7. ResponsesJson(said).usage = FinalChunk.usage
  BY DEF ResponsesJson, ResponsesSees, ResponsesDone, FinalChunk
<1>8. ResponsesJson(said).output = js
  BY DEF ResponsesJson, js
<1> QED BY <1>6, <1>7, <1>8 DEF r

LEMMA OllamaMatches ==
  ASSUME dialect \in {"ollama", "generate"}, OllamaInv, ReplyOK(said), phase = "closed",
         ~said.error
  PROVE  LET j == OllamaJson(said, Thinking, dialect = "ollama")
         IN  /\ FromChunks(<<j>>) = Received
             /\ j.reason = FinalChunk.reason
             /\ j.prompt = FinalChunk.prompt /\ j.eval = FinalChunk.eval
<1> DEFINE chat == dialect = "ollama"
           j == OllamaJson(said, Thinking, chat)
           thought == IF chat /\ Thinking THEN said.reasoning ELSE <<>>
           calls == IF chat THEN AsOllama(said.calls) ELSE <<>>
           one == <<j>>
           out == stream.out
<1>1. OllamaDone(stream, said)
  BY DEF OllamaInv
<1>2. /\ ChunksSay(out, said.text, thought, calls)
      /\ FinalChunk.prompt = said.usage.prompt /\ FinalChunk.eval = said.usage.completion
      /\ FinalChunk.reason = DoneReason(said.finish)
  <2>1. (stream.chat <=> chat) /\ (stream.thinking <=> Thinking)
    BY <1>1 DEF OllamaDone
  <2>2. Shown(stream, said) = thought
    BY <2>1 DEF Shown
  <2>3. calls = IF stream.chat /\ ~said.error THEN AsOllama(said.calls) ELSE <<>>
    BY <2>1
  <2> HIDE DEF thought, calls
  <2> QED BY <1>1, <2>2, <2>3 DEF OllamaDone, FinalChunk
<1>3. /\ ChunksSay(one, said.text, thought, calls)
      /\ j.reason = DoneReason(said.finish) /\ j.prompt = said.usage.prompt
      /\ j.eval = said.usage.completion
  BY OllamaJsonSays
<1> HIDE DEF thought, calls, one
<1>4. \A s : ChunksSay(s, said.text, thought, calls) =>
              FromChunks(s) = [reasoning |-> thought, text |-> said.text, calls |-> calls]
  BY DEF FromChunks, ChunksSay, ColumnSays, Column
<1>5. FromChunks(one) = FromChunks(out)
  BY <1>2, <1>3, <1>4
<1>6. Received = FromChunks(out)
  BY DEF Received
<1> QED BY <1>2, <1>3, <1>5, <1>6 DEF one

\* A client that streams has, when the stream has ended without an error, what
\* a client that does not stream gets for the same completion, in every dialect
\* and for every choice of tools and bounds: the same reply, with the same text of
\* arguments that do not parse (under the key that the dialect keeps it by), the
\* same ids of the calls that the upstream named, the same end and the same tokens
\* (anthropic_translate.py, responses_translate.py and ollama_translate.py
\* beside the three streaming proxies).
THEOREM StreamMatches == Spec => []StreamMatchesJson
<1>1. ClientInv => StreamMatchesJson
  <2> SUFFICES ASSUME ClientInv, phase = "closed", ~said.error
               PROVE  StreamMatchesJson
    BY DEF StreamMatchesJson
  <2>1. ReplyInv /\ OllamaInv /\ AnthropicSees /\ ResponsesSees /\ ReplyOK(said)
    BY DEF ClientInv, ReplyInv
  <2>2. CASE dialect = "anthropic"
    BY <2>1, <2>2, UsageMatches, AnthropicMatches DEF StreamMatchesJson, AsAnthropicJson
  <2>3. CASE dialect = "responses"
    BY <2>1, <2>3, UsageMatches, ResponsesMatches DEF StreamMatchesJson, SameAsJson
  <2>4. CASE dialect \in {"ollama", "generate"}
    BY <2>1, <2>4, UsageMatches, OllamaMatches DEF StreamMatchesJson
  <2>5. CASE dialect \notin {"anthropic", "responses", "ollama", "generate"}
    BY <2>1, <2>5, UsageMatches DEF StreamMatchesJson
  <2> QED BY <2>2, <2>3, <2>4, <2>5
<1> QED BY <1>1, ClientInvHolds, PTL

=============================================================================
