------------------------------ MODULE MCFleet ------------------------------
(* A small instance of Fleet for TLC: two on_demand models and an always_on  *)
(* one, any two of which exceed the memory; a JSON call and a stream share   *)
(* the one slot of the first, the second answers with audio.                 *)
EXTENDS Fleet

CONSTANTS a, b, c, json, sse, audio

MCInstances == {a, b, c}
MCSessions == {json, sse, audio}
MCOnDemand == {a, b}
MCInstanceOf == [s \in MCSessions |-> IF s = audio THEN b ELSE a]
MCKindOf == [s \in MCSessions |->
  IF s = json THEN "json" ELSE IF s = sse THEN "sse" ELSE "binary"]

\* A config that says nothing, and an instance without settings of its own.
NoConfig ==
  [layers |-> None, heads |-> None, kvHeads |-> None, headDim |-> None,
   hidden |-> None, types |-> <<>>, shared |-> None, window |-> None,
   linear |-> None, kEqV |-> FALSE, maxPos |-> None]

NoSettings ==
  [maxKv |-> None, kvBits |-> None, decode |-> None, upstream |-> None,
   cacheBytes |-> None, cacheEntries |-> None]

\* The text model is nested in the config of a; its last layers share a cache.
MCFiles == [i \in MCInstances |->
  IF i = a THEN
    <<NoConfig,
      [NoConfig EXCEPT !.layers = 4, !.heads = 2, !.hidden = 4, !.kvHeads = 1,
                       !.types = <<"full", "sliding", "sliding">>, !.window = 2, !.shared = 2]>>
  ELSE IF i = b THEN
    <<[NoConfig EXCEPT !.layers = 3, !.heads = 1, !.headDim = 2, !.maxPos = 3,
                       !.types = <<"linear", "full", "linear">>, !.kEqV = TRUE,
                       !.linear = [keyHeads |-> 1, valueHeads |-> 1, keyDim |-> 1,
                                   valueDim |-> 2, conv |-> 2]]>>
  ELSE <<NoConfig>>]
MCConfigOf == [i \in MCInstances |->
  IF i = a THEN [NoSettings EXCEPT !.decode = 1]
  ELSE IF i = b THEN [NoSettings EXCEPT !.maxKv = 1, !.kvBits = 8, !.upstream = 1]
  ELSE NoSettings]
MCModeOf == [i \in MCInstances |->
  IF i = a THEN "TEXT" ELSE IF i = b THEN "MULTIMODAL" ELSE "EMBEDDING"]
MCDiskOf == [i \in MCInstances |-> IF i = a THEN 100 ELSE IF i = b THEN 0 ELSE 400]
=============================================================================
