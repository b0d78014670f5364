------------------------------ MODULE Footprint ------------------------------
(***************************************************************************)
(* How much memory a model is planned to take (memory_pressure.py,         *)
(* prompt_cache.py), and how many requests the gateway lets it serve at    *)
(* once (upstream_concurrency.py).  Bytes are counted in an arbitrary unit; *)
(* whatever a config may leave out is None.                                *)
(***************************************************************************)
EXTENDS Integers, Sequences, FiniteSetsExt, SequencesExt

CONSTANTS
  None,
  MinFootprint,       \* _DEFAULT_FOOTPRINT_BYTES, _MIN_FOOTPRINT_BYTES
  PlanningContext,    \* NADIR_MEMORY_PLANNING_CONTEXT_TOKENS
  MinContext,         \* the least max_kv_size that is believed
  PlanningPrefix,     \* NADIR_MEMORY_PLANNING_PROMPT_PREFIX_TOKENS
  PlanningEntries,    \* NADIR_MEMORY_PLANNING_PROMPT_CACHE_ENTRIES
  PlanningParallel,   \* NADIR_MEMORY_PLANNING_PARALLEL_SEQUENCES
  DefaultLimit,       \* NADIR_GATEWAY_MAX_CONCURRENT_UPSTREAM
  GlobalCap,          \* NADIR_GATEWAY_MAX_CONCURRENT_GLOBAL
  CacheSize           \* default_prompt_cache_settings on this host

DefaultBits == 16
Least(a, b) == IF a < b THEN a ELSE b
Most(a, b) == IF a > b THEN a ELSE b
Else(a, b) == IF a # None THEN a ELSE b
Given(S) == S \ {None}

\* _read_positive_int, _positive_int: what is not positive is not set.
Positive(n) == IF n = None \/ n <= 0 THEN None ELSE n

\* What reading the settings lets through.
ASSUME FootprintAssumption ==
  /\ None \notin Int
  /\ MinFootprint \in Nat \ {0} /\ PlanningContext \in Nat \ {0} /\ MinContext \in Nat \ {0}
  /\ PlanningPrefix \in Nat /\ PlanningEntries \in Nat /\ PlanningParallel \in Nat \ {0}
  /\ DefaultLimit \in Int \cup {None} /\ GlobalCap \in Int \cup {None}
  /\ CacheSize \in Int

-----------------------------------------------------------------------------
(* What is read of a config.json: positive numbers, or None; a layer is of  *)
(* one of three kinds, whatever its name.                                   *)

Kinds == {"full", "sliding", "linear"}
Read == (Nat \ {0}) \cup {None}

LinearFile ==
  [keyHeads : Nat \ {0}, valueHeads : Nat \ {0}, keyDim : Nat \ {0}, valueDim : Nat \ {0},
   conv : Nat \ {0}]

ConfigFile ==
  [layers : Read, heads : Read, kvHeads : Read, headDim : Read, hidden : Read,
   types : Seq(Kinds), shared : Read, window : Read, linear : LinearFile \cup {None},
   kEqV : BOOLEAN, maxPos : Read]

\* The settings of an instance: any number, or none.
Setting == Int \cup {None}
ServerConfig ==
  [maxKv : Setting, kvBits : Setting, decode : Setting, upstream : Setting,
   cacheBytes : Setting, cacheEntries : Setting]

-----------------------------------------------------------------------------
(* The shape of a model: one flat config, or the first nested one that has  *)
(* layers, heads and a head size.                                           *)

HeadSize(c) ==
  IF c.headDim # None THEN c.headDim
  ELSE IF None \in {c.heads, c.hidden} THEN None
  ELSE c.hidden \div c.heads

HasShape(c) ==
  /\ c.layers # None
  /\ Else(c.kvHeads, c.heads) # None
  /\ HeadSize(c) \notin {None, 0}

FlatShape(c) ==
  [c EXCEPT !.kvHeads = Else(c.kvHeads, c.heads),
            !.headDim = HeadSize(c),
            !.types = SubSeq(c.types, 1, Least(Len(c.types), c.layers)),
            !.shared = Least(Else(c.shared, 0), c.layers)]

ShapeOf(configs) ==
  LET usable == {k \in DOMAIN configs : HasShape(configs[k])}
  IN IF usable = {} THEN None ELSE FlatShape(configs[Min(usable)])

LayerKind(shape, n) == IF n \in DOMAIN shape.types THEN shape.types[n] ELSE "full"

-----------------------------------------------------------------------------
(* The state a sequence keeps, layer by layer. *)

LinearState(l) ==
  IF l = None THEN 0
  ELSE l.valueHeads * l.valueDim * l.keyDim * 4
       + Most(0, l.conv - 1) * (2 * l.keyHeads * l.keyDim + l.valueHeads * l.valueDim) * 2

LayerTokens(shape, kind, tokens) ==
  IF kind = "sliding" /\ shape.window # None THEN Least(tokens, shape.window) ELSE tokens

LayerBytes(shape, n, tokens, bits) ==
  LET kind == LayerKind(shape, n)
      tensors == IF kind = "full" /\ shape.kEqV THEN 1 ELSE 2
  IN IF kind = "linear" THEN LinearState(shape.linear)
     ELSE (tensors * shape.kvHeads * shape.headDim * LayerTokens(shape, kind, tokens)
             * Most(bits, 1)) \div 8

KvBytes(shape, tokens, bits) ==
  IF shape = None \/ (tokens = 0 /\ shape.types = <<>>) THEN 0
  ELSE MapThenSumSet(LAMBDA n : LayerBytes(shape, n, tokens, bits),
                     1..(shape.layers - shape.shared))

-----------------------------------------------------------------------------
(* The plan for one instance. *)

Weights(disk) ==
  IF disk = 0 THEN MinFootprint ELSE Most(MinFootprint, (disk * 115) \div 100)

Context(config, shape) ==
  LET asked == IF config.maxKv = None THEN PlanningContext
               ELSE Least(PlanningContext, Most(MinContext, config.maxKv))
  IN IF shape = None \/ shape.maxPos = None THEN asked ELSE Least(asked, shape.maxPos)

KvBits(config) ==
  IF config.kvBits = None \/ config.kvBits <= 0 THEN DefaultBits ELSE config.kvBits

Parallel(config) ==
  Most(1, Min({PlanningParallel} \cup Given({Positive(n) : n \in
                {config.decode, config.upstream, DefaultLimit, GlobalCap}})))

PromptCache(config, shape, mode, prefix, bits) ==
  IF mode # "TEXT" \/ shape = None THEN 0
  ELSE IF config.cacheBytes # None THEN Most(0, config.cacheBytes)
  ELSE IF prefix = 0 THEN 0
  ELSE Least(Most(0, Else(config.cacheEntries, CacheSize)), PlanningEntries)
       * KvBytes(shape, prefix, bits)

Estimate(disk, config, shape, mode) ==
  LET context == Context(config, shape)
      bits == KvBits(config)
      kv == KvBytes(shape, context, bits) * Parallel(config)
      cache == PromptCache(config, shape, mode, Least(context, PlanningPrefix), bits)
  IN IF mode \notin {"TEXT", "MULTIMODAL"} THEN Most(MinFootprint, Weights(disk))
     ELSE Most(MinFootprint, Weights(disk) + kv + cache)

\* How many requests the gateway lets in at once (upstream_concurrency.py): the
\* instance's own cap, where 0 lifts it, or the gateway's, and never more than
\* the server of a text model decodes together.
ConfiguredLimit(config) ==
  IF config.upstream = None THEN Positive(DefaultLimit)
  ELSE IF config.upstream = 0 THEN None ELSE config.upstream

Decodes(config, mode) == IF mode = "TEXT" THEN config.decode ELSE None

\* Mutation: the server's own limit is not one of the gateway's.
SlotLimitOfGateway(config, mode) == ConfiguredLimit(config)

SlotLimit(config, mode) ==
  LET caps == Given({ConfiguredLimit(config), Decodes(config, mode)})
  IN IF caps = {} THEN None ELSE Min(caps)
=============================================================================
