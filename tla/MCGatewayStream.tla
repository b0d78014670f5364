--------------------------- MODULE MCGatewayStream ---------------------------
(***************************************************************************)
(* GatewayStream for TLC.  Whether the arguments of a call are JSON is told *)
(* by their last piece: those that begin and end a call at once are an     *)
(* object, some are cut in the middle, some are a value that is no object, *)
(* and a last fragment completes what the earlier ones began.              *)
(***************************************************************************)
EXTENDS GatewayStream

MCJsonKind(text) ==
  IF text = <<>> THEN "empty"
  ELSE CASE text[Len(text)][2] = 1 -> "cut"
         [] text = <<<<"said", 2>>>> -> "value"
         [] OTHER -> "object"
=============================================================================
