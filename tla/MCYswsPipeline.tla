--------------------------- MODULE MCYswsPipeline ---------------------------
(* Small instances of the pipeline for TLC.                                  *)
EXTENDS YswsPipeline, TLC

CONSTANTS ann, ben, cap, s1, s2, r1, r2, j1, j2, h1, h2

(* A shipwright and a captain, one request at a time each.                   *)
OneEach == (r1 :> ann) @@ (r2 :> cap)
=============================================================================
