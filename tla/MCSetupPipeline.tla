-------------------------- MODULE MCSetupPipeline --------------------------
(***************************************************************************)
(* Builds whose tables have chunks of every sort: one as Apple makes them, *)
(* one with a chunk that is passed over, one with an unknown type, and one *)
(* whose partition is not found.                                           *)
(***************************************************************************)
EXTENDS SetupPipeline, TLC

MCChunkType ==
  [b \in Builds |->
     [k \in Chunks |->
        CASE b = "9A405"  -> (0 :> "raw" @@ 1 :> "zero" @@ 2 :> "zlib")[k]
          [] b = "9B206"  -> (0 :> "comment" @@ 1 :> "zlib" @@ 2 :> "lzfse")[k]
          [] b = "marred" -> (0 :> "zlib" @@ 1 :> "unknown" @@ 2 :> "term")[k]
          [] b = "packed" -> (0 :> "bzlib" @@ 1 :> "raw" @@ 2 :> "ignore")[k]]]
=============================================================================
