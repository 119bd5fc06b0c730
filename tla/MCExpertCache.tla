---------------------------- MODULE MCExpertCache ----------------------------
(***************************************************************************)
(* Small instances of ExpertCache.  Two layers; layer 0 has floors, layer  *)
(* 1 has none.  The two sizes of plane fit the budget in different counts. *)
(***************************************************************************)
EXTENDS ExpertCache, TLC

MCMinBaseEntries == [l \in Layers |-> IF l = 0 THEN 1 ELSE 0]
MCMinBaseBytes == [l \in Layers |-> IF l = 0 THEN 3 ELSE 0]
MCMinBaseBytes2Q == [l \in Layers |-> IF l = 0 THEN 2 ELSE 0]

PayloadSymmetry == Permutations(Payloads)
=============================================================================
