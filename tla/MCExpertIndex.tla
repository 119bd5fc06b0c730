---------------------------- MODULE MCExpertIndex ----------------------------
(***************************************************************************)
(* Three slots, eight buckets and five keys whose hashes fall on two       *)
(* neighbouring buckets or on the last one, so that probe paths collide    *)
(* and wrap around the end of the table.                                   *)
(***************************************************************************)
EXTENDS ExpertIndex, TLC

MCHashes == [Keys -> {0, 1, BucketCount - 1}]

KeySymmetry == Permutations(Keys)
=============================================================================
