---------------------------- MODULE MCMeshRecovery ----------------------------
(* One node: two threads seal, one opens, exports and restores.            *)
EXTENDS MeshRecovery, TLC

CONSTANTS a, sealer1, sealer2, keeper

MCHome == sealer1 :> a @@ sealer2 :> a @@ keeper :> a

MCDuty == sealer1 :> {"seal"} @@ sealer2 :> {"seal"} @@ keeper :> {"export", "restore", "open"}

Symmetry == Permutations({sealer1, sealer2})
=============================================================================
