----------------------------- MODULE MCChronoMesh -----------------------------
(* Two nodes: one thread of a seals; two threads of b open what either     *)
(* node sealed, while a third seals and exports and restores checkpoints.  *)
EXTENDS ChronoMesh, TLC

CONSTANTS a, b, sealer, opener1, opener2, keeper

MCHome == sealer :> a @@ opener1 :> b @@ opener2 :> b @@ keeper :> b

MCDuty == sealer :> {"seal"} @@ opener1 :> {"open"} @@ opener2 :> {"open"}
          @@ keeper :> {"export", "restore", "seal"}

Symmetry == Permutations({opener1, opener2})
=============================================================================
