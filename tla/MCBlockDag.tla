----------------------------- MODULE MCBlockDag -----------------------------
(* BlockDag for TLC: nodes are interchangeable. *)
EXTENDS BlockDag, TLC

NodeSymmetry == Permutations(Node)
=============================================================================
