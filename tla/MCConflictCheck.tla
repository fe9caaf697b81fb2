-------------------------- MODULE MCConflictCheck --------------------------
(***************************************************************************)
(* Rounds on which TLC checks module ConflictCheck.                        *)
(***************************************************************************)
EXTENDS ConflictCheck

(* Every pair of instructions with n up to 2 on six bits; triples in which   *)
(* intervals nest, touch, and coincide; no instruction.                      *)
MCPairs == [1..2 -> [n : 0..2, dst : 0..4, src : {0, 1, 3, 4}]]
MCTriples == [1..3 -> [n : {1, 4}, dst : {0, 2, 6}, src : {1, 4}]]
MCRounds == {<<>>} \cup MCPairs \cup MCTriples
=============================================================================
