------------------------------ MODULE MCBitcpy ------------------------------
(***************************************************************************)
(* Calls and memories on which TLC checks module Bitcpy.                   *)
(***************************************************************************)
EXTENDS Bitcpy

(* Past any address a call below can load from. *)
MCTop == 511

(* A pattern no shift by less than 64 maps to itself, and its complement. *)
MCOnes == {b \in 0 .. MCTop : (b * b + (b \div 7)) % 5 < 2}
MCMemories == {MCOnes, (0 .. MCTop) \ MCOnes}

(* Two offsets per relation of src % 8 and dst % 8; sizes on both sides of  *)
(* 8, of a head plus 64 and of a head plus 128.                             *)
MCFarCalls ==
  [n   : {7, 8, 9, 15, 64, 67, 72, 75, 131, 139},
   src : {16, 19, 21, 22, 23},
   dst : {160, 163, 165, 167}]

(* The processor-sized copies next to each other, and overlaps both ways. *)
MCNearCalls ==
  [n : {0, 1, 3, 8, 12, 17}, src : {24, 27}, dst : {16, 21, 24, 29, 33}]

MCCalls == MCFarCalls \cup MCNearCalls

(* Short copies to a larger bit offset. *)
MCHeadCalls == [n : {8, 12, 40}, src : {16, 18}, dst : {163, 165}]
=============================================================================
