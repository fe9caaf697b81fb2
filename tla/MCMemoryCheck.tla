--------------------------- MODULE MCMemoryCheck ---------------------------
(***************************************************************************)
(* Configurations and layers on which TLC checks module MemoryCheck: a      *)
(* space of 12 bits.                                                        *)
(***************************************************************************)
EXTENDS MemoryCheck

R(begin, end) == [begin |-> begin, end |-> end]

(* None; one; two that touch; two that overlap; the shipped default, without *)
(* an end; an empty and an inverted one.                                     *)
MCProtected ==
  {<<>>, <<R(4, 8)>>, <<R(4, 6), R(0, 4)>>, <<R(0, 5), R(3, 7)>>,
   <<R(0, None), R(None, None)>>, <<R(6, 6)>>, <<R(8, 7), R(0, 2)>>}

(* None; one; two that adjoin; one that reaches out of the space; the        *)
(* shipped default, without bounds.                                          *)
MCAllowed ==
  {<<>>, <<R(5, 9)>>, <<R(9, 12), R(5, 9)>>, <<R(2, 14)>>, <<R(None, None)>>}

MCConfigs == [protected : MCProtected, allowed : MCAllowed]

MCInstrs(sizes, places) == [n : sizes, dst : places, src : {0}]

(* Every single instruction; pairs of a few; the empty layer.               *)
MCLayers ==
  [1..1 -> MCInstrs({0, 1, 2, 4, 6}, 0..12)]
    \cup [1..2 -> MCInstrs({0, 3}, {2, 5, 7, 10})]
    \cup {<<>>}
=============================================================================
