---------------------------- MODULE MCInvariants ----------------------------
(***************************************************************************)
(* A machine large enough for an ART: 255 bytes, one slot, 16-bit addresses.*)
(* Its workspace begins at 152, ART at 664, and the region RP must keep out *)
(* of ends at 1640.                                                         *)
(***************************************************************************)
EXTENDS Invariants

(* A memory with the cells at a[58..60], holding v[58..60]. *)
Program(a, v) ==
  LET Entry(m, k) == WriteUint(m, 664 + k * 16, a[k])
      table == Entry(Entry(Entry({}, 58), 59), 60)
      Value(m, k) == IF a[k] + 16 <= SpaceBits THEN WriteUint(m, a[k], v[k]) ELSE m
  IN  Value(Value(Value(table, 58), 59), 60)

Three(x, y, z) == [k \in 58..60 |-> IF k = 58 THEN x ELSE IF k = 59 THEN y ELSE z]

(* Cells apart and aligned; next to each other from bit 24 of a word; in the *)
(* middle of a word behind the place of a store; in the registers; on top of *)
(* each other; one that sticks out of the space.                             *)
MCCells ==
  {Three(1920, 1952, 1984), Three(1944, 1960, 1976), Three(1920, 1952, 2000),
   Three(56, 72, 88), Three(1984, 1984, 1992), Three(1920, 2040, 1984)}

(* Null; the first and the last word; ART; behind a cell and in it; not      *)
(* aligned; the registers; past the end.                                     *)
MCPointers == {0, 1664, 2016, 1632, 1984, 1968, 96, 2048}

MCPrograms ==
  {Program(a, Three(x, 0, y)) : a \in MCCells, x \in {0, 1664, 1670}, y \in MCPointers}

MCData == {{}, 0..23, {2, 11, 17}}
MCMaxTicks == 3
=============================================================================
