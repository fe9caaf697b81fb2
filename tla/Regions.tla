------------------------------ MODULE Regions ------------------------------
(***************************************************************************)
(* The regions of config.py, and the rule of L1 for a whole layer: what     *)
(* check_layer lets pass, which module MemoryCheck derives from its loops.  *)
(***************************************************************************)
EXTENDS Integers, Sequences

CONSTANT None  \* a bound the configuration file leaves out or sets to null

ASSUME NoneAssumption == None \notin Int

(* class Region: half-open intervals, of which a bound may be missing. *)
Region == [begin : Int \cup {None}, end : Int \cup {None}]

Bounded(g) == g.begin # None /\ g.end # None

contains(g, addr, n) == Bounded(g) /\ g.begin <= addr /\ addr + n <= g.end

(* Mutant: only the start of the range is looked at. *)
intersectsMutant(g, addr, n) == Bounded(g) /\ g.begin <= addr /\ addr < g.end

intersects(g, addr, n) == Bounded(g) /\ addr + n > g.begin /\ addr < g.end

-----------------------------------------------------------------------------
(* An instruction that check_layer reports nothing of. *)
Writable(c, bits, i) ==
  /\ i.dst + i.n <= bits
  /\ \A g \in 1..Len(c.protected) : ~intersects(c.protected[g], i.dst, i.n)
  /\ c.allowed # <<>> =>
       \E g \in 1..Len(c.allowed) : contains(c.allowed[g], i.dst, i.n)

LayerSafe(c, bits, layer) ==
  \A a \in 1..Len(layer) : layer[a].n > 0 => Writable(c, bits, layer[a])
=============================================================================
