---------------------------- MODULE MemoryCheck ----------------------------
(***************************************************************************)
(* L1, memory_check.py and the regions of config.py: the destination of     *)
(* every instruction lies in the space, in no protected region and, where   *)
(* regions are allowed, in one of those.  One behaviour is one call of      *)
(* check_layer.                                                             *)
(***************************************************************************)
EXTENDS Regions

CONSTANTS
  SpaceBits,  \* cfg.space_bits
  Configs,    \* the configurations examined: records [protected, allowed]
  Layers      \* the layers examined: sequences of records [n, dst, src]

ASSUME MemoryCheckAssumption ==
  /\ SpaceBits \in Nat
  /\ Configs \subseteq [protected : Seq(Region), allowed : Seq(Region)]
  /\ Layers \subseteq Seq([n : Nat, dst : Nat, src : Nat])

VARIABLES
  cfg,         \* the configuration
  instrs,      \* the layer; instruction k is in slot k - 1
  k,           \* the instruction being checked
  r,           \* the protected region it is being compared with
  violations,  \* reported so far: records [slot, reason]
  total, nop,  \* counters of the result
  pc           \* "next", "protected", "allowed", "done"

vars == <<cfg, instrs, k, r, violations, total, nop, pc>>

Init ==
  /\ cfg \in Configs /\ instrs \in Layers
  /\ k = 1 /\ r = 1 /\ violations = <<>> /\ total = 0 /\ nop = 0
  /\ pc = "next"

-----------------------------------------------------------------------------
ins == instrs[k]

Report(reason) == violations' = Append(violations, [slot |-> k - 1, reason |-> reason])

SkipNop ==
  /\ pc = "next" /\ k <= Len(instrs) /\ ins.n = 0
  /\ total' = total + 1 /\ nop' = nop + 1
  /\ k' = k + 1
  /\ UNCHANGED <<cfg, instrs, r, violations, pc>>

Exceeds == ins.dst + ins.n > SpaceBits

(* Mutant: goes on to the regions. *)
OutOfSpaceMutant ==
  /\ pc = "next" /\ k <= Len(instrs) /\ ins.n # 0 /\ Exceeds
  /\ total' = total + 1
  /\ Report("boundary")
  /\ pc' = "protected" /\ r' = 1
  /\ UNCHANGED <<cfg, instrs, k, nop>>

(* Out of the space: no region is looked at. *)
OutOfSpace ==
  /\ pc = "next" /\ k <= Len(instrs) /\ ins.n # 0 /\ Exceeds
  /\ total' = total + 1
  /\ Report("boundary")
  /\ k' = k + 1
  /\ UNCHANGED <<cfg, instrs, r, nop, pc>>

InSpace ==
  /\ pc = "next" /\ k <= Len(instrs) /\ ins.n # 0 /\ ~Exceeds
  /\ total' = total + 1
  /\ pc' = "protected" /\ r' = 1
  /\ UNCHANGED <<cfg, instrs, k, violations, nop>>

(* Mutant: every region that is touched is reported. *)
HitMutant ==
  /\ pc = "protected" /\ r <= Len(cfg.protected)
  /\ intersects(cfg.protected[r], ins.dst, ins.n)
  /\ Report("protected")
  /\ r' = r + 1
  /\ UNCHANGED <<cfg, instrs, k, total, nop, pc>>

(* The loop over protected regions ends at the first that is touched. *)
Hit ==
  /\ pc = "protected" /\ r <= Len(cfg.protected)
  /\ intersects(cfg.protected[r], ins.dst, ins.n)
  /\ Report("protected")
  /\ pc' = "allowed"
  /\ UNCHANGED <<cfg, instrs, k, r, total, nop>>

(* Mutant: the loop does not advance. *)
MissMutant ==
  /\ pc = "protected" /\ r <= Len(cfg.protected)
  /\ ~intersects(cfg.protected[r], ins.dst, ins.n)
  /\ UNCHANGED vars

Miss ==
  /\ pc = "protected" /\ r <= Len(cfg.protected)
  /\ ~intersects(cfg.protected[r], ins.dst, ins.n)
  /\ r' = r + 1
  /\ UNCHANGED <<cfg, instrs, k, violations, total, nop, pc>>

NoHit ==
  /\ pc = "protected" /\ r > Len(cfg.protected)
  /\ pc' = "allowed"
  /\ UNCHANGED <<cfg, instrs, k, r, violations, total, nop>>

(* Mutant: only the first region is looked at. *)
_is_in_allowedMutant ==
  \E g \in 1..1 : contains(cfg.allowed[g], ins.dst, ins.n)

_is_in_allowed ==
  \E g \in 1..Len(cfg.allowed) : contains(cfg.allowed[g], ins.dst, ins.n)

Permitted == cfg.allowed = <<>> \/ _is_in_allowed

(* Mutant: the instruction after a violation is skipped. *)
AllowedMutant ==
  /\ pc = "allowed"
  /\ IF Permitted THEN violations' = violations ELSE Report("allowed")
  /\ k' = IF Permitted THEN k + 1 ELSE k + 2
  /\ pc' = "next"
  /\ UNCHANGED <<cfg, instrs, r, total, nop>>

Allowed ==
  /\ pc = "allowed"
  /\ IF Permitted THEN violations' = violations ELSE Report("allowed")
  /\ k' = k + 1
  /\ pc' = "next"
  /\ UNCHANGED <<cfg, instrs, r, total, nop>>

Return ==
  /\ pc = "next" /\ k > Len(instrs)
  /\ pc' = "done"
  /\ UNCHANGED <<cfg, instrs, k, r, violations, total, nop>>

Next ==
  \/ SkipNop \/ OutOfSpace \/ InSpace
  \/ Hit \/ Miss \/ NoHit \/ Allowed \/ Return

Spec == Init /\ [][Next]_vars /\ WF_vars(Next)

(* The result of the call. *)
status == IF violations = <<>> THEN "PASS" ELSE "FAIL"

-----------------------------------------------------------------------------
(* What a configuration asks of a destination, bit by bit. *)

Holds(g, b) == Bounded(g) /\ g.begin <= b /\ b < g.end

DstBits(i) == i.dst .. (i.dst + i.n - 1)

Wrong(i) ==
  LET outside == \E b \in DstBits(i) : b >= SpaceBits
  IN  IF outside THEN {"boundary"}
      ELSE {reason \in {"protected", "allowed"} :
              IF reason = "protected"
              THEN \E g \in 1..Len(cfg.protected), b \in DstBits(i) :
                     Holds(cfg.protected[g], b)
              ELSE cfg.allowed # <<>> /\ i.n > 0 /\
                   \A g \in 1..Len(cfg.allowed) : \E b \in DstBits(i) :
                     ~Holds(cfg.allowed[g], b)}

(* An empty or inverted region holds no bit, yet the code finds destinations *)
(* around it to intersect it.                                                *)
WellFormed ==
  \A g \in 1..Len(cfg.protected) :
    Bounded(cfg.protected[g]) => cfg.protected[g].begin < cfg.protected[g].end

(* Every variable keeps its type; the loops stay inside their lists.         *)
TypeOK ==
  /\ cfg \in Configs /\ instrs \in Layers
  /\ k \in 1..(Len(instrs) + 1) /\ r \in 1..(Len(cfg.protected) + 1)
  /\ violations \in Seq([slot : Nat, reason : {"boundary", "protected", "allowed"}])
  /\ total \in 0..Len(instrs) /\ nop \in 0..total
  /\ pc \in {"next", "protected", "allowed", "done"}
  /\ pc \in {"protected", "allowed"} => k <= Len(instrs)

(* README.md:55-57, L1: a layer passes only if every bit an instruction can  *)
(* write lies in the space, in no protected region and, where regions are    *)
(* allowed, in one of them; whatever bounds are missing, empty or inverted.  *)
Sound ==
  pc = "done" /\ status = "PASS" =>
    \A a \in 1..Len(instrs) : \A b \in DstBits(instrs[a]) :
      /\ b < SpaceBits
      /\ \A g \in 1..Len(cfg.protected) : ~Holds(cfg.protected[g], b)
      /\ cfg.allowed = <<>> \/ \E g \in 1..Len(cfg.allowed) : Holds(cfg.allowed[g], b)

(* What was reported of instruction a. *)
Reasons(a) ==
  {violations[v].reason : v \in {v \in 1..Len(violations) : violations[v].slot = a - 1}}

(* With well-formed protected regions the violations are the right ones:     *)
(* for each instruction exactly the rules it breaks, the boundary alone if   *)
(* it breaks that one.                                                       *)
Exact ==
  pc = "done" /\ WellFormed =>
    \A a \in 1..Len(instrs) : Reasons(a) = Wrong(instrs[a])

(* Reports follow the slots and none is made twice: of two of one slot the   *)
(* first is about protected and the second about allowed regions.            *)
Once ==
  \A v, w \in 1..Len(violations) : v < w =>
    \/ violations[v].slot < violations[w].slot
    \/ /\ violations[v].slot = violations[w].slot
       /\ violations[v].reason = "protected" /\ violations[w].reason = "allowed"

(* The loops, with their early continue and break, compute the rule: a layer *)
(* passes iff every instruction that copies anything may write where it does. *)
LayerVerdict ==
  pc = "done" => (status = "PASS" <=> LayerSafe(cfg, SpaceBits, instrs))

(* Every call returns. *)
Terminates == <>(pc = "done")
=============================================================================
