-------------------------- MODULE InvariantsProofs --------------------------
(***************************************************************************)
(* The alignment check of invariants.c for every layout, every program and  *)
(* any number of stores.  What has to be shown is that a store through a    *)
(* checked RP stays clear of everything the check read, the table's entries *)
(* and the cells, unless it reaches a cell in the one place the check leaves *)
(* open.                                                                    *)
(***************************************************************************)
EXTENDS Invariants, CopySpaceProofs, TLAPS

-----------------------------------------------------------------------------
LEMMA FieldTypes ==
  /\ space_bits \in Nat /\ workspace_base \in Nat /\ width \in Nat
  /\ ART \in Nat /\ workspace_base < ART /\ need_end = ART + 61 * width
  /\ need_end \in Nat
<1>1. space_bits \in Nat /\ workspace_base \in Nat /\ width \in Nat
  BY Sizes, MmioEndType DEF space_bits, workspace_base, width
<1> HIDE DEF space_bits, workspace_base, width
<1>2. ART \in Nat /\ workspace_base < ART
  BY <1>1 DEF ART, align8_bits
<1> QED
  BY <1>1, <1>2 DEF need_end

LEMMA LiveFields ==
  ASSUME live
  PROVE  space_bits = SpaceBits /\ width = AddrBits /\ workspace_base = MmioEnd
BY DEF space_bits, width, workspace_base

LEMMA ReadTypes ==
  ASSUME NEW m, NEW k PROVE var_addr(m, k) \in Nat /\ pointer(m, k) \in Nat
BY UIntNat DEF var_addr, pointer

(* What a passing check says of a machine: it is live, and each pointer that *)
(* is set is the beginning of an aligned word, RP of one past the table.     *)
LEMMA StrictMeans ==
  ASSUME NEW m, strict_align32(m)
  PROVE  /\ live
         /\ \A k \in Vars : pointer(m, k) # 0 =>
              /\ pointer(m, k) % 32 = 0
              /\ workspace_base <= pointer(m, k)
              /\ pointer(m, k) + need_bits <= space_bits
         /\ pointer(m, RP) # 0 =>
              need_end <= pointer(m, RP)
         /\ \A k \in Vars : pointer(m, RP) # 0 =>
              ~InCell(pointer(m, RP), var_addr(m, k))
<1>1. live
  <2>1. need_end <= space_bits
    BY DEF strict_align32
  <2>2. CASE ~live
    <3>1. need_end > 0
      BY FieldTypes
    <3> QED
      BY <2>1, <2>2, <3>1, FieldTypes DEF space_bits
  <2> QED
    BY <2>2
<1>2. ASSUME NEW k \in Vars, pointer(m, k) # 0
      PROVE  /\ pointer(m, k) % 32 = 0
             /\ workspace_base <= pointer(m, k)
             /\ pointer(m, k) + need_bits <= space_bits
  <2>1. check_var_ptr(pointer(m, k))
    BY DEF strict_align32
  <2> QED
    BY <1>2, <2>1, ReadTypes, FieldTypes DEF check_var_ptr
<1>3. ASSUME pointer(m, RP) # 0
      PROVE  /\ need_end <= pointer(m, RP)
             /\ \A k \in Vars : ~InCell(pointer(m, RP), var_addr(m, k))
  <2>1. check_rp_protected(m, pointer(m, RP)) /\ RP \in Vars
    BY DEF strict_align32, RP, Vars
  <2>2. workspace_base <= pointer(m, RP)
    BY <1>2, <1>3, <2>1
  <2> QED
    BY <1>3, <2>1, <2>2, ReadTypes, FieldTypes DEF check_rp_protected
<1> QED
  BY <1>1, <1>2, <1>3

-----------------------------------------------------------------------------
(* A store. *)

Stored24(m, rp, d) == (m \ BitRange(rp, need_bits)) \cup {rp + q : q \in d}

LEMMA Stored24Frame ==
  ASSUME NEW m, NEW rp \in Nat, NEW d, d \subseteq 0..23
  PROVE  Agree(m, Stored24(m, rp, d), BitRange(rp, need_bits))
<1>1. \A q \in d : rp + q \in BitRange(rp, need_bits)
  BY DEF BitRange, need_bits
<1> QED
  BY <1>1, Zenon DEF Agree, Stored24

(* The arithmetic of the protection: 24 bits from an aligned address that is *)
(* not inside a sheltered cell do not reach into it.                         *)
LEMMA StoreMissesCell ==
  ASSUME NEW rp \in Nat, NEW addr \in Nat, rp % 32 = 0, Sheltered(addr),
         ~InCell(rp, addr), live
  PROVE  BitRange(rp, need_bits) \cap BitRange(addr, AddrBits) = {}
<1>1. rp + need_bits <= addr \/ addr + AddrBits <= rp
  <2>1. AddrBits \in Nat
    BY Sizes
  <2>2. CASE rp < addr
    <3> DEFINE p == rp \div 32  a == addr \div 32  r == addr % 32
    <3>1. rp = 32 * p /\ p \in Nat
      OBVIOUS
    <3>2. addr = 32 * a + r /\ a \in Nat /\ r \in 0..31
      OBVIOUS
    <3>3. r = 0 \/ r >= 24
      BY DEF Sheltered, need_bits
    <3> HIDE DEF p, a, r
    <3> QED
      BY <2>2, <3>1, <3>2, <3>3 DEF need_bits
  <2>3. CASE addr <= rp
    BY <2>1, <2>3, LiveFields DEF InCell
  <2> QED
    BY <2>2, <2>3
<1> QED
  BY <1>1, Sizes DEF BitRange, need_bits

(* The entries of the table lie before need_end. *)
LEMMA StoreMissesTable ==
  ASSUME NEW rp \in Nat, need_end <= rp, NEW k \in Vars, live
  PROVE  BitRange(rp, need_bits) \cap BitRange(ART + k * width, AddrBits) = {}
<1>1. k \in Nat /\ k + 1 <= 61
  BY DEF Vars
<1>2. k * width + width <= 61 * width
  BY <1>1, FieldTypes DEF Vars
<1>3. ART + k * width + AddrBits <= rp
  BY <1>1, <1>2, FieldTypes, LiveFields
<1>4. ART + k * width \in Nat
  BY <1>1, FieldTypes
<1> HIDE DEF ART
<1> QED
  BY <1>3, <1>4, Sizes DEF BitRange, need_bits

(* Where a checked store goes. *)
LEMMA StoreClear ==
  ASSUME NEW m, strict_align32(m), pointer(m, RP) # 0
  PROVE  /\ pointer(m, RP) \in Nat
         /\ \A k \in Vars :
              BitRange(pointer(m, RP), need_bits) \cap BitRange(ART + k * width, AddrBits) = {}
         /\ \A k \in Vars : Sheltered(var_addr(m, k)) =>
              BitRange(pointer(m, RP), need_bits) \cap BitRange(var_addr(m, k), AddrBits) = {}
         /\ \A b \in 0..(need_end - 1) : b \notin BitRange(pointer(m, RP), need_bits)
<1> DEFINE rp == pointer(m, RP)
<1>1. /\ rp \in Nat /\ rp # 0 /\ live /\ rp % 32 = 0 /\ need_end <= rp
      /\ \A k \in Vars : ~InCell(rp, var_addr(m, k))
  BY StrictMeans, ReadTypes DEF RP, Vars
<1> HIDE DEF rp
<1>2. ASSUME NEW k \in Vars
      PROVE  BitRange(rp, need_bits) \cap BitRange(ART + k * width, AddrBits) = {}
  BY <1>1, StoreMissesTable
<1>3. ASSUME NEW k \in Vars, Sheltered(var_addr(m, k))
      PROVE  BitRange(rp, need_bits) \cap BitRange(var_addr(m, k), AddrBits) = {}
  BY <1>1, <1>3, StoreMissesCell, ReadTypes
<1>4. \A b \in 0..(need_end - 1) : b \notin BitRange(rp, need_bits)
  BY <1>1, FieldTypes DEF BitRange
<1> QED
  BY <1>1, <1>2, <1>3, <1>4 DEF rp

(* A store that misses the cells changes nothing the check read. *)
LEMMA StoreKeepsReads ==
  ASSUME NEW m, strict_align32(m), pointer(m, RP) # 0, NEW d, d \subseteq 0..23,
         \A k \in Vars :
           BitRange(pointer(m, RP), need_bits) \cap BitRange(var_addr(m, k), AddrBits) = {}
  PROVE  LET m2 == Stored24(m, pointer(m, RP), d)
         IN  \A k \in Vars : var_addr(m2, k) = var_addr(m, k) /\ pointer(m2, k) = pointer(m, k)
<1> DEFINE rp == pointer(m, RP)
           A == BitRange(rp, need_bits)
           m2 == Stored24(m, rp, d)
<1>1. Agree(m, m2, A)
  BY StoreClear, Stored24Frame
<1>2. /\ \A k \in Vars : A \cap BitRange(ART + k * width, AddrBits) = {}
      /\ \A k \in Vars : A \cap BitRange(var_addr(m, k), AddrBits) = {}
  BY StoreClear
<1> HIDE DEF rp, m2, A
<1>3. ASSUME NEW k \in Vars PROVE var_addr(m2, k) = var_addr(m, k)
  <2>1. ART + k * width \in Int
    BY FieldTypes DEF Vars
  <2> QED
    BY <1>1, <1>2, <2>1, UIntFrame DEF var_addr
<1>4. ASSUME NEW k \in Vars PROVE pointer(m2, k) = pointer(m, k)
  <2>1. var_addr(m, k) \in Int
    BY ReadTypes
  <2>2. UInt(m2, var_addr(m, k)) = UInt(m, var_addr(m, k))
    BY <1>1, <1>2, <2>1, UIntFrame
  <2> QED
    BY <1>3, <2>2 DEF pointer
<1> QED
  BY <1>3, <1>4 DEF m2, rp

-----------------------------------------------------------------------------
(* The inductive invariant: while rc says 0, what was checked is still so,   *)
(* or a store has reached a cell.                                            *)

Unchanged == strict_align32(space) /\ \A k \in Vars : var_addr(space, k) = cells[k]

Standing == rc = "0" => live /\ (Reached \/ Unchanged)

LEMMA InitInv == Init => Standing
BY DEF Init, Standing

LEMMA CheckInv == vm_invariants_strict_align32_check => Standing'
<1> SUFFICES ASSUME vm_invariants_strict_align32_check, rc' = "0" PROVE Standing'
  BY DEF Standing
<1>1. /\ UNCHANGED <<live, space, tick_counter>> /\ strict_align32(space)
      /\ cells' = [k \in Vars |-> var_addr(space, k)]
  BY DEF vm_invariants_strict_align32_check
<1>2. live'
  BY <1>1, StrictMeans
<1>3. strict_align32(space)' /\ \A k \in Vars : var_addr(space, k)' = var_addr(space, k)
  BY <1>1 DEF strict_align32, check_var_ptr, check_rp_protected, InCell, var_addr, pointer,
     space_bits, width, workspace_base, need_end, ART
<1>4. Unchanged'
  BY <1>1, <1>3 DEF Unchanged
<1> QED
  BY <1>2, <1>4 DEF Standing

LEMMA Store24Step ==
  ASSUME Standing, Store24
  PROVE  /\ live /\ rc = "0" /\ (Reached \/ Unchanged)
         /\ UNCHANGED <<live, rc, cells>>
         /\ pointer(space, RP) # 0
         /\ stored' = stored \cup BitRange(pointer(space, RP), need_bits)
         /\ \E d \in SUBSET (0..23) : space' = Stored24(space, pointer(space, RP), d)
BY InvariantsAssumption DEF Store24, Tick, Stored24, Standing

LEMMA StoreInv == Standing /\ Store24 => Standing'
<1> SUFFICES ASSUME Standing, Store24, ~Reached' PROVE Standing'
  BY Store24Step DEF Standing
<1> DEFINE A == BitRange(pointer(space, RP), need_bits)
<1>1. stored' = stored \cup A /\ cells' = cells /\ live' = live /\ live /\ pointer(space, RP) # 0
  BY Store24Step
<1> HIDE DEF A
<1>2. \A k \in Vars : Sheltered(cells[k]) \/ BitRange(cells[k], AddrBits) \cap A = {}
  BY <1>1, Zenon DEF Reached
<1>3. ~Reached
  BY <1>1, Zenon DEF Reached
<1>4. Unchanged
  BY <1>3, Store24Step
<1>5. \A k \in Vars : A \cap BitRange(var_addr(space, k), AddrBits) = {}
  <2>1. \A k \in Vars : Sheltered(var_addr(space, k)) =>
          A \cap BitRange(var_addr(space, k), AddrBits) = {}
    BY <1>1, <1>4, StoreClear DEF A, Unchanged
  <2>2. \A k \in Vars : var_addr(space, k) = cells[k]
    BY <1>4 DEF Unchanged
  <2> QED
    BY <1>2, <2>1, <2>2
<1>6. PICK d \in SUBSET (0..23) : space' = Stored24(space, pointer(space, RP), d)
  BY Store24Step
<1>7. \A k \in Vars : var_addr(space', k) = var_addr(space, k) /\ pointer(space', k) = pointer(space, k)
  BY <1>1, <1>4, <1>5, <1>6, StoreKeepsReads DEF A, Unchanged
<1>8. /\ \A k \in Vars : var_addr(space, k)' = var_addr(space, k)
      /\ \A k \in Vars : pointer(space, k)' = pointer(space, k)
      /\ space_bits' = space_bits /\ width' = width /\ workspace_base' = workspace_base
      /\ need_end' = need_end
  BY <1>1, <1>7 DEF var_addr, pointer, space_bits, width, workspace_base, need_end, ART
<1>9. RP \in Vars
  BY DEF RP, Vars
<1>10. strict_align32(space)'
  BY <1>4, <1>8, <1>9 DEF Unchanged, strict_align32, check_var_ptr, check_rp_protected, InCell
<1>11. Unchanged'
  BY <1>1, <1>4, <1>8, <1>10 DEF Unchanged
<1> QED
  BY <1>1, <1>11 DEF Standing

LEMMA NextInv == Standing /\ [Next]_vars => Standing'
<1> SUFFICES ASSUME Standing, [Next]_vars PROVE Standing'
  OBVIOUS
<1>1. CASE UNCHANGED vars
  BY <1>1 DEF vars, history, Standing, Reached, Unchanged, strict_align32, check_var_ptr,
     check_rp_protected, InCell, var_addr, pointer, space_bits, width, workspace_base,
     need_end, ART
<1>2. CASE VmFree \/ MovePointer
  BY <1>2 DEF VmFree, MovePointer, Standing
<1> QED
  BY <1>1, <1>2, CheckInv, StoreInv DEF Next

LEMMA Invariance == Spec => []Standing
BY InitInv, NextInv, PTL DEF Spec

-----------------------------------------------------------------------------
(* However many stores follow a passing check, and wherever the cells are:   *)
(* every access through the pointers stays in the workspace and every store  *)
(* past the table, until a store reaches a cell that begins in the middle of *)
(* a store's word.                                                           *)
THEOREM AccessesInWorkspaceCorrect == Spec => []AccessesInWorkspace
<1>1. Standing => AccessesInWorkspace
  <2> SUFFICES ASSUME Standing, rc = "0", ~Reached PROVE AccessesInWorkspace
    BY DEF Standing, AccessesInWorkspace
  <2>1. live /\ strict_align32(space)
    BY DEF Standing, Unchanged
  <2>2. ASSUME NEW k \in Vars, pointer(space, k) # 0
        PROVE  BitRange(pointer(space, k), need_bits) \subseteq workspace_base..(SpaceBits - 1)
    <3>1. /\ workspace_base <= pointer(space, k)
          /\ pointer(space, k) + need_bits <= SpaceBits
      BY <2>1, <2>2, StrictMeans, LiveFields
    <3> QED
      BY <3>1, ReadTypes, FieldTypes, Sizes DEF BitRange, need_bits
  <2>3. ASSUME pointer(space, RP) # 0
        PROVE  BitRange(pointer(space, RP), need_bits) \cap 0..(need_end - 1) = {}
    <3>1. need_end <= pointer(space, RP)
      BY <2>1, <2>3, StrictMeans
    <3> QED
      BY <3>1, ReadTypes, FieldTypes DEF BitRange, need_bits
  <2> QED
    BY <2>1, <2>2, <2>3 DEF AccessesInWorkspace
<1> QED
  BY <1>1, Invariance, PTL

(* No store the check stands for changes code, registers or table, nor a     *)
(* cell, other than one in such a place, and until that has happened.        *)
THEOREM StoreKeepsPointersCorrect == Spec => StoreKeepsPointers
<1> DEFINE Kept ==
      Store24 /\ ~Reached =>
        /\ \A b \in 0..(need_end - 1) : b \in space' <=> b \in space
        /\ \A k \in Vars : Sheltered(cells[k]) =>
             \A b \in BitRange(cells[k], AddrBits) : b \in space' <=> b \in space
<1>1. Standing /\ [Next]_vars => [Kept]_vars
  <2> SUFFICES ASSUME Standing, Store24, ~Reached PROVE Kept
    OBVIOUS
  <2> DEFINE A == BitRange(pointer(space, RP), need_bits)
  <2>1. PICK d \in SUBSET (0..23) : space' = Stored24(space, pointer(space, RP), d)
    BY Store24Step
  <2>2. Unchanged /\ pointer(space, RP) # 0
    BY Store24Step
  <2>3. /\ pointer(space, RP) \in Nat
        /\ \A b \in 0..(need_end - 1) : b \notin A
        /\ \A k \in Vars : Sheltered(var_addr(space, k)) =>
             A \cap BitRange(var_addr(space, k), AddrBits) = {}
    BY <2>2, StoreClear DEF Unchanged
  <2>4. Agree(space, space', A)
    BY <2>1, <2>3, Stored24Frame
  <2>5. \A k \in Vars : var_addr(space, k) = cells[k]
    BY <2>2 DEF Unchanged
  <2> HIDE DEF A
  <2> QED
    BY <2>3, <2>4, <2>5, Zenon DEF Agree
<1>2. Spec => [][Kept]_vars
  BY <1>1, Invariance, PTL DEF Spec
<1> QED
  BY <1>2 DEF StoreKeepsPointers

LEMMA RefusalHasReason ==
  ASSUME live, ~strict_align32(space)
  PROVE  \/ need_end > SpaceBits
         \/ \E k \in Vars : \/ ~(BitRange(var_addr(space, k), AddrBits) \subseteq Bits)
                            \/ pointer(space, k) \notin Words \cup {0}
         \/ pointer(space, RP) \in Forbidden
<1>1. CASE ~(need_end <= space_bits)
  BY <1>1, FieldTypes, LiveFields
<1>2. ASSUME NEW k \in Vars, ~(var_addr(space, k) + width <= space_bits)
      PROVE  ~(BitRange(var_addr(space, k), AddrBits) \subseteq Bits)
  <2>1. var_addr(space, k) + AddrBits - 1 \in BitRange(var_addr(space, k), AddrBits)
    BY ReadTypes, AddrBitsPositive DEF BitRange
  <2>2. ~(var_addr(space, k) + AddrBits - 1 \in Bits)
    BY <1>2, LiveFields, ReadTypes, Sizes DEF Bits
  <2> QED
    BY <2>1, <2>2
<1>3. ASSUME NEW k \in Vars, ~check_var_ptr(pointer(space, k))
      PROVE  pointer(space, k) \notin Words \cup {0}
  BY <1>3, LiveFields, FieldTypes, ReadTypes DEF check_var_ptr, Words, need_bits
<1>4. ASSUME ~check_rp_protected(space, pointer(space, RP))
      PROVE  pointer(space, RP) \in Forbidden
  <2>1. CASE workspace_base <= pointer(space, RP) /\ pointer(space, RP) < need_end
    BY <2>1, ReadTypes, FieldTypes DEF Forbidden
  <2>2. ASSUME NEW k \in Vars, InCell(pointer(space, RP), var_addr(space, k))
        PROVE  pointer(space, RP) \in BitRange(var_addr(space, k), AddrBits)
    BY <2>2, ReadTypes, LiveFields, Sizes DEF InCell, BitRange
  <2> QED
    BY <1>4, <2>1, <2>2 DEF check_rp_protected, Forbidden
<1> QED
  BY <1>1, <1>2, <1>3, <1>4 DEF strict_align32

(* A refusal always has one of the reasons named.                            *)
THEOREM NoFalseAlarmCorrect == Spec => []NoFalseAlarm
<1>1. Init => NoFalseAlarm
  BY DEF Init, NoFalseAlarm
<1>2. NoFalseAlarm /\ [Next]_vars => NoFalseAlarm'
  <2> SUFFICES ASSUME NoFalseAlarm, [Next]_vars, rc' = "-1", live' PROVE NoFalseAlarm'
    BY DEF NoFalseAlarm
  <2>1. CASE rc = "-1" /\ UNCHANGED <<live, space, rc>>
    BY <2>1 DEF NoFalseAlarm, var_addr, pointer, need_end, ART, width, workspace_base,
       Words, Forbidden
  <2>2. CASE vm_invariants_strict_align32_check
    <3>1. UNCHANGED <<live, space>> /\ ~strict_align32(space) /\ live
      BY <2>2 DEF vm_invariants_strict_align32_check
    <3>2. \/ need_end > SpaceBits
          \/ \E k \in Vars : \/ ~(BitRange(var_addr(space, k), AddrBits) \subseteq Bits)
                             \/ pointer(space, k) \notin Words \cup {0}
          \/ pointer(space, RP) \in Forbidden
      BY <3>1, RefusalHasReason
    <3> QED
      BY <3>1, <3>2 DEF NoFalseAlarm, var_addr, pointer, need_end, ART, width,
         workspace_base, Words, Forbidden
  <2> QED
    BY <2>1, <2>2 DEF Next, VmFree, MovePointer, Store24, vars
<1> QED
  BY <1>1, <1>2, PTL DEF Spec
=============================================================================
