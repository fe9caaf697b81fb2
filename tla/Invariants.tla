----------------------------- MODULE Invariants -----------------------------
(***************************************************************************)
(* invariants.c: vm_invariants_strict_align32_check, which a host may call  *)
(* between ticks of a std7_fixed program.  The program keeps three pointers *)
(* in cells whose addresses a table (ART) in its workspace holds, and moves *)
(* 24 bits at a time through them.                                         *)
(***************************************************************************)
EXTENDS CopySpace

CONSTANTS
  Programs,   \* the memories of a program when a host first looks at it
  Pointers,   \* values it may give its pointers later
  Data,       \* what it stores: sets of offsets in 0..23
  MaxTicks    \* bound on the ticks of one machine

ASSUME InvariantsAssumption ==
  /\ \A m \in Programs : m \subseteq Bits
  /\ Pointers \subseteq Nat
  /\ \A d \in Data : d \subseteq 0..23
  /\ MaxTicks \in Nat

VARIABLES
  live,          \* FALSE once vm_free has zeroed the machine
  space,
  tick_counter,
  last_err,
  rc,            \* result of the last check; "none" if a pointer moved since
  cells,         \* history: the addresses of the cells at the last check
  stored         \* history: the bits stores have been made to since

history == <<cells, stored>>
vars == <<live, space, tick_counter, last_err, rc, history>>

(* Entries 58, 59 and 60 of ART hold the addresses of VAR_AP, VAR_BP, VAR_RP. *)
Vars == 58..60
RP == 60

NoErr(t) == [kind |-> "VM_E_NONE", tick |-> t, slot |-> 0, ins |-> Nop]

Init ==
  /\ live = TRUE /\ space \in Programs
  /\ tick_counter = 0 /\ last_err = NoErr(0) /\ rc = "none"
  /\ cells = [k \in Vars |-> 0] /\ stored = {}

-----------------------------------------------------------------------------
(* The fields of vm_t the check reads; vm_free zeroes them. *)

space_bits == IF live THEN SpaceBits ELSE 0
workspace_base == IF live THEN MmioEnd ELSE 0
width == IF live THEN AddrBits ELSE 0

align8_bits(x) == 8 * ((x + 7) \div 8)

ART == align8_bits(workspace_base + 512)
need_end == ART + 61 * width

var_addr(m, k) == UInt(m, ART + k * width)
pointer(m, k) == UInt(m, var_addr(m, k))

(* LOAD24 and STORE24 access 24 bits. *)
need_bits == 24

(* Mutants: a whole word has to fit; the workspace is not asked for. *)
check_var_ptrWhole(v) ==
  v = 0 \/ /\ v < space_bits /\ v + 32 <= space_bits
           /\ v % 32 = 0 /\ v >= workspace_base
check_var_ptrMutant(v) ==
  v = 0 \/ (v < space_bits /\ v + need_bits <= space_bits /\ v % 32 = 0)

(* A null pointer passes: the program has not set it yet. *)
check_var_ptr(v) ==
  v = 0 \/ /\ v < space_bits /\ v + need_bits <= space_bits
           /\ v % 32 = 0
           /\ v >= workspace_base

InCell(rp, addr) == addr <= rp /\ rp < addr + width

(* Mutant: the cells are left out. *)
check_rp_protectedMutant(m, rp) ==
  rp = 0 \/ ~(workspace_base <= rp /\ rp < need_end)

check_rp_protected(m, rp) ==
  rp = 0 \/ /\ ~(workspace_base <= rp /\ rp < need_end)
            /\ \A k \in Vars : ~InCell(rp, var_addr(m, k))

(* Where the check returns 0.  Each conjunct reads only what the ones before *)
(* it have found inside the space.                                           *)
strict_align32(m) ==
  /\ need_end <= space_bits
  /\ \A k \in Vars : var_addr(m, k) + width <= space_bits
  /\ \A k \in Vars : check_var_ptr(pointer(m, k))
  /\ check_rp_protected(m, pointer(m, RP))

(* invariant_fail *)
Align32Err == [kind |-> "VM_E_ALIGN32", tick |-> tick_counter, slot |-> 0, ins |-> Nop]

vm_invariants_strict_align32_check ==
  /\ IF strict_align32(space) THEN rc' = "0" /\ last_err' = last_err
                              ELSE rc' = "-1" /\ last_err' = Align32Err
  /\ cells' = [k \in Vars |-> var_addr(space, k)] /\ stored' = {}
  /\ UNCHANGED <<live, space, tick_counter>>

VmFree ==
  /\ live /\ live' = FALSE
  /\ space' = {} /\ tick_counter' = 0 /\ last_err' = NoErr(0) /\ rc' = "none"
  /\ UNCHANGED history

-----------------------------------------------------------------------------
(* The program's ticks.  A copy out of the space ends in VM_ERR and moves    *)
(* nothing; both kinds below are copies inside it.                           *)

Tick ==
  /\ live /\ tick_counter < MaxTicks
  /\ tick_counter' = tick_counter + 1 /\ last_err' = NoErr(tick_counter)
  /\ UNCHANGED live

(* It moves a pointer: whoever runs it must ask again. *)
MovePointer ==
  /\ Tick
  /\ \E k \in Vars, v \in Pointers :
       /\ var_addr(space, k) + width <= space_bits
       /\ space' = WriteUint(space, var_addr(space, k), v)
  /\ rc' = "none" /\ UNCHANGED history

(* STORE24 through RP, as often as it likes while the check has passed.      *)
Store24 ==
  /\ Tick /\ rc = "0"
  /\ LET rp == pointer(space, RP)
     IN  /\ rp # 0 /\ rp + need_bits <= space_bits
         /\ \E d \in Data :
              space' = (space \ BitRange(rp, need_bits)) \cup {rp + q : q \in d}
         /\ stored' = stored \cup BitRange(rp, need_bits)
  /\ UNCHANGED <<rc, cells>>

Next == vm_invariants_strict_align32_check \/ VmFree \/ MovePointer \/ Store24

Spec == Init /\ [][Next]_vars

-----------------------------------------------------------------------------
(* The check looks at where RP points, not at the 24 bits from there on.     *)
(* That is enough for a cell unless it begins inside the first 24 bits of an *)
(* aligned word after its first: with RP at the word, 1984, a store reaches  *)
(* into a cell at 2000.                                                      *)
Sheltered(addr) == addr % 32 = 0 \/ addr % 32 >= need_bits

(* A store has reached such a cell. *)
Reached ==
  \E k \in Vars : ~Sheltered(cells[k]) /\ BitRange(cells[k], AddrBits) \cap stored # {}

(* While the check stands, however many stores through RP it has let pass,   *)
(* the machine is live, the 24 bits behind every pointer that is set lie in  *)
(* its workspace, and those behind RP past ART: the stores cannot undo what  *)
(* was checked, with one exception and no other, a store that has reached a  *)
(* cell in such a place.                                                     *)
AccessesInWorkspace ==
  rc = "0" =>
    /\ live
    /\ \/ Reached
       \/ /\ \A k \in Vars : pointer(space, k) # 0 =>
               BitRange(pointer(space, k), need_bits) \subseteq workspace_base..(SpaceBits - 1)
          /\ pointer(space, RP) # 0 =>
               BitRange(pointer(space, RP), need_bits) \cap 0..(need_end - 1) = {}

(* As long as none has, a store the check stands for changes neither         *)
(* processor, registers nor table, nor any cell in another place: the store  *)
(* that first undoes the check does so by writing such a cell.               *)
StoreKeepsPointers ==
  [][Store24 /\ ~Reached =>
       /\ \A b \in 0..(need_end - 1) : b \in space' <=> b \in space
       /\ \A k \in Vars : Sheltered(cells[k]) =>
            \A b \in BitRange(cells[k], AddrBits) : b \in space' <=> b \in space]_vars

(* "Also protect the VAR_* cells themselves (writes here corrupt pointers)"  *)
(* (invariants.c:98): while the check stands, no store goes into a cell.     *)
CellsProtected ==
  rc = "0" => \A k \in Vars : BitRange(cells[k], AddrBits) \cap stored = {}

(* A refusal has a reason: the table or a cell is not in the space, a set    *)
(* pointer's 24 bits are not the beginning of an aligned word of the         *)
(* workspace, or RP begins in the table's region or in a cell.               *)
Words == {w \in workspace_base..(SpaceBits - need_bits) : w % 32 = 0}
Forbidden == workspace_base..(need_end - 1) \cup
               UNION {BitRange(var_addr(space, k), AddrBits) : k \in Vars}
NoFalseAlarm ==
  rc = "-1" /\ live =>
    \/ need_end > SpaceBits
    \/ \E k \in Vars : \/ ~(BitRange(var_addr(space, k), AddrBits) \subseteq Bits)
                       \/ pointer(space, k) \notin Words \cup {0}
    \/ pointer(space, RP) \in Forbidden
=============================================================================
