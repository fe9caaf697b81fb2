--------------------------------- MODULE VM ---------------------------------
(***************************************************************************)
(* The virtual machine of space.c: vm_init, vm_free, the boot-layer builder,*)
(* vm_run and vm_tick.  A tick is one OUT service, one IN service, the HALT *)
(* test, then every slot in turn, each fetched when its turn comes.  The    *)
(* host program (a C caller of the API) acts only between calls.           *)
(***************************************************************************)
EXTENDS CopySpace, Sequences

CONSTANTS
  Programs,     \* the memories a host may load before running
  BootPointers, \* arguments of vm_build_boot_loader_layer
  Patches,      \* writes between two runs: records [slot, ins], or bits to set
  Inputs,       \* contents of the FILE in: sequences of bytes
  ShortCounts,  \* counts at which a failing fread or fwrite may stop
  OverReads,    \* what lies past the space, where bitcpy may load from
  Lives,        \* arguments of vm_run
  MaxTicks      \* bound on the ticks of one machine

ASSUME VMAssumption ==
  /\ \A m \in Programs : m \subseteq Bits
  /\ BootPointers \subseteq Nat
  /\ \A f \in Inputs : f \in Seq(SUBSET (0..7))
  /\ Patches \subseteq [slot : 0..(ProcessorN - 1), ins : Inst] \cup [bit : Bits, to : {0, 1}]
  /\ ShortCounts \subseteq Nat
  /\ \A past \in OverReads : past \cap Bits = {}
  /\ Lives \subseteq Nat /\ MaxTicks \in Nat

VARIABLES
  vm,           \* "none" before vm_init, "live", "freed"; "overrun" below
  space,        \* the bits of vm->space that are 1
  tick_counter,
  last_err,
  rest,         \* bytes of in not yet read
  eof, err,     \* feof(in), ferror(in)
  printed,      \* bytes fwrite has taken for out
  pc,           \* where the call of vm_run is; "host" when there is none
  slot,         \* the slot whose turn it is
  life,         \* turns left to vm_run
  rc,           \* result of the last vm_run, "none" before one
  start,        \* history: the space when this tick began or a host last wrote it
  dma,          \* history: the bits this tick's fread stored
  notes,        \* what the note_copy hook was told during this tick
  written       \* history: a host wrote the space after the last tick

machine == <<vm, tick_counter, last_err>>
files == <<rest, eof, err, printed>>
call == <<slot, life, rc>>
history == <<start, dma, notes, written>>
vars == <<machine, space, files, pc, call, history>>

NoErr(t) == [kind |-> "VM_E_NONE", tick |-> t, slot |-> 0, ins |-> Nop]

Init ==
  /\ vm = "none" /\ space = {} /\ tick_counter = 0 /\ last_err = NoErr(0)
  /\ rest \in Inputs /\ eof = FALSE /\ err = FALSE /\ printed = <<>>
  /\ pc = "host" /\ slot = 0 /\ life = 0 /\ rc = "none"
  /\ start = {} /\ dma = {} /\ notes = {} /\ written = FALSE

-----------------------------------------------------------------------------
(* The host. *)

FreshHistory == start' = space' /\ dma' = {} /\ notes' = {}

(* vm_init zeroes everything; calloc may fail.  One machine per host. *)
VmInit ==
  /\ pc = "host" /\ vm = "none"
  /\ vm' \in {"none", "live"}
  /\ space' = {} /\ tick_counter' = 0 /\ last_err' = NoErr(0) /\ rc' = "none"
  /\ FreshHistory /\ written' = FALSE
  /\ UNCHANGED <<files, pc, slot, life>>

VmFree ==
  /\ pc = "host" /\ vm = "live"
  /\ vm' = "freed"
  /\ space' = {} /\ tick_counter' = 0 /\ last_err' = NoErr(0) /\ rc' = "none"
  /\ FreshHistory /\ written' = FALSE
  /\ UNCHANGED <<files, pc, slot, life>>

(* The host writes a program and its data with vm_write_inst, vm_bit_set... *)
(* into the zeroed space.                                                   *)
Load ==
  /\ pc = "host" /\ vm = "live" /\ rc = "none" /\ space = {}
  /\ space' \in Programs
  /\ FreshHistory
  /\ UNCHANGED <<machine, files, pc, call, written>>

(* vm_build_boot_loader_layer; a pointer too wide is refused.  With a single *)
(* slot the number of the patch slot wraps to 2^32 - 1 (space.c:366) and the *)
(* patch is written far out of the buffer: whatever the build then does, the *)
(* machine has "overrun" and nothing more is said of it.                     *)
BuildBootLayer ==
  /\ pc = "host" /\ vm = "live" /\ rc = "none"
  /\ \E ptr \in BootPointers :
       LET fits == ptr < pow2[AddrBits]
       IN  /\ space' = IF fits /\ BootSupported THEN BootLayer(space, ptr) ELSE space
           /\ vm' = IF fits /\ ~BootSupported THEN "overrun" ELSE vm
  /\ FreshHistory
  /\ UNCHANGED <<tick_counter, last_err, files, pc, call, written>>

(* Between two runs the host may write again: vm_write_inst, vm_bit_set. *)
HostWrite ==
  /\ pc = "host" /\ vm = "live" /\ rc # "none"
  /\ \E p \in Patches :
       space' = IF "ins" \in DOMAIN p THEN vm_write_inst(space, SlotIp(p.slot), p.ins)
                                     ELSE vm_bit_set(space, p.bit, p.to)
  /\ FreshHistory /\ written' = TRUE
  /\ UNCHANGED <<machine, files, pc, call>>

CallRun ==
  /\ pc = "host" /\ vm # "overrun"
  /\ \E k \in Lives : tick_counter + k <= MaxTicks /\ life' = k
  /\ pc' = "tick"
  /\ UNCHANGED <<machine, space, files, slot, rc, history>>

-----------------------------------------------------------------------------
(* vm_run: `while (life--)` around vm_tick. *)

RunOut ==
  /\ pc = "tick" /\ life = 0
  /\ rc' = "VM_OK" /\ pc' = "host"
  /\ UNCHANGED <<machine, space, files, slot, life, history>>

(* vm_tick on a freed VM reports nothing but its return code. *)
NoSpace ==
  /\ pc = "tick" /\ life > 0 /\ vm # "live"
  /\ rc' = "VM_ERR" /\ pc' = "host" /\ life' = life - 1
  /\ UNCHANGED <<machine, space, files, slot, history>>

TickBegin ==
  /\ pc = "tick" /\ life > 0 /\ vm = "live"
  /\ life' = life - 1
  /\ last_err' = NoErr(tick_counter)
  /\ pc' = "out"
  /\ UNCHANGED <<vm, tick_counter, space, files, slot, rc>>
  /\ FreshHistory /\ written' = FALSE

-----------------------------------------------------------------------------
(* service_out *)

OutCleared == space \ ({OutDone, OutErr} \cup BitRange(OutGot, AddrBits))

(* Mutant: OUT_REQ is left set. *)
OutAnsweredMutant(m, got, failed) ==
  WriteUint(m, OutGot, got) \cup {OutDone} \cup (IF failed THEN {OutErr} ELSE {})

OutAnswered(m, got, failed) ==
  (WriteUint(m, OutGot, got) \cup {OutDone} \cup (IF failed THEN {OutErr} ELSE {}))
    \ {OutReq}

(* Mutant: the source is read from the wrong register. *)
out_srcMutant == UInt(space, InDst)

out_src == UInt(space, OutSrc)
out_len == UInt(space, OutLen)

(* Both services want whole bytes inside the space. *)
Refused(addr, len) == addr % 8 # 0 \/ len % 8 # 0 \/ addr + len > SpaceBits

OutIdle ==
  /\ pc = "out" /\ OutReq \notin space
  /\ pc' = "in"
  /\ UNCHANGED <<machine, space, files, call, history>>

OutRefuse ==
  /\ pc = "out" /\ OutReq \in space /\ Refused(out_src, out_len)
  /\ space' = OutAnswered(OutCleared, 0, TRUE)
  /\ pc' = "in"
  /\ UNCHANGED <<machine, files, call, history>>

(* fwrite takes the bytes as they are once the status is cleared. *)
OutWrite ==
  /\ pc = "out" /\ OutReq \in space /\ ~Refused(out_src, out_len)
  /\ LET nbytes == out_len \div 8
     IN  \E put \in {nbytes} \cup (ShortCounts \cap 0..nbytes) :
           /\ printed' = printed \o
                [k \in 1..put |-> Byte(OutCleared, out_src \div 8 + k - 1)]
           /\ space' = OutAnswered(OutCleared, 8 * put, put # nbytes)
  /\ pc' = "in"
  /\ UNCHANGED <<machine, rest, eof, err, call, history>>

-----------------------------------------------------------------------------
(* service_in *)

(* Mutant: EOF of an earlier read is not cleared. *)
InClearedMutant == space \ ({InDone, InErr} \cup BitRange(InGot, AddrBits))

InCleared == space \ ({InDone, InEof, InErr} \cup BitRange(InGot, AddrBits))

InAnswered(m, got, atEof, failed) ==
  (WriteUint(m \cup (IF atEof THEN {InEof} ELSE {})
               \cup (IF failed THEN {InErr} ELSE {}), InGot, got)
     \cup {InDone}) \ {InReq}

in_dst == UInt(space, InDst)
in_len == UInt(space, InLen)

(* Bytes stored in memory from bit address dst on. *)
Stored(m, dst, bytes) ==
  (m \ BitRange(dst, 8 * Len(bytes))) \cup
    {b \in BitRange(dst, 8 * Len(bytes)) :
       (b - dst) % 8 \in bytes[(b - dst) \div 8 + 1]}

InIdle ==
  /\ pc = "in" /\ InReq \notin space
  /\ pc' = "halt"
  /\ UNCHANGED <<machine, space, files, call, history>>

InRefuse ==
  /\ pc = "in" /\ InReq \in space /\ Refused(in_dst, in_len)
  /\ space' = InAnswered(InCleared, 0, FALSE, TRUE)
  /\ pc' = "halt"
  /\ UNCHANGED <<machine, files, call, history>>

(* fread(nbytes): all of it, up to the end of the file, or until an error. *)
(* ferror is never cleared, so every later answer carries it.              *)
FreadOutcomes(nbytes) ==
  LET full == IF nbytes <= Len(rest) THEN nbytes ELSE Len(rest)
  IN  {[got |-> full, eof |-> eof \/ full < nbytes, err |-> err]} \cup
      {[got |-> g, eof |-> eof, err |-> TRUE] :
         g \in {k \in ShortCounts : k <= full /\ k < nbytes}}

InRead ==
  /\ pc = "in" /\ InReq \in space /\ ~Refused(in_dst, in_len)
  /\ LET nbytes == in_len \div 8
     IN  \E r \in IF nbytes = 0 THEN {[got |-> 0, eof |-> eof, err |-> err]}
                                ELSE FreadOutcomes(nbytes) :
           /\ space' = InAnswered(Stored(InCleared, in_dst, SubSeq(rest, 1, r.got)),
                                  8 * r.got,
                                  nbytes > 0 /\ r.got = 0 /\ r.eof,
                                  nbytes > 0 /\ r.err)
           /\ rest' = SubSeq(rest, r.got + 1, Len(rest))
           /\ eof' = r.eof /\ err' = r.err
           /\ dma' = BitRange(in_dst, 8 * r.got)
  /\ pc' = "halt"
  /\ UNCHANGED <<machine, printed, call, start, notes, written>>

-----------------------------------------------------------------------------
(* HALT test and slots *)

HaltStop ==
  /\ pc = "halt" /\ Halt \in space
  /\ tick_counter' = tick_counter + 1
  /\ rc' = "VM_HALT" /\ pc' = "host"
  /\ UNCHANGED <<vm, last_err, space, files, slot, life, history>>

HaltPass ==
  /\ pc = "halt" /\ Halt \notin space
  /\ pc' = "slot" /\ slot' = 0
  /\ UNCHANGED <<machine, space, files, life, rc, history>>

(* The instruction is decoded from the memory the earlier slots left. *)
Fetched == vm_read_inst(space, SlotIp(slot))

(* Mutant: `continue` without the increment. *)
SlotNopMutant ==
  /\ pc = "slot" /\ slot < ProcessorN
  /\ Fetched.n = 0
  /\ slot' = slot
  /\ UNCHANGED <<machine, space, files, pc, life, rc, history>>

SlotNop ==
  /\ pc = "slot" /\ slot < ProcessorN
  /\ Fetched.n = 0
  /\ slot' = slot + 1
  /\ UNCHANGED <<machine, space, files, pc, life, rc, history>>

(* Mutants: one bit too strict; the start of the range only. *)
SrcOutMutant(ins) == ins.src + ins.n >= SpaceBits
DstOutMutant(ins) == ins.dst >= SpaceBits

SrcOut(ins) == ins.src + ins.n > SpaceBits
DstOut(ins) == ins.dst + ins.n > SpaceBits

(* The first error ends vm_tick and vm_run; what earlier slots did stays.  *)
SlotBounds ==
  /\ pc = "slot" /\ slot < ProcessorN
  /\ Fetched.n # 0 /\ (SrcOut(Fetched) \/ DstOut(Fetched))
  /\ last_err' = [kind |-> IF SrcOut(Fetched) THEN "VM_E_SRC_BOUNDS"
                                              ELSE "VM_E_DST_BOUNDS",
                  tick |-> tick_counter, slot |-> slot, ins |-> Fetched]
  /\ rc' = "VM_ERR" /\ pc' = "host"
  /\ UNCHANGED <<vm, tick_counter, space, files, slot, life, history>>

(* Mutant: bitcpy is called with dst and src swapped. *)
SlotCopyMutant ==
  /\ pc = "slot" /\ slot < ProcessorN
  /\ Fetched.n # 0 /\ ~SrcOut(Fetched) /\ ~DstOut(Fetched)
  /\ notes' = notes \cup {Fetched}
  /\ space' = bitcpy(space, Fetched.n, Fetched.dst, Fetched.src)
  /\ slot' = slot + 1
  /\ UNCHANGED <<machine, files, pc, life, rc, start, dma, written>>

SlotCopy ==
  /\ pc = "slot" /\ slot < ProcessorN
  /\ Fetched.n # 0 /\ ~SrcOut(Fetched) /\ ~DstOut(Fetched)
  /\ notes' = notes \cup {Fetched}
  /\ \E past \in OverReads :
       space' = bitcpy(space \cup past, Fetched.n, Fetched.src, Fetched.dst) \ past
  /\ slot' = slot + 1
  /\ UNCHANGED <<machine, files, pc, life, rc, start, dma, written>>

TickEnd ==
  /\ pc = "slot" /\ slot = ProcessorN
  /\ tick_counter' = tick_counter + 1
  /\ pc' = "tick"
  /\ UNCHANGED <<vm, last_err, space, files, call, history>>

-----------------------------------------------------------------------------
VmStep ==
  \/ RunOut \/ NoSpace \/ TickBegin
  \/ OutIdle \/ OutRefuse \/ OutWrite
  \/ InIdle \/ InRefuse \/ InRead
  \/ HaltStop \/ HaltPass
  \/ SlotNop \/ SlotBounds \/ SlotCopy \/ TickEnd

HostStep == VmInit \/ VmFree \/ Load \/ BuildBootLayer \/ HostWrite \/ CallRun

Next == VmStep \/ HostStep

(* vm_run is sequential code that waits for nothing; the host owes nothing. *)
Spec == Init /\ [][Next]_vars /\ WF_vars(VmStep)

-----------------------------------------------------------------------------
InTick == pc \in {"out", "in", "halt", "slot"}

(* Every variable keeps its type.  space \subseteq Bits is memory safety: no *)
(* service and no slot ever sets a bit outside the allocated space, and the  *)
(* loader builder writes out of it only where there is one slot.             *)
TypeOK ==
  /\ vm \in {"none", "live", "freed", "overrun"} /\ (vm = "overrun" => ProcessorN = 1)
  /\ space \subseteq Bits /\ tick_counter \in Nat
  /\ last_err \in [kind : {"VM_E_NONE", "VM_E_SRC_BOUNDS", "VM_E_DST_BOUNDS"},
                   tick : Nat, slot : Nat, ins : Inst]
  /\ rest \in Seq(SUBSET (0..7)) /\ printed \in Seq(SUBSET (0..7))
  /\ eof \in BOOLEAN /\ err \in BOOLEAN
  /\ pc \in {"host", "tick", "out", "in", "halt", "slot"}
  /\ slot \in 0..ProcessorN /\ life \in Nat
  /\ rc \in {"none", "VM_OK", "VM_HALT", "VM_ERR"}
  /\ start \subseteq Bits /\ dma \subseteq Bits /\ notes \subseteq Inst /\ written \in BOOLEAN
  /\ InTick => vm = "live"

(* What last_err says of a failed tick stays true until the next one, or     *)
(* until the host writes: the instruction is still in that slot, it is the   *)
(* bound named by kind that it breaks, and the tick named is the one that    *)
(* did not complete.  VM_ERR from a live machine always has such a report,   *)
(* VM_HALT never.                                                            *)
ErrorReport ==
  pc = "host" /\ vm = "live" =>
    /\ rc = "VM_ERR" => last_err.kind # "VM_E_NONE"
    /\ rc = "VM_HALT" => last_err.kind = "VM_E_NONE"
    /\ last_err.kind # "VM_E_NONE" /\ ~written =>
         LET i == last_err.ins
         IN  /\ last_err.tick = tick_counter
             /\ i = vm_read_inst(space, SlotIp(last_err.slot)) /\ i.n > 0
             /\ last_err.kind = "VM_E_SRC_BOUNDS" <=> i.src + i.n > SpaceBits
             /\ last_err.kind = "VM_E_DST_BOUNDS" => i.dst + i.n > SpaceBits

(* Every bit a tick has changed so far is a status register, was stored by   *)
(* its fread, or lies in a destination its note_copy hook was told of: the   *)
(* hooks see every copy, and a tick that fails keeps exactly those effects.  *)
Explained ==
  \A b \in space \cup start :
    \/ b \in space /\ b \in start
    \/ b \in Status \cup dma
    \/ \E i \in notes : b \in BitRange(i.dst, i.n)

(* "Print first, then stop" (space.c:273): when VM_HALT is returned both     *)
(* requests have been served, whatever the input brought in; only input      *)
(* stored over OUT_REQ itself leaves one.                                    *)
PrintThenHalt ==
  pc = "host" /\ rc = "VM_HALT" /\ ~written =>
    Halt \in space /\ InReq \notin space /\ (OutReq \in space => OutReq \in dma)

(* The answer of a service matches what the file did, even when the bytes    *)
(* read cover the registers: GOT counts the bytes moved, DONE is set and REQ *)
(* clear, OUT_ERR is set iff fewer bytes than asked went out.  Unless the    *)
(* input wrote them, EOF means this request, a good one, found the file at   *)
(* its end, and IN_ERR is set iff the request was refused or asks for bytes  *)
(* of a file that has failed, now or in an earlier request (space.c:204).    *)
AnswersTruthful ==
  [][/\ pc = "in" /\ InReq \in space =>
          /\ UInt(space', InGot) = 8 * (Len(rest) - Len(rest'))
          /\ InDone \in space' /\ InReq \notin space'
          /\ InEof \in space' /\ InEof \notin dma' =>
               eof' /\ rest = <<>> /\ in_len > 0 /\ ~Refused(in_dst, in_len)
          /\ InErr \notin dma' =>
               (InErr \in space' <=> Refused(in_dst, in_len) \/ (in_len > 0 /\ err'))
     /\ pc = "out" /\ OutReq \in space =>
          /\ UInt(space', OutGot) = 8 * (Len(printed') - Len(printed))
          /\ OutDone \in space' /\ OutReq \notin space'
          /\ OutErr \in space' <=> UInt(space', OutGot) # out_len \/ Refused(out_src, out_len)
    ]_vars

(* What is printed is what memory held when the tick began (status registers *)
(* aside): never a byte this tick's input or slots put there.                *)
OutputFromStart ==
  [][\A k \in Len(printed) + 1 .. Len(printed') :
       \A q \in 0..7 :
         LET b == UInt(start, OutSrc) + 8 * (k - Len(printed) - 1) + q
         IN  b \notin Status => (q \in printed'[k] <=> b \in start)]_vars

(* Every vm_run returns. *)
Returns == pc # "host" ~> pc = "host"

(* "After one tick, the boot layer loads the layer at next_layer_ptr into    *)
(* the processor" (space.h:204): a tick that begins with the boot layer for  *)
(* a byte-aligned pointer to a whole layer, in a processor of at least three *)
(* slots, and that reads no input over it, ends with that layer loaded: the  *)
(* patch of the load slot takes effect within the tick.                      *)
LoadsNextLayer(ptr) ==
  \A b \in 0 .. (ProcessorBits - 1) : b \in space <=> ptr + b \in start

StartsBoot(ptr) ==
  /\ ProcessorN >= 3 /\ ptr + ProcessorBits <= SpaceBits
  /\ ptr >= MmioEnd /\ dma = {}
  /\ start = BootLayer(start, ptr)

BootLoads ==
  pc = "slot" /\ slot = ProcessorN =>
    \A ptr \in BootPointers :
      StartsBoot(ptr) /\ ptr % 8 = 0 => LoadsNextLayer(ptr)

(* The same without the alignment the comment does not ask for. *)
BootLoadsAnywhere ==
  pc = "slot" /\ slot = ProcessorN =>
    \A ptr \in BootPointers : StartsBoot(ptr) => LoadsNextLayer(ptr)
=============================================================================
