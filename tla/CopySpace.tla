----------------------------- MODULE CopySpace -----------------------------
(***************************************************************************)
(* The VM's memory map (space.h, vm_init, vm_compute_mmio_layout) and its   *)
(* encoding of numbers and instructions as bits of the space.              *)
(***************************************************************************)
EXTENDS BitOps

CONSTANTS
  SpaceBytes,   \* size of the space
  ProcessorN,   \* instruction slots
  AddrBits      \* width of an address, and of the field n

SpaceBits == 8 * SpaceBytes
Bits == 0 .. (SpaceBits - 1)

DerivedWidth ==
  LET w == round_up_to_8(ceil_log2(SpaceBits)) IN IF w < 8 THEN 8 ELSE w

-----------------------------------------------------------------------------
(* The processor: ProcessorN slots of three fields each, from bit 0. *)

InstrBits == 3 * AddrBits
ProcessorBits == ProcessorN * InstrBits
SlotIp(i) == i * InstrBits
OffDst == AddrBits
OffSrc == 2 * AddrBits

(* The handshake registers, one after the other from the processor's end. *)
InReq  == ProcessorBits
InDone == InReq + 1
InEof  == InReq + 2
InErr  == InReq + 3
InDst  == InReq + 4
InLen  == InDst + AddrBits
InGot  == InLen + AddrBits
OutReq  == InGot + AddrBits
OutDone == OutReq + 1
OutErr  == OutReq + 2
OutSrc  == OutReq + 3
OutLen  == OutSrc + AddrBits
OutGot  == OutLen + AddrBits
Halt    == OutGot + AddrBits
MmioEnd == round_up_to_8(Halt + 1)

(* Registers a service writes. *)
Status ==
  {InReq, InDone, InEof, InErr, OutReq, OutDone, OutErr}
    \cup BitRange(InGot, AddrBits) \cup BitRange(OutGot, AddrBits)

(* What vm_init accepts: sizes whose derived layout fits in the space. *)
ASSUME LayoutAssumption ==
  /\ SpaceBytes \in Nat \ {0}
  /\ ProcessorN \in Nat \ {0}
  /\ AddrBits \in Nat
  /\ AddrBits = DerivedWidth
  /\ MmioEnd <= SpaceBits

-----------------------------------------------------------------------------
(* Every number of the VM is one of AddrBits bits. *)

UInt(m, pos) == Number(m, pos, AddrBits)

WriteUint(m, pos, v) == (m \ BitRange(pos, AddrBits)) \cup Digits(v, pos, AddrBits)

vm_bit_set(m, pos, v) == IF v = 0 THEN m \ {pos} ELSE m \cup {pos}

Inst == [n : Nat, dst : Nat, src : Nat]
Copy(n, dst, src) == [n |-> n, dst |-> dst, src |-> src]
Nop == Copy(0, 0, 0)

vm_read_inst(m, ip) ==
  Copy(UInt(m, ip), UInt(m, ip + OffDst), UInt(m, ip + OffSrc))

vm_write_inst(m, ip, ins) ==
  WriteUint(WriteUint(WriteUint(m, ip, ins.n), ip + OffDst, ins.dst),
            ip + OffSrc, ins.src)

-----------------------------------------------------------------------------
(* vm_build_boot_loader_layer ("loader 3B"): slot 0 carries the pointer in   *)
(* its dst field, slot ProcessorN-2 patches it into the src field of slot    *)
(* ProcessorN-1, which copies a whole processor.  For ProcessorN = 1 the     *)
(* patch slot is number 2^32 - 1, and the write goes out of the buffer.      *)

BootSupported == ProcessorN >= 2

(* Mutant: patches the dst field of the load slot. *)
BootLayerMutant(m, ptr) ==
  LET cleared == m \ BitRange(0, ProcessorBits)
      meta    == vm_write_inst(cleared, SlotIp(0), Copy(0, ptr, 0))
      patch   == Copy(AddrBits, SlotIp(ProcessorN - 1) + OffDst, OffDst)
      load    == Copy(ProcessorBits, 0, 0)
      patched == vm_write_inst(meta, SlotIp(ProcessorN - 2), patch)
  IN  vm_write_inst(patched, SlotIp(ProcessorN - 1), load)

BootLayer(m, ptr) ==
  LET cleared == m \ BitRange(0, ProcessorBits)
      meta    == vm_write_inst(cleared, SlotIp(0), Copy(0, ptr, 0))
      patch   == Copy(AddrBits, SlotIp(ProcessorN - 1) + OffSrc, OffDst)
      load    == Copy(ProcessorBits, 0, 0)
      patched == vm_write_inst(meta, SlotIp(ProcessorN - 2), patch)
  IN  vm_write_inst(patched, SlotIp(ProcessorN - 1), load)
=============================================================================
