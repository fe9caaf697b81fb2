-------------------------------- MODULE MCVM --------------------------------
(***************************************************************************)
(* The smallest real machine that does everything: 32 bytes, three slots,  *)
(* 8-bit addresses.  Its processor is bits 0..71, its registers 72..127    *)
(* (IN_REQ 72, OUT_REQ 100, HALT 127), its workspace 128..255.             *)
(***************************************************************************)
EXTENDS VM

Layer(s0, s1, s2) ==
  vm_write_inst(vm_write_inst(vm_write_inst({}, SlotIp(0), s0), SlotIp(1), s1), SlotIp(2), s2)

(* A processor and its registers. *)
Loaded(layer, in, out, halt) ==
  WriteUint(WriteUint(WriteUint(WriteUint(layer,
      InDst, in.addr), InLen, in.len), OutSrc, out.addr), OutLen, out.len)
    \cup (IF in.req THEN {InReq} ELSE {})
    \cup (IF out.req THEN {OutReq} ELSE {})
    \cup (IF halt THEN {Halt} ELSE {})

Image(s0, s1, in, out, halt) ==
  Loaded(Layer(s0, s1, Nop), in, out, halt) \cup {128, 130, 190, 199, 205, 230, 255}

Request(addr, len) == [req |-> TRUE, addr |-> addr, len |-> len]
NoRequest == [req |-> FALSE, addr |-> 128, len |-> 8]

(* Slot 0: idle, set HALT, set both requests again, patch slot 1's n from    *)
(* the workspace, an instruction one bit past each end of the space.         *)
MCSlot0 == {Nop, Copy(1, Halt, 128), Copy(1, InReq, 130), Copy(8, SlotIp(1), 184),
            Copy(6, 200, 251), Copy(6, 251, 200)}
(* Slot 1: the last bits of the space, a skewed 64-bit copy that loads past  *)
(* the end, a copy that sets OUT_REQ, an overlapping one.                    *)
MCSlot1 == {Copy(6, 130, 250), Copy(70, 133, 185), Copy(1, OutReq, 128),
            Copy(20, 134, 128)}

(* IN: into the workspace, over slot 0, over the IN registers and OUT_REQ,   *)
(* misaligned, past the end, empty.                                          *)
MCIn == {NoRequest, Request(136, 16), Request(0, 24), Request(72, 40),
         Request(129, 8), Request(248, 16), Request(136, 0)}
(* OUT: from the workspace, of the registers themselves, misaligned, past.   *)
MCOut == {NoRequest, Request(184, 16), Request(96, 32), Request(184, 4),
          Request(248, 16)}

(* Asks for input twice, the second time at an address it has made odd.     *)
MCSecondRefused ==
  Image(Copy(1, InLen - 1, 128), Copy(1, InReq, 130), Request(136, 16), NoRequest, FALSE)

(* Every pair of instructions with every input request; every pair of       *)
(* requests, with and without HALT, under two programs.                      *)
MCPrograms ==
  {Image(s0, s1, in, NoRequest, FALSE) : s0 \in MCSlot0, s1 \in MCSlot1, in \in MCIn}
  \cup {Image(s0, Copy(1, OutReq, 128), in, out, h) :
          s0 \in {Nop, Copy(1, InReq, 130)}, in \in MCIn, out \in MCOut,
          h \in BOOLEAN}
  \cup {MCSecondRefused}

(* An empty file and one whose bytes are, over slot 0, copy(6, 250, 200).    *)
MCInputs == {<<>>, <<{5, 6}, {0, 1, 2, 3, 4, 6}, {0, 1, 4}, 0..7, {}>>}
MCShortCounts == {0, 1}
MCOverReads == {{}, 256..511}
MCLives == {0, 2}
MCMaxTicks == 3

(* Between runs: a harmless instruction in slot 0, a request and HALT again. *)
MCPatches == {[slot |-> 0, ins |-> Copy(1, OutReq, 128)], [bit |-> Halt, to |-> 0]}

(* These programs are run as they are: no boot layer is built over them.     *)
MCNoPointers == {}

-----------------------------------------------------------------------------
(* Boot layers, and a few of the programs above for liveness. *)

(* A workspace of layers: at 128 a boot layer that names 184, and at 184,    *)
(* over the last two zero fields of the first, one that sets HALT.           *)
At(p, image) == {p + b : b \in image}
MCLayers ==
  At(128, BootLayer({}, 184)) \cup
    At(184, Layer(Nop, Copy(1, Halt, 208), Copy(9, 140, 200)))
(* As it is, with input over the patch slot, and with output.                *)
MCBoots ==
  {Loaded(MCLayers, in, out, FALSE) :
     in \in {NoRequest, Request(24, 16)}, out \in {NoRequest, Request(128, 32)}}

MCBootPrograms ==
  MCBoots \cup
  {Image(s0, s1, NoRequest, NoRequest, FALSE) : s0 \in MCSlot0, s1 \in MCSlot1}
  \cup {Image(Nop, Copy(1, OutReq, 128), Request(136, 16), out, h) :
          out \in MCOut, h \in BOOLEAN}

(* The two layers, no byte boundary, less than a layer from the end, too     *)
(* wide.                                                                     *)
MCPointers == {128, 184, 131, 192, 256}

MCBootLives == {1, 4}
MCBootTicks == 4
MCNoPatches == {}
=============================================================================
