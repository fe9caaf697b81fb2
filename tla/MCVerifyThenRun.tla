-------------------------- MODULE MCVerifyThenRun --------------------------
(***************************************************************************)
(* A VM of 32 bytes, three slots and 8-bit addresses: processor 0..71,      *)
(* registers 72..127, workspace 128..255.  Images a user may have verified, *)
(* configurations, and command lines.                                       *)
(***************************************************************************)
EXTENDS VerifyThenRun

Slots(s0, s1, s2) ==
  vm_write_inst(vm_write_inst(vm_write_inst({}, SlotIp(0), s0), SlotIp(1), s1),
                SlotIp(2), s2)

Data == {b \in 128..255 : (b * b + (b \div 7)) % 5 < 2}

Asking(m, dst, len) == WriteUint(WriteUint(m \cup {InReq}, InDst, dst), InLen, len)

File(ones) == [bytes |-> 32, ones |-> ones \cup Data]

Idle == Slots(Nop, Nop, Nop)
(* Three disjoint copies: short; skewed the exact way; of the last bits.     *)
Disjoint == Slots(Copy(7, 130, 203), Copy(20, 160, 217), Copy(16, 144, 240))

(* Much the same in fields of twelve bits, half of which straddle bytes.       *)
Field(k, v) == {b \in BitRange(12 * k, 12) : (v \div 2^(12 * k + 11 - b)) % 2 = 1}
Twelve == Field(0, 7) \cup Field(1, 130) \cup Field(2, 208) \cup
          Field(3, 20) \cup Field(4, 160) \cup Field(5, 217) \cup
          Field(6, 4) \cup Field(7, 144) \cup Field(8, 240)

(* Good images, with input and output, input over the code or refused, HALT; *)
(* a copy whose head bitcpy skews; a source past the end of the space; two   *)
(* contracts that overlap; one that patches a slot, one that patches a       *)
(* register; files too short and too long.                                   *)
MCDisk ==
  [idle     |-> File(Idle),
   disjoint |-> File(Disjoint),
   reading  |-> File(Asking(Disjoint, 200, 16)),
   misread  |-> File(Asking(Disjoint, 201, 16)),
   overread |-> File(Asking(Disjoint, 24, 16)),
   printing |-> File(WriteUint(WriteUint(Disjoint \cup {OutReq, Halt}, OutSrc, 128),
                               OutLen, 16)),
   skewed   |-> File(Slots(Copy(12, 165, 202), Nop, Copy(8, 128, 240))),
   pastend  |-> File(Slots(Copy(8, 130, 240), Nop, Copy(8, 140, 250))),
   clash    |-> File(Slots(Copy(8, 130, 200), Nop, Copy(8, 137, 240))),
   patching |-> File(Slots(Copy(8, SlotIp(1), 200), Nop, Nop)),
   asking   |-> File(Slots(Nop, Copy(1, InReq, 128), Nop)),
   twelve   |-> File(Twelve),
   short    |-> [bytes |-> 31, ones |-> Disjoint],
   long     |-> [bytes |-> 40, ones |-> Disjoint \cup Data \cup {300}]]

Conf(bytes, n, w, protected, allowed) ==
  [space_bytes |-> bytes, processor_n |-> n, addr_bits |-> w,
   protected |-> protected, allowed |-> allowed]

R(begin, end) == [begin |-> begin, end |-> end]

Protecting == Conf(32, 3, None, <<R(0, 72), R(0, 128)>>, <<>>)
Allowing   == Conf(32, 3, 8, <<>>, <<R(128, 200), R(190, 256), R(None, 72)>>)
(* No end: the region protects nothing.  More slots than the space holds;   *)
(* wider addresses, derived and given.                                       *)
Open       == Conf(32, 3, None, <<R(0, None)>>, <<>>)
TooMany    == Conf(32, 11, None, <<>>, <<>>)
Wider      == Conf(33, 2, None, <<>>, <<>>)
Given      == Conf(32, 3, 12, <<R(0, 128)>>, <<>>)

MCConfigs == {Protecting, Allowing, Open, TooMany, Wider, Given}

Line(path, matched, config, l2_only) ==
  [image |-> path, given |-> matched # <<>>, matched |-> matched, config |-> config,
   l2_only |-> l2_only]

(* Every image alone; an image with further layers, or layers alone; a path  *)
(* that does not exist; patterns that match nothing; nothing at all.         *)
MCInvocations ==
  {Line(i, <<>>, c, l) : i \in DOMAIN MCDisk, c \in {Protecting, Open}, l \in BOOLEAN}
  \cup {Line(i, <<>>, c, FALSE) : i \in {"disjoint", "reading", "patching", "long"},
                                  c \in {Allowing, TooMany, Wider, None}}
  \cup {Line("twelve", <<"idle">>, Given, l) : l \in BOOLEAN}
  \cup {Line(i, m, Protecting, FALSE) :
          i \in {None, "disjoint", "patching", "nowhere"},
          m \in {<<"idle">>, <<"skewed", "clash">>, <<"clash", "idle">>, <<"short">>, <<>>}}
  \cup {[Line(i, <<>>, Protecting, FALSE) EXCEPT !.given = TRUE] : i \in {None, "idle"}}

MCPrograms == {MCDisk[p].ones \cap Bits : p \in DOMAIN MCDisk}
MCInputs == {<<>>, <<{5, 6}, {0, 1, 2, 3, 4, 6}, {0, 1, 4}>>}
MCShortCounts == {0}
MCOverReads == {{}, 256..511}
MCLives == {0, 3}
MCMaxTicks == 4
MCNone == {}
=============================================================================
