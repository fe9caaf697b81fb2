--------------------------- MODULE CopySpaceProofs ---------------------------
(***************************************************************************)
(* Lemmas about the memory map and the encoding of numbers, for every       *)
(* layout vm_init accepts: where the parts of the map lie, and which bits a *)
(* read depends on and a write can change.                                  *)
(***************************************************************************)
EXTENDS CopySpace, BitOpsProofs

-----------------------------------------------------------------------------
(* The memory map. *)

LEMMA Sizes ==
  /\ AddrBits \in Nat /\ ProcessorN \in Nat \ {0} /\ SpaceBits \in Nat
  /\ InstrBits \in Nat /\ ProcessorBits \in Nat
<1>1. /\ AddrBits \in Nat /\ ProcessorN \in Nat \ {0} /\ SpaceBytes \in Nat
  BY LayoutAssumption
<1>2. SpaceBits \in Nat /\ InstrBits \in Nat
  BY <1>1 DEF SpaceBits, InstrBits
<1> QED
  BY <1>1, <1>2 DEF ProcessorBits

LEMMA AddrBitsPositive == AddrBits \in Nat /\ AddrBits >= 8
<1>1. AddrBits = DerivedWidth /\ AddrBits \in Nat
  BY LayoutAssumption
<1> DEFINE w == round_up_to_8(ceil_log2(SpaceBits))
<1>2. AddrBits = IF w < 8 THEN 8 ELSE w
  BY <1>1 DEF DerivedWidth
<1> HIDE DEF w
<1> QED
  BY <1>1, <1>2

LEMMA Layout ==
  /\ ProcessorBits <= SpaceBits
  /\ {InReq, InDone, InEof, InErr, OutReq, OutDone, OutErr, Halt} \subseteq Bits
  /\ BitRange(InGot, AddrBits) \subseteq Bits /\ BitRange(OutGot, AddrBits) \subseteq Bits
  /\ OutReq \notin {InReq, InDone, InEof, InErr} \cup BitRange(InGot, AddrBits)
<1>1. Halt + 1 <= MmioEnd /\ MmioEnd <= SpaceBits
  <2>1. Halt \in Nat
    BY Sizes DEF Halt, OutGot, OutLen, OutSrc, OutReq, InGot, InLen, InDst, InReq
  <2> HIDE DEF Halt
  <2>2. Halt + 1 <= MmioEnd
    BY <2>1 DEF MmioEnd, round_up_to_8
  <2> QED
    BY <2>2, LayoutAssumption
<1> HIDE DEF MmioEnd
<1>2. Halt + 1 <= SpaceBits
  <2>1. MmioEnd \in Int
    BY Sizes DEF MmioEnd, round_up_to_8, Halt, OutGot, OutLen, OutSrc, OutReq,
                 InGot, InLen, InDst, InReq
  <2>2. Halt \in Int
    BY Sizes DEF Halt, OutGot, OutLen, OutSrc, OutReq, InGot, InLen, InDst, InReq
  <2> HIDE DEF Halt
  <2> QED
    BY <1>1, <2>1, <2>2, Sizes
<1> QED
  BY <1>2, Sizes DEF Bits, BitRange, Halt, OutGot, OutLen, OutSrc, OutReq, OutDone,
                     OutErr, InGot, InLen, InDst, InReq, InDone, InEof, InErr

LEMMA RangeInSpace ==
  ASSUME NEW a \in Nat, NEW n \in Nat, a + n <= SpaceBits
  PROVE  BitRange(a, n) \subseteq Bits
BY Sizes DEF BitRange, Bits

LEMMA SlotInSpace ==
  ASSUME NEW i \in 0..(ProcessorN - 1)
  PROVE  SlotIp(i) \in Nat /\ SlotIp(i) + InstrBits <= ProcessorBits
<1>1. i \in Nat /\ ProcessorN \in Nat /\ i + 1 <= ProcessorN /\ InstrBits \in Nat
  BY Sizes
<1> HIDE DEF InstrBits
<1>2. (i + 1) * InstrBits <= ProcessorN * InstrBits
  BY <1>1
<1>3. (i + 1) * InstrBits = i * InstrBits + InstrBits /\ i * InstrBits \in Nat
  BY <1>1
<1> QED
  BY <1>2, <1>3 DEF SlotIp, ProcessorBits

-----------------------------------------------------------------------------
(* Numbers, and what the writes change. *)

LEMMA UIntNat == ASSUME NEW m, NEW pos PROVE UInt(m, pos) \in Nat
BY Sizes, NumberRecursion DEF UInt

LEMMA InstType == ASSUME NEW m, NEW ip PROVE vm_read_inst(m, ip) \in Inst
BY UIntNat DEF vm_read_inst, Inst, Copy

(* m2 agrees with m outside A. *)
Agree(m, m2, A) == \A b : b \notin A => (b \in m <=> b \in m2)

LEMMA AgreeInSpace ==
  ASSUME NEW m \in SUBSET Bits, NEW A \in SUBSET Bits, NEW m2, Agree(m, m2, A)
  PROVE  m2 \subseteq Bits
BY Zenon DEF Agree

LEMMA WriteUintFrame ==
  ASSUME NEW m, NEW pos, NEW v
  PROVE  Agree(m, WriteUint(m, pos, v), BitRange(pos, AddrBits))
BY Zenon DEF Agree, WriteUint, Digits

(* A number depends on its own bits only. *)
LEMMA UIntFrame ==
  ASSUME NEW m, NEW m2, NEW A, NEW pos \in Int,
         Agree(m, m2, A), A \cap BitRange(pos, AddrBits) = {}
  PROVE  UInt(m, pos) = UInt(m2, pos)
<1>1. \A b \in BitRange(pos, AddrBits) : b \in m <=> b \in m2
  BY Zenon DEF Agree
<1>2. \A q \in 0..(AddrBits - 1) : pos + q \in BitRange(pos, AddrBits)
  BY Sizes DEF BitRange
<1> QED
  BY <1>1, <1>2, Sizes, NumberSame DEF UInt

(* Where the registers stand. *)
LEMMA Registers ==
  /\ InReq = ProcessorBits /\ InDone = ProcessorBits + 1 /\ InEof = ProcessorBits + 2
  /\ InErr = ProcessorBits + 3 /\ InDst = ProcessorBits + 4
  /\ InLen = ProcessorBits + 4 + AddrBits /\ InGot = ProcessorBits + 4 + 2 * AddrBits
  /\ OutReq = ProcessorBits + 4 + 3 * AddrBits /\ OutDone = ProcessorBits + 5 + 3 * AddrBits
  /\ OutErr = ProcessorBits + 6 + 3 * AddrBits /\ OutSrc = ProcessorBits + 7 + 3 * AddrBits
  /\ OutLen = ProcessorBits + 7 + 4 * AddrBits /\ OutGot = ProcessorBits + 7 + 5 * AddrBits
  /\ Halt = ProcessorBits + 7 + 6 * AddrBits
  /\ InDst \in Nat /\ InLen \in Nat /\ InGot \in Nat
  /\ OutSrc \in Nat /\ OutLen \in Nat /\ OutGot \in Nat
BY Sizes DEF Halt, OutGot, OutLen, OutSrc, OutErr, OutDone, OutReq, InGot, InLen, InDst,
             InErr, InEof, InDone, InReq

LEMMA MmioEndType == MmioEnd \in Nat /\ ProcessorBits < MmioEnd
<1>1. Halt \in Nat /\ ProcessorBits <= Halt
  BY Sizes DEF Halt, OutGot, OutLen, OutSrc, OutReq, InGot, InLen, InDst, InReq
<1> HIDE DEF Halt
<1> QED
  BY <1>1, Sizes DEF MmioEnd, round_up_to_8

LEMMA WriteInstInSpace ==
  ASSUME NEW m \in SUBSET Bits, NEW i \in 0..(ProcessorN - 1), NEW ins
  PROVE  vm_write_inst(m, SlotIp(i), ins) \subseteq Bits
<1> DEFINE ip == SlotIp(i)
<1>1. ip \in Nat /\ ip + InstrBits <= ProcessorBits
  BY SlotInSpace
<1> HIDE DEF ip
<1>2. /\ BitRange(ip, AddrBits) \subseteq Bits
      /\ BitRange(ip + OffDst, AddrBits) \subseteq Bits
      /\ BitRange(ip + OffSrc, AddrBits) \subseteq Bits
  <2>1. ip + 3 * AddrBits <= SpaceBits
    BY <1>1, Sizes, Layout DEF InstrBits
  <2> QED
    BY <1>1, <2>1, Sizes DEF OffDst, OffSrc, BitRange, Bits
<1>3. ASSUME NEW x \in SUBSET Bits, NEW p, NEW v, BitRange(p, AddrBits) \subseteq Bits
      PROVE  WriteUint(x, p, v) \in SUBSET Bits
  BY <1>3, WriteUintFrame, AgreeInSpace
<1>4. WriteUint(m, ip, ins.n) \in SUBSET Bits
  BY <1>2, <1>3
<1>5. WriteUint(WriteUint(m, ip, ins.n), ip + OffDst, ins.dst) \in SUBSET Bits
  BY <1>2, <1>3, <1>4
<1>6. vm_write_inst(m, ip, ins) \in SUBSET Bits
  BY <1>2, <1>3, <1>5 DEF vm_write_inst
<1> QED
  BY <1>6 DEF ip

LEMMA BootLayerInSpace ==
  ASSUME NEW m \in SUBSET Bits, NEW ptr, BootSupported
  PROVE  BootLayer(m, ptr) \subseteq Bits
<1>1. /\ 0 \in 0..(ProcessorN - 1)
      /\ ProcessorN - 2 \in 0..(ProcessorN - 1)
      /\ ProcessorN - 1 \in 0..(ProcessorN - 1)
  BY Sizes DEF BootSupported
<1> DEFINE cleared == m \ BitRange(0, ProcessorBits)
           meta == vm_write_inst(cleared, SlotIp(0), Copy(0, ptr, 0))
<1>2. cleared \in SUBSET Bits
  OBVIOUS
<1>3. meta \in SUBSET Bits
  BY <1>1, <1>2, WriteInstInSpace
<1> HIDE DEF meta
<1>4. ASSUME NEW ins PROVE vm_write_inst(meta, SlotIp(ProcessorN - 2), ins) \in SUBSET Bits
  BY <1>1, <1>3, WriteInstInSpace
<1>5. ASSUME NEW x \in SUBSET Bits, NEW ins
      PROVE  vm_write_inst(x, SlotIp(ProcessorN - 1), ins) \in SUBSET Bits
  BY <1>1, WriteInstInSpace
<1> QED
  BY <1>4, <1>5, Zenon DEF BootLayer, meta

(* bitcpy changes bits of its destination only. *)
LEMMA bitcpyFrame ==
  ASSUME NEW m, NEW n, NEW src, NEW dst
  PROVE  Agree(m, bitcpy(m, n, src, dst), BitRange(dst, n))
BY Zenon DEF Agree, bitcpy

-----------------------------------------------------------------------------
(* Numbers and instructions are read back as they were written. *)

LEMMA ReadBack ==
  ASSUME NEW m, NEW pos \in Nat, NEW v \in Nat, v < pow2[AddrBits]
  PROVE  UInt(WriteUint(m, pos, v), pos) = v
<1>1. Shr(v, AddrBits) = 0
  BY Sizes, Fits
<1>2. \A b \in BitRange(pos, AddrBits) :
        b \in WriteUint(m, pos, v) <=> b \in Digits(v, pos, AddrBits)
  BY Zenon DEF WriteUint
<1> QED
  BY <1>1, <1>2, Sizes, NumberDigits DEF UInt

LEMMA ReadElsewhere ==
  ASSUME NEW m, NEW pos \in Nat, NEW v, NEW pos2 \in Nat,
         pos + AddrBits <= pos2 \/ pos2 + AddrBits <= pos
  PROVE  UInt(WriteUint(m, pos, v), pos2) = UInt(m, pos2)
<1>1. BitRange(pos, AddrBits) \cap BitRange(pos2, AddrBits) = {}
  BY Sizes DEF BitRange
<1> QED
  BY <1>1, WriteUintFrame, UIntFrame

(* Every field of the instruction fits. *)
Encodable(ins) ==
  ins \in Inst /\ ins.n < pow2[AddrBits] /\ ins.dst < pow2[AddrBits] /\ ins.src < pow2[AddrBits]

LEMMA InstReadBack ==
  ASSUME NEW m, NEW ip \in Nat, NEW ins, Encodable(ins)
  PROVE  vm_read_inst(vm_write_inst(m, ip, ins), ip) = ins
<1> DEFINE m1 == WriteUint(m, ip, ins.n)
           m2 == WriteUint(m1, ip + OffDst, ins.dst)
           m3 == WriteUint(m2, ip + OffSrc, ins.src)
<1>1. /\ ins.n \in Nat /\ ins.dst \in Nat /\ ins.src \in Nat
      /\ ins = [n |-> ins.n, dst |-> ins.dst, src |-> ins.src]
      /\ ins.n < pow2[AddrBits] /\ ins.dst < pow2[AddrBits] /\ ins.src < pow2[AddrBits]
  BY DEF Encodable, Inst
<1>2. /\ ip + OffDst \in Nat /\ ip + OffDst = ip + AddrBits
      /\ ip + OffSrc \in Nat /\ ip + OffSrc = ip + 2 * AddrBits
  BY Sizes DEF OffDst, OffSrc
<1> DEFINE d == ip + OffDst
           c == ip + OffSrc
<1> HIDE DEF m1, m2, m3, d, c
<1>3. UInt(m1, ip) = ins.n
  BY <1>1, ReadBack DEF m1
<1>4. UInt(m2, ip) = ins.n /\ UInt(m2, d) = ins.dst
  BY <1>1, <1>2, <1>3, Sizes, ReadBack, ReadElsewhere DEF m2, d
<1>5. UInt(m3, ip) = ins.n /\ UInt(m3, d) = ins.dst /\ UInt(m3, c) = ins.src
  <2>1. UInt(m3, c) = ins.src
    BY <1>1, <1>2, ReadBack DEF m3, c
  <2>2. UInt(m3, ip) = UInt(m2, ip) /\ UInt(m3, d) = UInt(m2, d)
    BY <1>2, Sizes, ReadElsewhere DEF m3, c, d
  <2> QED
    BY <1>4, <2>1, <2>2
<1>6. vm_write_inst(m, ip, ins) = m3
  BY DEF vm_write_inst, m3, m2, m1
<1>7. vm_read_inst(m3, ip) = Copy(UInt(m3, ip), UInt(m3, d), UInt(m3, c))
  BY DEF vm_read_inst, d, c
<1> QED
  BY <1>1, <1>5, <1>6, <1>7 DEF Copy

(* An instruction depends on its own bits only. *)
LEMMA InstFrame ==
  ASSUME NEW m, NEW m2, NEW A, NEW ip \in Nat,
         Agree(m, m2, A), A \cap BitRange(ip, InstrBits) = {}
  PROVE  vm_read_inst(m, ip) = vm_read_inst(m2, ip)
<1>1. /\ ip + OffDst \in Nat /\ ip + OffSrc \in Nat
      /\ BitRange(ip, AddrBits) \subseteq BitRange(ip, InstrBits)
      /\ BitRange(ip + OffDst, AddrBits) \subseteq BitRange(ip, InstrBits)
      /\ BitRange(ip + OffSrc, AddrBits) \subseteq BitRange(ip, InstrBits)
  BY Sizes DEF OffDst, OffSrc, InstrBits, BitRange
<1>2. ASSUME NEW pos \in Nat, BitRange(pos, AddrBits) \subseteq BitRange(ip, InstrBits)
      PROVE  UInt(m, pos) = UInt(m2, pos)
  <2>1. A \cap BitRange(pos, AddrBits) = {}
    BY <1>2
  <2> QED
    BY <2>1, UIntFrame
<1>3. /\ UInt(m, ip) = UInt(m2, ip) /\ UInt(m, ip + OffDst) = UInt(m2, ip + OffDst)
      /\ UInt(m, ip + OffSrc) = UInt(m2, ip + OffSrc)
  BY <1>1, <1>2
<1> QED
  BY <1>3 DEF vm_read_inst

LEMMA WriteInstFrame ==
  ASSUME NEW m, NEW ip \in Nat, NEW ins
  PROVE  Agree(m, vm_write_inst(m, ip, ins), BitRange(ip, InstrBits))
<1>1. /\ BitRange(ip, AddrBits) \subseteq BitRange(ip, InstrBits)
      /\ BitRange(ip + OffDst, AddrBits) \subseteq BitRange(ip, InstrBits)
      /\ BitRange(ip + OffSrc, AddrBits) \subseteq BitRange(ip, InstrBits)
  BY Sizes DEF OffDst, OffSrc, InstrBits, BitRange
<1> DEFINE m1 == WriteUint(m, ip, ins.n)
           m2 == WriteUint(m1, ip + OffDst, ins.dst)
           m3 == WriteUint(m2, ip + OffSrc, ins.src)
<1>2. /\ Agree(m, m1, BitRange(ip, AddrBits))
      /\ Agree(m1, m2, BitRange(ip + OffDst, AddrBits))
      /\ Agree(m2, m3, BitRange(ip + OffSrc, AddrBits))
  BY WriteUintFrame
<1>3. vm_write_inst(m, ip, ins) = m3
  BY DEF vm_write_inst
<1> HIDE DEF m1, m2, m3
<1> QED
  BY <1>1, <1>2, <1>3, Zenon DEF Agree

LEMMA SlotsApart ==
  ASSUME NEW i \in Nat, NEW j \in Nat, i < j
  PROVE  /\ SlotIp(i) \in Nat /\ SlotIp(j) \in Nat
         /\ SlotIp(i) + InstrBits <= SlotIp(j)
<1>1. InstrBits \in Nat
  BY Sizes
<1> HIDE DEF InstrBits
<1>2. (i + 1) * InstrBits <= j * InstrBits
  BY <1>1
<1>3. (i + 1) * InstrBits = i * InstrBits + InstrBits /\ i * InstrBits \in Nat
      /\ j * InstrBits \in Nat
  BY <1>1
<1> QED
  BY <1>2, <1>3 DEF SlotIp

LEMMA InstElsewhere ==
  ASSUME NEW m, NEW i \in Nat, NEW j \in Nat, i # j, NEW ins
  PROVE  vm_read_inst(vm_write_inst(m, SlotIp(i), ins), SlotIp(j)) = vm_read_inst(m, SlotIp(j))
<1>1. /\ SlotIp(i) \in Nat /\ SlotIp(j) \in Nat
      /\ SlotIp(i) + InstrBits <= SlotIp(j) \/ SlotIp(j) + InstrBits <= SlotIp(i)
  <2>1. CASE i < j
    BY <2>1, SlotsApart
  <2>2. CASE j < i
    BY <2>2, SlotsApart
  <2> QED
    BY <2>1, <2>2
<1> DEFINE a == SlotIp(i)
           b == SlotIp(j)
<1> HIDE DEF a, b
<1>2. BitRange(a, InstrBits) \cap BitRange(b, InstrBits) = {}
  <2>1. /\ a \in Nat /\ b \in Nat /\ InstrBits \in Nat
        /\ a + InstrBits <= b \/ b + InstrBits <= a
    BY <1>1, Sizes DEF a, b
  <2> QED
    BY <2>1 DEF BitRange
<1>3. Agree(m, vm_write_inst(m, a, ins), BitRange(a, InstrBits))
  BY <1>1, WriteInstFrame DEF a
<1> QED
  BY <1>1, <1>2, <1>3, InstFrame DEF a, b

(* Bits that are all 0 hold nops. *)
LEMMA ZeroInst ==
  ASSUME NEW m, NEW ip \in Nat, m \cap BitRange(ip, InstrBits) = {}
  PROVE  vm_read_inst(m, ip) = Nop
<1>1. ASSUME NEW pos \in Nat, BitRange(pos, AddrBits) \subseteq BitRange(ip, InstrBits)
      PROVE  UInt(m, pos) = 0
  <2>1. \A k \in Nat : Shr(0, k) = 0
    <3>1. ASSUME NEW k \in Nat PROVE Shr(0, k) = 0
      <4>1. 0 < pow2[k] /\ pow2[k] \in Nat
        BY Pow2Turn, Pow2Monotone
      <4> QED
        BY <4>1, Fits
    <3> QED
      BY <3>1
  <2>2. ASSUME NEW b \in BitRange(pos, AddrBits) PROVE b \in m <=> b \in Digits(0, pos, AddrBits)
    <3>1. b \notin m
      BY <1>1
    <3>2. pos + AddrBits - 1 - b \in Nat
      BY Sizes DEF BitRange
    <3>3. Shr(0, pos + AddrBits - 1 - b) % 2 = 0
      BY <2>1, <3>2
    <3> QED
      BY <3>1, <3>3 DEF Digits
  <2> QED
    BY <2>1, <2>2, Sizes, NumberDigits DEF UInt
<1>2. /\ ip + OffDst \in Nat /\ ip + OffSrc \in Nat
      /\ BitRange(ip, AddrBits) \subseteq BitRange(ip, InstrBits)
      /\ BitRange(ip + OffDst, AddrBits) \subseteq BitRange(ip, InstrBits)
      /\ BitRange(ip + OffSrc, AddrBits) \subseteq BitRange(ip, InstrBits)
  BY Sizes DEF OffDst, OffSrc, InstrBits, BitRange
<1>3. UInt(m, ip) = 0 /\ UInt(m, ip + OffDst) = 0 /\ UInt(m, ip + OffSrc) = 0
  BY <1>1, <1>2
<1> QED
  BY <1>3 DEF vm_read_inst, Nop

-----------------------------------------------------------------------------
(* The boot layer. *)

(* Every address of the space fits in a field. *)
LEMMA AddressFits == \A a \in Nat : a < SpaceBits => a < pow2[AddrBits]
<1>1. SpaceBits \in Nat /\ SpaceBits >= 1
  BY Sizes, LayoutAssumption DEF SpaceBits
<1> DEFINE k == ceil_log2(SpaceBits)
<1>2. k \in Nat /\ SpaceBits <= pow2[k]
  BY <1>1, CeilLog2
<1>3. k <= AddrBits
  <2> HIDE DEF k
  <2> DEFINE w == round_up_to_8(k)
  <2>1. w \in Nat /\ k <= w
    BY <1>2 DEF round_up_to_8
  <2>2. AddrBits = IF w < 8 THEN 8 ELSE w
    BY LayoutAssumption DEF DerivedWidth, k
  <2> HIDE DEF w
  <2> QED
    BY <1>2, <2>1, <2>2
<1> HIDE DEF k
<1>4. pow2[k] <= pow2[AddrBits] /\ pow2[k] \in Nat /\ pow2[AddrBits] \in Nat
  BY <1>2, <1>3, Sizes, Pow2Monotone, Pow2Turn
<1> QED
  BY <1>1, <1>2, <1>4

(* A slot begins and a field ends at a byte boundary. *)
LEMMA ByteAligned ==
  /\ AddrBits % 8 = 0
  /\ \A i \in Nat : SlotIp(i) \in Nat /\ SlotIp(i) % 8 = 0
<1>1. PICK a \in Nat : AddrBits = 8 * a
  <2> DEFINE w == ceil_log2(SpaceBits)
  <2>1. w \in Nat
    BY Sizes, LayoutAssumption, CeilLog2 DEF SpaceBits
  <2>2. AddrBits = IF round_up_to_8(w) < 8 THEN 8 ELSE round_up_to_8(w)
    BY LayoutAssumption DEF DerivedWidth
  <2> HIDE DEF w
  <2>3. round_up_to_8(w) = 8 * ((w + 7) \div 8) /\ (w + 7) \div 8 \in Nat
    BY <2>1 DEF round_up_to_8
  <2>4. AddrBits = 8 * 1 \/ AddrBits = 8 * ((w + 7) \div 8)
    BY <2>2, <2>3
  <2> QED
    BY <2>3, <2>4
<1>2. ASSUME NEW i \in Nat PROVE SlotIp(i) \in Nat /\ SlotIp(i) % 8 = 0
  <2>1. SlotIp(i) = i * (3 * (8 * a))
    BY <1>1 DEF SlotIp, InstrBits
  <2>2. PICK z \in Nat : z = i * (3 * a)
    OBVIOUS
  <2>3. i * (3 * (8 * a)) = 8 * (i * (3 * a))
    OBVIOUS
  <2>4. SlotIp(i) = 8 * z
    BY <2>1, <2>2, <2>3
  <2> QED
    BY <2>2, <2>4
<1> QED
  BY <1>1, <1>2

(* The three instructions of loader 3B. *)
Meta(ptr) == Copy(0, ptr, 0)
Patch == Copy(AddrBits, SlotIp(ProcessorN - 1) + OffSrc, OffDst)
LoadLayer(ptr) == Copy(ProcessorBits, 0, ptr)

LEMMA LastSlot ==
  /\ SlotIp(ProcessorN - 1) \in Nat
  /\ SlotIp(ProcessorN - 1) + InstrBits = ProcessorBits
<1>1. ProcessorN - 1 \in Nat /\ InstrBits \in Nat /\ ProcessorN \in Nat
  BY Sizes
<1>2. (ProcessorN - 1) * InstrBits + InstrBits = ProcessorN * InstrBits
      /\ (ProcessorN - 1) * InstrBits \in Nat
  <2> HIDE DEF InstrBits
  <2> QED
    BY <1>1
<1> QED
  BY <1>2 DEF SlotIp, ProcessorBits

LEMMA BootEncodable ==
  ASSUME NEW ptr \in Nat, ptr < SpaceBits
  PROVE  Encodable(Meta(ptr)) /\ Encodable(Patch) /\ Encodable(LoadLayer(0))
<1>1. /\ 0 < SpaceBits /\ AddrBits < SpaceBits /\ ProcessorBits < SpaceBits
      /\ ProcessorBits \in Nat /\ OffDst = AddrBits /\ AddrBits \in Nat
  <2>1. ProcessorBits < SpaceBits
    <3>1. MmioEnd \in Nat /\ ProcessorBits < MmioEnd /\ MmioEnd <= SpaceBits
      BY MmioEndType, LayoutAssumption
    <3> QED
      BY <3>1, Sizes
  <2>2. AddrBits <= ProcessorBits
    BY LastSlot, Sizes DEF InstrBits
  <2> QED
    BY <2>1, <2>2, Sizes DEF OffDst
<1>2. SlotIp(ProcessorN - 1) + OffSrc \in Nat /\ SlotIp(ProcessorN - 1) + OffSrc < SpaceBits
  BY <1>1, LastSlot, AddrBitsPositive, Sizes DEF OffSrc, InstrBits
<1>3. /\ 0 < pow2[AddrBits] /\ AddrBits < pow2[AddrBits] /\ ProcessorBits < pow2[AddrBits]
      /\ ptr < pow2[AddrBits] /\ SlotIp(ProcessorN - 1) + OffSrc < pow2[AddrBits]
  BY <1>1, <1>2, Sizes, AddressFits
<1> QED
  BY <1>1, <1>2, <1>3 DEF Encodable, Meta, Patch, LoadLayer, Copy, Inst

(* What the slots of a boot layer hold. *)
LEMMA BootReads ==
  ASSUME NEW m, NEW ptr \in Nat, ptr < SpaceBits, ProcessorN >= 3
  PROVE  LET inst(i) == vm_read_inst(BootLayer(m, ptr), SlotIp(i))
         IN  /\ inst(0) = Meta(ptr)
             /\ \A i \in 1 .. (ProcessorN - 3) : inst(i) = Nop
             /\ inst(ProcessorN - 2) = Patch
             /\ inst(ProcessorN - 1) = LoadLayer(0)
<1> DEFINE P2 == ProcessorN - 2
           P1 == ProcessorN - 1
           m0 == m \ BitRange(0, ProcessorBits)
           m1 == vm_write_inst(m0, SlotIp(0), Meta(ptr))
           m2 == vm_write_inst(m1, SlotIp(P2), Patch)
           m3 == vm_write_inst(m2, SlotIp(P1), LoadLayer(0))
<1>1. BootLayer(m, ptr) = m3
  BY DEF BootLayer, Meta, Patch, LoadLayer
<1>2. P2 \in Nat /\ P1 \in Nat /\ P2 # 0 /\ P1 # 0 /\ P1 # P2
      /\ \A i \in 1 .. (ProcessorN - 3) : i \in Nat /\ i # 0 /\ i # P1 /\ i # P2 /\ i \in 0 .. (ProcessorN - 1)
  BY Sizes
<1>3. ASSUME NEW i \in 1 .. (ProcessorN - 3) PROVE vm_read_inst(m0, SlotIp(i)) = Nop
  <2>1. SlotIp(i) \in Nat /\ SlotIp(i) + InstrBits <= ProcessorBits
    BY <1>2, SlotInSpace
  <2>2. m0 \cap BitRange(SlotIp(i), InstrBits) = {}
    <3>1. BitRange(SlotIp(i), InstrBits) \subseteq BitRange(0, ProcessorBits)
      <4> DEFINE a == SlotIp(i)
      <4> HIDE DEF a
      <4>1. a \in Nat /\ a + InstrBits <= ProcessorBits
        BY <2>1 DEF a
      <4>2. BitRange(a, InstrBits) \subseteq BitRange(0, ProcessorBits)
        BY <4>1, Sizes DEF BitRange
      <4> QED
        BY <4>2 DEF a
    <3> QED
      BY <3>1
  <2> HIDE DEF m0
  <2> QED
    BY <2>1, <2>2, ZeroInst
<1>4. SlotIp(0) \in Nat /\ SlotIp(P2) \in Nat /\ SlotIp(P1) \in Nat
  BY <1>2, ByteAligned
<1>5. Encodable(Meta(ptr)) /\ Encodable(Patch) /\ Encodable(LoadLayer(0))
  BY BootEncodable
<1> HIDE DEF P2, P1, m0, m1, m2, m3
<1>6. vm_read_inst(m1, SlotIp(0)) = Meta(ptr)
  BY <1>4, <1>5, InstReadBack DEF m1
<1>7. vm_read_inst(m2, SlotIp(P2)) = Patch /\ vm_read_inst(m2, SlotIp(0)) = Meta(ptr)
  BY <1>2, <1>4, <1>5, <1>6, InstReadBack, InstElsewhere DEF m2
<1>8. /\ vm_read_inst(m3, SlotIp(P1)) = LoadLayer(0) /\ vm_read_inst(m3, SlotIp(P2)) = Patch
      /\ vm_read_inst(m3, SlotIp(0)) = Meta(ptr)
  BY <1>2, <1>4, <1>5, <1>7, InstReadBack, InstElsewhere DEF m3
<1>9. ASSUME NEW i \in 1 .. (ProcessorN - 3) PROVE vm_read_inst(m3, SlotIp(i)) = Nop
  <2>1. vm_read_inst(m1, SlotIp(i)) = vm_read_inst(m0, SlotIp(i))
    BY <1>2, InstElsewhere DEF m1
  <2>2. vm_read_inst(m2, SlotIp(i)) = vm_read_inst(m1, SlotIp(i))
    BY <1>2, InstElsewhere DEF m2
  <2>3. vm_read_inst(m3, SlotIp(i)) = vm_read_inst(m2, SlotIp(i))
    BY <1>2, InstElsewhere DEF m3
  <2> QED
    BY <1>3, <2>1, <2>2, <2>3
<1> QED
  BY <1>1, <1>8, <1>9 DEF P1, P2
=============================================================================
