------------------------------ MODULE VMProofs ------------------------------
(***************************************************************************)
(* Safety of the VM for every layout vm_init accepts, every program, every *)
(* input and every outcome of fread and fwrite.  The bits a step changes   *)
(* are the ones it names: the frame lemmas below say which, and everything *)
(* else is how those sets lie in the memory map.                           *)
(***************************************************************************)
EXTENDS VM, CopySpaceProofs, SequenceTheorems, TLAPS

-----------------------------------------------------------------------------
LEMMA StatusInSpace == Status \subseteq Bits
BY Layout DEF Status

(* What a service writes beside the bytes it stores is status. *)
LEMMA OutFrame ==
  ASSUME NEW got, NEW failed \in BOOLEAN
  PROVE  /\ Agree(space, OutAnswered(OutCleared, got, failed), Status)
         /\ OutReq \notin OutAnswered(OutCleared, got, failed)
<1>1. Agree(OutCleared, WriteUint(OutCleared, OutGot, got), BitRange(OutGot, AddrBits))
  BY WriteUintFrame
<1> QED
  BY <1>1, Zenon DEF Agree, OutAnswered, OutCleared, Status

LEMMA InClearedFrame == Agree(space, InCleared, Status)
BY Zenon DEF Agree, InCleared, Status

LEMMA InAnsweredFrame ==
  ASSUME NEW m, NEW got, NEW atEof \in BOOLEAN, NEW failed \in BOOLEAN
  PROVE  /\ Agree(m, InAnswered(m, got, atEof, failed), Status \ {OutReq})
         /\ InReq \notin InAnswered(m, got, atEof, failed)
<1> DEFINE flagged == m \cup (IF atEof THEN {InEof} ELSE {})
                        \cup (IF failed THEN {InErr} ELSE {})
<1>1. Agree(flagged, WriteUint(flagged, InGot, got), BitRange(InGot, AddrBits))
  BY WriteUintFrame
<1>2. Agree(m, flagged, {InEof, InErr})
  BY Zenon DEF Agree
<1>3. InAnswered(m, got, atEof, failed)
        = (WriteUint(flagged, InGot, got) \cup {InDone}) \ {InReq}
  BY Zenon DEF InAnswered
<1> HIDE DEF flagged
<1>4. OutReq \notin {InReq, InDone, InEof, InErr} \cup BitRange(InGot, AddrBits)
  BY Layout
<1> QED
  BY <1>1, <1>2, <1>3, <1>4, Zenon DEF Agree, Status

LEMMA StoredFrame ==
  ASSUME NEW m, NEW dst, NEW bytes
  PROVE  Agree(m, Stored(m, dst, bytes), BitRange(dst, 8 * Len(bytes)))
BY Zenon DEF Agree, Stored

-----------------------------------------------------------------------------
(* The inductive invariant: TypeOK, and three facts about where the call of  *)
(* vm_run stands.                                                            *)

Touched == Status \cup dma \cup UNION {BitRange(i.dst, i.n) : i \in notes}

(* Explained, as a frame. *)
FrameInv == Agree(start, space, Touched)

(* last_err is cleared when a tick begins and kept when it fails. *)
Report ==
  LET i == last_err.ins
  IN  /\ last_err.tick = tick_counter
      /\ i = vm_read_inst(space, SlotIp(last_err.slot)) /\ i.n > 0
      /\ last_err.kind = "VM_E_SRC_BOUNDS" <=> i.src + i.n > SpaceBits
      /\ last_err.kind = "VM_E_DST_BOUNDS" => i.dst + i.n > SpaceBits

ErrorInv ==
  /\ InTick => last_err.kind = "VM_E_NONE"
  /\ last_err.kind # "VM_E_NONE" => rc # "none" /\ (~written => Report)
  /\ pc = "host" /\ vm = "live" =>
       (rc = "VM_ERR" => last_err.kind # "VM_E_NONE")
       /\ (rc = "VM_HALT" => last_err.kind = "VM_E_NONE")

(* What the services have answered by each step of the tick. *)
ServiceInv ==
  /\ pc = "out" => space = start
  /\ pc \in {"out", "in"} => dma = {} /\ notes = {}
  /\ pc = "in" => OutReq \notin space
  /\ pc = "halt" => InReq \notin space /\ (OutReq \in space => OutReq \in dma)
  /\ PrintThenHalt

IInv == TypeOK /\ FrameInv /\ ErrorInv /\ ServiceInv

-----------------------------------------------------------------------------
LEMMA NoErrType ==
  ASSUME NEW t \in Nat
  PROVE  /\ NoErr(t) \in [kind : {"VM_E_NONE", "VM_E_SRC_BOUNDS", "VM_E_DST_BOUNDS"},
                          tick : Nat, slot : Nat, ins : Inst]
         /\ NoErr(t).kind = "VM_E_NONE"
BY DEF NoErr, Inst, Nop, Copy

LEMMA SelfAgree == ASSUME NEW m, NEW A PROVE Agree(m, m, A)
BY DEF Agree

LEMMA InitInv == Init => IInv
<1> SUFFICES ASSUME Init PROVE IInv
  OBVIOUS
<1>1. TypeOK
  <2>1. rest \in Seq(SUBSET (0..7)) /\ printed \in Seq(SUBSET (0..7))
    BY VMAssumption DEF Init
  <2>2. 0 \in 0..ProcessorN
    BY Sizes
  <2> QED
    BY <2>1, <2>2, NoErrType DEF Init, TypeOK, InTick
<1>2. FrameInv
  BY DEF Init, FrameInv, Agree
<1>3. ErrorInv /\ ServiceInv
  BY NoErrType DEF Init, ErrorInv, InTick, ServiceInv, PrintThenHalt
<1> QED
  BY <1>1, <1>2, <1>3 DEF IInv

(* The host's steps: whatever writes the space starts a fresh history. *)
LEMMA HostInv == IInv /\ HostStep => IInv'
<1> SUFFICES ASSUME IInv, HostStep PROVE IInv'
  OBVIOUS
<1> USE DEF IInv
<1>1. pc = "host" /\ TypeOK
  BY DEF HostStep, VmInit, VmFree, Load, BuildBootLayer, HostWrite, CallRun
<1>2. CASE VmInit \/ VmFree
  <2>1. /\ space' = {} /\ last_err' = NoErr(0) /\ rc' = "none" /\ pc' = "host"
        /\ vm' \in {"none", "live", "freed"} /\ tick_counter' = 0
        /\ UNCHANGED <<files, slot, life>> /\ FreshHistory /\ written' = FALSE
    BY <1>1, <1>2 DEF VmInit, VmFree
  <2>2. TypeOK'
    BY <1>1, <2>1, NoErrType DEF TypeOK, InTick, FreshHistory, files
  <2>3. FrameInv'
    BY <2>1, SelfAgree DEF FrameInv, FreshHistory, Agree
  <2>4. ErrorInv' /\ ServiceInv'
    BY <2>1, NoErrType DEF ErrorInv, ServiceInv, PrintThenHalt, InTick
  <2> QED
    BY <2>2, <2>3, <2>4
<1>3. CASE Load \/ BuildBootLayer
  <2>1. /\ vm = "live" /\ rc = "none" /\ FreshHistory
        /\ UNCHANGED <<tick_counter, last_err, files, pc, call, written>>
    BY <1>3 DEF Load, BuildBootLayer, machine
  <2>6. vm' = "live" \/ (vm' = "overrun" /\ ProcessorN = 1)
    <3>1. Load => vm' = "live"
      BY <2>1 DEF Load, machine
    <3>2. BuildBootLayer => vm' = "live" \/ (vm' = "overrun" /\ ~BootSupported)
      BY <2>1 DEF BuildBootLayer
    <3> QED
      BY <1>3, <3>1, <3>2, Sizes DEF BootSupported
  <2>2. space' \subseteq Bits
    <3>1. CASE Load
      BY <3>1, VMAssumption DEF Load
    <3>2. CASE BuildBootLayer
      <4>1. PICK ptr \in BootPointers :
              space' = IF ptr < pow2[AddrBits] /\ BootSupported THEN BootLayer(space, ptr)
                                                             ELSE space
        BY <3>2 DEF BuildBootLayer
      <4>2. space \in SUBSET Bits
        BY DEF TypeOK
      <4>3. BootSupported => BootLayer(space, ptr) \subseteq Bits
        BY <4>2, BootLayerInSpace
      <4> QED
        BY <4>1, <4>2, <4>3
    <3> QED
      BY <1>3, <3>1, <3>2
  <2>3. TypeOK'
    BY <1>1, <2>1, <2>2, <2>6 DEF TypeOK, InTick, FreshHistory, files, call
  <2>4. FrameInv'
    BY <2>1 DEF FrameInv, FreshHistory, Agree
  <2>5. ErrorInv' /\ ServiceInv'
    BY <1>1, <2>1 DEF ErrorInv, ServiceInv, PrintThenHalt, InTick, call
  <2> QED
    BY <2>3, <2>4, <2>5
<1>5. CASE HostWrite
  <2>1. /\ vm = "live" /\ rc # "none" /\ FreshHistory /\ written' = TRUE
        /\ UNCHANGED <<machine, files, pc, call>>
    BY <1>5 DEF HostWrite
  <2>2. space' \subseteq Bits
    <3>1. PICK p \in Patches :
            space' = IF "ins" \in DOMAIN p THEN vm_write_inst(space, SlotIp(p.slot), p.ins)
                                          ELSE vm_bit_set(space, p.bit, p.to)
      BY <1>5 DEF HostWrite
    <3>2. space \in SUBSET Bits
      BY DEF TypeOK
    <3>3. CASE p \in [slot : 0..(ProcessorN - 1), ins : Inst]
      <4>1. "ins" \in DOMAIN p /\ p.slot \in 0..(ProcessorN - 1)
        BY <3>3
      <4>2. vm_write_inst(space, SlotIp(p.slot), p.ins) \subseteq Bits
        BY <3>2, <4>1, WriteInstInSpace
      <4> QED
        BY <3>1, <4>1, <4>2
    <3>4. CASE p \in [bit : Bits, to : {0, 1}]
      <4>1. "ins" \notin DOMAIN p /\ p.bit \in Bits
        BY <3>4
      <4> QED
        BY <3>1, <3>2, <4>1 DEF vm_bit_set
    <3> QED
      BY <3>3, <3>4, VMAssumption
  <2>3. TypeOK'
    BY <1>1, <2>1, <2>2 DEF TypeOK, InTick, FreshHistory, machine, files, call
  <2>4. FrameInv'
    BY <2>1 DEF FrameInv, FreshHistory, Agree
  <2>5. ErrorInv' /\ ServiceInv'
    BY <1>1, <2>1 DEF ErrorInv, ServiceInv, PrintThenHalt, InTick, machine, call
  <2> QED
    BY <2>3, <2>4, <2>5
<1>4. CASE CallRun
  <2>1. life' \in Nat
    BY <1>4, VMAssumption DEF CallRun
  <2>2. /\ pc' = "tick"
        /\ UNCHANGED <<machine, space, files, slot, rc, history>>
    BY <1>4 DEF CallRun
  <2>3. TypeOK'
    BY <1>1, <2>1, <2>2 DEF TypeOK, InTick, machine, files, history
  <2>4. FrameInv'
    BY <2>2 DEF FrameInv, Agree, Touched, history
  <2>5. ErrorInv' /\ ServiceInv'
    BY <1>1, <2>2 DEF ErrorInv, Report, ServiceInv, PrintThenHalt, InTick, machine, history
  <2> QED
    BY <2>3, <2>4, <2>5
<1> QED
  BY <1>2, <1>3, <1>4, <1>5 DEF HostStep

(* vm_run and the beginning of vm_tick. *)
LEMMA RunInv == IInv /\ (RunOut \/ NoSpace \/ TickBegin) => IInv'
<1> SUFFICES ASSUME IInv, RunOut \/ NoSpace \/ TickBegin PROVE IInv'
  OBVIOUS
<1> USE DEF IInv
<1>1. CASE RunOut \/ NoSpace
  <2>1. /\ pc = "tick" /\ pc' = "host"
        /\ rc' = "VM_OK" \/ (rc' = "VM_ERR" /\ vm # "live")
        /\ UNCHANGED <<machine, space, files, slot, history>>
    BY <1>1 DEF RunOut, NoSpace
  <2>2. life' \in Nat
    BY <1>1 DEF RunOut, NoSpace, TypeOK
  <2>3. TypeOK'
    BY <2>1, <2>2 DEF TypeOK, InTick, machine, files, history
  <2>4. FrameInv'
    BY <2>1 DEF FrameInv, Agree, Touched, history
  <2>5. ErrorInv' /\ ServiceInv'
    BY <2>1 DEF ErrorInv, Report, ServiceInv, PrintThenHalt, InTick, machine, history
  <2> QED
    BY <2>3, <2>4, <2>5
<1>2. CASE TickBegin
  <2>1. /\ pc = "tick" /\ pc' = "out" /\ vm = "live" /\ space' = space
        /\ last_err' = NoErr(tick_counter) /\ life' \in Nat
        /\ UNCHANGED <<vm, tick_counter, files, slot, rc>>
        /\ FreshHistory /\ written' = FALSE
    BY <1>2 DEF TickBegin, TypeOK
  <2>2. TypeOK'
    BY <2>1, NoErrType DEF TypeOK, InTick, FreshHistory, files
  <2>3. FrameInv'
    BY <2>1 DEF FrameInv, FreshHistory, Agree
  <2>4. ErrorInv' /\ ServiceInv'
    BY <2>1, NoErrType DEF ErrorInv, ServiceInv, PrintThenHalt, FreshHistory, TypeOK
  <2> QED
    BY <2>2, <2>3, <2>4
<1> QED
  BY <1>1, <1>2

(* A frame grows by what a step changes. *)
LEMMA FrameStep ==
  ASSUME NEW m, NEW A, FrameInv, Agree(space, m, A)
  PROVE  Agree(start, m, Touched \cup A)
BY Zenon DEF FrameInv, Agree

(* service_out writes status registers only. *)
LEMMA OutInv == IInv /\ (OutIdle \/ OutRefuse \/ OutWrite) => IInv'
<1> SUFFICES ASSUME IInv, OutIdle \/ OutRefuse \/ OutWrite PROVE IInv'
  OBVIOUS
<1> USE DEF IInv
<1>1. /\ pc = "out" /\ pc' = "in"
      /\ UNCHANGED <<machine, rest, eof, err, call, history>>
  BY DEF OutIdle, OutRefuse, OutWrite, files
<1>2. Agree(space, space', Status) /\ OutReq \notin space'
  <2>1. CASE OutIdle
    BY <2>1, SelfAgree DEF OutIdle
  <2>2. CASE OutRefuse
    BY <2>2, OutFrame DEF OutRefuse
  <2>3. CASE OutWrite
    <3>1. PICK put : space' = OutAnswered(OutCleared, 8 * put, put # (out_len \div 8))
      BY <2>3 DEF OutWrite
    <3> QED
      BY <3>1, OutFrame
  <2> QED
    BY <2>1, <2>2, <2>3
<1>3. printed' \in Seq(SUBSET (0..7))
  <2>1. CASE OutIdle \/ OutRefuse
    BY <2>1 DEF OutIdle, OutRefuse, files, TypeOK
  <2>2. CASE OutWrite
    <3>1. PICK put \in {out_len \div 8} \cup (ShortCounts \cap 0..(out_len \div 8)) :
            printed' = printed \o
              [k \in 1..put |-> Byte(OutCleared, out_src \div 8 + k - 1)]
      BY <2>2 DEF OutWrite
    <3>2. put \in Nat
      BY UIntNat, <3>1 DEF out_len
    <3> DEFINE bytes == [k \in 1..put |-> Byte(OutCleared, out_src \div 8 + k - 1)]
    <3>3. ASSUME NEW k \in 1..put
          PROVE  Byte(OutCleared, out_src \div 8 + k - 1) \in SUBSET (0..7)
      BY DEF Byte
    <3>4. bytes \in Seq(SUBSET (0..7))
      BY <3>2, <3>3, IsASeq
    <3> HIDE DEF bytes
    <3>5. printed' = printed \o bytes
      BY <3>1 DEF bytes
    <3> QED
      BY <3>4, <3>5 DEF TypeOK
  <2> QED
    BY <2>1, <2>2
<1>4. space' \subseteq Bits
  BY <1>2, StatusInSpace, AgreeInSpace DEF TypeOK
<1>5. TypeOK'
  BY <1>1, <1>3, <1>4 DEF TypeOK, InTick, machine, call, history
<1>6. FrameInv'
  <2>1. Agree(start, space', Touched \cup Status)
    BY <1>2, FrameStep
  <2>2. Touched \cup Status = Touched'
    BY <1>1, Zenon DEF Touched, history
  <2> QED
    BY <1>1, <2>1, <2>2 DEF FrameInv, history
<1>7. ErrorInv' /\ ServiceInv'
  BY <1>1, <1>2 DEF ErrorInv, ServiceInv, PrintThenHalt, InTick, machine, call, history
<1> QED
  BY <1>5, <1>6, <1>7

LEMMA FreadType ==
  ASSUME TypeOK, NEW nbytes \in Nat, NEW r \in FreadOutcomes(nbytes)
  PROVE  /\ r.got \in Nat /\ r.got <= nbytes /\ r.got <= Len(rest)
         /\ r.eof \in BOOLEAN /\ r.err \in BOOLEAN
<1>1. Len(rest) \in Nat /\ eof \in BOOLEAN /\ err \in BOOLEAN
  BY DEF TypeOK
<1> DEFINE full == IF nbytes <= Len(rest) THEN nbytes ELSE Len(rest)
<1>2. full \in Nat /\ full <= nbytes /\ full <= Len(rest) /\ (full < nbytes) \in BOOLEAN
  BY <1>1
<1>3. \/ r = [got |-> full, eof |-> eof \/ full < nbytes, err |-> err]
      \/ \E g \in {k \in ShortCounts : k <= full /\ k < nbytes} :
           r = [got |-> g, eof |-> eof, err |-> TRUE]
  BY Zenon DEF FreadOutcomes
<1> HIDE DEF full
<1>4. CASE r = [got |-> full, eof |-> eof \/ full < nbytes, err |-> err]
  <2>1. r.got = full /\ r.eof = (eof \/ full < nbytes) /\ r.err = err
    BY <1>4
  <2>2. (eof \/ full < nbytes) \in BOOLEAN
    OBVIOUS
  <2> QED
    BY <1>1, <1>2, <2>1, <2>2
<1>5. CASE \E g \in {k \in ShortCounts : k <= full /\ k < nbytes} :
             r = [got |-> g, eof |-> eof, err |-> TRUE]
  <2>1. PICK g \in ShortCounts :
          g <= full /\ g < nbytes /\ r = [got |-> g, eof |-> eof, err |-> TRUE]
    BY <1>5
  <2>2. g \in Nat
    BY VMAssumption
  <2>3. r.got = g /\ r.eof = eof /\ r.err = TRUE
    BY <2>1
  <2> QED
    BY <1>1, <1>2, <2>1, <2>2, <2>3
<1> QED
  BY <1>3, <1>4, <1>5

(* service_in writes status registers and the bytes it has read, whose bits  *)
(* dma records.                                                              *)
LEMMA InInv == IInv /\ (InIdle \/ InRefuse \/ InRead) => IInv'
<1> SUFFICES ASSUME IInv, InIdle \/ InRefuse \/ InRead PROVE IInv'
  OBVIOUS
<1> USE DEF IInv
<1>1. /\ pc = "in" /\ pc' = "halt" /\ dma = {} /\ OutReq \notin space
      /\ UNCHANGED <<machine, printed, call, start, notes, written>>
  BY DEF InIdle, InRefuse, InRead, files, history, ServiceInv
<1>2. CASE InIdle \/ InRefuse
  <2>1. UNCHANGED <<rest, eof, err, dma>>
    BY <1>2 DEF InIdle, InRefuse, files, history
  <2>2. Agree(space, space', Status) /\ InReq \notin space' /\ OutReq \notin space'
    <3>1. CASE InIdle
      BY <1>1, <3>1, SelfAgree DEF InIdle
    <3>2. CASE InRefuse
      <4>1. space' = InAnswered(InCleared, 0, FALSE, TRUE)
        BY <3>2 DEF InRefuse
      <4>2. /\ Agree(InCleared, space', Status \ {OutReq}) /\ InReq \notin space'
        BY <4>1, InAnsweredFrame
      <4>3. OutReq \notin InCleared
        BY <1>1 DEF InCleared
      <4> QED
        BY <4>2, <4>3, InClearedFrame, Zenon DEF Agree
    <3> QED
      BY <1>2, <3>1, <3>2
  <2>3. space' \subseteq Bits
    BY <2>2, StatusInSpace, AgreeInSpace DEF TypeOK
  <2>4. TypeOK'
    BY <1>1, <2>1, <2>3 DEF TypeOK, InTick, machine, call
  <2>5. FrameInv'
    <3>1. Agree(start, space', Touched \cup Status)
      BY <2>2, FrameStep
    <3>2. Touched \cup Status = Touched'
      BY <1>1, <2>1, Zenon DEF Touched
    <3> QED
      BY <1>1, <3>1, <3>2 DEF FrameInv
  <2>6. ErrorInv' /\ ServiceInv'
    BY <1>1, <2>2 DEF ErrorInv, ServiceInv, PrintThenHalt, InTick, machine, call
  <2> QED
    BY <2>4, <2>5, <2>6
<1>3. CASE InRead
  <2> DEFINE nbytes == in_len \div 8
  <2>1. PICK r \in IF nbytes = 0 THEN {[got |-> 0, eof |-> eof, err |-> err]}
                                 ELSE FreadOutcomes(nbytes) :
          /\ space' = InAnswered(Stored(InCleared, in_dst, SubSeq(rest, 1, r.got)),
                                 8 * r.got,
                                 nbytes > 0 /\ r.got = 0 /\ r.eof,
                                 nbytes > 0 /\ r.err)
          /\ rest' = SubSeq(rest, r.got + 1, Len(rest))
          /\ eof' = r.eof /\ err' = r.err
          /\ dma' = BitRange(in_dst, 8 * r.got)
    BY <1>3 DEF InRead
  <2>2. /\ in_dst \in Nat /\ in_len \in Nat /\ in_len % 8 = 0
        /\ in_dst + in_len <= SpaceBits
    BY <1>3, UIntNat, Sizes DEF InRead, Refused, in_dst, in_len
  <2>3. /\ r.got \in Nat /\ r.got <= nbytes /\ r.got <= Len(rest)
        /\ r.eof \in BOOLEAN /\ r.err \in BOOLEAN
    <3>1. rest \in Seq(SUBSET (0..7)) /\ Len(rest) \in Nat /\ nbytes \in Nat
          /\ eof \in BOOLEAN /\ err \in BOOLEAN
      BY <2>2 DEF TypeOK
    <3> HIDE DEF nbytes
    <3>2. CASE nbytes = 0
      BY <2>1, <3>1, <3>2
    <3>3. CASE nbytes # 0
      <4>1. r \in FreadOutcomes(nbytes)
        BY <2>1, <3>3
      <4> QED
        BY <3>1, <3>3, <4>1, FreadType
    <3> QED
      BY <3>2, <3>3
  <2>4. dma' \subseteq Bits
    <3>1. 8 * r.got \in Nat /\ in_dst + 8 * r.got <= SpaceBits
      BY <2>2, <2>3, Sizes
    <3> QED
      BY <2>1, <2>2, <3>1, RangeInSpace
  <2> DEFINE bytes == SubSeq(rest, 1, r.got)
             m == Stored(InCleared, in_dst, bytes)
  <2>5. Len(bytes) = r.got /\ rest' \in Seq(SUBSET (0..7))
    <3>1. \A j \in 1..Len(rest) : rest[j] \in SUBSET (0..7)
      BY DEF TypeOK
    <3>2. Len(rest) \in Nat
      BY DEF TypeOK
    <3>3. \A j \in 1 .. r.got : rest[j] \in SUBSET (0..7)
      BY <2>3, <3>1, <3>2
    <3>4. \A j \in r.got + 1 .. Len(rest) : rest[j] \in SUBSET (0..7)
      BY <2>3, <3>1, <3>2
    <3>5. Len(bytes) = r.got
      BY <2>3, <3>3, SubSeqProperties
    <3>6. SubSeq(rest, r.got + 1, Len(rest)) \in Seq(SUBSET (0..7))
      BY <2>3, <3>2, <3>4, SubSeqProperties
    <3> QED
      BY <2>1, <3>5, <3>6
  <2>6. Agree(InCleared, m, dma')
    BY <2>1, <2>5, StoredFrame
  <2>7. /\ Agree(m, space', Status \ {OutReq}) /\ InReq \notin space'
    BY <2>1, InAnsweredFrame
  <2> HIDE DEF m
  <2>8. Agree(space, space', Status \cup dma') /\ (OutReq \in space' => OutReq \in dma')
    <3>1. OutReq \notin InCleared
      BY <1>1 DEF InCleared
    <3> QED
      BY <2>6, <2>7, <3>1, InClearedFrame, Zenon DEF Agree
  <2>9. space' \subseteq Bits
    <3>1. Status \cup dma' \in SUBSET Bits
      BY <2>4, StatusInSpace
    <3> QED
      BY <2>8, <3>1, AgreeInSpace DEF TypeOK
  <2>10. TypeOK'
    <3>1. eof' \in BOOLEAN /\ err' \in BOOLEAN
      BY <2>1, <2>3
    <3> QED
      BY <1>1, <2>4, <2>5, <2>9, <3>1 DEF TypeOK, InTick, machine, call
  <2>11. FrameInv'
    <3>1. Agree(start, space', Touched \cup (Status \cup dma'))
      BY <2>8, FrameStep
    <3>2. Touched \cup (Status \cup dma') = Touched'
      BY <1>1, Zenon DEF Touched
    <3> QED
      BY <1>1, <3>1, <3>2 DEF FrameInv
  <2>12. ErrorInv' /\ ServiceInv'
    BY <1>1, <2>7, <2>8 DEF ErrorInv, ServiceInv, PrintThenHalt, InTick, machine, call
  <2> QED
    BY <2>10, <2>11, <2>12
<1> QED
  BY <1>2, <1>3

(* The HALT test sees what both services have left. *)
LEMMA HaltInv == IInv /\ (HaltStop \/ HaltPass) => IInv'
<1> SUFFICES ASSUME IInv, HaltStop \/ HaltPass PROVE IInv'
  OBVIOUS
<1> USE DEF IInv
<1>1. CASE HaltStop
  <2>1. /\ pc = "halt" /\ pc' = "host" /\ rc' = "VM_HALT" /\ Halt \in space
        /\ tick_counter' = tick_counter + 1
        /\ UNCHANGED <<vm, last_err, space, files, slot, life, history>>
    BY <1>1 DEF HaltStop
  <2>2. TypeOK'
    BY <2>1 DEF TypeOK, InTick, files, history
  <2>3. FrameInv'
    BY <2>1 DEF FrameInv, Agree, Touched, history
  <2>4. ErrorInv' /\ ServiceInv'
    BY <2>1 DEF ErrorInv, ServiceInv, PrintThenHalt, InTick, history
  <2> QED
    BY <2>2, <2>3, <2>4
<1>2. CASE HaltPass
  <2>1. /\ pc = "halt" /\ pc' = "slot" /\ slot' = 0
        /\ UNCHANGED <<machine, space, files, life, rc, history>>
    BY <1>2 DEF HaltPass
  <2>2. TypeOK'
    BY <2>1, Sizes DEF TypeOK, InTick, machine, files, history
  <2>3. FrameInv'
    BY <2>1 DEF FrameInv, Agree, Touched, history
  <2>4. ErrorInv' /\ ServiceInv'
    BY <2>1 DEF ErrorInv, ServiceInv, PrintThenHalt, InTick, machine, history
  <2> QED
    BY <2>2, <2>3, <2>4
<1> QED
  BY <1>1, <1>2

(* A slot changes bits of the destination note_copy was told of, or nothing. *)
LEMMA SlotInv == IInv /\ (SlotNop \/ SlotBounds \/ SlotCopy \/ TickEnd) => IInv'
<1> SUFFICES ASSUME IInv, SlotNop \/ SlotBounds \/ SlotCopy \/ TickEnd PROVE IInv'
  OBVIOUS
<1> USE DEF IInv
<1>1. pc = "slot" /\ slot \in 0..ProcessorN /\ ProcessorN \in Nat
  BY Sizes DEF SlotNop, SlotBounds, SlotCopy, TickEnd, TypeOK
<1>2. Fetched \in Inst /\ Fetched = vm_read_inst(space, SlotIp(slot))
  BY InstType DEF Fetched
<1>3. CASE SlotNop \/ TickEnd
  <2>1. /\ pc' \in {"slot", "tick"} /\ slot' \in 0..ProcessorN
        /\ tick_counter' \in Nat
        /\ UNCHANGED <<vm, last_err, space, files, life, rc, history>>
    BY <1>1, <1>3 DEF SlotNop, TickEnd, machine, call, TypeOK
  <2>2. last_err.kind = "VM_E_NONE"
    BY <1>1 DEF ErrorInv, InTick
  <2>3. TypeOK'
    BY <1>1, <2>1 DEF TypeOK, InTick, files, history
  <2>4. FrameInv'
    BY <2>1 DEF FrameInv, Agree, Touched, history
  <2>5. ErrorInv' /\ ServiceInv'
    BY <2>1, <2>2 DEF ErrorInv, ServiceInv, PrintThenHalt, InTick
  <2> QED
    BY <2>3, <2>4, <2>5
<1>4. CASE SlotBounds
  <2> DEFINE kind == IF SrcOut(Fetched) THEN "VM_E_SRC_BOUNDS" ELSE "VM_E_DST_BOUNDS"
             rep == [kind |-> kind, tick |-> tick_counter, slot |-> slot, ins |-> Fetched]
  <2>1. /\ Fetched.n # 0 /\ (SrcOut(Fetched) \/ DstOut(Fetched))
        /\ last_err' = rep /\ rc' = "VM_ERR" /\ pc' = "host"
        /\ UNCHANGED <<vm, tick_counter, space, files, slot, life, history>>
    BY <1>4 DEF SlotBounds
  <2>2. /\ rep.kind = kind /\ rep.tick = tick_counter
        /\ rep.slot = slot /\ rep.ins = Fetched
    OBVIOUS
  <2>3. kind \in {"VM_E_SRC_BOUNDS", "VM_E_DST_BOUNDS"}
    OBVIOUS
  <2>4. rep \in [kind : {"VM_E_NONE", "VM_E_SRC_BOUNDS", "VM_E_DST_BOUNDS"},
                 tick : Nat, slot : Nat, ins : Inst]
    <3>1. tick_counter \in Nat /\ slot \in Nat
      BY <1>1 DEF TypeOK
    <3> HIDE DEF kind
    <3> QED
      BY <1>2, <2>3, <3>1
  <2>5. Report'
    <3>1. Fetched.n \in Nat /\ Fetched.n > 0
      BY <1>2, <2>1 DEF Inst
    <3>2. kind = "VM_E_SRC_BOUNDS" <=> SrcOut(Fetched)
      OBVIOUS
    <3>3. kind = "VM_E_DST_BOUNDS" => DstOut(Fetched)
      BY <2>1
    <3> HIDE DEF kind, rep
    <3> QED
      BY <1>2, <2>1, <2>2, <3>1, <3>2, <3>3 DEF Report, SrcOut, DstOut
  <2> HIDE DEF rep
  <2>6. TypeOK'
    BY <2>1, <2>4 DEF TypeOK, InTick, files, history
  <2>7. FrameInv'
    BY <2>1 DEF FrameInv, Agree, Touched, history
  <2>8. ErrorInv'
    <3>1. last_err'.kind # "VM_E_NONE"
      BY <2>1, <2>2, <2>3
    <3> QED
      BY <2>1, <2>5, <3>1 DEF ErrorInv, InTick
  <2>9. ServiceInv'
    BY <2>1 DEF ServiceInv, PrintThenHalt
  <2> QED
    BY <2>6, <2>7, <2>8, <2>9
<1>5. CASE SlotCopy
  <2> DEFINE n == Fetched.n
             dst == Fetched.dst
             src == Fetched.src
  <2>1. /\ slot < ProcessorN /\ ~DstOut(Fetched)
        /\ notes' = notes \cup {Fetched} /\ slot' = slot + 1
        /\ UNCHANGED <<machine, files, pc, life, rc, start, dma, written>>
    BY <1>5 DEF SlotCopy
  <2>2. PICK past \in OverReads :
          space' = bitcpy(space \cup past, n, src, dst) \ past
    BY <1>5 DEF SlotCopy
  <2>3. BitRange(dst, n) \subseteq Bits
    <3>1. n \in Nat /\ dst \in Nat /\ dst + n <= SpaceBits
      BY <1>2, <2>1, Sizes DEF DstOut, Inst
    <3> QED
      BY <3>1, RangeInSpace
  <2>4. past \cap Bits = {} /\ space \subseteq Bits
    BY <2>2, VMAssumption DEF TypeOK
  <2>5. Agree(space, space', BitRange(dst, n))
    <3>1. Agree(space \cup past, bitcpy(space \cup past, n, src, dst), BitRange(dst, n))
      BY bitcpyFrame
    <3> HIDE DEF n, dst, src
    <3> QED
      BY <2>2, <2>4, <3>1, Zenon DEF Agree
  <2>6. space' \subseteq Bits
    BY <2>3, <2>4, <2>5, AgreeInSpace
  <2>7. TypeOK'
    <3>1. slot' \in 0..ProcessorN
      BY <1>1, <2>1
    <3>2. notes' \subseteq Inst
      BY <1>2, <2>1 DEF TypeOK
    <3> QED
      BY <2>1, <2>6, <3>1, <3>2 DEF TypeOK, InTick, machine, files
  <2>8. FrameInv'
    <3>1. Agree(start, space', Touched \cup BitRange(dst, n))
      BY <2>5, FrameStep
    <3>2. Touched \cup BitRange(dst, n) \subseteq Touched'
      BY <2>1, Zenon DEF Touched
    <3> HIDE DEF n, dst
    <3> QED
      BY <2>1, <3>1, <3>2, Zenon DEF FrameInv, Agree
  <2>9. ErrorInv' /\ ServiceInv'
    BY <1>1, <2>1 DEF ErrorInv, ServiceInv, PrintThenHalt, InTick, machine
  <2> QED
    BY <2>7, <2>8, <2>9
<1> QED
  BY <1>3, <1>4, <1>5

LEMMA NextInv == IInv /\ [Next]_vars => IInv'
<1> SUFFICES ASSUME IInv, [Next]_vars PROVE IInv'
  OBVIOUS
<1>1. CASE UNCHANGED vars
  BY <1>1 DEF vars, machine, files, call, history, IInv, TypeOK, FrameInv, Agree, Touched,
     ErrorInv, Report, InTick, ServiceInv, PrintThenHalt
<1>2. CASE Next
  BY <1>2, HostInv, RunInv, OutInv, InInv, HaltInv, SlotInv DEF Next, VmStep
<1> QED
  BY <1>1, <1>2

(* Safety owes nothing to fairness: modules that take this module's steps    *)
(* under a specification of their own cite these lemmas.                     *)
LEMMA Invariance == Init /\ [][Next]_vars => []IInv
BY InitInv, NextInv, PTL

-----------------------------------------------------------------------------
(* Every variable keeps its type: in particular no service and no slot sets a *)
(* bit outside the allocated space, whatever program runs, and the loader    *)
(* builder writes out of it only in a machine of one slot, where it does.    *)
THEOREM TypeCorrect == Spec => []TypeOK
BY Invariance, PTL DEF IInv, Spec

(* The report of a failed tick is true and stays true until the next one.    *)
THEOREM ErrorReportCorrect == Spec => []ErrorReport
<1>1. IInv => ErrorReport
  BY DEF IInv, ErrorInv, Report, ErrorReport
<1> QED
  BY <1>1, Invariance, PTL DEF Spec

(* The hooks see every change a tick makes that is not I/O.                  *)
THEOREM ExplainedCorrect == Spec => []Explained
<1>1. IInv => Explained
  <2> SUFFICES ASSUME FrameInv, NEW b \in space \cup start,
                      ~(b \in space /\ b \in start), b \notin Status \cup dma
               PROVE  \E i \in notes : b \in BitRange(i.dst, i.n)
    BY DEF IInv, Explained
  <2> QED
    BY Zenon DEF FrameInv, Agree, Touched
<1> QED
  BY <1>1, Invariance, PTL DEF Spec

(* VM_HALT is returned with both requests served.                            *)
THEOREM PrintThenHaltCorrect == Spec => []PrintThenHalt
<1>1. IInv => PrintThenHalt
  BY DEF IInv, ServiceInv
<1> QED
  BY <1>1, Invariance, PTL DEF Spec

-----------------------------------------------------------------------------
(* fwrite runs before anything else in a tick has written the space. *)
LEMMA PrintsStart ==
  ASSUME IInv, OutWrite,
         NEW k \in Len(printed) + 1 .. Len(printed'), NEW q \in 0..7,
         UInt(start, OutSrc) + 8 * (k - Len(printed) - 1) + q \notin Status
  PROVE  q \in printed'[k]
           <=> UInt(start, OutSrc) + 8 * (k - Len(printed) - 1) + q \in start
<1> DEFINE first == out_src \div 8
           L == Len(printed)
           j == k - L
           byte(x) == Byte(OutCleared, first + x - 1)
<1>1. start = space /\ pc = "out"
  BY DEF IInv, ServiceInv, OutWrite
<1>2. PICK put \in {out_len \div 8} \cup (ShortCounts \cap 0..(out_len \div 8)) :
        printed' = printed \o [x \in 1..put |-> byte(x)]
  BY DEF OutWrite
<1>3. put \in Nat /\ L \in Nat /\ printed \in Seq(SUBSET (0..7))
  BY UIntNat, <1>2 DEF out_len, IInv, TypeOK
<1>4. out_src \in Nat /\ out_src = 8 * first /\ first \in Nat
  BY UIntNat DEF OutWrite, Refused, out_src
<1> DEFINE bytes == [x \in 1..put |-> byte(x)]
<1>5. bytes \in Seq(SUBSET (0..7)) /\ Len(bytes) = put
  <2>1. ASSUME NEW x \in 1..put PROVE byte(x) \in SUBSET (0..7)
    BY DEF Byte
  <2> HIDE DEF byte
  <2> QED
    BY <1>3, <2>1, IsASeq
<1>6. ASSUME NEW x \in 1..put PROVE bytes[x] = Byte(OutCleared, first + x - 1)
  BY <1>6
<1> HIDE DEF bytes
<1>7. Len(printed') = L + put /\ \A x \in 1..put : printed'[L + x] = bytes[x]
  <2> HIDE DEF L
  <2>1. /\ Len(printed \o bytes) = Len(printed) + put
        /\ \A x \in 1 .. Len(printed) + put : (printed \o bytes)[x]
             = IF x <= Len(printed) THEN printed[x] ELSE bytes[x - Len(printed)]
    BY <1>3, <1>5, ConcatProperties
  <2>2. printed' = printed \o bytes
    BY <1>2 DEF bytes
  <2>3. L = Len(printed)
    BY DEF L
  <2> QED
    BY <1>3, <2>1, <2>2, <2>3
<1>8. j \in 1..put /\ k = L + j
  BY <1>3, <1>7
<1>9. printed'[k] = Byte(OutCleared, first + j - 1)
  BY <1>6, <1>7, <1>8
<1> DEFINE b == 8 * (first + j - 1) + q
<1>10. b = UInt(start, OutSrc) + 8 * (k - Len(printed) - 1) + q
  <2>1. UInt(start, OutSrc) = 8 * first
    BY <1>1, <1>4 DEF out_src
  <2> HIDE DEF first
  <2> QED
    BY <1>3, <1>4, <1>8, <2>1
<1>11. q \in printed'[k] <=> b \in OutCleared
  BY <1>9 DEF Byte
<1>12. b \notin Status => (b \in OutCleared <=> b \in space)
  BY Zenon DEF OutCleared, Status
<1> HIDE DEF b, j, L
<1> QED
  BY <1>1, <1>10, <1>11, <1>12

LEMMA OutputSafety == Init /\ [][Next]_vars => OutputFromStart
<1> DEFINE FromStart ==
      \A k \in Len(printed) + 1 .. Len(printed') :
        \A q \in 0..7 :
          LET b == UInt(start, OutSrc) + 8 * (k - Len(printed) - 1) + q
          IN  b \notin Status => (q \in printed'[k] <=> b \in start)
<1>1. IInv /\ [Next]_vars => [FromStart]_vars
  <2>1. CASE OutWrite
    BY <2>1, PrintsStart
  <2>2. ASSUME IInv, printed' = printed PROVE FromStart
    <3>1. Len(printed) \in Nat
      BY <2>2 DEF IInv, TypeOK
    <3> QED
      BY <2>2, <3>1
  <2>3. Next => OutWrite \/ printed' = printed
    BY DEF Next, HostStep, VmInit, VmFree, Load, BuildBootLayer, HostWrite, CallRun, VmStep,
       RunOut, NoSpace, TickBegin, OutIdle, OutRefuse, InIdle, InRefuse, InRead,
       HaltStop, HaltPass, SlotNop, SlotBounds, SlotCopy, TickEnd, files
  <2> QED
    BY <2>1, <2>2, <2>3
<1>2. Init /\ [][Next]_vars => [][FromStart]_vars
  BY <1>1, Invariance, PTL
<1> QED
  BY <1>2 DEF OutputFromStart

(* Output is what memory held when the tick began.                           *)
THEOREM OutputFromStartCorrect == Spec => OutputFromStart
BY OutputSafety, PTL DEF Spec

-----------------------------------------------------------------------------
(* What the services answer. *)

(* A number not above one that a register held can be read back from a       *)
(* register it is written to.                                                *)
LEMMA FitsRegister ==
  ASSUME NEW m, NEW pos \in Int, NEW v \in Nat, v <= UInt(m, pos)
  PROVE  Shr(v, AddrBits) = 0
<1>1. UInt(m, pos) \in Nat /\ Shr(UInt(m, pos), AddrBits) = 0
  BY Sizes, NumberBits DEF UInt
<1>2. Shr(v, AddrBits) <= Shr(UInt(m, pos), AddrBits) /\ Shr(v, AddrBits) \in Nat
  BY <1>1, Sizes, ShrMonotone, ShrTurn
<1> QED
  BY <1>1, <1>2

LEMMA OutAnswer ==
  ASSUME NEW m, OutErr \notin m, NEW failed \in BOOLEAN,
         NEW got \in Nat, Shr(got, AddrBits) = 0
  PROVE  /\ UInt(OutAnswered(m, got, failed), OutGot) = got
         /\ OutDone \in OutAnswered(m, got, failed)
         /\ OutReq \notin OutAnswered(m, got, failed)
         /\ OutErr \in OutAnswered(m, got, failed) <=> failed
<1> DEFINE A == OutAnswered(m, got, failed)
<1>1. {OutReq, OutDone, OutErr} \cap BitRange(OutGot, AddrBits) = {}
      /\ OutErr # OutReq /\ OutErr # OutDone /\ OutDone # OutReq
  BY Registers, Sizes DEF BitRange
<1>2. A = (WriteUint(m, OutGot, got) \cup {OutDone} \cup (IF failed THEN {OutErr} ELSE {}))
            \ {OutReq}
  BY DEF OutAnswered
<1>3. \A b \in BitRange(OutGot, AddrBits) : b \in A <=> b \in Digits(got, OutGot, AddrBits)
  BY <1>1, <1>2, Zenon DEF WriteUint
<1>4. UInt(A, OutGot) = got
  BY <1>3, Registers, Sizes, NumberDigits DEF UInt
<1>5. OutErr \in WriteUint(m, OutGot, got) <=> OutErr \in m
  BY <1>1, Zenon DEF WriteUint, Digits
<1> QED
  BY <1>1, <1>2, <1>4, <1>5

LEMMA InAnswer ==
  ASSUME NEW m, NEW atEof \in BOOLEAN, NEW failed \in BOOLEAN,
         NEW got \in Nat, Shr(got, AddrBits) = 0
  PROVE  /\ UInt(InAnswered(m, got, atEof, failed), InGot) = got
         /\ InDone \in InAnswered(m, got, atEof, failed)
         /\ InReq \notin InAnswered(m, got, atEof, failed)
         /\ InEof \in InAnswered(m, got, atEof, failed) <=> InEof \in m \/ atEof
<1> DEFINE flagged == m \cup (IF atEof THEN {InEof} ELSE {})
                        \cup (IF failed THEN {InErr} ELSE {})
           A == InAnswered(m, got, atEof, failed)
<1>1. {InReq, InDone, InEof, InErr} \cap BitRange(InGot, AddrBits) = {}
      /\ InEof # InReq /\ InEof # InDone /\ InEof # InErr /\ InDone # InReq
  BY Registers, Sizes DEF BitRange
<1>2. A = (WriteUint(flagged, InGot, got) \cup {InDone}) \ {InReq}
  BY Zenon DEF InAnswered
<1>3. InEof \in flagged <=> InEof \in m \/ atEof
  BY <1>1
<1> HIDE DEF flagged
<1>4. \A b \in BitRange(InGot, AddrBits) : b \in A <=> b \in Digits(got, InGot, AddrBits)
  BY <1>1, <1>2, Zenon DEF WriteUint
<1>5. UInt(A, InGot) = got
  BY <1>4, Registers, Sizes, NumberDigits DEF UInt
<1>6. InEof \in WriteUint(flagged, InGot, got) <=> InEof \in flagged
  BY <1>1, Zenon DEF WriteUint, Digits
<1> QED
  BY <1>1, <1>2, <1>3, <1>5, <1>6

LEMMA InAnswerErr ==
  ASSUME NEW m, NEW atEof \in BOOLEAN, NEW failed \in BOOLEAN, NEW got
  PROVE  InErr \in InAnswered(m, got, atEof, failed) <=> InErr \in m \/ failed
<1> DEFINE flagged == m \cup (IF atEof THEN {InEof} ELSE {})
                        \cup (IF failed THEN {InErr} ELSE {})
<1>1. InErr \notin BitRange(InGot, AddrBits) /\ InErr \notin {InReq, InDone, InEof}
  BY Registers, Sizes DEF BitRange
<1>2. InAnswered(m, got, atEof, failed) = (WriteUint(flagged, InGot, got) \cup {InDone}) \ {InReq}
  BY Zenon DEF InAnswered
<1>3. InErr \in flagged <=> InErr \in m \/ failed
  BY <1>1
<1> HIDE DEF flagged
<1>4. InErr \in WriteUint(flagged, InGot, got) <=> InErr \in flagged
  BY <1>1, Zenon DEF WriteUint, Digits
<1> QED
  BY <1>1, <1>2, <1>3, <1>4

(* feof(in) is set only when everything has been read.                       *)
EofInv == eof => rest = <<>>

LEMMA FreadEof ==
  ASSUME TypeOK, EofInv, NEW nbytes \in Nat, NEW r \in FreadOutcomes(nbytes), r.eof
  PROVE  SubSeq(rest, r.got + 1, Len(rest)) = <<>>
<1>1. rest \in Seq(SUBSET (0..7)) /\ Len(rest) \in Nat
  BY DEF TypeOK
<1>2. r.got \in Nat /\ r.got >= Len(rest)
  <2>1. r.got \in Nat
    BY FreadType
  <2>2. CASE eof
    BY <1>1, <2>1, <2>2 DEF EofInv
  <2>3. CASE ~eof
    <3> DEFINE full == IF nbytes <= Len(rest) THEN nbytes ELSE Len(rest)
    <3>1. \/ r = [got |-> full, eof |-> eof \/ full < nbytes, err |-> err]
          \/ \E g \in {k \in ShortCounts : k <= full /\ k < nbytes} :
               r = [got |-> g, eof |-> eof, err |-> TRUE]
      BY Zenon DEF FreadOutcomes
    <3>2. full < nbytes => full = Len(rest)
      BY <1>1
    <3> HIDE DEF full
    <3>3. r.eof /\ eof = FALSE
      BY <1>1, <2>3 DEF TypeOK
    <3>4. CASE r = [got |-> full, eof |-> eof \/ full < nbytes, err |-> err]
      <4>1. r.got = full /\ r.eof = (eof \/ full < nbytes)
        BY <3>4
      <4>2. full < nbytes
        BY <3>3, <4>1
      <4> QED
        BY <1>1, <3>2, <4>1, <4>2
    <3>5. CASE \E g \in {k \in ShortCounts : k <= full /\ k < nbytes} :
                 r = [got |-> g, eof |-> eof, err |-> TRUE]
      BY <3>3, <3>5
    <3> QED
      BY <3>1, <3>4, <3>5
  <2> QED
    BY <2>1, <2>2, <2>3
<1> QED
  BY <1>1, <1>2, SubSeqProperties

LEMMA EofInvariant == Init /\ [][Next]_vars => []EofInv
<1>1. Init => EofInv
  BY DEF Init, EofInv
<1>2. IInv /\ EofInv /\ [Next]_vars => EofInv'
  <2> SUFFICES ASSUME TypeOK, EofInv, [Next]_vars PROVE EofInv'
    BY DEF IInv
  <2>1. CASE InRead
    <3> DEFINE nbytes == in_len \div 8
    <3>1. PICK r \in IF nbytes = 0 THEN {[got |-> 0, eof |-> eof, err |-> err]}
                                   ELSE FreadOutcomes(nbytes) :
            rest' = SubSeq(rest, r.got + 1, Len(rest)) /\ eof' = r.eof
      BY <2>1 DEF InRead
    <3>2. nbytes \in Nat
      BY UIntNat DEF in_len
    <3> HIDE DEF nbytes
    <3>3. CASE nbytes = 0
      <4>1. r.got = 0 /\ r.eof = eof
        BY <3>1, <3>3
      <4>2. rest \in Seq(SUBSET (0..7))
        BY DEF TypeOK
      <4> QED
        BY <3>1, <4>1, <4>2, SubSeqProperties DEF EofInv
    <3>4. CASE nbytes # 0
      BY <3>1, <3>2, <3>4, FreadEof DEF EofInv
    <3> QED
      BY <3>3, <3>4
  <2>2. ASSUME UNCHANGED <<rest, eof>> PROVE EofInv'
    BY <2>2 DEF EofInv
  <2>3. Next => InRead \/ UNCHANGED <<rest, eof>>
    BY DEF Next, HostStep, VmInit, VmFree, Load, BuildBootLayer, HostWrite, CallRun, VmStep,
       RunOut, NoSpace, TickBegin, OutIdle, OutRefuse, OutWrite, InIdle, InRefuse,
       HaltStop, HaltPass, SlotNop, SlotBounds, SlotCopy, TickEnd, files
  <2> QED
    BY <2>1, <2>2, <2>3 DEF vars, files
<1> QED
  BY <1>1, <1>2, Invariance, PTL

(* The two halves of AnswersTruthful. *)
OutTruthful ==
  /\ UInt(space', OutGot) = 8 * (Len(printed') - Len(printed))
  /\ OutDone \in space' /\ OutReq \notin space'
  /\ OutErr \in space' <=> UInt(space', OutGot) # out_len \/ Refused(out_src, out_len)

InTruthful ==
  /\ UInt(space', InGot) = 8 * (Len(rest) - Len(rest'))
  /\ InDone \in space' /\ InReq \notin space'
  /\ InEof \in space' /\ InEof \notin dma' =>
       eof' /\ rest = <<>> /\ in_len > 0 /\ ~Refused(in_dst, in_len)
  /\ InErr \notin dma' =>
       (InErr \in space' <=> Refused(in_dst, in_len) \/ (in_len > 0 /\ err'))

LEMMA OutRefuseTruthful == ASSUME IInv, OutRefuse PROVE OutTruthful
<1>1. /\ space' = OutAnswered(OutCleared, 0, TRUE) /\ printed' = printed
      /\ Refused(out_src, out_len)
  BY DEF OutRefuse, files
<1>2. OutErr \notin OutCleared
  BY DEF OutCleared
<1>3. Shr(0, AddrBits) = 0
  BY UIntNat, FitsRegister, Registers
<1>4. 8 * (Len(printed') - Len(printed)) = 0
  BY <1>1 DEF IInv, TypeOK
<1>5. /\ UInt(space', OutGot) = 0 /\ OutDone \in space' /\ OutReq \notin space'
      /\ OutErr \in space'
  BY <1>1, <1>2, <1>3, 0 \in Nat, TRUE \in BOOLEAN, OutAnswer
<1> QED
  BY <1>1, <1>4, <1>5 DEF OutTruthful

LEMMA OutWriteTruthful == ASSUME IInv, OutWrite PROVE OutTruthful
<1> DEFINE nbytes == out_len \div 8
           L == Len(printed)
<1>1. PICK put \in {nbytes} \cup (ShortCounts \cap 0..nbytes) :
        /\ printed' = printed \o [k \in 1..put |-> Byte(OutCleared, out_src \div 8 + k - 1)]
        /\ space' = OutAnswered(OutCleared, 8 * put, put # nbytes)
  BY DEF OutWrite
<1>2. out_len \in Nat /\ out_len = 8 * nbytes /\ nbytes \in Nat /\ ~Refused(out_src, out_len)
  <2>1. out_len \in Nat
    BY UIntNat DEF out_len
  <2> QED
    BY <2>1 DEF OutWrite, Refused
<1>3. put \in Nat /\ 8 * put <= out_len /\ (put # nbytes <=> 8 * put # out_len)
  BY <1>1, <1>2
<1>4. Shr(8 * put, AddrBits) = 0
  BY <1>3, FitsRegister, Registers DEF out_len
<1>5. OutErr \notin OutCleared
  BY DEF OutCleared
<1>6. Len(printed') = L + put
  <2> DEFINE bytes == [k \in 1..put |-> Byte(OutCleared, out_src \div 8 + k - 1)]
  <2>1. ASSUME NEW k \in 1..put
        PROVE  Byte(OutCleared, out_src \div 8 + k - 1) \in SUBSET (0..7)
    BY DEF Byte
  <2>2. bytes \in Seq(SUBSET (0..7)) /\ Len(bytes) = put
    BY <1>3, <2>1, IsASeq
  <2> HIDE DEF bytes
  <2>3. printed \in Seq(SUBSET (0..7))
    BY DEF IInv, TypeOK
  <2> QED
    BY <1>1, <2>2, <2>3, ConcatProperties DEF bytes
<1>7. L \in Nat
  BY DEF IInv, TypeOK
<1> HIDE DEF nbytes, L
<1>8. 8 * put \in Nat /\ 8 * put = 8 * (Len(printed') - L)
  BY <1>3, <1>6, <1>7
<1>9. /\ UInt(space', OutGot) = 8 * put /\ OutDone \in space' /\ OutReq \notin space'
      /\ OutErr \in space' <=> put # nbytes
  BY <1>1, <1>4, <1>5, <1>8, OutAnswer
<1> QED
  BY <1>2, <1>3, <1>8, <1>9 DEF OutTruthful, L

LEMMA InRefuseTruthful == ASSUME IInv, InRefuse PROVE InTruthful
<1>1. space' = InAnswered(InCleared, 0, FALSE, TRUE) /\ rest' = rest
      /\ Refused(in_dst, in_len)
  BY DEF InRefuse, files
<1>2. InEof \notin InCleared
  BY DEF InCleared
<1>3. Shr(0, AddrBits) = 0
  BY UIntNat, FitsRegister, Registers
<1>4. 8 * (Len(rest) - Len(rest')) = 0
  BY <1>1 DEF IInv, TypeOK
<1>5. /\ UInt(space', InGot) = 0 /\ InDone \in space' /\ InReq \notin space'
      /\ InEof \notin space' /\ InErr \in space'
  BY <1>1, <1>2, <1>3, 0 \in Nat, TRUE \in BOOLEAN, FALSE \in BOOLEAN, InAnswer, InAnswerErr
<1> QED
  BY <1>1, <1>4, <1>5 DEF InTruthful

LEMMA InReadTruthful ==
  ASSUME IInv, EofInv, EofInv', InRead
  PROVE  InTruthful
<1> DEFINE nbytes == in_len \div 8
           L == Len(rest)
<1>1. PICK r \in IF nbytes = 0 THEN {[got |-> 0, eof |-> eof, err |-> err]}
                               ELSE FreadOutcomes(nbytes) :
        /\ space' = InAnswered(Stored(InCleared, in_dst, SubSeq(rest, 1, r.got)),
                               8 * r.got,
                               nbytes > 0 /\ r.got = 0 /\ r.eof,
                               nbytes > 0 /\ r.err)
        /\ rest' = SubSeq(rest, r.got + 1, L)
        /\ eof' = r.eof /\ err' = r.err
        /\ dma' = BitRange(in_dst, 8 * r.got)
  BY DEF InRead
<1>2. in_len \in Nat /\ in_len = 8 * nbytes /\ nbytes \in Nat /\ ~Refused(in_dst, in_len)
  <2>1. in_len \in Nat
    BY UIntNat DEF in_len
  <2> QED
    BY <2>1 DEF InRead, Refused
<1>3. rest \in Seq(SUBSET (0..7)) /\ L \in Nat /\ eof \in BOOLEAN /\ err \in BOOLEAN
  BY DEF IInv, TypeOK
<1> HIDE DEF nbytes, L
<1>4. r.got \in Nat /\ r.got <= nbytes /\ r.got <= L /\ r.eof \in BOOLEAN /\ r.err \in BOOLEAN
  <2>1. CASE nbytes = 0
    BY <1>1, <1>2, <1>3, <2>1
  <2>2. CASE nbytes # 0
    BY <1>1, <1>2, <2>2, FreadType DEF IInv, L
  <2> QED
    BY <2>1, <2>2
<1>5. /\ Len(rest') = L - r.got
      /\ Len(SubSeq(rest, 1, r.got)) = r.got
      /\ (r.got = 0 => rest' = rest)
  <2>1. \A j \in 1..L : rest[j] \in SUBSET (0..7)
    BY <1>3 DEF L
  <2>2. \A j \in r.got + 1 .. L : rest[j] \in SUBSET (0..7)
    BY <1>3, <1>4, <2>1
  <2>3. \A j \in 1 .. r.got : rest[j] \in SUBSET (0..7)
    BY <1>3, <1>4, <2>1
  <2>4. Len(SubSeq(rest, r.got + 1, L)) = L - r.got
    BY <1>3, <1>4, <2>2, SubSeqProperties DEF L
  <2>5. Len(SubSeq(rest, 1, r.got)) = r.got
    BY <1>3, <1>4, <2>3, SubSeqProperties
  <2>6. SubSeq(rest, 1, L) = rest
    BY <1>3, SubSeqProperties DEF L
  <2>7. rest' = SubSeq(rest, r.got + 1, L)
    BY <1>1
  <2>8. ASSUME r.got = 0 PROVE rest' = rest
    <3>1. r.got + 1 = 1
      BY <2>8
    <3> QED
      BY <2>6, <2>7, <3>1
  <2> QED
    BY <2>4, <2>5, <2>7, <2>8
<1> DEFINE m == Stored(InCleared, in_dst, SubSeq(rest, 1, r.got))
           atEof == nbytes > 0 /\ r.got = 0 /\ r.eof
           failed == nbytes > 0 /\ r.err
<1>6. Shr(8 * r.got, AddrBits) = 0 /\ 8 * r.got \in Nat
  BY <1>2, <1>4, FitsRegister, Registers DEF in_len
<1>7. (InEof \in m => InEof \in dma') /\ (InErr \in m => InErr \in dma')
  <2>1. Agree(InCleared, m, dma')
    BY <1>1, <1>5, StoredFrame
  <2> QED
    BY <2>1 DEF Agree, InCleared
<1>8. space' = InAnswered(m, 8 * r.got, atEof, failed) /\ atEof \in BOOLEAN /\ failed \in BOOLEAN
  BY <1>1
<1>9. atEof => eof' /\ rest = <<>> /\ in_len > 0
  <2>1. ASSUME nbytes > 0, r.got = 0, r.eof PROVE eof' /\ rest = <<>> /\ in_len > 0
    <3>1. eof'
      BY <1>1, <2>1
    <3>2. rest' = <<>> /\ rest' = rest
      BY <1>5, <2>1, <3>1 DEF EofInv
    <3> QED
      BY <1>2, <2>1, <3>1, <3>2
  <2> QED
    BY <2>1
<1>12. failed <=> in_len > 0 /\ err'
  BY <1>1, <1>2
<1> HIDE DEF m, atEof, failed
<1>10. /\ UInt(space', InGot) = 8 * r.got /\ InDone \in space' /\ InReq \notin space'
       /\ InEof \in space' => InEof \in m \/ atEof
       /\ InErr \in space' <=> InErr \in m \/ failed
  <2> DEFINE got == 8 * r.got
             A == InAnswered(m, got, atEof, failed)
  <2>1. got \in Nat /\ Shr(got, AddrBits) = 0
    BY <1>6
  <2> HIDE DEF got
  <2>2. /\ UInt(A, InGot) = got /\ InDone \in A /\ InReq \notin A
        /\ InEof \in A <=> InEof \in m \/ atEof
    BY <1>8, <2>1, InAnswer
  <2>3. InErr \in A <=> InErr \in m \/ failed
    BY <1>8, InAnswerErr
  <2>4. space' = A
    BY <1>8 DEF got
  <2> HIDE DEF A
  <2> QED
    BY <2>2, <2>3, <2>4 DEF got
<1>11. 8 * r.got = 8 * (L - Len(rest'))
  BY <1>3, <1>4, <1>5
<1>13. InErr \notin dma' => (InErr \in space' <=> Refused(in_dst, in_len) \/ (in_len > 0 /\ err'))
  BY <1>2, <1>7, <1>10, <1>12
<1> QED
  BY <1>2, <1>7, <1>9, <1>10, <1>11, <1>13 DEF InTruthful, L

LEMMA AnswersSafety == Init /\ [][Next]_vars => AnswersTruthful
<1> DEFINE Truthful == /\ (pc = "in" /\ InReq \in space => InTruthful)
                       /\ (pc = "out" /\ OutReq \in space => OutTruthful)
<1>1. IInv /\ EofInv /\ EofInv' /\ [Next]_vars => [Truthful]_vars
  <2>1. Next /\ pc = "in" /\ InReq \in space => InRefuse \/ InRead
    BY DEF Next, HostStep, VmInit, VmFree, Load, BuildBootLayer, HostWrite, CallRun, VmStep,
       RunOut, NoSpace, TickBegin, OutIdle, OutRefuse, OutWrite, InIdle,
       HaltStop, HaltPass, SlotNop, SlotBounds, SlotCopy, TickEnd
  <2>2. Next /\ pc = "out" /\ OutReq \in space => OutRefuse \/ OutWrite
    BY DEF Next, HostStep, VmInit, VmFree, Load, BuildBootLayer, HostWrite, CallRun, VmStep,
       RunOut, NoSpace, TickBegin, OutIdle, InIdle, InRefuse, InRead,
       HaltStop, HaltPass, SlotNop, SlotBounds, SlotCopy, TickEnd
  <2> QED
    BY <2>1, <2>2, OutRefuseTruthful, OutWriteTruthful, InRefuseTruthful, InReadTruthful
<1>2. Init /\ [][Next]_vars => [][Truthful]_vars
  BY <1>1, Invariance, EofInvariant, PTL
<1> QED
  BY <1>2 DEF AnswersTruthful, InTruthful, OutTruthful

(* What a service has answered when it is through is what the file did, for  *)
(* every request and every program: the count that comes back fits its       *)
(* register because it is not above the length that was asked for, and a     *)
(* failure of the file is reported by every answer from then on.             *)
THEOREM AnswersTruthfulCorrect == Spec => AnswersTruthful
BY AnswersSafety, PTL DEF Spec

-----------------------------------------------------------------------------
(* The boot layer.  Its three copies are byte-aligned, and so exact.         *)

LEMMA StatusAbove == \A b \in Status : b \in Nat /\ ProcessorBits <= b /\ b < MmioEnd
<1>1. Halt \in Nat /\ Halt + 1 <= MmioEnd /\ MmioEnd \in Nat
  <2>1. Halt \in Nat
    BY Registers, Sizes
  <2> QED
    BY <2>1, MmioEndType DEF MmioEnd, round_up_to_8
<1>2. \A b \in Status : b \in Nat /\ ProcessorBits <= b /\ b < Halt
  BY Registers, Sizes, AddrBitsPositive DEF Status, BitRange
<1> QED
  BY <1>1, <1>2

LEMMA AlignedCopy ==
  ASSUME NEW m, NEW past, past \cap Bits = {},
         NEW n \in Nat, NEW src \in Nat, NEW dst \in Nat, src % 8 = 0, dst % 8 = 0,
         src + n <= SpaceBits, dst + n <= SpaceBits
  PROVE  \A q \in 0..(n - 1) :
           dst + q \in bitcpy(m \cup past, n, src, dst) \ past <=> src + q \in m
<1> DEFINE all == m \cup past
<1>1. bitcpy(all, n, src, dst) = Copied(all, n, src, dst)
  <2>1. PlainPath(n, src, dst)
    BY DEF PlainPath
  <2> HIDE DEF all
  <2> QED
    BY <2>1, bitcpyExact DEF SkewedHead, WordBody
<1>2. ASSUME NEW q \in 0..(n - 1)
      PROVE  dst + q \in Copied(all, n, src, dst) \ past <=> src + q \in m
  <2>1. /\ dst + q \in BitRange(dst, n) /\ (dst + q) - dst + src = src + q
        /\ dst + q \in Bits /\ src + q \in Bits
    BY Sizes DEF BitRange, Bits
  <2>2. dst + q \in Copied(all, n, src, dst) <=> src + q \in all
    BY <2>1 DEF Copied
  <2> QED
    BY <2>1, <2>2
<1> QED
  BY <1>1, <1>2

Boots(ptr) == StartsBoot(ptr) /\ ptr % 8 = 0

(* How far the boot layer is when a slot's turn comes: nothing copied before *)
(* the patch slot, the load slot patched after it, the layer loaded at the   *)
(* end.                                                                      *)
BootSlots(ptr) ==
  /\ slot <= ProcessorN - 2 => notes = {}
  /\ slot = ProcessorN - 1 =>
       notes = {Patch} /\ UInt(space, SlotIp(ProcessorN - 1) + OffSrc) = ptr
  /\ slot = ProcessorN => LoadsNextLayer(ptr)

BootInv ==
  /\ pc \in {"out", "in", "halt"} => notes = {}
  /\ pc = "slot" => \A ptr \in BootPointers : Boots(ptr) => BootSlots(ptr)

LEMMA BootPointer ==
  ASSUME NEW ptr \in BootPointers, Boots(ptr)
  PROVE  /\ ptr \in Nat /\ ptr < SpaceBits /\ ptr + ProcessorBits <= SpaceBits /\ ptr % 8 = 0
         /\ MmioEnd <= ptr /\ ProcessorN \in Nat /\ ProcessorN >= 3 /\ dma = {}
         /\ ProcessorBits \in Nat /\ 0 < ProcessorBits
         /\ ProcessorN - 2 \in 0 .. (ProcessorN - 1) /\ ProcessorN - 1 \in 0 .. (ProcessorN - 1)
<1>1. ptr \in Nat
  BY VMAssumption
<1>2. 0 < ProcessorBits
  BY LastSlot, AddrBitsPositive, Sizes DEF InstrBits
<1> QED
  BY <1>1, <1>2, Sizes DEF Boots, StartsBoot

(* What a slot of the boot layer holds while the services alone have written. *)
LEMMA BootHolds ==
  ASSUME FrameInv, notes = {}, NEW ptr \in BootPointers, Boots(ptr),
         NEW i \in 0 .. (ProcessorN - 1)
  PROVE  vm_read_inst(space, SlotIp(i)) = vm_read_inst(BootLayer(start, ptr), SlotIp(i))
<1>1. Agree(start, space, Status)
  <2>1. dma = {}
    BY BootPointer
  <2>2. Touched = Status
    BY <2>1 DEF Touched
  <2> QED
    BY <2>2 DEF FrameInv
<1>2. SlotIp(i) \in Nat /\ SlotIp(i) + InstrBits <= ProcessorBits
  BY SlotInSpace
<1>3. Status \cap BitRange(SlotIp(i), InstrBits) = {}
  <2> DEFINE a == SlotIp(i)
  <2>1. a \in Nat /\ a + InstrBits <= ProcessorBits
    BY <1>2
  <2> HIDE DEF a
  <2>2. Status \cap BitRange(a, InstrBits) = {}
    BY <2>1, StatusAbove, Sizes DEF BitRange
  <2> QED
    BY <2>2 DEF a
<1>4. vm_read_inst(start, SlotIp(i)) = vm_read_inst(space, SlotIp(i))
  BY <1>1, <1>2, <1>3, InstFrame
<1>5. start = BootLayer(start, ptr)
  BY DEF Boots, StartsBoot
<1> QED
  BY <1>4, <1>5, Zenon

LEMMA BootFetched ==
  ASSUME IInv, BootInv, pc = "slot", slot < ProcessorN, NEW ptr \in BootPointers, Boots(ptr)
  PROVE  /\ slot <= ProcessorN - 3 => Fetched.n = 0
         /\ slot = ProcessorN - 2 => Fetched = Patch
         /\ slot = ProcessorN - 1 => Fetched = LoadLayer(ptr)
<1>1. slot \in 0 .. (ProcessorN - 1)
  BY Sizes DEF IInv, TypeOK
<1>2. FrameInv /\ BootSlots(ptr)
  BY DEF IInv, BootInv
<1>3. ASSUME slot <= ProcessorN - 2
      PROVE  Fetched = vm_read_inst(BootLayer(start, ptr), SlotIp(slot))
  BY <1>1, <1>2, <1>3, BootHolds DEF BootSlots, Fetched
<1>4. LET inst(i) == vm_read_inst(BootLayer(start, ptr), SlotIp(i))
      IN  /\ inst(0) = Meta(ptr)
          /\ \A i \in 1 .. (ProcessorN - 3) : inst(i) = Nop
          /\ inst(ProcessorN - 2) = Patch
          /\ inst(ProcessorN - 1) = LoadLayer(0)
  BY BootPointer, BootReads
<1>5. Nop.n = 0 /\ Meta(ptr).n = 0
  BY DEF Nop, Meta, Copy
<1>6. ASSUME slot <= ProcessorN - 3 PROVE Fetched.n = 0
  <2>1. slot = 0 \/ slot \in 1 .. (ProcessorN - 3)
    BY <1>1, <1>6, Sizes
  <2>2. slot <= ProcessorN - 2
    BY <1>1, <1>6, Sizes
  <2> QED
    BY <1>3, <1>4, <1>5, <2>1, <2>2
<1>7. ASSUME slot = ProcessorN - 2 PROVE Fetched = Patch
  BY <1>1, <1>3, <1>4, <1>7
<1>8. ASSUME slot = ProcessorN - 1 PROVE Fetched = LoadLayer(ptr)
  <2> DEFINE a == SlotIp(ProcessorN - 1)
             A == Status \cup BitRange(a + OffSrc, AddrBits)
  <2>1. /\ a \in Nat /\ a + 3 * AddrBits = ProcessorBits
        /\ OffDst = AddrBits /\ OffSrc = 2 * AddrBits
    BY LastSlot DEF InstrBits, OffDst, OffSrc
  <2>2. Agree(start, space, A)
    <3>1. dma = {} /\ notes = {Patch}
      BY <1>2, <1>8, BootPointer DEF BootSlots
    <3>2. Patch.dst = a + OffSrc /\ Patch.n = AddrBits
      BY DEF Patch, Copy
    <3>3. Touched = A
      BY <3>1, <3>2 DEF Touched
    <3> QED
      BY <1>2, <3>3 DEF FrameInv
  <2>3. UInt(space, a + OffSrc) = ptr
    BY <1>2, <1>8 DEF BootSlots
  <2>4. vm_read_inst(start, a) = LoadLayer(0)
    BY <1>4, Zenon DEF Boots, StartsBoot
  <2> HIDE DEF a
  <2>5. /\ A \cap BitRange(a, AddrBits) = {} /\ A \cap BitRange(a + OffDst, AddrBits) = {}
    BY <2>1, StatusAbove, Sizes DEF BitRange
  <2>6. a + OffDst \in Int /\ a \in Int
    BY <2>1, Sizes
  <2> HIDE DEF A
  <2>7. UInt(space, a) = UInt(start, a) /\ UInt(space, a + OffDst) = UInt(start, a + OffDst)
    BY <2>2, <2>5, <2>6, UIntFrame
  <2>8. UInt(start, a) = ProcessorBits /\ UInt(start, a + OffDst) = 0
    BY <2>4 DEF vm_read_inst, LoadLayer, Copy
  <2>9. Fetched = vm_read_inst(space, a)
    BY <1>8 DEF Fetched, a
  <2> QED
    BY <2>3, <2>7, <2>8, <2>9 DEF vm_read_inst, LoadLayer, Copy
<1> QED
  BY <1>6, <1>7, <1>8

(* The patch slot writes the pointer into the src field of the load slot.    *)
LEMMA BootPatches ==
  ASSUME IInv, BootInv, SlotCopy, slot = ProcessorN - 2, NEW ptr \in BootPointers, Boots(ptr)
  PROVE  notes' = {Patch} /\ UInt(space', SlotIp(ProcessorN - 1) + OffSrc) = ptr
<1> DEFINE a == SlotIp(ProcessorN - 1)
<1>1. pc = "slot" /\ slot < ProcessorN
  BY DEF SlotCopy
<1>2. Fetched = Patch /\ notes = {} /\ FrameInv
  <2>1. slot <= ProcessorN - 2 /\ BootSlots(ptr)
    BY <1>1, Sizes DEF BootInv
  <2> QED
    BY <1>1, <2>1, BootFetched DEF BootSlots, IInv
<1>3. Patch.n = AddrBits /\ Patch.dst = a + OffSrc /\ Patch.src = OffDst
  BY DEF Patch, Copy
<1>4. PICK past \in OverReads :
        space' = bitcpy(space \cup past, Fetched.n, Fetched.src, Fetched.dst) \ past
  BY DEF SlotCopy
<1>5. /\ a \in Nat /\ a % 8 = 0 /\ a + 3 * AddrBits = ProcessorBits /\ AddrBits % 8 = 0
      /\ ProcessorBits <= SpaceBits /\ OffDst = AddrBits /\ OffSrc = 2 * AddrBits
      /\ past \cap Bits = {} /\ SlotIp(0) = 0
  <2>1. a \in Nat /\ a % 8 = 0 /\ AddrBits % 8 = 0
    BY LastSlot, ByteAligned, Sizes
  <2>2. a + 3 * AddrBits = ProcessorBits
    BY LastSlot DEF InstrBits
  <2>3. SlotIp(0) = 0
    BY Sizes DEF SlotIp
  <2>4. past \cap Bits = {}
    BY VMAssumption
  <2> HIDE DEF a
  <2> QED
    BY <2>1, <2>2, <2>3, <2>4, Layout DEF OffDst, OffSrc
<1>6. UInt(space, OffDst) = ptr
  <2>1. vm_read_inst(space, SlotIp(0)) = vm_read_inst(BootLayer(start, ptr), SlotIp(0))
    BY <1>2, BootHolds, Sizes
  <2>2. vm_read_inst(BootLayer(start, ptr), SlotIp(0)) = Meta(ptr)
    BY BootPointer, BootReads
  <2>3. vm_read_inst(space, 0).dst = UInt(space, 0 + OffDst) /\ 0 + OffDst = OffDst
    BY <1>5, Sizes DEF vm_read_inst, Copy
  <2>4. Meta(ptr).dst = ptr
    BY DEF Meta, Copy
  <2> QED
    BY <1>5, <2>1, <2>2, <2>3, <2>4
<1> DEFINE dst == a + OffSrc
<1>7. /\ dst \in Nat /\ dst % 8 = 0 /\ dst + AddrBits <= SpaceBits
      /\ OffDst \in Nat /\ OffDst % 8 = 0 /\ OffDst + AddrBits <= SpaceBits
  <2> HIDE DEF a
  <2>1. dst = a + 2 * AddrBits
    BY <1>5
  <2> HIDE DEF dst
  <2> QED
    BY <1>5, <2>1, Sizes
<1>8. space' = bitcpy(space \cup past, AddrBits, OffDst, dst) \ past
  BY <1>2, <1>3, <1>4
<1>9. notes' = {Patch}
  BY <1>2 DEF SlotCopy
<1> HIDE DEF a, dst
<1>10. \A q \in 0..(AddrBits - 1) : dst + q \in space' <=> OffDst + q \in space
  <2>1. \A q \in 0..(AddrBits - 1) :
          dst + q \in bitcpy(space \cup past, AddrBits, OffDst, dst) \ past <=> OffDst + q \in space
    <3>1. past \cap Bits = {} /\ AddrBits \in Nat
      BY <1>5, Sizes
    <3> QED
      BY <1>7, <3>1, AlignedCopy
  <2> QED
    BY <1>8, <2>1
<1>11. UInt(space', dst) = UInt(space, OffDst)
  BY <1>7, <1>10, Sizes, NumberSame DEF UInt
<1> QED
  BY <1>6, <1>9, <1>11 DEF dst, a

(* The load slot, patched, copies the layer over the processor.              *)
LEMMA BootCopies ==
  ASSUME IInv, BootInv, SlotCopy, slot = ProcessorN - 1, NEW ptr \in BootPointers, Boots(ptr)
  PROVE  LoadsNextLayer(ptr)'
<1>1. pc = "slot" /\ slot < ProcessorN
  BY DEF SlotCopy
<1>2. Fetched = LoadLayer(ptr) /\ notes = {Patch} /\ dma = {} /\ FrameInv
  BY <1>1, BootFetched, BootPointer DEF BootInv, BootSlots, IInv
<1>3. LoadLayer(ptr).n = ProcessorBits /\ LoadLayer(ptr).dst = 0 /\ LoadLayer(ptr).src = ptr
  BY DEF LoadLayer, Copy
<1>4. PICK past \in OverReads :
        space' = bitcpy(space \cup past, Fetched.n, Fetched.src, Fetched.dst) \ past
  BY DEF SlotCopy
<1>5. space' = bitcpy(space \cup past, ProcessorBits, ptr, 0) \ past
  BY <1>2, <1>3, <1>4
<1>6. past \cap Bits = {} /\ ProcessorBits <= SpaceBits /\ start' = start
  BY VMAssumption, Layout DEF SlotCopy
<1>7. \A q \in 0..(ProcessorBits - 1) : 0 + q \in space' <=> ptr + q \in space
  <2>1. 0 \in Nat /\ 0 % 8 = 0 /\ 0 + ProcessorBits <= SpaceBits
    BY <1>6, BootPointer
  <2>2. \A q \in 0..(ProcessorBits - 1) :
          0 + q \in bitcpy(space \cup past, ProcessorBits, ptr, 0) \ past <=> ptr + q \in space
    BY <1>6, <2>1, BootPointer, AlignedCopy
  <2> QED
    BY <1>5, <2>2
<1>8. ASSUME NEW q \in 0..(ProcessorBits - 1)
      PROVE  ptr + q \in space <=> ptr + q \in start
  <2> DEFINE field == BitRange(SlotIp(ProcessorN - 1) + OffSrc, AddrBits)
  <2>1. Touched = Status \cup field
    <3>1. Patch.n = AddrBits /\ Patch.dst = SlotIp(ProcessorN - 1) + OffSrc
      BY DEF Patch, Copy
    <3> QED
      BY <1>2, <3>1 DEF Touched
  <2>2. ptr + q \notin field
    <3>1. SlotIp(ProcessorN - 1) + OffSrc + AddrBits = ProcessorBits
          /\ SlotIp(ProcessorN - 1) \in Nat /\ OffSrc \in Nat
      BY LastSlot, Sizes DEF InstrBits, OffSrc
    <3>2. ProcessorBits < MmioEnd /\ MmioEnd \in Nat
      BY MmioEndType
    <3> QED
      BY <3>1, <3>2, BootPointer, Sizes DEF BitRange
  <2>3. ptr + q \notin Status
    BY StatusAbove, BootPointer, MmioEndType
  <2> HIDE DEF field
  <2> QED
    BY <1>2, <2>1, <2>2, <2>3 DEF FrameInv, Agree
<1>9. ASSUME NEW q \in 0..(ProcessorBits - 1) PROVE q \in space' <=> ptr + q \in start'
  <2>1. 0 + q = q
    BY BootPointer
  <2> QED
    BY <1>6, <1>7, <1>8, <2>1
<1> QED
  BY <1>9 DEF LoadsNextLayer

LEMMA BootInvariant == Init /\ [][Next]_vars => []BootInv
<1>1. Init => BootInv
  BY DEF Init, BootInv
<1>2. IInv /\ BootInv /\ [Next]_vars => BootInv'
  <2> SUFFICES ASSUME IInv, BootInv, [Next]_vars PROVE BootInv'
    OBVIOUS
  <2>1. CASE OutIdle \/ OutRefuse \/ OutWrite \/ InIdle \/ InRefuse \/ InRead
    BY <2>1 DEF BootInv, OutIdle, OutRefuse, OutWrite, InIdle, InRefuse, InRead, history
  <2>2. CASE TickBegin
    BY <2>2 DEF BootInv, TickBegin, FreshHistory
  <2>3. CASE HaltPass
    <3>1. pc' = "slot" /\ slot' = 0 /\ notes' = {} /\ UNCHANGED <<space, start, dma>>
      BY <2>3 DEF HaltPass, BootInv, history
    <3>2. ASSUME NEW ptr \in BootPointers, Boots(ptr)' PROVE BootSlots(ptr)'
      <4>1. ProcessorN >= 3 /\ ProcessorN \in Nat
        BY <3>2, Sizes DEF Boots, StartsBoot
      <4> QED
        BY <3>1, <4>1 DEF BootSlots
    <3> QED
      BY <3>1, <3>2 DEF BootInv
  <2>4. CASE SlotNop \/ SlotCopy
    <3>1. /\ pc = "slot" /\ pc' = "slot" /\ slot < ProcessorN /\ slot' = slot + 1
          /\ start' = start /\ dma' = dma
          /\ SlotNop => notes' = notes
      BY <2>4 DEF SlotNop, SlotCopy, history
    <3>2. ASSUME NEW ptr \in BootPointers, Boots(ptr)' PROVE BootSlots(ptr)'
      <4>1. Boots(ptr)
        BY <3>1, <3>2 DEF Boots, StartsBoot
      <4>2. /\ BootSlots(ptr) /\ slot \in Nat /\ ProcessorN \in Nat /\ ProcessorN >= 3
            /\ AddrBits # 0 /\ ProcessorBits # 0
        BY <3>1, <4>1, BootPointer, AddrBitsPositive DEF BootInv, IInv, TypeOK
      <4>3. /\ slot <= ProcessorN - 3 => Fetched.n = 0
            /\ slot = ProcessorN - 2 => Fetched = Patch
            /\ slot = ProcessorN - 1 => Fetched = LoadLayer(ptr)
        BY <3>1, <4>1, BootFetched
      <4>4. CASE SlotNop
        <5>1. slot <= ProcessorN - 3
          <6>1. Fetched.n = 0
            BY <4>4 DEF SlotNop
          <6>2. Patch.n # 0 /\ LoadLayer(ptr).n # 0
            BY <4>2 DEF Patch, LoadLayer, Copy
          <6> QED
            BY <3>1, <4>2, <4>3, <6>1, <6>2
        <5> QED
          BY <3>1, <4>2, <4>4, <5>1 DEF BootSlots
      <4>5. CASE SlotCopy
        <5>1. slot > ProcessorN - 3
          BY <4>2, <4>3, <4>5 DEF SlotCopy
        <5>2. CASE slot = ProcessorN - 2
          <6>1. notes' = {Patch} /\ UInt(space', SlotIp(ProcessorN - 1) + OffSrc) = ptr
            BY <4>1, <4>5, <5>2, BootPatches
          <6>2. slot' = ProcessorN - 1
            BY <3>1, <4>2, <5>2
          <6> QED
            BY <4>2, <6>1, <6>2 DEF BootSlots
        <5>3. CASE slot = ProcessorN - 1
          <6>1. LoadsNextLayer(ptr)'
            BY <4>1, <4>5, <5>3, BootCopies
          <6>2. slot' = ProcessorN
            BY <3>1, <4>2, <5>3
          <6> QED
            BY <4>2, <6>1, <6>2 DEF BootSlots
        <5> QED
          BY <3>1, <4>2, <5>1, <5>2, <5>3
      <4> QED
        BY <2>4, <4>4, <4>5
    <3> QED
      BY <3>1, <3>2 DEF BootInv
  <2>5. CASE RunOut \/ NoSpace \/ HaltStop \/ SlotBounds \/ TickEnd
    BY <2>5 DEF BootInv, RunOut, NoSpace, HaltStop, SlotBounds, TickEnd
  <2>6. CASE HostStep
    BY <2>6 DEF BootInv, HostStep, VmInit, VmFree, Load, BuildBootLayer, HostWrite, CallRun
  <2>7. CASE UNCHANGED vars
    BY <2>7 DEF vars, machine, files, call, history, BootInv, Boots, StartsBoot, BootSlots,
       LoadsNextLayer
  <2> QED
    BY <2>1, <2>2, <2>3, <2>4, <2>5, <2>6, <2>7 DEF Next, VmStep
<1> QED
  BY <1>1, <1>2, Invariance, PTL

LEMMA BootSafety == BootInv => BootLoads
BY Sizes DEF BootInv, BootSlots, Boots, BootLoads

(* Loader 3B loads the layer its pointer names within one tick, whatever     *)
(* else the space holds: the load slot is fetched after the patch slot ran.  *)
THEOREM BootLoadsCorrect == Spec => []BootLoads
BY BootInvariant, BootSafety, PTL DEF Spec

-----------------------------------------------------------------------------
(* The safety half of Returns: a count of the steps vm_run has to come.  A   *)
(* turn of its loop is a tick: both services, the HALT test, the slots, and  *)
(* the beginning and the end.                                                *)

StepsOfTick == ProcessorN + 5

StepsLeft ==
  CASE pc = "host" -> 0
    [] pc = "tick" -> life * StepsOfTick + 1
    [] pc = "out"  -> life * StepsOfTick + ProcessorN + 5
    [] pc = "in"   -> life * StepsOfTick + ProcessorN + 4
    [] pc = "halt" -> life * StepsOfTick + ProcessorN + 3
    [] pc = "slot" -> life * StepsOfTick + (ProcessorN - slot) + 2

(* Whatever program runs, however it rewrites itself or sets its registers,  *)
(* every step within vm_run(vm, life) leaves fewer to come: no more than     *)
(* life * (ProcessorN + 5) + 1 of them are made before it returns.           *)
THEOREM StepsFall == Spec => [](StepsLeft \in Nat) /\ [][VmStep => StepsLeft' < StepsLeft]_vars
<1>1. ASSUME IInv
      PROVE  /\ life * StepsOfTick \in Nat /\ ProcessorN \in Nat /\ slot \in 0..ProcessorN
             /\ pc \in {"host", "tick", "out", "in", "halt", "slot"}
  <2>1. life \in Nat /\ StepsOfTick \in Nat
    BY <1>1, Sizes DEF IInv, TypeOK, StepsOfTick
  <2>2. life * StepsOfTick \in Nat
    BY <2>1
  <2> QED
    BY <1>1, <2>2, Sizes DEF IInv, TypeOK
<1>2. ASSUME IInv PROVE StepsLeft \in Nat
  BY <1>1, <1>2 DEF StepsLeft
<1>3. ASSUME IInv, VmStep PROVE StepsLeft' < StepsLeft
  <2> DEFINE T == life * StepsOfTick
  <2>1. T \in Nat /\ ProcessorN \in Nat /\ slot \in 0..ProcessorN
    BY <1>1, <1>3
  <2>2. CASE TickBegin \/ NoSpace
    <3>1. life \in Nat /\ life > 0 /\ StepsOfTick \in Nat /\ StepsOfTick = ProcessorN + 5
      BY <1>3, <2>2, Sizes DEF IInv, TypeOK, StepsOfTick, TickBegin, NoSpace
    <3>2. (life - 1) * StepsOfTick = T - StepsOfTick
      <4> HIDE DEF StepsOfTick
      <4> QED
        BY <3>1
    <3>3. pc = "tick" /\ life' = life - 1 /\ pc' \in {"out", "host"}
      BY <2>2 DEF TickBegin, NoSpace
    <3>4. StepsLeft = T + 1
      BY <3>3 DEF StepsLeft
    <3>5. life' * StepsOfTick = T - StepsOfTick
      BY <3>2, <3>3
    <3>6. StepsLeft' = 0 \/ StepsLeft' = (T - StepsOfTick) + ProcessorN + 5
      BY <3>3, <3>5 DEF StepsLeft
    <3> HIDE DEF T
    <3> QED
      BY <2>1, <3>1, <3>4, <3>6
  <2>3. CASE ~(TickBegin \/ NoSpace)
    <3>1. life' = life
      BY <1>3, <2>3 DEF VmStep, RunOut, OutIdle, OutRefuse, OutWrite, InIdle, InRefuse, InRead,
         HaltStop, HaltPass, SlotNop, SlotBounds, SlotCopy, TickEnd, call
    <3>2. T' = T
      BY <3>1
    <3>3. StepsLeft' =
            CASE pc' = "host" -> 0
              [] pc' = "tick" -> T + 1
              [] pc' = "out"  -> T + ProcessorN + 5
              [] pc' = "in"   -> T + ProcessorN + 4
              [] pc' = "halt" -> T + ProcessorN + 3
              [] pc' = "slot" -> T + (ProcessorN - slot') + 2
      BY <3>1 DEF StepsLeft
    <3>4. StepsLeft =
            CASE pc = "host" -> 0
              [] pc = "tick" -> T + 1
              [] pc = "out"  -> T + ProcessorN + 5
              [] pc = "in"   -> T + ProcessorN + 4
              [] pc = "halt" -> T + ProcessorN + 3
              [] pc = "slot" -> T + (ProcessorN - slot) + 2
      BY DEF StepsLeft
    <3> HIDE DEF T
    <3>5. \/ pc # "host" /\ pc' = "host"
          \/ pc = "out" /\ pc' = "in"
          \/ pc = "in" /\ pc' = "halt"
          \/ pc = "halt" /\ pc' = "slot" /\ slot' = 0
          \/ pc = "slot" /\ pc' = "slot" /\ slot' = slot + 1 /\ slot < ProcessorN
          \/ pc = "slot" /\ pc' = "tick"
      BY <1>3, <2>3 DEF VmStep, RunOut, OutIdle, OutRefuse, OutWrite, InIdle, InRefuse, InRead,
         HaltStop, HaltPass, SlotNop, SlotBounds, SlotCopy, TickEnd
    <3>6. pc \in {"host", "tick", "out", "in", "halt", "slot"}
      BY <1>3 DEF IInv, TypeOK
    <3> QED
      BY <2>1, <3>3, <3>4, <3>5, <3>6
  <2> QED
    BY <2>2, <2>3
<1> QED
  BY <1>2, <1>3, Invariance, PTL DEF Spec
=============================================================================
