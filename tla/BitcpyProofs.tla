---------------------------- MODULE BitcpyProofs ----------------------------
(***************************************************************************)
(* bitcpy never stores outside its destination and leaves there what       *)
(* BitOps!bitcpy says, for every call and every buffer.  The argument: in  *)
(* the fast paths the byte pointer d and the count n_bits always satisfy   *)
(* 8*d + n_bits = dst_bit + n, so whole bytes and words stored at d while  *)
(* n_bits allows them end inside the destination, and the two partial      *)
(* bytes are masked.  What has been stored is, at every turn, the value    *)
(* the closed form has after as many turns (Contents), so the last turn    *)
(* leaves the closed form itself.                                          *)
(***************************************************************************)
EXTENDS Bitcpy, BitOpsProofs

-----------------------------------------------------------------------------
(* Which bits the stores of BitOps can change. *)

(* m2 agrees with m outside [a, a+n). *)
SameOutside(m, m2, a, n) == \A x : x \notin BitRange(a, n) => (x \in m2 <=> x \in m)

LEMMA CopiedFrame ==
  ASSUME NEW m, NEW n \in Int, NEW src \in Int, NEW dst \in Int
  PROVE  SameOutside(m, Copied(m, n, src, dst), dst, n)
BY DEF SameOutside, Copied, BitRange

LEMMA CopiedNat ==
  ASSUME NEW m \in SUBSET Nat, NEW n \in Int, NEW src \in Int, NEW dst \in Nat
  PROVE  Copied(m, n, src, dst) \subseteq Nat
<1>1. \A x \in BitRange(dst, n) : x \in Nat
  BY DEF BitRange
<1> QED
  BY <1>1 DEF Copied

LEMMA PutByteFrame ==
  ASSUME NEW m, NEW p \in Nat, NEW byte \in SUBSET (0..7)
  PROVE  SameOutside(m, PutByte(m, p, byte), 8 * p, 8)
BY DEF SameOutside, PutByte, BitRange

LEMMA PutByteNat ==
  ASSUME NEW m \in SUBSET Nat, NEW p \in Nat, NEW byte \in SUBSET (0..7)
  PROVE  PutByte(m, p, byte) \subseteq Nat
<1>1. \A q \in byte : 8 * p + q \in Nat
  OBVIOUS
<1> QED
  BY <1>1 DEF PutByte

(* A masked store changes the bits [8p+a, 8p+b) at most. *)
LEMMA PutMaskedFrame ==
  ASSUME NEW m, NEW p \in Nat, NEW c \in SUBSET (0..7), NEW keep,
         NEW a \in 0..8, NEW b \in 0..8,
         \A q \in 0..7 : q \in keep <=> (q < a \/ q >= b)
  PROVE  SameOutside(m, PutMasked(m, p, keep, c), 8 * p + a, b - a)
<1> SUFFICES ASSUME NEW x, x \notin BitRange(8 * p + a, b - a)
             PROVE  x \in PutMasked(m, p, keep, c) <=> x \in m
  BY DEF SameOutside
<1>1. CASE x \notin BitRange(8 * p, 8)
  BY <1>1 DEF PutMasked, PutByte, Byte, BitRange
<1>2. CASE x \in BitRange(8 * p, 8)
  <2> DEFINE q == x - 8 * p
  <2>1. q \in 0..7 /\ x = 8 * p + q
    BY <1>2 DEF BitRange
  <2>2. q \in keep
    BY <2>1 DEF BitRange
  <2>3. x \in PutMasked(m, p, keep, c) <=> q \in (Byte(m, p) \cap keep) \cup (c \ keep)
    BY <2>1, <1>2 DEF PutMasked, PutByte, Byte, BitRange
  <2>4. q \in Byte(m, p) <=> x \in m
    BY <2>1 DEF Byte
  <2> QED
    BY <2>2, <2>3, <2>4
<1> QED
  BY <1>1, <1>2

LEMMA PutMaskedNat ==
  ASSUME NEW m \in SUBSET Nat, NEW p \in Nat, NEW c \in SUBSET (0..7), NEW keep
  PROVE  PutMasked(m, p, keep, c) \subseteq Nat
BY PutByteNat DEF PutMasked, Byte

(* The 64 significances of a word at p are the 64 bits of its eight bytes. *)
LEMMA SigAddrRange ==
  ASSUME NEW p \in Nat, NEW sig \in 0..63
  PROVE  SigAddr(p, sig) \in BitRange(8 * p, 64)
BY DEF SigAddr, BitRange

LEMMA Store64Frame ==
  ASSUME NEW m \in SUBSET Nat, NEW p \in Nat, NEW w \in SUBSET (0..63)
  PROVE  SameOutside(m, Store64(m, p, w), 8 * p, 64) /\ Store64(m, p, w) \subseteq Nat
<1>1. \A sig \in w : SigAddr(p, sig) \in BitRange(8 * p, 64)
  BY SigAddrRange
<1>2. BitRange(8 * p, 64) \subseteq Nat
  BY DEF BitRange
<1> QED
  BY <1>1, <1>2 DEF SameOutside, Store64

LEMMA PutWordFrame ==
  ASSUME NEW m \in SUBSET Nat, NEW p \in Nat, NEW q, NEW left, NEW right
  PROVE  /\ SameOutside(m, PutWord(m, q, p, left, right), 8 * p, 64)
         /\ PutWord(m, q, p, left, right) \subseteq Nat
<1> DEFINE w == Shl64(Load64(m, q), left) \cup Shr64(Load64(m, q + 8), right)
<1>1. w \in SUBSET (0..63)
  BY DEF Shl64, Shr64
<1> HIDE DEF w
<1>2. SameOutside(m, Store64(m, p, w), 8 * p, 64) /\ Store64(m, p, w) \subseteq Nat
  BY <1>1, Store64Frame
<1> QED
  BY <1>2 DEF PutWord, w

LEMMA CopyBitFrame ==
  ASSUME NEW k \in Nat, CopyBit(k), mem \subseteq Nat, call.dst \in Nat
  PROVE  SameOutside(mem, mem', call.dst + k, 1) /\ mem' \subseteq Nat
<1>1. call.dst + k \in Nat /\ call.dst + k \in BitRange(call.dst + k, 1)
  BY DEF BitRange
<1>2. \/ mem' = mem \cup {call.dst + k}
      \/ mem' = mem \ {call.dst + k}
  BY DEF CopyBit
<1> QED
  BY <1>1, <1>2 DEF SameOutside

LEMMA SourceByteType == SourceByte \in SUBSET (0..7)
BY DEF SourceByte, Byte, Shl8, Shr8

-----------------------------------------------------------------------------
(* The inductive invariant: beside the two properties, where d stands. *)

Fast == pc \in {"words", "bytes", "shift", "tail"}

PointerInv ==
  /\ pc = "call" => n_bits = call.n /\ d = call.dst \div 8
  /\ pc = "head" => /\ n_bits = call.n /\ d = call.dst \div 8
                    /\ call.n >= 8 /\ dst_mod # 0
  /\ Fast => 8 * d + n_bits = call.dst + call.n /\ call.dst <= 8 * d
  /\ pc = "tail" => n_bits < 8

IInv == TypeOK /\ OnlyDestination /\ PointerInv

(* A step whose stores fall inside the destination keeps the frame. *)
LEMMA FrameStep ==
  ASSUME OnlyDestination, UNCHANGED <<call, before>>,
         NEW a, NEW n,
         SameOutside(mem, mem', a, n),
         BitRange(a, n) \subseteq BitRange(call.dst, call.n)
  PROVE  OnlyDestination'
BY DEF OnlyDestination, SameOutside

LEMMA InitInv == Init => IInv
<1> SUFFICES ASSUME Init PROVE IInv
  OBVIOUS
<1> USE CallsAssumption, MemoriesAssumption
<1>1. call.n \in Nat /\ call.src \in Nat /\ call.dst \in Nat
  BY DEF Init
<1>2. TypeOK
  BY <1>1 DEF Init, TypeOK
<1>3. OnlyDestination
  BY DEF Init, OnlyDestination
<1>4. PointerInv
  BY DEF Init, PointerInv, Fast
<1> QED
  BY <1>2, <1>3, <1>4 DEF IInv

LEMMA NextInv == IInv /\ [Next]_vars => IInv'
<1> SUFFICES ASSUME IInv, [Next]_vars PROVE IInv'
  OBVIOUS
<1> USE DEF IInv
<1>c. call.n \in Nat /\ call.src \in Nat /\ call.dst \in Nat
  BY CallsAssumption DEF TypeOK
<1>1. CASE ReturnAtOnce
  BY <1>1, <1>c DEF ReturnAtOnce, TypeOK, OnlyDestination, PointerInv, Fast, dst_mod
<1>2. CASE EnterFallback
  BY <1>2, <1>c DEF EnterFallback, TypeOK, OnlyDestination, PointerInv, Fast, dst_mod
<1>3. CASE EnterFastPath
  <2> USE <1>3 DEF EnterFastPath
  <2>1. TypeOK' /\ OnlyDestination'
    BY <1>c DEF TypeOK, OnlyDestination
  <2>2. call.n >= 8
    BY <1>c DEF NeedsFallback
  <2>3. 8 * (call.dst \div 8) + dst_mod = call.dst
    BY <1>c DEF dst_mod
  <2>4. n_bits = call.n /\ d = call.dst \div 8
    BY DEF PointerInv
  <2>5. PointerInv'
    BY <1>c, <2>2, <2>3, <2>4 DEF PointerInv, Fast, dst_mod
  <2> QED
    BY <2>1, <2>5
<1>4. CASE FallbackTurn
  <2> USE <1>4 DEF FallbackTurn
  <2>1. i \in Nat /\ i < call.n
    BY <1>c DEF TypeOK
  <2>2. PICK k \in 0 .. (call.n - 1) : CopyBit(k)
    BY <1>c, <2>1
  <2>3. SameOutside(mem, mem', call.dst + k, 1) /\ mem' \subseteq Nat
    <3>1. k \in Nat /\ mem \subseteq Nat
      BY <1>c DEF TypeOK
    <3> QED
      BY <1>c, <2>2, <3>1, CopyBitFrame
  <2>4. BitRange(call.dst + k, 1) \subseteq BitRange(call.dst, call.n)
    BY <1>c DEF BitRange
  <2>5. OnlyDestination'
    BY <2>3, <2>4, FrameStep
  <2>6. TypeOK'
    BY <1>c, <2>1, <2>3 DEF TypeOK
  <2> QED
    BY <2>5, <2>6 DEF PointerInv, Fast, dst_mod
<1>5. CASE FallbackReturn
  BY <1>5, <1>c DEF FallbackReturn, TypeOK, OnlyDestination, PointerInv, Fast, dst_mod
<1>6. CASE HeadTurn
  <2> USE <1>6 DEF HeadTurn
  <2> DEFINE head == 8 - dst_mod
             keep == keep_hi(dst_mod) \cup keep_lo(dst_mod + head)
  <2>1. /\ dst_mod \in 1..7 /\ call.n >= 8 /\ n_bits = call.n
        /\ d = call.dst \div 8 /\ d \in Nat /\ 8 * d + dst_mod = call.dst
    BY <1>c DEF PointerInv, TypeOK, dst_mod
  <2>2. mem' = PutMasked(mem, d, keep, SourceByte) /\ n_bits' = n_bits - head
    <3>1. (IF 8 - dst_mod > n_bits THEN n_bits ELSE 8 - dst_mod) = head
      BY <1>c, <2>1
    <3> QED
      BY <3>1, Zenon
  <2>3. \A q \in 0..7 : q \in keep <=> (q < dst_mod \/ q >= 8)
    BY <2>1 DEF keep_hi, keep_lo
  <2> HIDE DEF keep
  <2>4. SameOutside(mem, mem', 8 * d + dst_mod, 8 - dst_mod)
    BY <2>1, <2>2, <2>3, SourceByteType, PutMaskedFrame
  <2>5. BitRange(8 * d + dst_mod, 8 - dst_mod) \subseteq BitRange(call.dst, call.n)
    BY <1>c, <2>1 DEF BitRange
  <2>6. OnlyDestination'
    BY <2>4, <2>5, FrameStep
  <2>7. mem' \subseteq Nat
    BY <2>1, <2>2, SourceByteType, PutMaskedNat DEF TypeOK
  <2>8. TypeOK'
    <3>1. n_bits' \in 0..call.n /\ d' \in Nat /\ s' \in Nat /\ pc' = "words"
      BY <1>c, <2>1, <2>2 DEF TypeOK
    <3> QED
      BY <2>7, <3>1 DEF TypeOK
  <2>9. PointerInv'
    BY <1>c, <2>1, <2>2 DEF PointerInv, Fast
  <2> QED
    BY <2>6, <2>8, <2>9
<1>7. CASE WordTurn
  <2> USE <1>7 DEF WordTurn
  <2>1. /\ n_bits >= 64 /\ n_bits \in Nat /\ d \in Nat /\ s \in Nat
        /\ 8 * d + n_bits = call.dst + call.n /\ call.dst <= 8 * d
    BY <1>c DEF PointerInv, TypeOK, Fast
  <2>2. SameOutside(mem, mem', 8 * d, 64) /\ mem' \subseteq Nat
    BY <2>1, PutWordFrame DEF TypeOK
  <2>3. BitRange(8 * d, 64) \subseteq BitRange(call.dst, call.n)
    BY <1>c, <2>1 DEF BitRange
  <2>4. OnlyDestination'
    BY <2>2, <2>3, FrameStep
  <2>5. TypeOK' /\ PointerInv'
    BY <1>c, <2>1, <2>2 DEF TypeOK, PointerInv, Fast
  <2> QED
    BY <2>4, <2>5
<1>8. CASE WordsDone
  BY <1>8, <1>c DEF WordsDone, TypeOK, OnlyDestination, PointerInv, Fast, dst_mod
<1>9. CASE MoveBytes
  <2> USE <1>9 DEF MoveBytes
  <2> DEFINE nbytes == n_bits \div 8
  <2>1. /\ n_bits \in Nat /\ d \in Nat /\ s \in Nat
        /\ 8 * d + n_bits = call.dst + call.n /\ call.dst <= 8 * d
    BY <1>c DEF PointerInv, TypeOK, Fast
  <2>2. nbytes \in Nat /\ 8 * nbytes <= n_bits /\ n_bits < 8 * nbytes + 8
    BY <2>1
  <2>3. /\ mem' = Copied(mem, 8 * nbytes, 8 * s, 8 * d)
        /\ s' = s + nbytes /\ d' = d + nbytes /\ n_bits' = n_bits - 8 * nbytes
    OBVIOUS
  <2> HIDE DEF nbytes
  <2>4. SameOutside(mem, mem', 8 * d, 8 * nbytes) /\ mem' \subseteq Nat
    BY <2>1, <2>2, <2>3, CopiedFrame, CopiedNat DEF TypeOK
  <2>5. BitRange(8 * d, 8 * nbytes) \subseteq BitRange(call.dst, call.n)
    BY <1>c, <2>1, <2>2 DEF BitRange
  <2>6. OnlyDestination'
    BY <2>4, <2>5, FrameStep
  <2>7. TypeOK' /\ PointerInv'
    BY <1>c, <2>1, <2>2, <2>3, <2>4 DEF TypeOK, PointerInv, Fast
  <2> QED
    BY <2>6, <2>7
<1>10. CASE ShiftTurn
  <2> USE <1>10 DEF ShiftTurn
  <2>1. /\ n_bits >= 8 /\ n_bits \in Nat /\ d \in Nat /\ s \in Nat
        /\ 8 * d + n_bits = call.dst + call.n /\ call.dst <= 8 * d
    BY <1>c DEF PointerInv, TypeOK, Fast
  <2>2. SameOutside(mem, mem', 8 * d, 8) /\ mem' \subseteq Nat
    BY <2>1, SourceByteType, PutByteFrame, PutByteNat DEF TypeOK
  <2>3. BitRange(8 * d, 8) \subseteq BitRange(call.dst, call.n)
    BY <1>c, <2>1 DEF BitRange
  <2>4. OnlyDestination'
    BY <2>2, <2>3, FrameStep
  <2>5. TypeOK' /\ PointerInv'
    BY <1>c, <2>1, <2>2 DEF TypeOK, PointerInv, Fast
  <2> QED
    BY <2>4, <2>5
<1>11. CASE ShiftDone
  BY <1>11, <1>c DEF ShiftDone, TypeOK, OnlyDestination, PointerInv, Fast, dst_mod
<1>12. CASE Tail
  <2> USE <1>12 DEF Tail
  <2>1. /\ n_bits \in 0..7 /\ d \in Nat
        /\ 8 * d + n_bits = call.dst + call.n /\ call.dst <= 8 * d
    BY <1>c DEF PointerInv, TypeOK, Fast
  <2>2. CASE n_bits = 0
    BY <2>2, <1>c DEF TypeOK, OnlyDestination, PointerInv, Fast
  <2>3. CASE n_bits # 0
    <3>1. \A q \in 0..7 : q \in keep_lo(n_bits) <=> (q < 0 \/ q >= n_bits)
      BY <2>1 DEF keep_lo
    <3>2. SameOutside(mem, mem', 8 * d + 0, n_bits - 0)
      BY <2>1, <2>3, <3>1, SourceByteType, PutMaskedFrame
    <3>3. BitRange(8 * d + 0, n_bits - 0) \subseteq BitRange(call.dst, call.n)
      BY <1>c, <2>1 DEF BitRange
    <3>4. OnlyDestination'
      BY <3>2, <3>3, FrameStep
    <3>5. mem' \subseteq Nat
      BY <2>1, <2>3, SourceByteType, PutMaskedNat DEF TypeOK
    <3> QED
      BY <3>4, <3>5, <1>c DEF TypeOK, PointerInv, Fast
  <2> QED
    BY <2>2, <2>3
<1>13. CASE UNCHANGED vars
  BY <1>13 DEF vars, TypeOK, OnlyDestination, PointerInv, Fast, dst_mod
<1> QED
  BY <1>1, <1>2, <1>3, <1>4, <1>5, <1>6, <1>7, <1>8, <1>9, <1>10, <1>11, <1>12,
     <1>13 DEF Next

(* Types, and with them n_bits staying within 0..n: no loop of bitcpy        *)
(* counts below zero, where its size_t would wrap.                           *)
THEOREM TypeCorrect == Spec => []TypeOK
<1>1. IInv => TypeOK
  BY DEF IInv
<1> QED
  BY InitInv, NextInv, <1>1, PTL DEF Spec

(* Every bit outside [dst, dst+n) keeps its value throughout the call, for   *)
(* every n, src and dst and every buffer.                                    *)
THEOREM WritesOnlyDestination == Spec => []OnlyDestination
<1>1. IInv => OnlyDestination
  BY DEF IInv
<1> QED
  BY InitInv, NextInv, <1>1, PTL DEF Spec
-----------------------------------------------------------------------------
(* What the buffer holds at each point of a call. *)

(* A bit of a copy comes from the source or stays as it was. *)
LEMMA CopiedBits ==
  ASSUME NEW m, NEW n, NEW src, NEW dst, NEW x
  PROVE  x \in Copied(m, n, src, dst) <=>
           IF x \in BitRange(dst, n) THEN x - dst + src \in m ELSE x \in m
BY DEF Copied

IsCopy(m, m2, n, src, dst) ==
  \A x : x \in m2 <=> IF x \in BitRange(dst, n) THEN x - dst + src \in m ELSE x \in m

LEMMA IsCopied ==
  ASSUME NEW m, NEW m2, NEW n, NEW src, NEW dst, IsCopy(m, m2, n, src, dst)
  PROVE  m2 = Copied(m, n, src, dst)
BY CopiedBits, Zenon DEF IsCopy

LEMMA CopiedNothing ==
  ASSUME NEW m, NEW src, NEW dst \in Int
  PROVE  Copied(m, 0, src, dst) = m
BY DEF Copied, BitRange

(* A copy of k bits goes on to k + j, upwards, when the source of the next j *)
(* is none of the bits already stored.                                       *)
LEMMA CopiedUp ==
  ASSUME NEW m, NEW k \in Nat, NEW j \in Nat, NEW src \in Int, NEW dst \in Int,
         src + k + j <= dst \/ dst <= src
  PROVE  Copied(Copied(m, k, src, dst), j, src + k, dst + k) = Copied(m, k + j, src, dst)
<1> DEFINE m1 == Copied(m, k, src, dst)
           m2 == Copied(m1, j, src + k, dst + k)
<1> SUFFICES IsCopy(m, m2, k + j, src, dst)
  BY IsCopied
<1> SUFFICES ASSUME NEW x
             PROVE  x \in m2 <=> IF x \in BitRange(dst, k + j) THEN x - dst + src \in m
                                                               ELSE x \in m
  BY DEF IsCopy
<1>1. CASE x \in BitRange(dst + k, j)
  <2>1. /\ x \in BitRange(dst, k + j) /\ x - dst + src \notin BitRange(dst, k)
        /\ x - (dst + k) + (src + k) = x - dst + src
    BY <1>1 DEF BitRange
  <2>2. x \in m2 <=> x - dst + src \in m1
    BY <1>1, <2>1 DEF Copied
  <2>3. x - dst + src \in m1 <=> x - dst + src \in m
    BY <2>1 DEF Copied
  <2> QED
    BY <2>1, <2>2, <2>3
<1>2. CASE x \notin BitRange(dst + k, j)
  <2>1. x \in BitRange(dst, k + j) <=> x \in BitRange(dst, k)
    BY <1>2 DEF BitRange
  <2>2. x \in m2 <=> x \in m1
    BY <1>2 DEF Copied
  <2> QED
    BY <2>1, <2>2, CopiedBits
<1> QED
  BY <1>1, <1>2

LEMMA CopiedOneUp ==
  ASSUME NEW m, NEW k \in Nat, NEW src \in Int, NEW dst \in Int, dst <= src
  PROVE  Copied(Copied(m, k, src, dst), 1, src + k, dst + k) = Copied(m, k + 1, src, dst)
<1>1. \A j \in Nat :
        Copied(Copied(m, k, src, dst), j, src + k, dst + k) = Copied(m, k + j, src, dst)
  BY CopiedUp
<1> QED
  BY <1>1

(* The same for one more bit, downwards. *)
LEMMA CopiedDown ==
  ASSUME NEW m, NEW k \in Nat, NEW src \in Int, NEW dst \in Int, src < dst
  PROVE  Copied(Copied(m, k, src + 1, dst + 1), 1, src, dst) = Copied(m, k + 1, src, dst)
<1> DEFINE m1 == Copied(m, k, src + 1, dst + 1)
           m2 == Copied(m1, 1, src, dst)
<1> SUFFICES IsCopy(m, m2, k + 1, src, dst)
  BY IsCopied
<1> SUFFICES ASSUME NEW x
             PROVE  x \in m2 <=> IF x \in BitRange(dst, k + 1) THEN x - dst + src \in m
                                                               ELSE x \in m
  BY DEF IsCopy
<1>1. CASE x = dst
  <2>1. /\ x \in BitRange(dst, k + 1) /\ x \in BitRange(dst, 1)
        /\ src \notin BitRange(dst + 1, k) /\ x - dst + src = src
    BY <1>1 DEF BitRange
  <2>2. (x \in m2 <=> src \in m1) /\ (src \in m1 <=> src \in m)
    BY <2>1 DEF Copied
  <2> QED
    BY <2>1, <2>2
<1>2. CASE x # dst
  <2>1. x \notin BitRange(dst, 1)
    BY <1>2 DEF BitRange
  <2>2. x \in m2 <=> x \in m1
    BY <2>1 DEF Copied
  <2>3. x \in BitRange(dst, k + 1) <=> x \in BitRange(dst + 1, k)
    BY <1>2 DEF BitRange
  <2>4. x \in BitRange(dst, k + 1) => x - dst + src = x - (dst + 1) + (src + 1)
    BY DEF BitRange
  <2> QED
    BY <2>2, <2>3, <2>4, CopiedBits
<1> QED
  BY <1>1, <1>2

LEMMA PutByteBits ==
  ASSUME NEW m, NEW p \in Nat, NEW byte \in SUBSET (0..7), NEW x
  PROVE  x \in PutByte(m, p, byte) <=>
           IF x \in BitRange(8 * p, 8) THEN x - 8 * p \in byte ELSE x \in m
BY DEF PutByte, BitRange

LEMMA PutMaskedBits ==
  ASSUME NEW m, NEW p \in Nat, NEW keep, NEW c \in SUBSET (0..7), NEW x
  PROVE  x \in PutMasked(m, p, keep, c) <=>
           IF x \in BitRange(8 * p, 8) /\ x - 8 * p \notin keep
           THEN x - 8 * p \in c ELSE x \in m
<1> DEFINE byte == (Byte(m, p) \cap keep) \cup (c \ keep)
<1>1. byte \in SUBSET (0..7)
  BY DEF Byte
<1>2. x \in BitRange(8 * p, 8) => (x - 8 * p \in Byte(m, p) <=> x \in m)
  BY DEF Byte, BitRange
<1>3. x \in PutByte(m, p, byte) <=>
        IF x \in BitRange(8 * p, 8) THEN x - 8 * p \in byte ELSE x \in m
  <2> HIDE DEF byte
  <2> QED
    BY <1>1, PutByteBits
<1> QED
  BY <1>2, <1>3 DEF PutMasked

-----------------------------------------------------------------------------
(* The call's closed form, and how far behind dst the byte pointer s is. *)

Plain == PlainPath(call.n, call.src, call.dst)
Apart == call.src + call.n <= call.dst \/ call.dst + call.n <= call.src
Head  == HeadBits(call.dst)
Words == (call.n - Head) \div 64
Skew  == IF src_mod < dst_mod THEN 8 ELSE 0
Lag   == IF SameOffset(call.src, call.dst) THEN 0 ELSE ByteLeft
Left  == LeftShift(call.src, call.dst)
Right == RightShift(call.src, call.dst)
First == Copied(before, Head, call.src + Skew, call.dst)
s0 == (call.src + Head) \div 8
d0 == (call.dst + Head) \div 8

(* The buffer when the last loops begin, and the bits done by then. *)
Base == IF Plain THEN before ELSE MoveWords(First, s0, d0, Left, Right, Words)
Rest == IF Plain THEN 0 ELSE Head + 64 * Words

Last == pc \in {"bytes", "shift", "tail"}

Contents ==
  /\ pc = "call" => mem = before /\ s = call.src \div 8 /\ i = 0
  /\ pc = "fallback" =>
       /\ Plain /\ call.src # call.dst
       /\ mem = IF call.dst < call.src
                THEN Copied(before, i, call.src, call.dst)
                ELSE Copied(before, i, call.src + call.n - i, call.dst + call.n - i)
  /\ pc = "head" => ~Plain /\ mem = before /\ s = call.src \div 8
  /\ pc = "words" =>
       /\ ~Plain
       /\ \E k \in 0..Words : /\ n_bits = call.n - Head - 64 * k
                              /\ s = s0 + 8 * k /\ d = d0 + 8 * k
                              /\ mem = MoveWords(First, s0, d0, Left, Right, k)
  /\ Last =>
       /\ Apart
       /\ 8 * s + Lag = call.src + 8 * d - call.dst
       /\ call.dst + Rest <= 8 * d
       /\ mem = Copied(Base, 8 * d - (call.dst + Rest), call.src + Rest, call.dst + Rest)
  /\ pc = "bytes" => Lag = 0
  /\ MatchesBitcpy

CallTypes ==
  call.n \in Nat /\ call.src \in Nat /\ call.dst \in Nat

LEMMA Offsets ==
  ASSUME CallTypes
  PROVE  /\ src_mod \in 0..7 /\ dst_mod \in 0..7 /\ Lag \in 0..7
         /\ Head = IF dst_mod = 0 THEN 0 ELSE 8 - dst_mod
         /\ Skew \in {0, 8} /\ Lag = src_mod + Skew - dst_mod
         /\ 8 * (call.src \div 8) + src_mod = call.src
         /\ 8 * (call.dst \div 8) + dst_mod = call.dst
<1>1. src_mod \in 0..7 /\ dst_mod \in 0..7
  BY DEF CallTypes, src_mod, dst_mod
<1>2. /\ 8 * (call.src \div 8) + src_mod = call.src
      /\ 8 * (call.dst \div 8) + dst_mod = call.dst
  <2>1. \A x \in Nat : 8 * (x \div 8) + (x % 8) = x
    OBVIOUS
  <2> QED
    BY <2>1 DEF CallTypes, src_mod, dst_mod
<1>3. Head = IF dst_mod = 0 THEN 0 ELSE 8 - dst_mod
  BY <1>1 DEF Head, HeadBits, dst_mod
<1>4. SameOffset(call.src, call.dst) <=> src_mod = dst_mod
  BY DEF SameOffset, src_mod, dst_mod
<1>5. Skew \in {0, 8} /\ Lag \in 0..7 /\ Lag = src_mod + Skew - dst_mod
  <2> HIDE DEF src_mod, dst_mod
  <2> QED
    BY <1>1, <1>4 DEF Lag, Skew, ByteLeft
<1> QED
  BY <1>1, <1>2, <1>3, <1>5

LEMMA Starts ==
  ASSUME CallTypes
  PROVE  /\ s0 \in Nat /\ d0 \in Nat
         /\ 8 * d0 = call.dst + Head /\ 8 * s0 + Lag = call.src + Head
         /\ s0 = IF dst_mod # 0 /\ src_mod >= dst_mod THEN call.src \div 8 + 1
                                                      ELSE call.src \div 8
         /\ d0 = IF dst_mod # 0 THEN call.dst \div 8 + 1 ELSE call.dst \div 8
<1> DEFINE sb == call.src \div 8
           db == call.dst \div 8
<1>1. sb \in Nat /\ db \in Nat
  BY DEF CallTypes
<1>2. /\ call.src = 8 * sb + src_mod /\ call.dst = 8 * db + dst_mod
  BY Offsets DEF CallTypes
<1>3. /\ src_mod \in 0..7 /\ dst_mod \in 0..7 /\ Lag = src_mod + Skew - dst_mod
      /\ Head = IF dst_mod = 0 THEN 0 ELSE 8 - dst_mod
      /\ Skew = IF src_mod < dst_mod THEN 8 ELSE 0
  BY Offsets DEF Skew
<1> HIDE DEF sb, db, src_mod, dst_mod, Head, Lag, Skew
<1>4. (call.dst + Head) \div 8 = IF dst_mod # 0 THEN db + 1 ELSE db
  BY <1>1, <1>2, <1>3
<1>5. (call.src + Head) \div 8
        = IF dst_mod # 0 /\ src_mod >= dst_mod THEN sb + 1 ELSE sb
  BY <1>1, <1>2, <1>3
<1>6. 8 * d0 = call.dst + Head /\ 8 * s0 + Lag = call.src + Head
  BY <1>1, <1>2, <1>3, <1>4, <1>5 DEF s0, d0
<1> QED
  BY <1>1, <1>4, <1>5, <1>6 DEF s0, d0, sb, db

(* The copy sees at s the bits that stand Lag after it. *)
LEMMA SourceByteBits ==
  ASSUME CallTypes, s \in Nat, NEW q \in 0..7
  PROVE  q \in SourceByte <=> 8 * s + q + Lag \in mem
<1>1. Lag \in 0..7
  BY Offsets
<1>2. CASE SameOffset(call.src, call.dst)
  BY <1>2 DEF SourceByte, Lag, Byte
<1>3. CASE ~SameOffset(call.src, call.dst)
  <2>1. SourceByte = Shl8(Byte(mem, s), Lag) \cup Shr8(Byte(mem, s + 1), 8 - Lag)
    BY <1>3 DEF SourceByte, Lag
  <2> HIDE DEF Lag
  <2>2. q \in Shl8(Byte(mem, s), Lag) <=> q + Lag \in Byte(mem, s)
    BY <1>1 DEF Shl8, Byte
  <2>3. q \in Shr8(Byte(mem, s + 1), 8 - Lag) <=> q + Lag - 8 \in Byte(mem, s + 1)
    BY <1>1 DEF Shr8, Byte
  <2>4. CASE q + Lag <= 7
    <3>1. q + Lag \in 0..7 /\ q + Lag - 8 \notin 0..7 /\ 8 * s + (q + Lag) = 8 * s + q + Lag
      BY <1>1, <2>4
    <3> QED
      BY <2>1, <2>2, <2>3, <3>1 DEF Byte
  <2>5. CASE q + Lag > 7
    <3>1. /\ q + Lag \notin 0..7 /\ q + Lag - 8 \in 0..7
          /\ 8 * (s + 1) + (q + Lag - 8) = 8 * s + q + Lag
      BY <1>1, <2>5
    <3> QED
      BY <2>1, <2>2, <2>3, <3>1 DEF Byte
  <2> QED
    BY <1>1, <2>4, <2>5
<1> QED
  BY <1>2, <1>3
-----------------------------------------------------------------------------
(* Each step keeps what the buffer holds. *)

LEMMA ContentsInit == Init => Contents
BY DEF Init, Contents, Last, MatchesBitcpy

(* What a call that enters, or stays in, a loop of the fast paths has to show. *)
LEMMA LastSame ==
  ASSUME UNCHANGED <<call, before>>, pc' \in {"bytes", "shift", "tail"}, Apart,
         8 * s' + Lag = call.src + 8 * d' - call.dst,
         call.dst + Rest <= 8 * d',
         mem' = Copied(Base, 8 * d' - (call.dst + Rest), call.src + Rest, call.dst + Rest),
         pc' = "bytes" => Lag = 0
  PROVE  Contents'
<1>1. /\ Apart' = Apart /\ Lag' = Lag /\ Rest' = Rest /\ Base' = Base
      /\ call' = call
  BY DEF Apart, Lag, ByteLeft, src_mod, dst_mod, Rest, Base, Plain, Head, Words, First,
         Skew, s0, d0, Left, Right
<1> HIDE DEF Apart, Lag, Rest, Base
<1> QED
  BY <1>1 DEF Contents, Last, MatchesBitcpy

LEMMA WordsSame ==
  ASSUME UNCHANGED <<call, before>>, pc' = "words", ~Plain,
         NEW k \in 0..Words,
         n_bits' = call.n - Head - 64 * k, s' = s0 + 8 * k, d' = d0 + 8 * k,
         mem' = MoveWords(First, s0, d0, Left, Right, k)
  PROVE  Contents'
<1>1. /\ Plain' = Plain /\ Words' = Words /\ Head' = Head /\ First' = First
      /\ s0' = s0 /\ d0' = d0 /\ Left' = Left /\ Right' = Right /\ call' = call
  BY DEF src_mod, dst_mod, Plain, Head, Words, First, Skew, s0, d0, Left, Right
<1> QED
  BY <1>1, Zenon DEF Contents, Last, MatchesBitcpy

LEMMA ContentsReturn == IInv /\ Contents /\ ReturnAtOnce => Contents'
<1> SUFFICES ASSUME IInv, Contents, ReturnAtOnce PROVE Contents'
  OBVIOUS
<1> USE DEF ReturnAtOnce
<1>1. CallTypes
  BY CallsAssumption DEF IInv, TypeOK, CallTypes
<1>2. mem = before /\ (call.n = 0 \/ call.src = call.dst)
  BY DEF Contents
<1>3. bitcpy(before, call.n, call.src, call.dst) = before
  <2>1. CASE call.n = 0
    <3>1. BitRange(call.dst, call.n) = {}
      BY <1>1, <2>1 DEF CallTypes, BitRange
    <3> QED
      BY <3>1, Zenon DEF bitcpy
  <2>2. CASE call.src = call.dst
    <3>1. bitcpy(before, call.n, call.src, call.dst)
            = (before \ BitRange(call.dst, call.n))
                \cup (Copied(before, call.n, call.src, call.dst)
                        \cap BitRange(call.dst, call.n))
      BY <2>2 DEF bitcpy, PlainPath
    <3>2. \A b \in BitRange(call.dst, call.n) : b - call.dst + call.src = b
      BY <1>1, <2>2 DEF CallTypes, BitRange
    <3> QED
      BY <3>1, <3>2, Zenon DEF Copied
  <2> QED
    BY <1>2, <2>1, <2>2
<1> QED
  BY <1>2, <1>3 DEF Contents, Last, MatchesBitcpy

LEMMA ContentsEnter == IInv /\ Contents /\ (EnterFallback \/ EnterFastPath) => Contents'
<1> SUFFICES ASSUME IInv, Contents, EnterFallback \/ EnterFastPath PROVE Contents'
  OBVIOUS
<1>1. CallTypes
  BY CallsAssumption DEF IInv, TypeOK, CallTypes
<1>2. /\ mem = before /\ s = call.src \div 8 /\ d = call.dst \div 8 /\ n_bits = call.n
      /\ i \in Nat
  BY DEF Contents, IInv, PointerInv, TypeOK, EnterFallback, EnterFastPath
<1>3. CASE EnterFallback
  <2> USE <1>3 DEF EnterFallback
  <2>1. Plain /\ call.src # call.dst /\ pc' = "fallback"
    BY DEF NeedsFallback, Plain, PlainPath
  <2>2. i = 0
    BY DEF Contents
  <2>3. mem = Copied(before, i, call.src, call.dst)
    BY <1>1, <1>2, <2>2, CopiedNothing DEF CallTypes
  <2>4. mem = Copied(before, i, call.src + call.n - i, call.dst + call.n - i)
    BY <1>1, <1>2, <2>2, CopiedNothing DEF CallTypes
  <2> QED
    BY <2>1, <2>3, <2>4 DEF Contents, Last, MatchesBitcpy, Plain
<1>4. CASE EnterFastPath
  <2> USE <1>4 DEF EnterFastPath
  <2>1. /\ call.n >= 8 /\ Apart /\ call.src # call.dst
        /\ Plain <=> src_mod = 0 /\ dst_mod = 0
    BY <1>1 DEF CallTypes, NeedsFallback, Overlaps, Apart, Plain, PlainPath, src_mod, dst_mod
  <2>2. UNCHANGED <<call, before, mem, n_bits, s, d, i>>
    OBVIOUS
  <2>3. CASE src_mod = 0 /\ dst_mod = 0
    <3>1. pc' = "bytes" /\ Rest = 0 /\ Base = before
      BY <2>1, <2>3 DEF Rest, Base
    <3>2. Lag = 0 /\ 8 * d = call.dst /\ 8 * s = call.src
      BY <1>1, <1>2, <2>3, Offsets DEF Lag, SameOffset, src_mod, dst_mod
    <3>3. mem = Copied(Base, 8 * d - (call.dst + Rest), call.src + Rest, call.dst + Rest)
      <4>1. /\ 8 * d - (call.dst + Rest) = 0
            /\ call.src + Rest = call.src /\ call.dst + Rest = call.dst
        BY <1>1, <3>1, <3>2 DEF CallTypes
      <4> QED
        BY <1>1, <1>2, <3>1, <4>1, CopiedNothing DEF CallTypes
    <3>4. 8 * s + Lag = call.src + 8 * d - call.dst /\ call.dst + Rest <= 8 * d
      BY <1>1, <3>1, <3>2 DEF CallTypes
    <3> QED
      BY <2>1, <2>2, <3>1, <3>2, <3>3, <3>4, LastSame
  <2>4. CASE src_mod # 0 /\ dst_mod = 0
    <3>1. pc' = "words" /\ ~Plain /\ Head = 0
      BY <1>1, <2>1, <2>4, Offsets
    <3>2. s = s0 /\ d = d0 /\ Words \in Nat
      BY <1>1, <1>2, <2>1, <2>4, <3>1, Starts DEF CallTypes, Words
    <3>3. mem = MoveWords(First, s0, d0, Left, Right, 0)
      <4>1. First = before
        BY <1>1, <3>1, CopiedNothing DEF First, CallTypes
      <4> QED
        BY <1>1, <1>2, <4>1, Starts, MoveWordsFirst
    <3> QED
      BY <1>1, <1>2, <2>2, <3>1, <3>2, <3>3, WordsSame DEF CallTypes
  <2>5. CASE dst_mod # 0
    <3>1. pc' = "head" /\ ~Plain
      BY <2>1, <2>5
    <3> QED
      BY <1>2, <2>2, <3>1 DEF Contents, Last, MatchesBitcpy, Plain
  <2> QED
    BY <2>3, <2>4, <2>5
<1> QED
  BY <1>3, <1>4

LEMMA CopyBitCopies ==
  ASSUME NEW k \in Nat, CopyBit(k), call.src \in Nat, call.dst \in Nat
  PROVE  mem' = Copied(mem, 1, call.src + k, call.dst + k)
<1>1. BitRange(call.dst + k, 1) = {call.dst + k}
  BY DEF BitRange
<1>2. (call.dst + k) - (call.dst + k) + (call.src + k) = call.src + k
  OBVIOUS
<1> QED
  BY <1>1, <1>2, Zenon DEF CopyBit, Copied

LEMMA ContentsFallback == IInv /\ Contents /\ FallbackTurn => Contents'
<1> SUFFICES ASSUME IInv, Contents, FallbackTurn PROVE Contents'
  OBVIOUS
<1> USE DEF FallbackTurn
<1>1. CallTypes
  BY CallsAssumption DEF IInv, TypeOK, CallTypes
<1>2. i \in Nat /\ i < call.n /\ Plain /\ call.src # call.dst
  BY <1>1 DEF IInv, TypeOK, Contents, CallTypes
<1>3. CASE call.dst < call.src
  <2>1. mem = Copied(before, i, call.src, call.dst) /\ CopyBit(i)
    BY <1>3 DEF Contents
  <2>2. mem' = Copied(mem, 1, call.src + i, call.dst + i)
    BY <1>1, <1>2, <2>1, CopyBitCopies DEF CallTypes
  <2>3. mem' = Copied(before, i + 1, call.src, call.dst)
    <3>1. /\ i \in Nat /\ 1 \in Nat /\ call.src \in Int /\ call.dst \in Int
          /\ call.dst <= call.src
      BY <1>1, <1>2, <1>3 DEF CallTypes
    <3>2. Copied(Copied(before, i, call.src, call.dst), 1, call.src + i, call.dst + i)
            = Copied(before, i + 1, call.src, call.dst)
      BY <3>1, CopiedOneUp
    <3> QED
      BY <2>1, <2>2, <3>2
  <2> QED
    BY <1>2, <1>3, <2>3 DEF Contents, Last, MatchesBitcpy, Plain
<1>4. CASE ~(call.dst < call.src)
  <2> DEFINE a == call.src + call.n - (i + 1)
             b == call.dst + call.n - (i + 1)
  <2>1. /\ a \in Int /\ b \in Int /\ a < b
        /\ a + 1 = call.src + call.n - i /\ b + 1 = call.dst + call.n - i
        /\ a = call.src + (call.n - 1 - i) /\ b = call.dst + (call.n - 1 - i)
    BY <1>1, <1>2, <1>4 DEF CallTypes
  <2>2. mem = Copied(before, i, a + 1, b + 1)
    <3>1. mem = Copied(before, i, call.src + call.n - i, call.dst + call.n - i)
      BY <1>4 DEF Contents
    <3> QED
      BY <2>1, <3>1
  <2>3. mem' = Copied(mem, 1, a, b)
    <3>1. call.n - 1 - i \in Nat /\ CopyBit(call.n - 1 - i)
      BY <1>1, <1>2, <1>4 DEF CallTypes
    <3> QED
      BY <1>1, <2>1, <3>1, CopyBitCopies DEF CallTypes
  <2>4. mem' = Copied(before, i + 1, a, b)
    <3> HIDE DEF a, b
    <3> QED
      BY <1>2, <2>1, <2>2, <2>3, CopiedDown
  <2> QED
    BY <1>2, <1>4, <2>4 DEF Contents, Last, MatchesBitcpy, Plain
<1> QED
  BY <1>3, <1>4
(* A byte stored through the shifts is a copy of its bits from Lag after s. *)
LEMMA StoredBits ==
  ASSUME CallTypes, s \in Nat, d \in Nat,
         NEW keep, NEW a \in 0..8, NEW b \in 0..8, a <= b,
         \A q \in 0..7 : q \in keep <=> (q < a \/ q >= b),
         NEW from, from = 8 * s + Lag + a, NEW to, to = 8 * d + a
  PROVE  PutMasked(mem, d, keep, SourceByte) = Copied(mem, b - a, from, to)
<1>1. Lag \in 0..7
  BY Offsets
<1> DEFINE m2 == PutMasked(mem, d, keep, SourceByte)
<1> SUFFICES IsCopy(mem, m2, b - a, from, to)
  BY IsCopied
<1> SUFFICES ASSUME NEW x
             PROVE  x \in m2 <=> IF x \in BitRange(to, b - a) THEN x - to + from \in mem
                                                              ELSE x \in mem
  BY DEF IsCopy
<1>2. x \in m2 <=> IF x \in BitRange(8 * d, 8) /\ x - 8 * d \notin keep
                   THEN x - 8 * d \in SourceByte ELSE x \in mem
  BY SourceByteType, PutMaskedBits
<1>3. x \in BitRange(8 * d, 8) /\ x - 8 * d \notin keep <=> x \in BitRange(to, b - a)
  BY DEF BitRange
<1>4. ASSUME x \in BitRange(to, b - a)
      PROVE  x - 8 * d \in SourceByte <=> x - to + from \in mem
  <2>1. x - 8 * d \in 0..7 /\ 8 * s + (x - 8 * d) + Lag = x - to + from
    BY <1>1, <1>4 DEF BitRange
  <2> QED
    BY <2>1, SourceByteBits
<1> QED
  BY <1>2, <1>3, <1>4

LEMMA RestType ==
  ASSUME CallTypes
  PROVE  /\ Rest \in Nat
         /\ ~Plain => Words \in Nat /\ 64 * Words <= call.n - Head
                      /\ call.n - Head < 64 * Words + 64 /\ call.n >= 8
<1>1. Head \in 0..7
  BY Offsets
<1>2. ~Plain => call.n >= 8
  BY DEF CallTypes, Plain, PlainPath
<1> QED
  BY <1>1, <1>2 DEF CallTypes, Rest, Words

(* The bits of the last loops are moved upwards, one store after the other. *)
LEMMA LastGoesOn ==
  ASSUME CallTypes, Contents, Last, d \in Nat, NEW j \in Nat,
         8 * d + j <= call.dst + call.n,
         NEW m2, m2 = Copied(mem, j, call.src + 8 * d - call.dst, 8 * d)
  PROVE  m2 = Copied(Base, 8 * d + j - (call.dst + Rest), call.src + Rest, call.dst + Rest)
<1>1. /\ Apart /\ call.dst + Rest <= 8 * d
      /\ mem = Copied(Base, 8 * d - (call.dst + Rest), call.src + Rest, call.dst + Rest)
  BY DEF Contents
<1>s. PICK src \in Int : src = call.src + Rest
  BY RestType DEF CallTypes
<1>d. PICK dst \in Int : dst = call.dst + Rest
  BY RestType DEF CallTypes
<1>k. PICK k \in Nat : k = 8 * d - dst
  BY <1>1, <1>d, RestType DEF CallTypes
<1>2. src + k + j <= dst \/ dst <= src
  BY <1>1, <1>s, <1>d, <1>k, RestType DEF CallTypes, Apart
<1>3. Copied(Copied(Base, k, src, dst), j, src + k, dst + k) = Copied(Base, k + j, src, dst)
  BY <1>2, CopiedUp
<1>4. /\ src + k = call.src + 8 * d - call.dst /\ dst + k = 8 * d
      /\ k + j = 8 * d + j - (call.dst + Rest)
  BY <1>s, <1>d, <1>k, RestType DEF CallTypes
<1>5. mem = Copied(Base, k, src, dst)
  BY <1>1, <1>s, <1>d, <1>k
<1> QED
  BY <1>3, <1>4, <1>5, <1>s, <1>d

(* With the frame, the last bit stored makes the buffer what bitcpy says. *)
LEMMA ClosedForm ==
  ASSUME CallTypes, NEW m2,
         m2 = Copied(Base, call.n - Rest, call.src + Rest, call.dst + Rest),
         \A b : b \notin BitRange(call.dst, call.n) => (b \in m2 <=> b \in before)
  PROVE  m2 = bitcpy(before, call.n, call.src, call.dst)
<1> DEFINE moved == IF Plain THEN Copied(before, call.n, call.src, call.dst)
                    ELSE Copied(MoveWords(First, s0, d0, Left, Right, Words),
                                call.n - Rest, call.src + Rest, call.dst + Rest)
<1>1. bitcpy(before, call.n, call.src, call.dst)
        = (before \ BitRange(call.dst, call.n)) \cup (moved \cap BitRange(call.dst, call.n))
  BY Zenon DEF bitcpy, Plain, Head, Words, Rest, Skew, First, s0, d0, Left, Right,
               src_mod, dst_mod
<1>2. moved = m2
  <2>1. CASE Plain
    <3>1. Rest = 0 /\ Base = before
      BY <2>1 DEF Rest, Base
    <3>2. call.n - Rest = call.n /\ call.src + Rest = call.src /\ call.dst + Rest = call.dst
      BY <3>1 DEF CallTypes
    <3> QED
      BY <2>1, <3>1, <3>2
  <2>2. CASE ~Plain
    BY <2>2 DEF Base
  <2> QED
    BY <2>1, <2>2
<1> HIDE DEF moved
<1> QED
  BY <1>1, <1>2, Zenon
LEMMA ContentsReturned == IInv /\ Contents /\ FallbackReturn => Contents'
<1> SUFFICES ASSUME IInv, Contents, FallbackReturn PROVE Contents'
  OBVIOUS
<1> USE DEF FallbackReturn
<1>1. CallTypes
  BY CallsAssumption DEF IInv, TypeOK, CallTypes
<1>2. mem = Copied(before, call.n, call.src, call.dst) /\ Plain
  <2>1. call.src + call.n - call.n = call.src /\ call.dst + call.n - call.n = call.dst
    BY <1>1 DEF CallTypes
  <2> QED
    BY <2>1 DEF Contents
<1>3. mem = bitcpy(before, call.n, call.src, call.dst)
  <2>1. Rest = 0 /\ Base = before
    BY <1>2 DEF Rest, Base
  <2>2. mem = Copied(Base, call.n - Rest, call.src + Rest, call.dst + Rest)
    BY <1>1, <1>2, <2>1 DEF CallTypes
  <2>3. \A b : b \notin BitRange(call.dst, call.n) => (b \in mem <=> b \in before)
    BY DEF IInv, OnlyDestination
  <2> QED
    BY <1>1, <2>2, <2>3, ClosedForm
<1> QED
  BY <1>3 DEF Contents, Last, MatchesBitcpy

LEMMA ContentsHead == IInv /\ Contents /\ HeadTurn => Contents'
<1> SUFFICES ASSUME IInv, Contents, HeadTurn PROVE Contents'
  OBVIOUS
<1> USE DEF HeadTurn
<1>1. CallTypes
  BY CallsAssumption DEF IInv, TypeOK, CallTypes
<1>2. /\ ~Plain /\ mem = before /\ s = call.src \div 8 /\ d = call.dst \div 8
      /\ n_bits = call.n /\ call.n >= 8 /\ dst_mod \in 1..7
  BY <1>1, Offsets DEF Contents, IInv, PointerInv
<1> DEFINE head == IF 8 - dst_mod > n_bits THEN n_bits ELSE 8 - dst_mod
           keep == keep_hi(dst_mod) \cup keep_lo(dst_mod + head)
<1>3. head = Head /\ Head = 8 - dst_mod
  <2>1. Head = 8 - dst_mod
    BY <1>1, <1>2, Offsets
  <2>2. ~(8 - dst_mod > n_bits)
    BY <1>1, <1>2 DEF CallTypes
  <2> QED
    BY <2>1, <2>2
<1>4. mem' = PutMasked(mem, d, keep, SourceByte) /\ n_bits' = n_bits - head
  BY Zenon
<1>5. \A q \in 0..7 : q \in keep <=> (q < dst_mod \/ q >= 8)
  BY <1>2, <1>3 DEF keep_hi, keep_lo
<1> HIDE DEF keep, head
<1>6. mem' = MoveWords(First, s0, d0, Left, Right, 0)
  <2>1. s \in Nat /\ d \in Nat
    BY DEF IInv, TypeOK
  <2>2. call.src + Skew = 8 * s + Lag + dst_mod /\ call.dst = 8 * d + dst_mod
    BY <1>1, <1>2, Offsets DEF CallTypes
  <2>3. PutMasked(mem, d, keep, SourceByte)
          = Copied(mem, 8 - dst_mod, call.src + Skew, call.dst)
    <3>1. dst_mod \in 0..8 /\ 8 \in 0..8 /\ dst_mod <= 8
      BY <1>2
    <3> QED
      BY <1>1, <1>5, <2>1, <2>2, <3>1, StoredBits
  <2>4. mem' = First
    BY <1>2, <1>3, <1>4, <2>3 DEF First
  <2> QED
    BY <1>1, <2>4, Starts, MoveWordsFirst
<1>7. 0 \in 0..Words
  BY <1>1, <1>2, RestType
<1>8. n_bits' = call.n - Head - 64 * 0 /\ s' = s0 + 8 * 0 /\ d' = d0 + 8 * 0
  BY <1>1, <1>2, <1>3, <1>4, Starts, Offsets DEF CallTypes
<1> QED
  BY <1>2, <1>6, <1>7, <1>8, WordsSame

LEMMA ContentsWord == IInv /\ Contents /\ WordTurn => Contents'
<1> SUFFICES ASSUME IInv, Contents, WordTurn PROVE Contents'
  OBVIOUS
<1> USE DEF WordTurn
<1>1. CallTypes
  BY CallsAssumption DEF IInv, TypeOK, CallTypes
<1>2. ~Plain
  BY DEF Contents
<1>3. PICK k \in 0..Words : /\ n_bits = call.n - Head - 64 * k
                            /\ s = s0 + 8 * k /\ d = d0 + 8 * k
                            /\ mem = MoveWords(First, s0, d0, Left, Right, k)
  BY DEF Contents
<1>4. k \in Nat /\ k + 1 \in 0..Words
  BY <1>1, <1>2, <1>3, RestType, Offsets DEF CallTypes
<1>5. mem' = MoveWords(First, s0, d0, Left, Right, k + 1)
  <2>1. mem' = PutWord(mem, s0 + 8 * k, d0 + 8 * k, Left, Right)
    BY <1>3, Zenon DEF Left, Right
  <2>2. s0 \in Int /\ d0 \in Int
    BY <1>1, Starts
  <2>3. MoveWords(First, s0, d0, Left, Right, k + 1)
          = PutWord(MoveWords(First, s0, d0, Left, Right, k),
                    s0 + 8 * k, d0 + 8 * k, Left, Right)
    BY <1>4, <2>2, MoveWordsTurn
  <2> QED
    BY <1>3, <2>1, <2>3
<1>6. /\ n_bits' = call.n - Head - 64 * (k + 1)
      /\ s' = s0 + 8 * (k + 1) /\ d' = d0 + 8 * (k + 1)
  BY <1>1, <1>3, <1>4, Starts, Offsets DEF CallTypes
<1> QED
  BY <1>2, <1>4, <1>5, <1>6, WordsSame

LEMMA ContentsWordsDone == IInv /\ Contents /\ WordsDone => Contents'
<1> SUFFICES ASSUME IInv, Contents, WordsDone PROVE Contents'
  OBVIOUS
<1> USE DEF WordsDone
<1>1. CallTypes
  BY CallsAssumption DEF IInv, TypeOK, CallTypes
<1>2. ~Plain
  BY DEF Contents
<1>3. PICK k \in 0..Words : /\ n_bits = call.n - Head - 64 * k
                            /\ s = s0 + 8 * k /\ d = d0 + 8 * k
                            /\ mem = MoveWords(First, s0, d0, Left, Right, k)
  BY DEF Contents
<1>4. k = Words
  BY <1>1, <1>2, <1>3, RestType, Offsets DEF CallTypes
<1>5. mem = Base /\ Rest = Head + 64 * Words
  BY <1>2, <1>3, <1>4 DEF Base, Rest
<1>6. 8 * d = call.dst + Rest /\ 8 * s + Lag = call.src + 8 * d - call.dst
  <2>1. /\ Words \in Nat /\ Head \in 0..7 /\ Lag \in 0..7 /\ s0 \in Nat /\ d0 \in Nat
        /\ 8 * d0 = call.dst + Head /\ 8 * s0 + Lag = call.src + Head
    BY <1>1, <1>2, RestType, Offsets, Starts
  <2>2. s = s0 + 8 * Words /\ d = d0 + 8 * Words
    BY <1>3, <1>4
  <2> QED
    BY <1>1, <1>5, <2>1, <2>2 DEF CallTypes
<1>7. mem = Copied(Base, 8 * d - (call.dst + Rest), call.src + Rest, call.dst + Rest)
  <2>1. 8 * d - (call.dst + Rest) = 0 /\ call.dst + Rest \in Int
    BY <1>1, <1>6, RestType DEF CallTypes
  <2> QED
    BY <1>5, <2>1, CopiedNothing
<1>8. Apart
  BY <1>1, <1>2 DEF CallTypes, Apart, Plain, PlainPath, Overlaps
<1>9. pc' = "bytes" => Lag = 0
  BY DEF Lag
<1> QED
  BY <1>1, <1>6, <1>7, <1>8, <1>9, RestType, LastSame DEF CallTypes
LEMMA ContentsBytes == IInv /\ Contents /\ MoveBytes => Contents'
<1> SUFFICES ASSUME IInv, Contents, MoveBytes PROVE Contents'
  OBVIOUS
<1> USE DEF MoveBytes
<1>1. CallTypes
  BY CallsAssumption DEF IInv, TypeOK, CallTypes
<1>2. /\ n_bits \in Nat /\ d \in Nat /\ s \in Nat
      /\ 8 * d + n_bits = call.dst + call.n
      /\ Last /\ Apart /\ Lag = 0 /\ call.dst + Rest <= 8 * d
      /\ 8 * s + Lag = call.src + 8 * d - call.dst
  BY <1>1 DEF IInv, TypeOK, PointerInv, Fast, Contents, Last
<1> DEFINE nbytes == n_bits \div 8
<1>3. nbytes \in Nat /\ 8 * nbytes \in Nat /\ 8 * nbytes <= n_bits
  BY <1>2
<1>4. mem' = Copied(mem, 8 * nbytes, 8 * s, 8 * d) /\ s' = s + nbytes /\ d' = d + nbytes
  OBVIOUS
<1> HIDE DEF nbytes
<1>5. mem' = Copied(Base, 8 * d + 8 * nbytes - (call.dst + Rest),
                    call.src + Rest, call.dst + Rest)
  <2>1. 8 * s = call.src + 8 * d - call.dst
    BY <1>1, <1>2 DEF CallTypes
  <2>2. 8 * d + 8 * nbytes <= call.dst + call.n
    BY <1>1, <1>2, <1>3 DEF CallTypes
  <2> HIDE DEF MoveBytes
  <2> QED
    BY <1>1, <1>2, <1>3, <1>4, <2>1, <2>2, LastGoesOn
<1>6. /\ 8 * d' - (call.dst + Rest) = 8 * d + 8 * nbytes - (call.dst + Rest)
      /\ 8 * s' + Lag = call.src + 8 * d' - call.dst /\ call.dst + Rest <= 8 * d'
  BY <1>1, <1>2, <1>3, <1>4, RestType DEF CallTypes
<1> QED
  BY <1>2, <1>5, <1>6, LastSame

LEMMA ContentsShift == IInv /\ Contents /\ ShiftTurn => Contents'
<1> SUFFICES ASSUME IInv, Contents, ShiftTurn PROVE Contents'
  OBVIOUS
<1> USE DEF ShiftTurn
<1>1. CallTypes
  BY CallsAssumption DEF IInv, TypeOK, CallTypes
<1>2. /\ n_bits \in Nat /\ n_bits >= 8 /\ d \in Nat /\ s \in Nat
      /\ 8 * d + n_bits = call.dst + call.n
      /\ Last /\ Apart /\ call.dst + Rest <= 8 * d
      /\ 8 * s + Lag = call.src + 8 * d - call.dst
  BY <1>1 DEF IInv, TypeOK, PointerInv, Fast, Contents, Last
<1>3. mem' = Copied(mem, 8, call.src + 8 * d - call.dst, 8 * d)
  <2>1. PutByte(mem, d, SourceByte) = PutMasked(mem, d, {}, SourceByte)
    <3>1. (Byte(mem, d) \cap {}) \cup (SourceByte \ {}) = SourceByte
      OBVIOUS
    <3> QED
      BY <3>1 DEF PutMasked
  <2>2. \A q \in 0..7 : q \in {} <=> (q < 0 \/ q >= 8)
    OBVIOUS
  <2>3. /\ 8 - 0 = 8 /\ call.src + 8 * d - call.dst = 8 * s + Lag + 0
        /\ 8 * d = 8 * d + 0
    BY <1>1, <1>2, Offsets
  <2>4. PutMasked(mem, d, {}, SourceByte)
          = Copied(mem, 8 - 0, call.src + 8 * d - call.dst, 8 * d)
    BY <1>1, <1>2, <2>2, <2>3, StoredBits
  <2> QED
    BY <2>1, <2>3, <2>4
<1>4. mem' = Copied(Base, 8 * d + 8 - (call.dst + Rest), call.src + Rest, call.dst + Rest)
  <2>1. 8 * d + 8 <= call.dst + call.n /\ 8 \in Nat
    BY <1>1, <1>2 DEF CallTypes
  <2> HIDE DEF ShiftTurn
  <2> QED
    BY <1>1, <1>2, <1>3, <2>1, LastGoesOn
<1>5. /\ 8 * d' - (call.dst + Rest) = 8 * d + 8 - (call.dst + Rest)
      /\ 8 * s' + Lag = call.src + 8 * d' - call.dst /\ call.dst + Rest <= 8 * d'
  <2>1. d' = d + 1 /\ s' = s + 1
    OBVIOUS
  <2>2. Rest \in Nat /\ Lag \in 0..7 /\ call.src \in Nat /\ call.dst \in Nat
    BY <1>1, RestType, Offsets DEF CallTypes
  <2> HIDE DEF ShiftTurn
  <2> QED
    BY <1>2, <2>1, <2>2
<1> QED
  BY <1>2, <1>4, <1>5, LastSame

LEMMA ContentsTail == IInv /\ Contents /\ Tail => Contents'
<1> SUFFICES ASSUME IInv, IInv', Contents, Tail PROVE Contents'
  BY NextInv DEF Next
<1> USE DEF Tail
<1>1. CallTypes
  BY CallsAssumption DEF IInv, TypeOK, CallTypes
<1>2. /\ n_bits \in 0..7 /\ d \in Nat /\ s \in Nat
      /\ 8 * d + n_bits = call.dst + call.n
      /\ Last /\ Apart /\ call.dst + Rest <= 8 * d
      /\ 8 * s + Lag = call.src + 8 * d - call.dst
      /\ mem = Copied(Base, 8 * d - (call.dst + Rest), call.src + Rest, call.dst + Rest)
  BY <1>1 DEF IInv, TypeOK, PointerInv, Fast, Contents, Last
<1>3. mem' = Copied(Base, call.n - Rest, call.src + Rest, call.dst + Rest)
  <2>1. CASE n_bits = 0
    <3>1. 8 * d - (call.dst + Rest) = call.n - Rest
      BY <1>1, <1>2, <2>1, RestType DEF CallTypes
    <3> QED
      BY <1>2, <2>1, <3>1
  <2>2. CASE n_bits # 0
    <3>1. \A q \in 0..7 : q \in keep_lo(n_bits) <=> (q < 0 \/ q >= n_bits)
      BY <1>2 DEF keep_lo
    <3>2. /\ n_bits - 0 = n_bits /\ call.src + 8 * d - call.dst = 8 * s + Lag + 0
          /\ 8 * d = 8 * d + 0 /\ n_bits \in 0..8 /\ 0 <= n_bits
      BY <1>1, <1>2, Offsets
    <3>3. PutMasked(mem, d, keep_lo(n_bits), SourceByte)
            = Copied(mem, n_bits - 0, call.src + 8 * d - call.dst, 8 * d)
      BY <1>1, <1>2, <3>1, <3>2, StoredBits
    <3>4. mem' = Copied(mem, n_bits, call.src + 8 * d - call.dst, 8 * d)
      BY <2>2, <3>2, <3>3
    <3>5. mem' = Copied(Base, 8 * d + n_bits - (call.dst + Rest),
                        call.src + Rest, call.dst + Rest)
      <4>1. 8 * d + n_bits <= call.dst + call.n /\ n_bits \in Nat
        BY <1>1, <1>2 DEF CallTypes
      <4> HIDE DEF Tail
      <4> QED
        BY <1>1, <1>2, <3>4, <4>1, LastGoesOn
    <3>6. 8 * d + n_bits - (call.dst + Rest) = call.n - Rest
      BY <1>1, <1>2, RestType DEF CallTypes
    <3> QED
      BY <3>5, <3>6
  <2> QED
    BY <2>1, <2>2
<1>4. \A b : b \notin BitRange(call.dst, call.n) => (b \in mem' <=> b \in before)
  BY DEF IInv, OnlyDestination
<1>5. mem' = bitcpy(before, call.n, call.src, call.dst)
  <2> HIDE DEF Tail
  <2> QED
    BY <1>1, <1>3, <1>4, ClosedForm
<1> QED
  BY <1>5 DEF Contents, Last, MatchesBitcpy

LEMMA ContentsNext == IInv /\ Contents /\ [Next]_vars => Contents'
<1> SUFFICES ASSUME IInv, Contents, [Next]_vars PROVE Contents'
  OBVIOUS
<1>1. CASE ShiftDone
  <2>1. /\ mem = Copied(Base, 8 * d - (call.dst + Rest), call.src + Rest, call.dst + Rest)
        /\ Apart /\ 8 * s + Lag = call.src + 8 * d - call.dst
        /\ call.dst + Rest <= 8 * d
    BY <1>1 DEF ShiftDone, Contents, Last
  <2> QED
    BY <1>1, <2>1, LastSame DEF ShiftDone
<1>2. CASE UNCHANGED vars
  BY <1>2 DEF vars, Contents, Last, MatchesBitcpy, Apart, Lag, ByteLeft, src_mod, dst_mod,
              Rest, Base, Plain, Head, Words, First, Skew, s0, d0, Left, Right
<1> QED
  BY <1>1, <1>2, ContentsReturn, ContentsEnter, ContentsFallback, ContentsReturned,
     ContentsHead, ContentsWord, ContentsWordsDone, ContentsBytes, ContentsShift,
     ContentsTail DEF Next

(* The closed form is exact: for every n, src and dst and every buffer, a    *)
(* call of bitcpy that returns has left what bitcpy of module BitOps says,   *)
(* its skewed heads and its 64-bit loops included.  Module VM may use it.    *)
THEOREM MatchesBitcpyCorrect == Spec => []MatchesBitcpy
<1>1. Contents => MatchesBitcpy
  BY DEF Contents
<1> QED
  BY InitInv, NextInv, ContentsInit, ContentsNext, <1>1, PTL DEF Spec

(* Off those two paths the call is copy(n, dst, src), for every overlap.     *)
THEOREM CopiesExactlyCorrect == Spec => []CopiesExactly
<1>1. IInv /\ Contents => CopiesExactly
  <2> SUFFICES ASSUME IInv, MatchesBitcpy PROVE CopiesExactly
    BY DEF Contents
  <2>1. call.n \in Nat /\ call.src \in Nat /\ call.dst \in Nat
    BY CallsAssumption DEF IInv, TypeOK
  <2> QED
    BY <2>1, bitcpyExact DEF MatchesBitcpy, CopiesExactly
<1> QED
  BY InitInv, NextInv, ContentsInit, ContentsNext, <1>1, PTL DEF Spec

-----------------------------------------------------------------------------
(* The safety half of Terminates: a count of the steps to come.              *)

Rank == [call |-> 5, head |-> 4, words |-> 3, bytes |-> 2, shift |-> 2,
         fallback |-> 1, tail |-> 1, done |-> 0]

StepsLeft == Rank[pc] + n_bits + (call.n - i)

(* No path of bitcpy takes more than 2 * n + 5 steps: every step, of every   *)
(* loop, leaves fewer to come, and the count cannot fall below 0.            *)
THEOREM StepsFall == Spec => [](StepsLeft \in Nat) /\ [][StepsLeft' < StepsLeft]_vars
<1>1. IInv => StepsLeft \in Nat
  <2> SUFFICES ASSUME IInv PROVE StepsLeft \in Nat
    OBVIOUS
  <2>1. call.n \in Nat
    BY CallsAssumption DEF IInv, TypeOK
  <2>2. Rank[pc] \in 0..5
    BY DEF IInv, TypeOK, Rank
  <2>3. n_bits \in Nat /\ call.n - i \in Nat
    BY <2>1 DEF IInv, TypeOK
  <2> QED
    BY <2>2, <2>3 DEF StepsLeft
<1>2. IInv /\ IInv' /\ [Next]_vars => [StepsLeft' < StepsLeft]_vars
  <2> SUFFICES ASSUME IInv, IInv', Next PROVE StepsLeft' < StepsLeft
    OBVIOUS
  <2>1. /\ call.n \in Nat /\ n_bits \in Nat /\ n_bits' \in Nat
        /\ i \in Nat /\ i' \in Nat /\ Rank[pc] \in Nat /\ Rank[pc'] \in Nat
    BY CallsAssumption DEF IInv, TypeOK, Rank
  <2>2. call' = call
    BY DEF Next, ReturnAtOnce, EnterFallback, EnterFastPath, FallbackTurn, FallbackReturn,
       HeadTurn, WordTurn, WordsDone, MoveBytes, ShiftTurn, ShiftDone, Tail
  <2>3. CASE ReturnAtOnce \/ EnterFallback \/ EnterFastPath \/ FallbackReturn
             \/ WordsDone \/ ShiftDone \/ Tail
    <3>1. n_bits' = n_bits /\ i' = i /\ Rank[pc'] < Rank[pc]
      BY <2>3 DEF Rank, ReturnAtOnce, EnterFallback, EnterFastPath, FallbackReturn,
         WordsDone, ShiftDone, Tail
    <3> QED
      BY <2>1, <2>2, <3>1 DEF StepsLeft
  <2>4. CASE FallbackTurn
    BY <2>1, <2>2, <2>4 DEF StepsLeft, FallbackTurn
  <2>5. CASE HeadTurn \/ MoveBytes
    <3>1. i' = i /\ Rank[pc'] < Rank[pc]
      BY <2>5 DEF Rank, HeadTurn, MoveBytes
    <3>2. n_bits' <= n_bits
      <4>1. CASE HeadTurn
        <5>1. 8 - dst_mod \in Nat
          BY CallsAssumption DEF IInv, TypeOK, dst_mod
        <5> QED
          BY <2>1, <4>1, <5>1 DEF HeadTurn
      <4>2. CASE MoveBytes
        BY <2>1, <4>2 DEF MoveBytes
      <4> QED
        BY <2>5, <4>1, <4>2
    <3> QED
      BY <2>1, <2>2, <3>1, <3>2 DEF StepsLeft
  <2>6. CASE WordTurn \/ ShiftTurn
    BY <2>1, <2>2, <2>6 DEF StepsLeft, WordTurn, ShiftTurn
  <2> QED
    BY <2>3, <2>4, <2>5, <2>6 DEF Next
<1> QED
  BY <1>1, <1>2, InitInv, NextInv, PTL DEF Spec
=============================================================================
