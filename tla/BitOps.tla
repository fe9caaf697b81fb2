------------------------------- MODULE BitOps -------------------------------
(***************************************************************************)
(* Bit memory of the Copy-Space VM and its one primitive, bitcpy().        *)
(*                                                                         *)
(* A memory is the SET of the bit addresses that hold a 1, so reading a    *)
(* bit is membership and every memory, of any size, is a set of naturals.  *)
(* Bit 0 of a byte is its most significant bit (mask 0x80), as in the C    *)
(* code; byte p holds the bits 8p .. 8p+7.                                 *)
(*                                                                         *)
(* 64-bit loads and stores are those of a little-endian host (x86-64).     *)
(***************************************************************************)
EXTENDS Integers

(* The half-open interval [a, a+n) of bit addresses. *)
BitRange(a, n) == a .. (a + n - 1)

(* The meaning of copy(n, dst, src): the n bits read first, then written. *)
Copied(m, n, src, dst) ==
  (m \ BitRange(dst, n)) \cup {b \in BitRange(dst, n) : b - dst + src \in m}

Overlaps(n, src, dst) == src < dst + n /\ dst < src + n

-----------------------------------------------------------------------------
(* Numbers.  They stand most significant bit first, as in vm_read_uint.    *)

(* 1 << k *)
pow2[k \in Nat] == IF k = 0 THEN 1 ELSE 2 * pow2[k-1]

(* v >> k *)
Shr(v, k) ==
  LET halved[j \in Nat] == IF j = 0 THEN v ELSE halved[j-1] \div 2
  IN  halved[k]

vm_bit_get(m, b) == IF b \in m THEN 1 ELSE 0

(* The number in the w bits from pos on: v = (v << 1) | bit, w times. *)
Number(m, pos, w) ==
  LET v[j \in Nat] ==
        IF j = 0 THEN 0 ELSE 2 * v[j-1] + vm_bit_get(m, pos + j - 1)
  IN  v[w]

(* The bits that are 1 when v is written there. *)
Digits(v, pos, w) == {b \in BitRange(pos, w) : Shr(v, pos + w - 1 - b) % 2 = 1}

(* The least k with 2^k >= x. *)
ceil_log2(x) == CHOOSE k \in 0..x : pow2[k] >= x /\ (k = 0 \/ pow2[k-1] < x)
round_up_to_8(x) == 8 * ((x + 7) \div 8)

-----------------------------------------------------------------------------
(* Bytes as sets of bit offsets 0..7; << moves bits to smaller offsets.    *)

Byte(m, p) == {q \in 0..7 : 8 * p + q \in m}

PutByte(m, p, byte) == (m \ BitRange(8 * p, 8)) \cup {8 * p + q : q \in byte}

Shl8(byte, k) == {q - k : q \in byte} \cap 0..7
Shr8(byte, k) == {q + k : q \in byte} \cap 0..7

(* Top k bits of a byte, and all but the top k. *)
keep_hi(k) == 0 .. (k - 1)
keep_lo(k) == k .. 7

(* The byte at p keeps its own bits at keep and takes those of c elsewhere. *)
PutMasked(m, p, keep, c) == PutByte(m, p, (Byte(m, p) \cap keep) \cup (c \ keep))

-----------------------------------------------------------------------------
(* 64-bit words as sets of significances: memcpy of 8 bytes makes byte j   *)
(* of memory the significances 8j .. 8j+7.                                 *)

SigAddr(p, s) == 8 * (p + (s \div 8)) + 7 - (s % 8)

Load64(m, p) == {s \in 0..63 : SigAddr(p, s) \in m}

Store64(m, p, w) == (m \ BitRange(8 * p, 64)) \cup {SigAddr(p, s) : s \in w}

Shl64(w, k) == {s + k : s \in w} \cap 0..63
Shr64(w, k) == {s - k : s \in w} \cap 0..63

(* One turn of either 64-bit loop: w = (a << left) | (b >> right). *)
PutWord(m, s, d, left, right) ==
  Store64(m, d, Shl64(Load64(m, s), left) \cup Shr64(Load64(m, s + 8), right))

-----------------------------------------------------------------------------
(* Bits copied before dst reaches a byte boundary. *)
HeadBits(dst) == (8 - (dst % 8)) % 8

SameOffset(src, dst) == src % 8 = dst % 8

(* Shift counts of the 64-bit loops. *)
LeftShift(src, dst) ==
  IF SameOffset(src, dst) THEN src % 8 ELSE (src - dst) % 8
RightShift(src, dst) ==
  IF SameOffset(src, dst) THEN 64 - (src % 8) ELSE 8 - ((src - dst) % 8)

(* The early returns of bitcpy that move the bits one at a time or bytewise. *)
PlainPath(n, src, dst) ==
  \/ n < 8
  \/ src = dst
  \/ Overlaps(n, src, dst)
  \/ src % 8 = 0 /\ dst % 8 = 0

(* k turns of the 64-bit loop from the byte pointers s and d on. *)
MoveWords(m, s, d, left, right, k) ==
  LET moved[j \in Nat] ==
        IF j = 0 THEN m
        ELSE PutWord(moved[j-1], s + 8 * (j - 1), d + 8 * (j - 1), left, right)
  IN  moved[k]

(***************************************************************************)
(* What bitcpy(n, m, src, m, dst) leaves in memory, path by path.  The     *)
(* plain paths copy.  The others take the head bits (from one byte too far *)
(* when src % 8 < dst % 8), then whole 64-bit words while 64 bits remain   *)
(* (each word mixes the bytes of two loads), then the remaining bits.      *)
(* Every path stores inside [dst, dst+n): module Bitcpy, which has the     *)
(* pointers, masks and loops, checks that and that it computes this.       *)
(***************************************************************************)
bitcpy(m, n, src, dst) ==
  LET head  == HeadBits(dst)
      words == (n - head) \div 64
      rest  == head + 64 * words
      skew  == IF src % 8 < dst % 8 THEN 8 ELSE 0
      first == Copied(m, head, src + skew, dst)
      body  == MoveWords(first, (src + head) \div 8, (dst + head) \div 8,
                         LeftShift(src, dst), RightShift(src, dst), words)
      moved == IF PlainPath(n, src, dst)
               THEN Copied(m, n, src, dst)
               ELSE Copied(body, n - rest, src + rest, dst + rest)
  IN  (m \ BitRange(dst, n)) \cup (moved \cap BitRange(dst, n))

(* The copies for which bitcpy's fast paths do not move the bits as asked. *)
SkewedHead(n, src, dst) ==
  ~PlainPath(n, src, dst) /\ src % 8 < dst % 8
WordBody(n, src, dst) ==
  ~PlainPath(n, src, dst) /\ n - HeadBits(dst) >= 64
=============================================================================
