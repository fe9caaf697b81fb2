------------------------------- MODULE Bitcpy -------------------------------
(***************************************************************************)
(* bitcpy.c as a state machine: one call of                                *)
(*    bitcpy(n_bits, space, src_bit, space, dst_bit)                       *)
(* over one buffer, with its early returns, byte pointers, masks and       *)
(* loops; every loop turn is a step.  The buffer is an unbounded bit       *)
(* memory: loads may reach past the end of the VM's space, and what they   *)
(* find there is part of the chosen initial memory.                        *)
(***************************************************************************)
EXTENDS BitOps

CONSTANTS
  Calls,     \* the calls examined: records [n, src, dst]
  Memories   \* the initial contents of the buffer

ASSUME CallsAssumption ==
  \A c \in Calls : c.n \in Nat /\ c.src \in Nat /\ c.dst \in Nat
ASSUME MemoriesAssumption == \A m \in Memories : m \subseteq Nat

VARIABLES
  call,      \* the arguments, in bits
  before,    \* the buffer when bitcpy was called
  mem,       \* the buffer
  n_bits,    \* bits still to move (fast paths)
  s, d,      \* the byte pointers src and dst
  i,         \* turns taken by the overlap-safe loop
  pc

vars == <<call, before, mem, n_bits, s, d, i, pc>>

src_mod == call.src % 8
dst_mod == call.dst % 8

Init ==
  /\ call \in Calls
  /\ before \in Memories
  /\ mem = before
  /\ n_bits = call.n
  /\ s = call.src \div 8
  /\ d = call.dst \div 8
  /\ i = 0
  /\ pc = "call"

-----------------------------------------------------------------------------
(* Early returns and the choice of a path. *)

ReturnAtOnce ==
  /\ pc = "call"
  /\ call.n = 0 \/ call.src = call.dst
  /\ pc' = "done"
  /\ UNCHANGED <<call, before, mem, n_bits, s, d, i>>

NeedsFallback == call.n < 8 \/ Overlaps(call.n, call.src, call.dst)

EnterFallback ==
  /\ pc = "call"
  /\ call.n # 0 /\ call.src # call.dst
  /\ NeedsFallback
  /\ pc' = "fallback"
  /\ UNCHANGED <<call, before, mem, n_bits, s, d, i>>

(* Both offsets 0: whole bytes at once.  Otherwise align dst first. *)
EnterFastPath ==
  /\ pc = "call"
  /\ call.n # 0 /\ call.src # call.dst
  /\ ~NeedsFallback
  /\ pc' = IF src_mod = 0 /\ dst_mod = 0 THEN "bytes"
           ELSE IF dst_mod = 0 THEN "words" ELSE "head"
  /\ UNCHANGED <<call, before, mem, n_bits, s, d, i>>

-----------------------------------------------------------------------------
(* bitcpy_overlap_fallback: upwards when dst < src, else downwards. *)

CopyBit(k) ==
  mem' = IF call.src + k \in mem THEN mem \cup {call.dst + k}
                                 ELSE mem \ {call.dst + k}

(* Mutant: always upwards, whatever the overlap. *)
FallbackTurnMutant ==
  /\ pc = "fallback"
  /\ i < call.n
  /\ CopyBit(i)
  /\ i' = i + 1
  /\ UNCHANGED <<call, before, n_bits, s, d, pc>>

FallbackTurn ==
  /\ pc = "fallback"
  /\ i < call.n
  /\ CopyBit(IF call.dst < call.src THEN i ELSE call.n - 1 - i)
  /\ i' = i + 1
  /\ UNCHANGED <<call, before, n_bits, s, d, pc>>

FallbackReturn ==
  /\ pc = "fallback"
  /\ i = call.n
  /\ pc' = "done"
  /\ UNCHANGED <<call, before, mem, n_bits, s, d, i>>

-----------------------------------------------------------------------------
(* The fast paths. *)

(* left and right of the byte-wise shifts. *)
ByteLeft == IF src_mod > dst_mod THEN src_mod - dst_mod
                                 ELSE 8 - (dst_mod - src_mod)

(* The source byte as the copy sees it at pointer s. *)
SourceByte ==
  IF SameOffset(call.src, call.dst) THEN Byte(mem, s)
  ELSE Shl8(Byte(mem, s), ByteLeft) \cup Shr8(Byte(mem, s + 1), 8 - ByteLeft)

(* Mutant: src is advanced in the misaligned case only. *)
HeadTurnMutant ==
  /\ pc = "head"
  /\ LET head == 8 - dst_mod
     IN  /\ mem' = PutMasked(mem, d, keep_hi(dst_mod), SourceByte)
         /\ n_bits' = n_bits - head
  /\ d' = d + 1
  /\ s' = IF src_mod > dst_mod THEN s + 1 ELSE s
  /\ pc' = "words"
  /\ UNCHANGED <<call, before, i>>

HeadTurn ==
  /\ pc = "head"
  /\ LET head == IF 8 - dst_mod > n_bits THEN n_bits ELSE 8 - dst_mod
         keep == keep_hi(dst_mod) \cup keep_lo(dst_mod + head)
     IN  /\ mem' = PutMasked(mem, d, keep, SourceByte)
         /\ n_bits' = n_bits - head
  /\ d' = d + 1
  /\ s' = IF src_mod >= dst_mod THEN s + 1 ELSE s
  /\ pc' = "words"
  /\ UNCHANGED <<call, before, i>>

WordTurn ==
  /\ pc = "words"
  /\ n_bits >= 64
  /\ mem' = PutWord(mem, s, d, LeftShift(call.src, call.dst),
                               RightShift(call.src, call.dst))
  /\ s' = s + 8 /\ d' = d + 8
  /\ n_bits' = n_bits - 64
  /\ UNCHANGED <<call, before, i, pc>>

WordsDone ==
  /\ pc = "words"
  /\ n_bits < 64
  /\ pc' = IF SameOffset(call.src, call.dst) THEN "bytes" ELSE "shift"
  /\ UNCHANGED <<call, before, mem, n_bits, s, d, i>>

(* memmove of the remaining whole bytes (same bit offset). *)
MoveBytes ==
  /\ pc = "bytes"
  /\ LET nbytes == n_bits \div 8
     IN  /\ mem' = Copied(mem, 8 * nbytes, 8 * s, 8 * d)
         /\ s' = s + nbytes /\ d' = d + nbytes
         /\ n_bits' = n_bits - 8 * nbytes
  /\ pc' = "tail"
  /\ UNCHANGED <<call, before, i>>

(* Mutant: the loop runs while any bit is left. *)
ShiftTurnMutant ==
  /\ pc = "shift"
  /\ n_bits > 0
  /\ mem' = PutByte(mem, d, SourceByte)
  /\ s' = s + 1 /\ d' = d + 1
  /\ n_bits' = n_bits - 8
  /\ UNCHANGED <<call, before, i, pc>>

ShiftTurn ==
  /\ pc = "shift"
  /\ n_bits >= 8
  /\ mem' = PutByte(mem, d, SourceByte)
  /\ s' = s + 1 /\ d' = d + 1
  /\ n_bits' = n_bits - 8
  /\ UNCHANGED <<call, before, i, pc>>

(* Mutant: the tail is never reached. *)
ShiftDoneMutant ==
  /\ pc = "shift"
  /\ n_bits = 0
  /\ pc' = "tail"
  /\ UNCHANGED <<call, before, mem, n_bits, s, d, i>>

ShiftDone ==
  /\ pc = "shift"
  /\ n_bits < 8
  /\ pc' = "tail"
  /\ UNCHANGED <<call, before, mem, n_bits, s, d, i>>

(* Mutant: the last byte is stored whole. *)
TailMutant ==
  /\ pc = "tail"
  /\ mem' = IF n_bits = 0 THEN mem ELSE PutByte(mem, d, SourceByte)
  /\ pc' = "done"
  /\ UNCHANGED <<call, before, n_bits, s, d, i>>

Tail ==
  /\ pc = "tail"
  /\ mem' = IF n_bits = 0 THEN mem
            ELSE PutMasked(mem, d, keep_lo(n_bits), SourceByte)
  /\ pc' = "done"
  /\ UNCHANGED <<call, before, n_bits, s, d, i>>

Next ==
  \/ ReturnAtOnce \/ EnterFallback \/ EnterFastPath
  \/ FallbackTurn \/ FallbackReturn
  \/ HeadTurn \/ WordTurn \/ WordsDone
  \/ MoveBytes \/ ShiftTurn \/ ShiftDone \/ Tail

Spec == Init /\ [][Next]_vars /\ WF_vars(Next)

-----------------------------------------------------------------------------
(* Every variable keeps its type; n_bits, a size_t, never wraps below zero. *)
TypeOK ==
  /\ call \in Calls
  /\ before \in Memories
  /\ mem \subseteq Nat
  /\ n_bits \in 0 .. call.n
  /\ s \in Nat /\ d \in Nat
  /\ i \in 0 .. call.n
  /\ pc \in {"call", "fallback", "head", "words", "bytes", "shift", "tail", "done"}

(* Frame: whatever path a call takes, no bit outside [dst, dst+n) ever       *)
(* differs from what it was, not even between two stores (masked bytes and   *)
(* whole-word stores included).                                              *)
OnlyDestination ==
  \A b \in (mem \cup before) \ BitRange(call.dst, call.n) :
    b \in mem <=> b \in before

(* The closed form that module VM uses is what the pointer code computes,    *)
(* including what the fast paths get wrong.                                  *)
MatchesBitcpy ==
  pc = "done" => mem = bitcpy(before, call.n, call.src, call.dst)

(* Where no fast path skews the head or enters the 64-bit loops, the call    *)
(* moves exactly the n bits asked for, whatever the overlap.                 *)
CopiesExactly ==
  pc = "done" /\ ~SkewedHead(call.n, call.src, call.dst)
              /\ ~WordBody(call.n, call.src, call.dst)
    => mem = Copied(before, call.n, call.src, call.dst)

(* Every call returns: n_bits or the turns left fall with every loop turn.   *)
Terminates == <>(pc = "done")

(* README.md:47: copy(n, dst, src) "copies n bits from [src, src+n) to       *)
(* [dst, dst+n)", whatever the offsets.                                      *)
CopiesAsDocumented ==
  pc = "done" => mem = Copied(before, call.n, call.src, call.dst)
=============================================================================
