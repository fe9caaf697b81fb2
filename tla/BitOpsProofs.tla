---------------------------- MODULE BitOpsProofs ----------------------------
(***************************************************************************)
(* Lemmas about the operators of BitOps: what its recursive functions are,  *)
(* hence what a number read back from where it was written is, and what    *)
(* bitcpy leaves in memory.                                                *)
(*                                                                         *)
(* Induction is stated about SETS of numbers, so that it can be cited for a *)
(* particular set: {n \in Nat : P(n)} where a textbook says P.             *)
(***************************************************************************)
EXTENDS BitOps, WellFoundedInduction, TLAPS

LEMMA SetInduction ==
  ASSUME NEW S, 0 \in S, \A n \in Nat : n \in S => n + 1 \in S
  PROVE  \A n \in Nat : n \in S
<1> SUFFICES ASSUME NEW n \in Nat, n \notin S PROVE FALSE
  OBVIOUS
<1> DEFINE R == OpToRel(<, Nat)
           T == {k \in Nat : k \notin S}
<1>1. IsWellFoundedOn(R, Nat)
  BY NatLessThanWellFounded
<1>2. T \subseteq Nat /\ T # {}
  OBVIOUS
<1> HIDE DEF T, R
<1>3. PICK x \in T : \A y \in T : ~(<<y, x>> \in R)
  BY <1>1, <1>2, WFMin
<1>4. x \in Nat /\ x - 1 \in Nat /\ x - 1 \in T
  BY <1>3 DEF T
<1>5. <<x - 1, x>> \in R
  BY <1>4 DEF R, OpToRel
<1> QED
  BY <1>3, <1>4, <1>5

(* A function defined by recursion over Nat exists. *)
Exists(X, x0, G) ==
  \E f \in [Nat -> X] : f = [k \in Nat |-> IF k = 0 THEN x0 ELSE G[k][f[k-1]]]

LEMMA Recursion ==
  ASSUME NEW X, NEW x0 \in X, NEW G \in [Nat -> [X -> X]]
  PROVE  Exists(X, x0, G)
<1> DEFINE Good(n) == {f \in [0..n -> X] : /\ f[0] = x0
                                           /\ \A k \in 1..n : f[k] = G[k][f[k-1]]}
<1>1. \A n \in Nat : Good(n) # {}
  <2> DEFINE S == {n \in Nat : Good(n) # {}}
  <2>1. 0 \in S
    <3>1. [k \in 0..0 |-> x0] \in Good(0)
      OBVIOUS
    <3> QED
      BY <3>1
  <2>2. ASSUME NEW n \in Nat, n \in S PROVE n + 1 \in S
    <3>1. PICK f : f \in Good(n)
      BY <2>2
    <3> DEFINE g == [k \in 0..(n+1) |-> IF k = n + 1 THEN G[n+1][f[n]] ELSE f[k]]
    <3>2. g \in [0..(n+1) -> X]
      BY <3>1
    <3>3. g[0] = x0
      BY <3>1
    <3>4. \A k \in 1..(n+1) : g[k] = G[k][g[k-1]]
      BY <3>1
    <3>5. g \in Good(n+1)
      BY <3>2, <3>3, <3>4
    <3> HIDE DEF Good, g
    <3> QED
      BY <3>5
  <2> HIDE DEF S
  <2>3. \A n \in Nat : n \in S
    BY <2>1, <2>2, SetInduction
  <2> QED
    BY <2>3 DEF S
<1>2. ASSUME NEW n \in Nat, NEW f \in Good(n+1), NEW g \in Good(n)
      PROVE  f[n] = g[n]
  <2> DEFINE S == {k \in Nat : k <= n => f[k] = g[k]}
  <2>1. 0 \in S
    OBVIOUS
  <2>2. ASSUME NEW k \in Nat, k \in S PROVE k + 1 \in S
    <3>1. CASE k + 1 <= n
      <4>1. k + 1 \in 1..n /\ k + 1 \in 1..(n+1) /\ (k + 1) - 1 = k
        BY <3>1
      <4>2. f[k+1] = G[k+1][f[k]] /\ g[k+1] = G[k+1][g[k]]
        BY <4>1
      <4> QED
        BY <4>2, <3>1, <2>2
    <3> QED
      BY <3>1
  <2> HIDE DEF S
  <2>3. n \in S
    BY <2>1, <2>2, SetInduction
  <2> QED
    BY <2>3 DEF S
<1> DEFINE c(n) == CHOOSE f : f \in Good(n)
           F == [n \in Nat |-> c(n)[n]]
<1>3. \A n \in Nat : c(n) \in Good(n)
  BY <1>1
<1>4. F \in [Nat -> X]
  <2>1. ASSUME NEW n \in Nat PROVE c(n)[n] \in X
    <3>1. c(n) \in Good(n)
      BY <1>3
    <3> HIDE DEF c
    <3> QED
      BY <3>1
  <2> HIDE DEF c, Good
  <2> QED
    BY <2>1
<1>5. ASSUME NEW k \in Nat PROVE F[k] = IF k = 0 THEN x0 ELSE G[k][F[k-1]]
  <2>1. CASE k = 0
    BY <1>3, <2>1
  <2>2. CASE k # 0
    <3>1. k - 1 \in Nat /\ (k - 1) + 1 = k /\ k \in 1..k
      BY <2>2
    <3>2. c(k) \in Good(k) /\ c(k-1) \in Good(k-1)
      BY <1>3, <3>1
    <3> HIDE DEF c
    <3>3. c(k)[k] = G[k][c(k)[k-1]]
      BY <3>1, <3>2
    <3>4. c(k)[k-1] = c(k-1)[k-1]
      BY <1>2, <3>1, <3>2
    <3> QED
      BY <2>2, <3>1, <3>3, <3>4
  <2> QED
    BY <2>1, <2>2
<1> HIDE DEF F
<1>6. F = [k \in Nat |-> IF k = 0 THEN x0 ELSE G[k][F[k-1]]]
  BY <1>4, <1>5
<1> QED
  BY <1>4, <1>6 DEF Exists

-----------------------------------------------------------------------------
(* pow2, Shr and Number, one turn at a time. *)

LEMMA Pow2Turn ==
  /\ pow2[0] = 1
  /\ \A k \in Nat : pow2[k] \in Nat /\ pow2[k+1] = 2 * pow2[k]
<1> DEFINE G == [k \in Nat |-> [x \in Nat |-> 2 * x]]
           P(f) == f = [k \in Nat |-> IF k = 0 THEN 1 ELSE 2 * f[k-1]]
<1>1. G \in [Nat -> [Nat -> Nat]] /\ 1 \in Nat
  OBVIOUS
<1> HIDE DEF G
<1>X. Exists(Nat, 1, G)
  BY <1>1, Recursion
<1>2. PICK f \in [Nat -> Nat] : f = [k \in Nat |-> IF k = 0 THEN 1 ELSE G[k][f[k-1]]]
  BY <1>X DEF Exists
<1>3. P(f)
  <2>1. ASSUME NEW k \in Nat, k # 0 PROVE G[k][f[k-1]] = 2 * f[k-1]
    <3>1. f[k-1] \in Nat
      BY <2>1
    <3> QED
      BY <3>1 DEF G
  <2> QED
    BY <1>2, <2>1
<1>4. pow2 = CHOOSE g : P(g)
  BY DEF pow2
<1> HIDE DEF P
<1>5. P(pow2)
  BY <1>3, <1>4
<1> USE DEF P
<1>6. pow2[0] = 1 /\ \A k \in Nat : pow2[k+1] = 2 * pow2[k]
  BY <1>5
<1> DEFINE S == {k \in Nat : pow2[k] \in Nat}
<1>7. 0 \in S /\ \A k \in Nat : k \in S => k + 1 \in S
  BY <1>6
<1> HIDE DEF S
<1>8. \A k \in Nat : k \in S
  BY <1>7, SetInduction
<1> QED
  BY <1>6, <1>8 DEF S

LEMMA ShrTurn ==
  ASSUME NEW v \in Nat
  PROVE  /\ Shr(v, 0) = v
         /\ \A k \in Nat : Shr(v, k) \in Nat /\ Shr(v, k + 1) = Shr(v, k) \div 2
<1> DEFINE G == [k \in Nat |-> [x \in Nat |-> x \div 2]]
           P(f) == f = [k \in Nat |-> IF k = 0 THEN v ELSE f[k-1] \div 2]
           h == CHOOSE f : P(f)
<1>1. G \in [Nat -> [Nat -> Nat]]
  OBVIOUS
<1> HIDE DEF G
<1>X. Exists(Nat, v, G)
  BY <1>1, Recursion
<1>2. PICK f \in [Nat -> Nat] : f = [k \in Nat |-> IF k = 0 THEN v ELSE G[k][f[k-1]]]
  BY <1>X DEF Exists
<1>3. P(f)
  <2>1. ASSUME NEW k \in Nat, k # 0 PROVE G[k][f[k-1]] = f[k-1] \div 2
    <3>1. f[k-1] \in Nat
      BY <2>1
    <3> QED
      BY <3>1 DEF G
  <2> QED
    BY <1>2, <2>1
<1>4. \A k : Shr(v, k) = h[k]
  BY DEF Shr
<1> HIDE DEF P
<1>5. P(h)
  BY <1>3
<1> HIDE DEF h
<1> USE DEF P
<1>6. h[0] = v /\ \A k \in Nat : h[k+1] = h[k] \div 2
  BY <1>5
<1> DEFINE S == {k \in Nat : h[k] \in Nat}
<1>7. 0 \in S /\ \A k \in Nat : k \in S => k + 1 \in S
  BY <1>6
<1> HIDE DEF S
<1>8. \A k \in Nat : k \in S
  BY <1>7, SetInduction
<1> QED
  BY <1>4, <1>6, <1>8 DEF S

LEMMA NumberRecursion ==
  ASSUME NEW m, NEW pos
  PROVE  /\ Number(m, pos, 0) = 0
         /\ \A k \in Nat :
              /\ Number(m, pos, k) \in Nat
              /\ Number(m, pos, k + 1)
                   = 2 * Number(m, pos, k) + vm_bit_get(m, pos + (k + 1) - 1)
<1> DEFINE bit(k) == vm_bit_get(m, pos + k - 1)
           G == [k \in Nat |-> [x \in Nat |-> 2 * x + bit(k)]]
           P(f) == f = [k \in Nat |-> IF k = 0 THEN 0 ELSE 2 * f[k-1] + bit(k)]
           h == CHOOSE f : P(f)
<1>1. G \in [Nat -> [Nat -> Nat]] /\ 0 \in Nat
  BY DEF vm_bit_get
<1>4. \A k : Number(m, pos, k) = h[k]
  BY DEF Number
<1>n. \A k : bit(k) \in Nat
  BY DEF vm_bit_get
<1> HIDE DEF G, bit
<1>X. Exists(Nat, 0, G)
  BY <1>1, Recursion
<1>2. PICK f \in [Nat -> Nat] : f = [k \in Nat |-> IF k = 0 THEN 0 ELSE G[k][f[k-1]]]
  BY <1>X DEF Exists
<1>3. P(f)
  <2>1. ASSUME NEW k \in Nat, k # 0 PROVE G[k][f[k-1]] = 2 * f[k-1] + bit(k)
    <3>1. f[k-1] \in Nat
      BY <2>1
    <3> QED
      BY <3>1 DEF G
  <2> QED
    BY <1>2, <2>1
<1> HIDE DEF P
<1>5. P(h)
  BY <1>3
<1> HIDE DEF h
<1> USE DEF P
<1>6. h[0] = 0 /\ \A k \in Nat : h[k+1] = 2 * h[k] + bit(k + 1)
  BY <1>5
<1> DEFINE S == {k \in Nat : h[k] \in Nat}
<1>7. 0 \in S /\ \A k \in Nat : k \in S => k + 1 \in S
  BY <1>6, <1>n
<1> HIDE DEF S
<1>8. \A k \in Nat : k \in S
  BY <1>7, SetInduction
<1> QED
  BY <1>4, <1>6, <1>8, Zenon DEF S, bit

LEMMA NumberTurn ==
  ASSUME NEW m, NEW pos \in Int
  PROVE  /\ Number(m, pos, 0) = 0
         /\ \A k \in Nat :
              /\ Number(m, pos, k) \in Nat
              /\ Number(m, pos, k + 1)
                   = 2 * Number(m, pos, k) + vm_bit_get(m, pos + k)
<1>1. ASSUME NEW k \in Nat
      PROVE  Number(m, pos, k + 1) = 2 * Number(m, pos, k) + vm_bit_get(m, pos + k)
  <2>1. pos + (k + 1) - 1 = pos + k
    OBVIOUS
  <2> QED
    BY <2>1, NumberRecursion, Zenon
<1> QED
  BY <1>1, NumberRecursion

-----------------------------------------------------------------------------
(* What v >> k says of v. *)

LEMMA ShrFirst ==
  ASSUME NEW v \in Nat, NEW k \in Nat
  PROVE  Shr(v, k + 1) = Shr(v \div 2, k)
<1> DEFINE S == {j \in Nat : Shr(v, j + 1) = Shr(v \div 2, j)}
<1>1. v \div 2 \in Nat
  OBVIOUS
<1>2. 0 \in S
  <2>1. Shr(v, 0) = v /\ Shr(v \div 2, 0) = v \div 2
    BY <1>1, ShrTurn
  <2>2. \A j \in Nat : j = 0 => Shr(v, j + 1) = Shr(v, j) \div 2
    BY ShrTurn
  <2> QED
    BY <2>1, <2>2
<1>3. ASSUME NEW j \in Nat, j \in S PROVE j + 1 \in S
  <2>1. Shr(v, (j + 1) + 1) = Shr(v, j + 1) \div 2
    BY ShrTurn
  <2>2. Shr(v \div 2, j + 1) = Shr(v \div 2, j) \div 2
    BY <1>1, ShrTurn
  <2> QED
    BY <1>3, <2>1, <2>2
<1> HIDE DEF S
<1>4. k \in S
  BY <1>2, <1>3, SetInduction
<1> QED
  BY <1>4 DEF S

(* k bits hold v iff nothing is left of it after k halvings. *)
LEMMA Fits ==
  ASSUME NEW v \in Nat, NEW k \in Nat
  PROVE  v < pow2[k] <=> Shr(v, k) = 0
<1> DEFINE S == {j \in Nat : \A u \in Nat : u < pow2[j] <=> Shr(u, j) = 0}
<1>1. 0 \in S
  <2>1. ASSUME NEW u \in Nat PROVE u < pow2[0] <=> Shr(u, 0) = 0
    <3>1. Shr(u, 0) = u /\ pow2[0] = 1
      BY ShrTurn, Pow2Turn
    <3> QED
      BY <3>1
  <2> QED
    BY <2>1
<1>2. ASSUME NEW j \in Nat, j \in S PROVE j + 1 \in S
  <2>1. ASSUME NEW u \in Nat PROVE u < pow2[j + 1] <=> Shr(u, j + 1) = 0
    <3>1. u \div 2 \in Nat /\ pow2[j] \in Nat /\ pow2[j + 1] = 2 * pow2[j]
      BY Pow2Turn
    <3>2. u \div 2 < pow2[j] <=> Shr(u \div 2, j) = 0
      BY <3>1, <1>2
    <3>3. Shr(u, j + 1) = Shr(u \div 2, j)
      BY ShrFirst
    <3>4. u < 2 * pow2[j] <=> u \div 2 < pow2[j]
      BY <3>1
    <3> QED
      BY <3>1, <3>2, <3>3, <3>4
  <2> QED
    BY <2>1
<1> HIDE DEF S
<1>3. k \in S
  BY <1>1, <1>2, SetInduction
<1> QED
  BY <1>3 DEF S

LEMMA ShrMonotone ==
  ASSUME NEW u \in Nat, NEW v \in Nat, u <= v, NEW k \in Nat
  PROVE  Shr(u, k) <= Shr(v, k)
<1> DEFINE S == {j \in Nat : Shr(u, j) <= Shr(v, j)}
<1>1. 0 \in S
  BY ShrTurn
<1>2. ASSUME NEW j \in Nat, j \in S PROVE j + 1 \in S
  <2>1. /\ Shr(u, j) \in Nat /\ Shr(u, j + 1) = Shr(u, j) \div 2
        /\ Shr(v, j) \in Nat /\ Shr(v, j + 1) = Shr(v, j) \div 2
    BY ShrTurn
  <2> QED
    BY <1>2, <2>1
<1> HIDE DEF S
<1>3. k \in S
  BY <1>1, <1>2, SetInduction
<1> QED
  BY <1>3 DEF S

LEMMA Pow2Monotone ==
  ASSUME NEW j \in Nat, NEW k \in Nat, j <= k
  PROVE  pow2[j] <= pow2[k]
<1> DEFINE S == {i \in Nat : pow2[j] <= pow2[j + i]}
<1>1. 0 \in S
  BY Pow2Turn
<1>2. ASSUME NEW i \in Nat, i \in S PROVE i + 1 \in S
  <2>1. /\ pow2[j] \in Nat /\ pow2[j + i] \in Nat
        /\ pow2[(j + i) + 1] = 2 * pow2[j + i] /\ (j + i) + 1 = j + (i + 1)
    BY Pow2Turn
  <2> QED
    BY <1>2, <2>1
<1> HIDE DEF S
<1>3. k - j \in S
  BY <1>1, <1>2, SetInduction
<1> QED
  BY <1>3 DEF S

(* ceil_log2 finds a power that is large enough. *)
LEMMA CeilLog2 ==
  ASSUME NEW x \in Nat, x >= 1
  PROVE  ceil_log2(x) \in 0..x /\ x <= pow2[ceil_log2(x)]
<1> DEFINE least(k) == pow2[k] >= x /\ (k = 0 \/ pow2[k-1] < x)
<1>1. x <= pow2[x]
  <2> DEFINE S == {k \in Nat : k <= pow2[k] /\ 1 <= pow2[k]}
  <2>1. 0 \in S
    BY Pow2Turn
  <2>2. ASSUME NEW k \in Nat, k \in S PROVE k + 1 \in S
    BY <2>2, Pow2Turn
  <2> HIDE DEF S
  <2>3. x \in S
    BY <2>1, <2>2, SetInduction
  <2> QED
    BY <2>3 DEF S
<1>2. \E k \in 0..x : least(k)
  <2> DEFINE S == {j \in Nat : pow2[j] >= x => \E k \in 0..j : least(k)}
  <2>1. 0 \in S
    OBVIOUS
  <2>2. ASSUME NEW j \in Nat, j \in S PROVE j + 1 \in S
    <3>1. CASE pow2[j] >= x
      BY <2>2, <3>1
    <3>2. CASE ~(pow2[j] >= x)
      <4>1. pow2[j] \in Nat
        BY Pow2Turn
      <4>2. pow2[(j + 1) - 1] < x
        BY <3>2, <4>1
      <4>3. pow2[j + 1] >= x => least(j + 1)
        BY <4>2
      <4> HIDE DEF least
      <4> QED
        BY <4>3
    <3> QED
      BY <3>1, <3>2
  <2> HIDE DEF S
  <2>3. x \in S
    BY <2>1, <2>2, SetInduction
  <2> QED
    BY <2>3, <1>1, Pow2Turn DEF S
<1>3. ceil_log2(x) = CHOOSE k \in 0..x : least(k)
  BY DEF ceil_log2
<1>4. ceil_log2(x) \in 0..x /\ least(ceil_log2(x))
  <2> HIDE DEF least
  <2> QED
    BY <1>2, <1>3
<1> QED
  BY <1>4, Pow2Turn

-----------------------------------------------------------------------------
(* Reading and writing numbers. *)

(* A number depends on its own bits only, wherever they stand. *)
LEMMA NumberSame ==
  ASSUME NEW m, NEW pos \in Int, NEW m2, NEW pos2 \in Int, NEW w \in Nat,
         \A q \in 0..(w - 1) : pos + q \in m <=> pos2 + q \in m2
  PROVE  Number(m, pos, w) = Number(m2, pos2, w)
<1> DEFINE S == {k \in Nat : k <= w => Number(m, pos, k) = Number(m2, pos2, k)}
<1>1. 0 \in S
  <2>1. Number(m, pos, 0) = 0
    BY NumberTurn
  <2>2. Number(m2, pos2, 0) = 0
    BY NumberTurn
  <2> QED
    BY <2>1, <2>2
<1>2. ASSUME NEW k \in Nat, k \in S PROVE k + 1 \in S
  <2> SUFFICES ASSUME k + 1 <= w
               PROVE  Number(m, pos, k + 1) = Number(m2, pos2, k + 1)
    OBVIOUS
  <2>1. Number(m, pos, k + 1)
          = 2 * Number(m, pos, k) + vm_bit_get(m, pos + k)
    BY NumberTurn
  <2>2. Number(m2, pos2, k + 1)
          = 2 * Number(m2, pos2, k) + vm_bit_get(m2, pos2 + k)
    BY NumberTurn
  <2>3. Number(m, pos, k) = Number(m2, pos2, k)
    BY <1>2
  <2>4. pos + k \in m <=> pos2 + k \in m2
    OBVIOUS
  <2> QED
    BY <2>1, <2>2, <2>3, <2>4 DEF vm_bit_get
<1> HIDE DEF S
<1>3. w \in S
  BY <1>1, <1>2, SetInduction
<1> QED
  BY <1>3 DEF S

(* Shifting a number to the right drops its last bits. *)
LEMMA NumberShr ==
  ASSUME NEW m, NEW pos \in Int, NEW w \in Nat, NEW k \in 0..w
  PROVE  Shr(Number(m, pos, w), k) = Number(m, pos, w - k)
<1> DEFINE v == Number(m, pos, w)
           S == {j \in Nat : j <= w => Shr(v, j) = Number(m, pos, w - j)}
<1>0. v \in Nat
  BY NumberTurn
<1> HIDE DEF v
<1>1. 0 \in S
  BY <1>0, ShrTurn DEF v
<1>2. ASSUME NEW j \in Nat, j \in S PROVE j + 1 \in S
  <2> SUFFICES ASSUME j + 1 <= w
               PROVE  Shr(v, j + 1) = Number(m, pos, w - (j + 1))
    OBVIOUS
  <2>1. PICK r \in Nat : r = w - (j + 1)
    OBVIOUS
  <2>2. /\ Number(m, pos, r) \in Nat
        /\ Number(m, pos, r + 1)
              = 2 * Number(m, pos, r) + vm_bit_get(m, pos + r)
    BY NumberTurn
  <2>3. r + 1 = w - j /\ Shr(v, j + 1) = Number(m, pos, r + 1) \div 2
    BY <1>0, <1>2, <2>1, ShrTurn
  <2>4. Shr(v, j + 1) = Number(m, pos, r)
    BY <2>2, <2>3 DEF vm_bit_get
  <2> QED
    BY <2>1, <2>4
<1> HIDE DEF S
<1>3. k \in S
  BY <1>1, <1>2, SetInduction
<1> QED
  BY <1>3 DEF S, v

(* The bits of a number are those it was read from, and it fits in its width. *)
LEMMA NumberBits ==
  ASSUME NEW m, NEW pos \in Int, NEW w \in Nat
  PROVE  /\ Number(m, pos, w) \in Nat /\ Shr(Number(m, pos, w), w) = 0
         /\ \A q \in 0..(w - 1) :
              Shr(Number(m, pos, w), w - 1 - q) % 2 = 1 <=> pos + q \in m
<1>1. Number(m, pos, w) \in Nat /\ Shr(Number(m, pos, w), w) = 0
  BY NumberTurn, NumberShr
<1>2. ASSUME NEW q \in 0..(w - 1)
      PROVE  Shr(Number(m, pos, w), w - 1 - q) % 2 = 1 <=> pos + q \in m
  <2>1. w - 1 - q \in 0..w /\ w - (w - 1 - q) = q + 1 /\ q \in Nat
    OBVIOUS
  <2>4. q \in Nat
    OBVIOUS
  <2>2. Shr(Number(m, pos, w), w - 1 - q) = Number(m, pos, q + 1)
    BY <2>1, NumberShr
  <2>3. /\ Number(m, pos, q) \in Nat
        /\ Number(m, pos, q + 1)
              = 2 * Number(m, pos, q) + vm_bit_get(m, pos + q)
    BY <2>4, NumberTurn
  <2> QED
    BY <2>2, <2>3 DEF vm_bit_get
<1> QED
  BY <1>1, <1>2

(* A number that fits is read back from where its bits are. *)
LEMMA NumberDigits ==
  ASSUME NEW m, NEW pos \in Int, NEW w \in Nat, NEW v \in Nat, Shr(v, w) = 0,
         \A b \in BitRange(pos, w) : b \in m <=> b \in Digits(v, pos, w)
  PROVE  Number(m, pos, w) = v
<1> DEFINE S == {k \in Nat : k <= w => Number(m, pos, k) = Shr(v, w - k)}
<1>1. 0 \in S
  BY NumberTurn
<1>2. ASSUME NEW k \in Nat, k \in S PROVE k + 1 \in S
  <2> SUFFICES ASSUME k + 1 <= w
               PROVE  Number(m, pos, k + 1) = Shr(v, w - (k + 1))
    OBVIOUS
  <2> DEFINE r == w - (k + 1)
  <2>1. r \in Nat /\ r + 1 = w - k /\ pos + w - 1 - (pos + k) = r
    OBVIOUS
  <2>2. pos + k \in BitRange(pos, w)
    BY DEF BitRange
  <2> HIDE DEF r
  <2>3. pos + k \in m <=> Shr(v, r) % 2 = 1
    BY <2>1, <2>2 DEF Digits
  <2>4. Shr(v, r) \in Nat /\ Shr(v, r + 1) = Shr(v, r) \div 2
    BY <2>1, ShrTurn
  <2>5. Number(m, pos, k + 1)
          = 2 * Number(m, pos, k) + vm_bit_get(m, pos + k)
    BY NumberTurn
  <2>7. Number(m, pos, k) = Shr(v, r + 1)
    BY <1>2, <2>1
  <2>6. Number(m, pos, k + 1) = Shr(v, r)
    BY <2>3, <2>4, <2>5, <2>7 DEF vm_bit_get
  <2> QED
    BY <2>6 DEF r
<1> HIDE DEF S
<1>3. w \in S
  BY <1>1, <1>2, SetInduction
<1> QED
  BY <1>3, ShrTurn DEF S

-----------------------------------------------------------------------------
(* bitcpy. *)

(* The bits a word load or store works on. *)
LEMMA SigAddrInt ==
  ASSUME NEW p \in Int, NEW sig \in 0..63
  PROVE  SigAddr(p, sig) \in Int
BY DEF SigAddr

LEMMA MoveWordsTurn ==
  ASSUME NEW m, NEW s \in Int, NEW d \in Int, NEW left, NEW right, NEW k \in Nat
  PROVE  /\ MoveWords(m, s, d, left, right, 0) = m
         /\ MoveWords(m, s, d, left, right, k + 1)
              = PutWord(MoveWords(m, s, d, left, right, k), s + 8 * k, d + 8 * k, left, right)
<1> DEFINE turn(j, x) == PutWord(x, s + 8 * (j - 1), d + 8 * (j - 1), left, right)
           X == SUBSET (m \cup Int)
           G == [j \in Nat |-> [x \in X |-> turn(j, x)]]
           P(f) == f = [j \in Nat |-> IF j = 0 THEN m ELSE turn(j, f[j-1])]
           h == CHOOSE f : P(f)
<1>1. ASSUME NEW j \in Nat, NEW x \in X PROVE turn(j, x) \in X
  <2> DEFINE p == d + 8 * (j - 1)
             q == s + 8 * (j - 1)
             w == Shl64(Load64(x, q), left) \cup Shr64(Load64(x, q + 8), right)
  <2>1. p \in Int /\ w \in SUBSET (0..63)
    BY DEF Shl64, Shr64
  <2>2. turn(j, x) = Store64(x, p, w)
    BY DEF PutWord
  <2> HIDE DEF p, w
  <2>3. \A sig \in w : SigAddr(p, sig) \in Int
    BY <2>1, SigAddrInt
  <2> QED
    BY <2>2, <2>3, Zenon DEF Store64
<1>2. \A j : MoveWords(m, s, d, left, right, j) = h[j]
  BY Zenon DEF MoveWords
<1>3. \A x : turn(k + 1, x) = PutWord(x, s + 8 * k, d + 8 * k, left, right)
  OBVIOUS
<1>4. m \in X
  OBVIOUS
<1> HIDE DEF turn, X
<1>5. G \in [Nat -> [X -> X]]
  BY <1>1
<1> HIDE DEF G
<1>6. Exists(X, m, G)
  BY <1>4, <1>5, Recursion
<1>7. PICK f \in [Nat -> X] : f = [j \in Nat |-> IF j = 0 THEN m ELSE G[j][f[j-1]]]
  BY <1>6 DEF Exists
<1>8. P(f)
  <2>1. ASSUME NEW j \in Nat, j # 0 PROVE G[j][f[j-1]] = turn(j, f[j-1])
    <3>1. f[j-1] \in X
      BY <2>1
    <3> QED
      BY <3>1 DEF G
  <2> QED
    BY <1>7, <2>1
<1> HIDE DEF P
<1>9. P(h)
  BY <1>8
<1> HIDE DEF h
<1> USE DEF P
<1>10. h[0] = m /\ h[k+1] = turn(k + 1, h[k])
  BY <1>9
<1> QED
  BY <1>2, <1>3, <1>10

LEMMA MoveWordsFirst ==
  ASSUME NEW m, NEW s \in Int, NEW d \in Int, NEW left, NEW right
  PROVE  MoveWords(m, s, d, left, right, 0) = m
<1>1. \A k \in Nat : MoveWords(m, s, d, left, right, 0) = m
  BY MoveWordsTurn
<1> QED
  BY <1>1

(* Where no word is moved, the bits before and after the byte boundary are   *)
(* moved one after the other, and the source is not overwritten meanwhile.   *)
LEMMA bitcpyExact ==
  ASSUME NEW m, NEW n \in Nat, NEW src \in Nat, NEW dst \in Nat,
         ~SkewedHead(n, src, dst), ~WordBody(n, src, dst)
  PROVE  bitcpy(m, n, src, dst) = Copied(m, n, src, dst)
<1>1. CASE PlainPath(n, src, dst)
  <2>1. bitcpy(m, n, src, dst)
          = (m \ BitRange(dst, n)) \cup (Copied(m, n, src, dst) \cap BitRange(dst, n))
    BY <1>1 DEF bitcpy
  <2> QED
    BY <2>1, Zenon DEF Copied
<1>2. CASE ~PlainPath(n, src, dst)
  <2> DEFINE head == HeadBits(dst)
             words == (n - head) \div 64
             rest == head + 64 * words
             skew == IF src % 8 < dst % 8 THEN 8 ELSE 0
             first == Copied(m, head, src + skew, dst)
             s0 == (src + head) \div 8
             d0 == (dst + head) \div 8
             body == MoveWords(first, s0, d0, LeftShift(src, dst),
                               RightShift(src, dst), words)
  <2>1. /\ head \in 0..7 /\ n >= 8 /\ n - head < 64
        /\ src + n <= dst \/ dst + n <= src
    BY <1>2 DEF HeadBits, PlainPath, Overlaps, SkewedHead, WordBody
  <2>2. words = 0 /\ rest = head /\ skew = 0
    BY <1>2, <2>1 DEF SkewedHead
  <2>3. bitcpy(m, n, src, dst)
          = (m \ BitRange(dst, n))
              \cup (Copied(body, n - rest, src + rest, dst + rest) \cap BitRange(dst, n))
    BY <1>2, Zenon DEF bitcpy
  <2>4. s0 \in Int /\ d0 \in Int
    BY <2>1
  <2>6. src + skew = src
    BY <2>2
  <2>7. first = Copied(m, head, src, dst)
    BY <2>6
  <2> HIDE DEF s0, d0, words, first, head, skew
  <2>8. body = first
    BY <2>2, <2>4, MoveWordsFirst
  <2>9. rest = head
    BY <2>2
  <2> HIDE DEF body, rest
  <2>5. ASSUME NEW b
        PROVE  b \in bitcpy(m, n, src, dst) <=> b \in Copied(m, n, src, dst)
    <3>1. b \in bitcpy(m, n, src, dst) <=>
            \/ b \in m /\ b \notin BitRange(dst, n)
            \/ b \in Copied(first, n - head, src + head, dst + head) /\ b \in BitRange(dst, n)
      BY <2>3, <2>8, <2>9
    <3>2. CASE b \notin BitRange(dst, n)
      BY <3>1, <3>2 DEF Copied
    <3>3. CASE b \in BitRange(dst, n)
      <4>1. b \in Int /\ dst <= b /\ b < dst + n
        BY <3>3 DEF BitRange
      <4>2. b \in Copied(m, n, src, dst) <=> b - dst + src \in m
        BY <3>3 DEF Copied
      <4>3. CASE b < dst + head
        <5>1. b \in BitRange(dst, head) /\ b \notin BitRange(dst + head, n - head)
          BY <2>1, <4>1, <4>3 DEF BitRange
        <5>2. b \in Copied(first, n - head, src + head, dst + head) <=> b \in first
          BY <5>1 DEF Copied
        <5>3. b \in first <=> b - dst + src \in m
          BY <2>7, <5>1 DEF Copied
        <5> QED
          BY <3>1, <3>3, <4>2, <5>2, <5>3
      <4>4. CASE b >= dst + head
        <5>1. b \in BitRange(dst + head, n - head)
          BY <2>1, <4>1, <4>4 DEF BitRange
        <5>2. b - (dst + head) + (src + head) = b - dst + src
          BY <2>1, <4>1
        <5>3. b \in Copied(first, n - head, src + head, dst + head)
                <=> b - dst + src \in first
          BY <5>1, <5>2 DEF Copied
        <5>4. b - dst + src \notin BitRange(dst, head)
          BY <2>1, <4>1, <4>4 DEF BitRange
        <5>5. b - dst + src \in first <=> b - dst + src \in m
          BY <2>7, <5>4 DEF Copied
        <5> QED
          BY <3>1, <3>3, <4>2, <5>3, <5>5
      <4> QED
        BY <2>1, <4>1, <4>3, <4>4
    <3> QED
      BY <3>2, <3>3
  <2> QED
    BY <2>5, Zenon
<1> QED
  BY <1>1, <1>2
=============================================================================
