------------------------------ MODULE Overlap ------------------------------
(***************************************************************************)
(* What L2 demands of a round: "no bit position belongs to more than one    *)
(* source or destination interval across all contracts in the same round"   *)
(* (conflict_check.py:67).  Module ConflictCheck derives it from the scan.  *)
(***************************************************************************)
EXTENDS Integers, Sequences

Apart(a, n, b, m) == a + n <= b \/ b + m <= a

ConflictFree(round) ==
  \A a, b \in 1..Len(round) :
    LET i == round[a]  j == round[b]
    IN  i.n > 0 /\ j.n > 0 =>
          /\ Apart(i.src, i.n, j.dst, j.n)
          /\ a # b => Apart(i.src, i.n, j.src, j.n) /\ Apart(i.dst, i.n, j.dst, j.n)
=============================================================================
