--------------------------- MODULE ConflictCheck ---------------------------
(***************************************************************************)
(* L2, conflict_check.py: the scan-line test that no bit of a round belongs *)
(* to two of its source and destination intervals.  One behaviour is one    *)
(* call of _check_tick.                                                     *)
(***************************************************************************)
EXTENDS Overlap, TLC

CONSTANT Rounds   \* the rounds examined: sequences of records [n, dst, src]

ASSUME RoundsAssumption == Rounds \subseteq Seq([n : Nat, dst : Nat, src : Nat])

VARIABLES
  instrs,      \* the round; instruction k is in slot k - 1
  k,           \* the loop's next element, of instrs and then of intervals
  intervals,   \* intervals gathered so far
  conflicts,   \* conflicts reported so far
  pc           \* "gather", "scan", "done"

vars == <<instrs, k, intervals, conflicts, pc>>

Lesser(a, b) == IF a < b THEN a ELSE b
Greater(a, b) == IF a < b THEN b ELSE a

Interval(start, n, slot, origin) ==
  [start |-> start, end |-> start + n, slot |-> slot, origin |-> origin]

Conflict(a, b, begin, end, kind) ==
  [slot_a |-> a, slot_b |-> b, overlap_begin |-> begin, overlap_end |-> end,
   kind |-> kind]

Init ==
  /\ instrs \in Rounds
  /\ k = 1 /\ intervals = <<>> /\ conflicts = {} /\ pc = "gather"

-----------------------------------------------------------------------------
(* The first loop. *)

SkipNop ==
  /\ pc = "gather" /\ k <= Len(instrs)
  /\ instrs[k].n = 0
  /\ k' = k + 1
  /\ UNCHANGED <<instrs, intervals, conflicts, pc>>

SelfOverlaps(i) == ~(i.src + i.n <= i.dst \/ i.dst + i.n <= i.src)

(* Mutant: the region of a self overlap runs to the later end. *)
SelfConflictMutant(i, slot) ==
  Conflict(slot, slot, Greater(i.src, i.dst), Greater(i.src, i.dst) + i.n,
           "self-src-dst")

SelfConflict(i, slot) ==
  Conflict(slot, slot, Greater(i.src, i.dst), Lesser(i.src, i.dst) + i.n,
           "self-src-dst")

Gather ==
  /\ pc = "gather" /\ k <= Len(instrs)
  /\ LET i == instrs[k]
     IN  /\ i.n # 0
         /\ conflicts' = conflicts \cup
              (IF SelfOverlaps(i) THEN {SelfConflict(i, k - 1)} ELSE {})
         /\ intervals' = intervals \o <<Interval(i.src, i.n, k - 1, "src"),
                                        Interval(i.dst, i.n, k - 1, "dst")>>
  /\ k' = k + 1
  /\ UNCHANGED <<instrs, pc>>

-----------------------------------------------------------------------------
(* The sort, by start and then end; it is stable: ties keep their places.    *)

(* Mutant: sorted by end only. *)
BeforeMutant(a, b) == a.end < b.end

Before(a, b) == a.start < b.start \/ (a.start = b.start /\ a.end < b.end)

(* f is the stable sort of s: the result has s[f[p]] in place p.            *)
StableSort(s, f) ==
  LET Places == 1..Len(s)
  IN  /\ f \in [Places -> Places]
      /\ \A q \in Places : \E p \in Places : f[p] = q
      /\ \A p, q \in Places :
           p < q => \/ Before(s[f[p]], s[f[q]])
                    \/ ~Before(s[f[q]], s[f[p]]) /\ f[p] < f[q]

(* Nothing gathered: _check_tick returns before the sort. *)
ReturnEarly ==
  /\ pc = "gather" /\ k > Len(instrs) /\ intervals = <<>>
  /\ pc' = "done"
  /\ UNCHANGED <<instrs, k, intervals, conflicts>>

Sort ==
  /\ pc = "gather" /\ k > Len(instrs) /\ intervals # <<>>
  /\ \E f \in {g \in Permutations(1..Len(intervals)) : StableSort(intervals, g)} :
       intervals' = [p \in 1..Len(intervals) |-> intervals[f[p]]]
  /\ k' = 2
  /\ pc' = "scan"
  /\ UNCHANGED <<instrs, conflicts>>

-----------------------------------------------------------------------------
(* The scan. *)

(* Mutant: dst of the first against src of the second gets no kind. *)
KindMutant(prev, curr) ==
  IF prev.slot = curr.slot THEN "self-src-dst"
  ELSE IF prev.origin = curr.origin THEN prev.origin \o "-" \o curr.origin
  ELSE IF prev.origin = "src" THEN "src-dst" ELSE "none"

Kind(prev, curr) ==
  IF prev.slot = curr.slot THEN "self-src-dst"
  ELSE CASE prev.origin = "src" /\ curr.origin = "src" -> "src-src"
         [] prev.origin = "dst" /\ curr.origin = "dst" -> "dst-dst"
         [] prev.origin = "src" /\ curr.origin = "dst" -> "src-dst"
         [] OTHER -> "dst-src"

(* Mutant: touching intervals count as overlapping. *)
MeetsMutant(prev, curr) == curr.start <= prev.end

Meets(prev, curr) == curr.start < prev.end

(* Mutant: the scan does not advance past a conflict. *)
ScanMutant ==
  /\ pc = "scan" /\ k <= Len(intervals)
  /\ LET prev == intervals[k - 1]
         curr == intervals[k]
     IN  IF Meets(prev, curr)
         THEN /\ conflicts' = conflicts \cup
                   {Conflict(prev.slot, curr.slot, curr.start,
                             Lesser(curr.end, prev.end), Kind(prev, curr))}
              /\ k' = k
         ELSE conflicts' = conflicts /\ k' = k + 1
  /\ UNCHANGED <<instrs, intervals, pc>>

Scan ==
  /\ pc = "scan" /\ k <= Len(intervals)
  /\ LET prev == intervals[k - 1]
         curr == intervals[k]
     IN  conflicts' = conflicts \cup
           (IF Meets(prev, curr)
            THEN {Conflict(prev.slot, curr.slot, curr.start,
                           Lesser(curr.end, prev.end), Kind(prev, curr))}
            ELSE {})
  /\ k' = k + 1
  /\ UNCHANGED <<instrs, intervals, pc>>

Return ==
  /\ pc = "scan" /\ k > Len(intervals)
  /\ pc' = "done"
  /\ UNCHANGED <<instrs, k, intervals, conflicts>>

Next == SkipNop \/ Gather \/ ReturnEarly \/ Sort \/ Scan \/ Return

Spec == Init /\ [][Next]_vars /\ WF_vars(Next)

-----------------------------------------------------------------------------
(* What the round claims of memory. *)

(* The intervals of slot s named by an origin, and the bits two of the       *)
(* round's intervals share.                                                  *)
Claims(s, origin, b) ==
  LET i == instrs[s + 1]
      a == IF origin = "src" THEN i.src ELSE i.dst
  IN  a <= b /\ b < a + i.n

Contested(b) ==
  \E x, y \in (0 .. Len(instrs) - 1) \X {"src", "dst"} :
    x # y /\ Claims(x[1], x[2], b) /\ Claims(y[1], y[2], b)

(* Every variable keeps its type. *)
TypeOK ==
  /\ instrs \in Rounds
  /\ k \in Nat
  /\ intervals \in Seq([start : Nat, end : Nat, slot : Nat, origin : {"src", "dst"}])
  /\ conflicts \subseteq
       [slot_a : Nat, slot_b : Nat, overlap_begin : Nat, overlap_end : Nat,
        kind : {"self-src-dst", "src-src", "dst-dst", "src-dst", "dst-src"}]
  /\ pc \in {"gather", "scan", "done"}

(* The verdict of the scan line, which looks at neighbours only, is right    *)
(* for all pairs: no conflict is reported iff the round is conflict-free.    *)
Verdict == pc = "done" => (conflicts = {} <=> ConflictFree(instrs))

RoleA(kind) == IF kind \in {"dst-dst", "dst-src"} THEN "dst" ELSE "src"
RoleB(kind) == IF kind \in {"src-src", "dst-src"} THEN "src" ELSE "dst"

(* Every reported region is a non-empty one that the two named slots claim,  *)
(* in the roles the kind names.                                              *)
ReportsReal ==
  \A c \in conflicts :
    /\ c.overlap_begin < c.overlap_end
    /\ c.kind = "self-src-dst" <=> c.slot_a = c.slot_b
    /\ \A b \in c.overlap_begin .. (c.overlap_end - 1) :
         Claims(c.slot_a, RoleA(c.kind), b) /\ Claims(c.slot_b, RoleB(c.kind), b)

(* The list of conflicts may leave out overlapping pairs, but never the      *)
(* lowest contested bit of the round: some conflict begins there.            *)
LowestReported ==
  pc = "done" =>
    LET starts == {instrs[a].src : a \in 1..Len(instrs)}
                    \cup {instrs[a].dst : a \in 1..Len(instrs)}
    IN  \A b \in starts :
          Contested(b) /\ (\A c \in starts : c < b => ~Contested(c))
            => \E x \in conflicts : x.overlap_begin = b

(* Every call returns. *)
Terminates == <>(pc = "done")
=============================================================================
