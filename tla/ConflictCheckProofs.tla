------------------------ MODULE ConflictCheckProofs ------------------------
(***************************************************************************)
(* The scan line of L2 gives the right verdict for every round: comparing   *)
(* neighbours in the sorted list is as good as comparing all pairs, because *)
(* when no interval reaches into its successor, and starts never decrease,  *)
(* no interval reaches into any later one.                                  *)
(***************************************************************************)
EXTENDS ConflictCheck, TLAPS

Instr == [n : Nat, dst : Nat, src : Nat]
Origins == {"src", "dst"}
IntervalRec == [start : Nat, end : Nat, slot : Nat, origin : Origins]

At(i, origin) == IF origin = "src" THEN i.src ELSE i.dst

(* v is an interval of one of the first m instructions. *)
OfRound(v, m) ==
  /\ v.slot + 1 \in 1..m
  /\ instrs[v.slot + 1].n > 0
  /\ v.start = At(instrs[v.slot + 1], v.origin)
  /\ v.end = v.start + instrs[v.slot + 1].n

(* The list holds both intervals of each of the first m, and each once. *)
Faithful(m) == \A p \in 1..Len(intervals) : OfRound(intervals[p], m)
Complete(m) ==
  \A a \in 1..m : instrs[a].n > 0 =>
    \A o \in Origins : \E p \in 1..Len(intervals) :
      intervals[p].slot = a - 1 /\ intervals[p].origin = o
Distinct ==
  \A p, q \in 1..Len(intervals) : p # q =>
    \/ intervals[p].slot # intervals[q].slot
    \/ intervals[p].origin # intervals[q].origin

TypeInv ==
  /\ instrs \in Seq(Instr)
  /\ k \in Nat /\ k >= 1
  /\ intervals \in Seq(IntervalRec)
  /\ pc \in {"gather", "scan", "done"}

Gathering ==
  pc = "gather" =>
    k <= Len(instrs) + 1 /\ Faithful(k - 1) /\ Complete(k - 1) /\ Distinct

StartsOrdered ==
  \A p, q \in 1..Len(intervals) : p < q => intervals[p].start <= intervals[q].start

(* No interval before place m reaches into its successor. *)
ClearBelow(m) ==
  \A p \in 2..(m - 1) : intervals[p - 1].end <= intervals[p].start

Scanning ==
  pc = "scan" =>
    /\ k \in 2..(Len(intervals) + 1)
    /\ Faithful(Len(instrs)) /\ Complete(Len(instrs)) /\ Distinct /\ StartsOrdered
    /\ conflicts = {} => ClearBelow(k)

(* A conflict is reported only for a round that has one. *)
NoFalseAlarm == conflicts # {} => ~ConflictFree(instrs)

IInv == TypeInv /\ Gathering /\ Scanning /\ NoFalseAlarm /\ Verdict

-----------------------------------------------------------------------------
(* Two different intervals of a round that share a bit make it conflict. *)
LEMMA Clash ==
  ASSUME TypeInv,
         NEW x \in IntervalRec, NEW y \in IntervalRec,
         OfRound(x, Len(instrs)), OfRound(y, Len(instrs)),
         x.slot # y.slot \/ x.origin # y.origin,
         x.start < y.end, y.start < x.end
  PROVE  ~ConflictFree(instrs)
<1> SUFFICES ASSUME ConflictFree(instrs) PROVE FALSE
  OBVIOUS
<1> DEFINE a == x.slot + 1
           b == y.slot + 1
<1>1. /\ a \in 1..Len(instrs) /\ b \in 1..Len(instrs)
      /\ instrs[a] \in Instr /\ instrs[b] \in Instr
      /\ instrs[a].n > 0 /\ instrs[b].n > 0
  BY DEF OfRound, TypeInv
<1>2. /\ x.start = At(instrs[a], x.origin) /\ x.end = x.start + instrs[a].n
      /\ y.start = At(instrs[b], y.origin) /\ y.end = y.start + instrs[b].n
  BY DEF OfRound
<1>3. a # b \/ x.origin # y.origin
  BY DEF IntervalRec
<1> HIDE DEF a, b
<1>4. /\ Apart(instrs[a].src, instrs[a].n, instrs[b].dst, instrs[b].n)
      /\ Apart(instrs[b].src, instrs[b].n, instrs[a].dst, instrs[a].n)
      /\ a # b => /\ Apart(instrs[a].src, instrs[a].n, instrs[b].src, instrs[b].n)
                  /\ Apart(instrs[a].dst, instrs[a].n, instrs[b].dst, instrs[b].n)
  BY <1>1 DEF ConflictFree
<1>5. x.origin \in {"src", "dst"} /\ y.origin \in {"src", "dst"}
  BY DEF IntervalRec, Origins
<1> QED
  BY <1>1, <1>2, <1>3, <1>4, <1>5 DEF At, Apart, Instr

(* Intervals pairwise apart, and both of every instruction there. *)
LEMMA AllApart ==
  ASSUME TypeInv, Faithful(Len(instrs)), Complete(Len(instrs)), Distinct,
         \A p, q \in 1..Len(intervals) : p < q =>
            intervals[p].end <= intervals[q].start
  PROVE  ConflictFree(instrs)
<1>0. \A p \in 1..Len(intervals) :
         intervals[p] \in IntervalRec /\ OfRound(intervals[p], Len(instrs))
  BY DEF TypeInv, Faithful
<1>1. ASSUME NEW a \in 1..Len(instrs), NEW b \in 1..Len(instrs),
             instrs[a].n > 0, instrs[b].n > 0,
             NEW o \in Origins, NEW r \in Origins, a # b \/ o # r
      PROVE  Apart(At(instrs[a], o), instrs[a].n, At(instrs[b], r), instrs[b].n)
  <2>1. PICK p \in 1..Len(intervals) :
          intervals[p].slot = a - 1 /\ intervals[p].origin = o
    BY <1>1 DEF Complete
  <2>2. PICK q \in 1..Len(intervals) :
          intervals[q].slot = b - 1 /\ intervals[q].origin = r
    BY <1>1 DEF Complete
  <2>3. p # q
    BY <1>1, <2>1, <2>2
  <2>4. /\ intervals[p].start = At(instrs[a], o)
        /\ intervals[p].end = At(instrs[a], o) + instrs[a].n
        /\ intervals[q].start = At(instrs[b], r)
        /\ intervals[q].end = At(instrs[b], r) + instrs[b].n
    BY <1>0, <2>1, <2>2 DEF OfRound
  <2>5. p < q \/ q < p
    BY <2>3
  <2>6. intervals[p].end <= intervals[q].start \/ intervals[q].end <= intervals[p].start
    BY <2>5
  <2> QED
    BY <2>4, <2>6 DEF Apart
<1>2. "src" \in Origins /\ "dst" \in Origins /\ "src" # "dst"
  BY DEF Origins
<1>3. ASSUME NEW i PROVE At(i, "src") = i.src /\ At(i, "dst") = i.dst
  BY DEF At
<1> QED
  BY <1>1, <1>2, <1>3 DEF ConflictFree

-----------------------------------------------------------------------------
LEMMA InitInv == Init => IInv
<1> SUFFICES ASSUME Init PROVE IInv
  OBVIOUS
<1>1. instrs \in Seq(Instr)
  BY RoundsAssumption DEF Init, Instr
<1>2. TypeInv
  BY <1>1 DEF Init, TypeInv
<1>3. Gathering
  BY <1>1 DEF Init, Gathering, Faithful, Complete, Distinct
<1> QED
  BY <1>2, <1>3 DEF Init, IInv, Scanning, NoFalseAlarm, Verdict

LEMMA SkipNopInv == IInv /\ SkipNop => IInv'
<1> SUFFICES ASSUME IInv, SkipNop PROVE IInv'
  OBVIOUS
<1> USE DEF IInv, SkipNop
<1>1. TypeInv'
  BY DEF TypeInv
<1>2. Faithful(k)
  BY DEF Gathering, Faithful, OfRound, TypeInv
<1>3. Complete(k)
  <2>1. \A a \in 1..k : a \in 1..(k - 1) \/ a = k
    BY DEF TypeInv
  <2>2. Complete(k - 1) /\ instrs[k].n = 0
    BY DEF Gathering
  <2> QED
    BY <2>1, <2>2 DEF Complete
<1>4. k' - 1 = k /\ Len(instrs) \in Nat
  BY DEF TypeInv
<1>5. Gathering'
  BY <1>2, <1>3, <1>4 DEF Gathering, Faithful, Complete, Distinct, OfRound, TypeInv
<1> QED
  BY <1>1, <1>5 DEF Scanning, NoFalseAlarm, Verdict

(* A self overlap is a clash of the two intervals of one instruction. *)
LEMMA SelfClash ==
  ASSUME TypeInv, NEW a \in 1..Len(instrs), instrs[a].n > 0,
         SelfOverlaps(instrs[a])
  PROVE  ~ConflictFree(instrs)
<1>1. instrs[a] \in Instr
  BY DEF TypeInv
<1>2. ~Apart(instrs[a].src, instrs[a].n, instrs[a].dst, instrs[a].n)
  BY DEF Apart, SelfOverlaps
<1> QED
  BY <1>1, <1>2 DEF ConflictFree

LEMMA GatherInv == IInv /\ Gather => IInv'
<1> SUFFICES ASSUME IInv, Gather PROVE IInv'
  OBVIOUS
<1> USE DEF IInv
<1> DEFINE i == instrs[k]
           x == Interval(i.src, i.n, k - 1, "src")
           y == Interval(i.dst, i.n, k - 1, "dst")
           L == Len(intervals)
<1>0. /\ pc = "gather" /\ pc' = "gather" /\ k' = k + 1 /\ instrs' = instrs
      /\ k \in 1..Len(instrs) /\ Len(instrs) \in Nat /\ L \in Nat
      /\ i \in Instr /\ i.n > 0
      /\ intervals' = intervals \o <<x, y>>
  <2>1. k \in 1..Len(instrs) /\ Len(instrs) \in Nat /\ L \in Nat
    BY DEF Gather, TypeInv
  <2>2. i \in Instr /\ i.n # 0
    BY <2>1 DEF Gather, TypeInv
  <2>3. i.n > 0
    BY <2>2 DEF Instr
  <2> QED
    BY <2>1, <2>2, <2>3 DEF Gather
<1>1. x \in IntervalRec /\ y \in IntervalRec
  BY <1>0 DEF Interval, IntervalRec, Instr, Origins
<1>2. /\ OfRound(x, k) /\ x.slot = k - 1 /\ x.origin = "src"
      /\ OfRound(y, k) /\ y.slot = k - 1 /\ y.origin = "dst"
  BY <1>0 DEF OfRound, Interval, At, Instr
<1> HIDE DEF x, y
<1>3. /\ intervals' \in Seq(IntervalRec) /\ Len(intervals') = L + 2
      /\ \A p \in 1..L : intervals'[p] = intervals[p]
      /\ intervals'[L + 1] = x /\ intervals'[L + 2] = y
  BY <1>0, <1>1 DEF TypeInv
<1>4. TypeInv'
  BY <1>0, <1>3 DEF TypeInv
<1>5. ASSUME NEW p \in 1..(L + 2) PROVE p \in 1..L \/ p = L + 1 \/ p = L + 2
  BY <1>0
<1>6. \A p \in 1..L : OfRound(intervals[p], k - 1) /\ intervals[p].slot + 1 \in 1..(k - 1)
  BY <1>0 DEF Gathering, Faithful, OfRound
<1>7. Faithful(k - 1)'
  <2>1. ASSUME NEW p \in 1..(L + 2) PROVE OfRound(intervals'[p], k)
    <3>1. CASE p \in 1..L
      BY <1>0, <1>3, <1>6, <3>1 DEF OfRound
    <3>2. CASE p = L + 1 \/ p = L + 2
      BY <1>2, <1>3, <3>2
    <3> QED
      BY <1>5, <3>1, <3>2
  <2>2. k' - 1 = k
    BY <1>0
  <2> QED
    BY <1>0, <1>3, <2>1, <2>2 DEF Faithful, OfRound
<1>8. Complete(k - 1)'
  <2>1. ASSUME NEW a \in 1..k, instrs[a].n > 0, NEW o \in Origins
        PROVE  \E p \in 1..(L + 2) : intervals'[p].slot = a - 1 /\ intervals'[p].origin = o
    <3>1. CASE a \in 1..(k - 1)
      <4>1. PICK p \in 1..L : intervals[p].slot = a - 1 /\ intervals[p].origin = o
        BY <1>0, <2>1, <3>1 DEF Gathering, Complete
      <4> QED
        BY <1>0, <1>3, <4>1
    <3>2. CASE a = k
      <4>1. o = "src" \/ o = "dst"
        BY DEF Origins
      <4>2. L + 1 \in 1..(L + 2) /\ L + 2 \in 1..(L + 2)
        BY <1>0
      <4> QED
        BY <1>2, <1>3, <3>2, <4>1, <4>2
    <3>3. a \in 1..(k - 1) \/ a = k
      BY <1>0, <2>1
    <3> QED
      BY <3>1, <3>2, <3>3
  <2>2. k' - 1 = k
    BY <1>0
  <2>3. Len(intervals') = L + 2 /\ instrs' = instrs
    BY <1>0, <1>3
  <2> SUFFICES ASSUME NEW a \in 1..(k' - 1), instrs'[a].n > 0, NEW o \in Origins
               PROVE  \E p \in 1..Len(intervals') :
                        intervals'[p].slot = a - 1 /\ intervals'[p].origin = o
    BY Zenon DEF Complete
  <2>4. a \in 1..k /\ instrs[a].n > 0
    BY <2>2, <2>3
  <2>5. \E p \in 1..(L + 2) : intervals'[p].slot = a - 1 /\ intervals'[p].origin = o
    BY <2>1, <2>4
  <2> HIDE DEF L
  <2> QED
    BY <2>3, <2>5, Zenon
<1>9. Distinct'
  <2>1. ASSUME NEW p \in 1..(L + 2), NEW q \in 1..(L + 2), p < q
        PROVE  \/ intervals'[p].slot # intervals'[q].slot
               \/ intervals'[p].origin # intervals'[q].origin
    <3>1. CASE q \in 1..L
      BY <1>0, <1>3, <2>1, <3>1 DEF Gathering, Distinct
    <3>2. CASE q \notin 1..L /\ p \in 1..L
      <4>1. intervals[p].slot + 1 \in 1..(k - 1) /\ intervals[p].slot \in Nat
        <5>1. intervals[p] \in IntervalRec
          BY <1>0, <3>2 DEF TypeInv
        <5> QED
          BY <1>6, <3>2, <5>1 DEF IntervalRec
      <4>2. intervals[p].slot # k - 1
        BY <1>0, <4>1
      <4> QED
        BY <1>2, <1>3, <1>5, <3>2, <4>2
    <3>3. CASE p \notin 1..L
      <4>0. L \in Nat /\ (p = L + 1 \/ p = L + 2)
        BY <1>0, <1>5, <3>3
      <4> HIDE DEF L, i, IInv
      <4>1. p = L + 1 /\ q = L + 2
        BY <2>1, <4>0
      <4> QED
        BY <1>2, <1>3, <4>1
    <3> QED
      BY <3>1, <3>2, <3>3
  <2>2. \A p, q \in 1..(L + 2) : p # q => p < q \/ q < p
    BY <1>0
  <2> QED
    BY <1>3, <2>1, <2>2 DEF Distinct
<1>10. Gathering'
  <2>1. k' <= Len(instrs') + 1
    BY <1>0
  <2> QED
    BY <1>7, <1>8, <1>9, <2>1 DEF Gathering
<1>11. NoFalseAlarm'
  <2>1. CASE SelfOverlaps(i)
    BY <1>0, <2>1, SelfClash DEF NoFalseAlarm
  <2>2. CASE ~SelfOverlaps(i)
    <3>1. conflicts' = conflicts
      BY <2>2 DEF Gather
    <3> QED
      BY <1>0, <3>1 DEF NoFalseAlarm
  <2> QED
    BY <2>1, <2>2
<1> QED
  BY <1>0, <1>4, <1>10, <1>11 DEF Scanning, Verdict

(* Nothing gathered: there is no instruction to conflict. *)
LEMMA ReturnEarlyInv == IInv /\ ReturnEarly => IInv'
<1> SUFFICES ASSUME IInv, ReturnEarly PROVE IInv'
  OBVIOUS
<1> USE DEF IInv, ReturnEarly
<1>1. Len(instrs) \in Nat /\ k - 1 = Len(instrs) /\ Len(intervals) = 0
  BY DEF Gathering, TypeInv
<1>2. \A a \in 1..Len(instrs) : ~(instrs[a].n > 0)
  <2> SUFFICES ASSUME NEW a \in 1..Len(instrs), instrs[a].n > 0 PROVE FALSE
    OBVIOUS
  <2>1. Complete(Len(instrs)) /\ "src" \in Origins
    BY <1>1 DEF Gathering, Origins
  <2>2. \E p \in 1..0 : intervals[p].slot = a - 1
    BY <1>1, <2>1 DEF Complete
  <2> QED
    BY <2>2
<1>3. ConflictFree(instrs)
  BY <1>2 DEF ConflictFree
<1>4. Verdict' /\ NoFalseAlarm'
  BY <1>3 DEF Verdict, NoFalseAlarm
<1> QED
  BY <1>4 DEF TypeInv, Gathering, Scanning

(* The sort keeps every interval once and puts starts in order. *)
LEMMA SortInv == IInv /\ Sort => IInv'
<1> SUFFICES ASSUME IInv, Sort PROVE IInv'
  OBVIOUS
<1> USE DEF IInv
<1> DEFINE L == Len(intervals)
           Places == 1..L
<1>0. /\ pc = "gather" /\ pc' = "scan" /\ k' = 2
      /\ instrs' = instrs /\ conflicts' = conflicts
      /\ k > Len(instrs) /\ intervals # <<>>
  BY DEF Sort
<1>1. PICK f : /\ StableSort(intervals, f)
               /\ intervals' = [p \in 1..Len(intervals) |-> intervals[f[p]]]
  BY Zenon DEF Sort
<1>2. /\ Len(instrs) \in Nat /\ k - 1 = Len(instrs)
      /\ L \in Nat /\ L >= 1
      /\ \A p \in Places : intervals[p] \in IntervalRec
  BY <1>0 DEF Gathering, TypeInv
<1>3. /\ f \in [Places -> Places]
      /\ \A q \in Places : \E p \in Places : f[p] = q
      /\ \A p, q \in Places :
           p < q => \/ Before(intervals[f[p]], intervals[f[q]])
                    \/ ~Before(intervals[f[q]], intervals[f[p]]) /\ f[p] < f[q]
  BY <1>1 DEF StableSort
<1>4. /\ intervals' \in Seq(IntervalRec) /\ Len(intervals') = L
      /\ \A p \in Places : intervals'[p] = intervals[f[p]]
  <2>1. intervals' = [p \in Places |-> intervals[f[p]]]
    BY <1>1
  <2>2. \A p \in Places : intervals[f[p]] \in IntervalRec
    BY <1>2, <1>3
  <2> HIDE DEF L, IInv
  <2> QED
    BY <1>2, <2>1, <2>2
<1>5. \A p, q \in Places : p < q => f[p] # f[q]
  <2> SUFFICES ASSUME NEW p \in Places, NEW q \in Places, p < q, f[p] = f[q]
               PROVE  FALSE
    OBVIOUS
  <2>1. f[p] \in Places /\ intervals[f[p]] \in IntervalRec
    BY <1>2, <1>3
  <2>2. ~Before(intervals[f[p]], intervals[f[p]])
    BY <2>1 DEF Before, IntervalRec
  <2>3. Before(intervals[f[p]], intervals[f[q]]) \/ f[p] < f[q]
    BY <1>3
  <2>4. f[p] \in Int
    BY <1>2, <2>1
  <2> QED
    BY <2>2, <2>3, <2>4
<1>6. \A p, q \in Places : p # q => f[p] # f[q]
  <2>1. \A p, q \in Places : p # q => p < q \/ q < p
    BY <1>2
  <2> QED
    BY <1>5, <2>1
<1>7. Faithful(Len(instrs))'
  <2>1. \A p \in Places : f[p] \in Places /\ OfRound(intervals[f[p]], Len(instrs))
    BY <1>0, <1>2, <1>3 DEF Gathering, Faithful
  <2> QED
    BY <1>0, <1>4, <2>1 DEF Faithful, OfRound
<1>8. Complete(Len(instrs))'
  <2>1. ASSUME NEW a \in 1..Len(instrs), instrs[a].n > 0, NEW o \in Origins
        PROVE  \E p \in Places : intervals'[p].slot = a - 1 /\ intervals'[p].origin = o
    <3>1. PICK q \in Places : intervals[q].slot = a - 1 /\ intervals[q].origin = o
      BY <1>0, <1>2, <2>1 DEF Gathering, Complete
    <3>2. PICK p \in Places : f[p] = q
      BY <1>3
    <3> QED
      BY <1>4, <3>1, <3>2
  <2> QED
    BY <1>0, <1>4, <2>1 DEF Complete
<1>9. Distinct'
  <2>1. ASSUME NEW p \in Places, NEW q \in Places, p # q
        PROVE  \/ intervals'[p].slot # intervals'[q].slot
               \/ intervals'[p].origin # intervals'[q].origin
    <3>1. f[p] \in Places /\ f[q] \in Places /\ f[p] # f[q]
      BY <1>3, <1>6, <2>1
    <3> QED
      BY <1>0, <1>4, <3>1 DEF Gathering, Distinct
  <2> QED
    BY <1>4, <2>1 DEF Distinct
<1>10. StartsOrdered'
  <2>1. ASSUME NEW p \in Places, NEW q \in Places, p < q
        PROVE  intervals'[p].start <= intervals'[q].start
    <3>1. f[p] \in Places /\ f[q] \in Places
      BY <1>3
    <3>2. intervals[f[p]] \in IntervalRec /\ intervals[f[q]] \in IntervalRec
      BY <1>2, <3>1
    <3>3. ~Before(intervals[f[q]], intervals[f[p]])
      <4>1. \/ Before(intervals[f[p]], intervals[f[q]])
            \/ ~Before(intervals[f[q]], intervals[f[p]])
        BY <1>3, <2>1
      <4> QED
        BY <3>2, <4>1 DEF Before, IntervalRec
    <3>4. intervals[f[p]].start <= intervals[f[q]].start
      BY <3>2, <3>3 DEF Before, IntervalRec
    <3> QED
      BY <1>4, <3>4
  <2> QED
    BY <1>4, <2>1 DEF StartsOrdered
<1>11. ClearBelow(k)'
  BY <1>0 DEF ClearBelow
<1>12. Scanning'
  <2>1. k' \in 2..(Len(intervals') + 1)
    BY <1>0, <1>2, <1>4
  <2> QED
    BY <1>7, <1>8, <1>9, <1>10, <1>11, <2>1 DEF Scanning
<1>13. TypeInv'
  BY <1>0, <1>4 DEF TypeInv
<1> QED
  BY <1>0, <1>12, <1>13 DEF Gathering, NoFalseAlarm, Verdict

LEMMA ScanInv == IInv /\ Scan => IInv'
<1> SUFFICES ASSUME IInv, Scan PROVE IInv'
  OBVIOUS
<1> USE DEF IInv
<1> DEFINE prev == intervals[k - 1]
           curr == intervals[k]
<1>0. /\ pc = "scan" /\ pc' = "scan" /\ k' = k + 1
      /\ instrs' = instrs /\ intervals' = intervals
      /\ k \in 2..Len(intervals) /\ Len(intervals) \in Nat
      /\ Faithful(Len(instrs)) /\ Distinct /\ StartsOrdered
  BY DEF Scan, Scanning, TypeInv
<1>1. /\ k - 1 \in 1..Len(intervals) /\ k \in 1..Len(intervals) /\ k - 1 < k
      /\ prev \in IntervalRec /\ curr \in IntervalRec
      /\ OfRound(prev, Len(instrs)) /\ OfRound(curr, Len(instrs))
  BY <1>0 DEF TypeInv, Faithful
<1>2. CASE Meets(prev, curr)
  <2>1. prev.start <= curr.start
    BY <1>0, <1>1 DEF StartsOrdered
  <2>2. curr.start < curr.end /\ curr.start < prev.end
    <3>1. instrs[curr.slot + 1] \in Instr /\ instrs[curr.slot + 1].n > 0
      BY <1>1 DEF OfRound, TypeInv
    <3> QED
      BY <1>1, <1>2, <3>1 DEF OfRound, Meets, IntervalRec, Instr
  <2>3. prev.slot # curr.slot \/ prev.origin # curr.origin
    BY <1>0, <1>1 DEF Distinct
  <2>4. prev.start < curr.end
    BY <1>1, <2>1, <2>2 DEF IntervalRec
  <2>5. ~ConflictFree(instrs)
    BY <1>1, <2>2, <2>3, <2>4, Clash
  <2>6. conflicts' # {}
    BY <1>2 DEF Scan
  <2> QED
    BY <1>0, <2>5, <2>6 DEF TypeInv, Gathering, Scanning, NoFalseAlarm, Verdict,
       Faithful, Complete, Distinct, StartsOrdered, OfRound
<1>3. CASE ~Meets(prev, curr)
  <2>1. conflicts' = conflicts
    BY <1>3 DEF Scan
  <2>2. prev.end <= curr.start
    BY <1>1, <1>3 DEF Meets, IntervalRec
  <2>3. conflicts = {} => ClearBelow(k + 1)
    <3>1. \A p \in 2..(k + 1 - 1) : p \in 2..(k - 1) \/ p = k
      BY <1>0
    <3> QED
      BY <1>0, <2>2, <3>1 DEF Scanning, ClearBelow
  <2>4. k + 1 \in 2..(Len(intervals) + 1)
    BY <1>0
  <2> QED
    BY <1>0, <2>1, <2>3, <2>4 DEF TypeInv, Gathering, Scanning, NoFalseAlarm, Verdict,
       Faithful, Complete, Distinct, StartsOrdered, ClearBelow, OfRound
<1> QED
  BY <1>2, <1>3

(* The end of the scan: neighbours apart make all pairs apart. *)
LEMMA ReturnInv == IInv /\ Return => IInv'
<1> SUFFICES ASSUME IInv, Return PROVE IInv'
  OBVIOUS
<1> USE DEF IInv, Return
<1>0. Len(intervals) \in Nat /\ k = Len(intervals) + 1
  BY DEF Scanning, TypeInv
<1>1. ASSUME conflicts = {} PROVE ConflictFree(instrs)
  <2>1. ASSUME NEW p \in 1..Len(intervals), NEW q \in 1..Len(intervals), p < q
        PROVE  intervals[p].end <= intervals[q].start
    <3>1. p + 1 \in 2..(k - 1) /\ p + 1 \in 1..Len(intervals) /\ (p + 1 < q \/ p + 1 = q)
      BY <1>0, <2>1
    <3>0. /\ intervals[p] \in IntervalRec /\ intervals[q] \in IntervalRec
          /\ intervals[p + 1] \in IntervalRec
      BY <2>1, <3>1 DEF TypeInv
    <3>2. intervals[p].end <= intervals[p + 1].start
      BY <1>1, <3>1 DEF Scanning, ClearBelow
    <3>3. intervals[p + 1].start <= intervals[q].start
      <4>1. CASE p + 1 < q
        BY <3>1, <4>1 DEF Scanning, StartsOrdered
      <4>2. CASE p + 1 = q
        BY <3>0, <4>2 DEF IntervalRec
      <4> QED
        BY <3>1, <4>1, <4>2
    <3> QED
      BY <3>0, <3>2, <3>3 DEF IntervalRec
  <2>2. Faithful(Len(instrs)) /\ Complete(Len(instrs)) /\ Distinct
    BY DEF Scanning
  <2> QED
    BY <2>1, <2>2, AllApart
<1>2. Verdict' /\ NoFalseAlarm'
  BY <1>1 DEF NoFalseAlarm, Verdict
<1> QED
  BY <1>2 DEF TypeInv, Gathering, Scanning

LEMMA NextInv == IInv /\ [Next]_vars => IInv'
<1> SUFFICES ASSUME IInv, [Next]_vars PROVE IInv'
  OBVIOUS
<1>1. CASE UNCHANGED vars
  BY <1>1 DEF vars, IInv, TypeInv, Gathering, Scanning, NoFalseAlarm, Verdict,
     Faithful, Complete, Distinct, StartsOrdered, ClearBelow, OfRound
<1> QED
  BY <1>1, SkipNopInv, GatherInv, ReturnEarlyInv, SortInv, ScanInv, ReturnInv DEF Next

LEMMA Invariance == Spec => []IInv
BY InitInv, NextInv, PTL DEF Spec

(* _check_tick reports no conflict iff no bit belongs to two intervals of    *)
(* the round: for every round, of any length, with any overlaps.             *)
THEOREM VerdictCorrect == Spec => []Verdict
<1>1. IInv => Verdict
  BY DEF IInv
<1> QED
  BY Invariance, <1>1, PTL

-----------------------------------------------------------------------------
(* What is reported. *)

Kinds == {"self-src-dst", "src-src", "dst-dst", "src-dst", "dst-src"}
ConflictRec ==
  [slot_a : Nat, slot_b : Nat, overlap_begin : Nat, overlap_end : Nat, kind : Kinds]

(* A report that names a region both slots claim, in the roles of its kind. *)
Real(c) ==
  /\ c.overlap_begin < c.overlap_end
  /\ c.kind = "self-src-dst" <=> c.slot_a = c.slot_b
  /\ \A b \in c.overlap_begin .. (c.overlap_end - 1) :
       Claims(c.slot_a, RoleA(c.kind), b) /\ Claims(c.slot_b, RoleB(c.kind), b)

LEMMA ConflictFields ==
  ASSUME NEW a, NEW b, NEW begin, NEW end, NEW kind
  PROVE  LET c == Conflict(a, b, begin, end, kind)
         IN  /\ c.slot_a = a /\ c.slot_b = b /\ c.kind = kind
             /\ c.overlap_begin = begin /\ c.overlap_end = end
BY DEF Conflict

LEMMA InstrFields ==
  ASSUME TypeInv, NEW a \in 1..Len(instrs)
  PROVE  /\ instrs[a] \in Instr
         /\ instrs[a].n \in Nat /\ instrs[a].src \in Nat /\ instrs[a].dst \in Nat
<1>1. instrs[a] \in Instr
  BY DEF TypeInv
<1> QED
  BY <1>1 DEF Instr

LEMMA SelfConflictReal ==
  ASSUME TypeInv, NEW a \in 1..Len(instrs), instrs[a].n > 0, SelfOverlaps(instrs[a])
  PROVE  LET c == SelfConflict(instrs[a], a - 1) IN c \in ConflictRec /\ Real(c)
<1> DEFINE i == instrs[a]
           c == SelfConflict(i, a - 1)
           begin == Greater(i.src, i.dst)
           end == Lesser(i.src, i.dst) + i.n
<1>1. i \in Instr /\ i.n \in Nat /\ i.src \in Nat /\ i.dst \in Nat /\ i.n > 0
  BY InstrFields
<1>2. /\ c.slot_a = a - 1 /\ c.slot_b = a - 1 /\ c.kind = "self-src-dst"
      /\ c.overlap_begin = begin /\ c.overlap_end = end
  BY ConflictFields DEF SelfConflict
<1>3. begin \in Nat /\ end \in Nat /\ a - 1 \in Nat /\ begin < end
  BY <1>1 DEF Greater, Lesser, SelfOverlaps
<1>4. c \in ConflictRec
  BY <1>3 DEF SelfConflict, Conflict, ConflictRec, Kinds
<1>5. ASSUME NEW b \in begin .. (end - 1)
      PROVE  Claims(a - 1, "src", b) /\ Claims(a - 1, "dst", b)
  <2>1. /\ i.src <= b /\ b < i.src + i.n
        /\ i.dst <= b /\ b < i.dst + i.n
    BY <1>1, <1>5 DEF Greater, Lesser
  <2>2. a - 1 + 1 = a
    OBVIOUS
  <2> HIDE DEF begin, end
  <2> QED
    BY <2>1, <2>2 DEF Claims
<1> HIDE DEF c, begin, end
<1>6. Real(c)
  BY <1>2, <1>3, <1>5 DEF Real, RoleA, RoleB
<1> QED
  BY <1>4, <1>6 DEF c

(* The bits of an interval are claimed by its slot in its role. *)
LEMMA IntervalClaims ==
  ASSUME TypeInv, NEW v \in IntervalRec, OfRound(v, Len(instrs)),
         NEW b \in Int, v.start <= b, b < v.end
  PROVE  Claims(v.slot, v.origin, b)
<1>1. /\ v.start = At(instrs[v.slot + 1], v.origin)
      /\ v.end = v.start + instrs[v.slot + 1].n
  BY DEF OfRound
<1> QED
  BY <1>1 DEF Claims, At

LEMMA ScanConflictReal ==
  ASSUME IInv, Scan, Meets(intervals[k - 1], intervals[k])
  PROVE  LET prev == intervals[k - 1]
             curr == intervals[k]
             c == Conflict(prev.slot, curr.slot, curr.start,
                           Lesser(curr.end, prev.end), Kind(prev, curr))
         IN  c \in ConflictRec /\ Real(c)
<1> DEFINE prev == intervals[k - 1]
           curr == intervals[k]
           kind == Kind(prev, curr)
           end == Lesser(curr.end, prev.end)
           c == Conflict(prev.slot, curr.slot, curr.start, end, kind)
<1>1. /\ k \in 2..Len(intervals) /\ Len(intervals) \in Nat /\ TypeInv
      /\ Faithful(Len(instrs)) /\ Distinct /\ StartsOrdered
  BY DEF Scan, IInv, Scanning, TypeInv
<1>2. /\ k - 1 \in 1..Len(intervals) /\ k \in 1..Len(intervals) /\ k - 1 < k
  BY <1>1
<1>3. /\ prev \in IntervalRec /\ curr \in IntervalRec
      /\ OfRound(prev, Len(instrs)) /\ OfRound(curr, Len(instrs))
  BY <1>1, <1>2 DEF TypeInv, Faithful
<1>4. prev.start <= curr.start /\ curr.start < prev.end
  BY <1>1, <1>2 DEF StartsOrdered, Meets
<1>5. prev.slot # curr.slot \/ prev.origin # curr.origin
  BY <1>1, <1>2 DEF Distinct
<1> HIDE DEF prev, curr
<1>6. curr.start < curr.end
  <2>1. instrs[curr.slot + 1] \in Instr /\ instrs[curr.slot + 1].n > 0
    BY <1>1, <1>3 DEF OfRound, TypeInv
  <2> QED
    BY <1>3, <2>1 DEF OfRound, IntervalRec, Instr
<1>7. /\ prev.start \in Nat /\ prev.end \in Nat /\ prev.slot \in Nat /\ prev.origin \in Origins
      /\ curr.start \in Nat /\ curr.end \in Nat /\ curr.slot \in Nat /\ curr.origin \in Origins
  BY <1>3 DEF IntervalRec
<1>8. end \in Nat /\ curr.start < end /\ end <= curr.end /\ end <= prev.end
  BY <1>4, <1>6, <1>7 DEF Lesser
<1>9. /\ kind \in Kinds
      /\ kind = "self-src-dst" <=> prev.slot = curr.slot
      /\ prev.slot # curr.slot => RoleA(kind) = prev.origin /\ RoleB(kind) = curr.origin
      /\ prev.slot = curr.slot => RoleA(kind) = "src" /\ RoleB(kind) = "dst"
  BY <1>7 DEF Kind, Kinds, RoleA, RoleB, Origins
<1> HIDE DEF kind, end
<1>10. /\ c.slot_a = prev.slot /\ c.slot_b = curr.slot /\ c.kind = kind
       /\ c.overlap_begin = curr.start /\ c.overlap_end = end
  BY ConflictFields
<1>11. c \in ConflictRec
  BY <1>7, <1>8, <1>9 DEF Conflict, ConflictRec
<1>12. ASSUME NEW b \in curr.start .. (end - 1)
       PROVE  Claims(prev.slot, RoleA(kind), b) /\ Claims(curr.slot, RoleB(kind), b)
  <2>1. b \in Int /\ prev.start <= b /\ b < prev.end /\ curr.start <= b /\ b < curr.end
    BY <1>4, <1>7, <1>8, <1>12
  <2>2. Claims(prev.slot, prev.origin, b) /\ Claims(curr.slot, curr.origin, b)
    BY <1>1, <1>3, <2>1, IntervalClaims
  <2>3. CASE prev.slot # curr.slot
    BY <1>9, <2>2, <2>3
  <2>4. CASE prev.slot = curr.slot
    <3>1. {prev.origin, curr.origin} = {"src", "dst"}
      BY <1>5, <1>7, <2>4 DEF Origins
    <3> QED
      BY <1>9, <2>2, <2>4, <3>1
  <2> QED
    BY <2>3, <2>4
<1> HIDE DEF c
<1>13. Real(c)
  BY <1>8, <1>9, <1>10, <1>12 DEF Real
<1> QED
  BY <1>11, <1>13 DEF c, prev, curr, kind, end

Reports == conflicts \subseteq ConflictRec /\ \A c \in conflicts : Real(c)

LEMMA ReportsNext == IInv /\ Reports /\ [Next]_vars => Reports'
<1> SUFFICES ASSUME IInv, Reports, [Next]_vars PROVE Reports'
  OBVIOUS
<1>1. instrs' = instrs
  BY DEF Next, vars, SkipNop, Gather, ReturnEarly, Sort, Scan, Return
<1>2. SUFFICES ASSUME NEW c \in conflicts', c \notin conflicts
               PROVE  c \in ConflictRec /\ Real(c)
  BY <1>1 DEF Reports, Real, Claims
<1>3. \/ Gather /\ SelfOverlaps(instrs[k]) /\ c = SelfConflict(instrs[k], k - 1)
      \/ Scan /\ Meets(intervals[k - 1], intervals[k])
           /\ c = Conflict(intervals[k - 1].slot, intervals[k].slot, intervals[k].start,
                           Lesser(intervals[k].end, intervals[k - 1].end),
                           Kind(intervals[k - 1], intervals[k]))
  BY <1>2, Zenon DEF Next, vars, SkipNop, Gather, ReturnEarly, Sort, Scan, Return
<1>4. CASE Gather /\ SelfOverlaps(instrs[k]) /\ c = SelfConflict(instrs[k], k - 1)
  <2>1. TypeInv /\ k \in 1..Len(instrs) /\ instrs[k].n # 0
    BY <1>4 DEF Gather, IInv, TypeInv
  <2>2. instrs[k].n > 0
    BY <2>1, InstrFields
  <2> QED
    BY <1>4, <2>1, <2>2, SelfConflictReal
<1>5. CASE Scan /\ Meets(intervals[k - 1], intervals[k])
             /\ c = Conflict(intervals[k - 1].slot, intervals[k].slot, intervals[k].start,
                             Lesser(intervals[k].end, intervals[k - 1].end),
                             Kind(intervals[k - 1], intervals[k]))
  BY <1>5, ScanConflictReal
<1> QED
  BY <1>3, <1>4, <1>5

LEMMA ReportsInvariance == Spec => []Reports
<1>1. Init => Reports
  BY DEF Init, Reports
<1> QED
  BY <1>1, ReportsNext, Invariance, PTL DEF Spec

(* Every conflict reported is one: a region, never empty, that the two slots *)
(* named both claim in the roles its kind names.                             *)
THEOREM ReportsRealCorrect == Spec => []ReportsReal
<1>1. Reports => ReportsReal
  BY DEF Reports, Real, ReportsReal
<1> QED
  BY <1>1, ReportsInvariance, PTL

-----------------------------------------------------------------------------
(* The lowest contested bit. *)

Starts == {instrs[a].src : a \in 1..Len(instrs)} \cup {instrs[a].dst : a \in 1..Len(instrs)}
Covers(p, b) == intervals[p].start <= b /\ b < intervals[p].end

(* What the scan has found so far, at each place it has passed. *)
Found(m) ==
  \A p \in 2..m : Meets(intervals[p - 1], intervals[p]) =>
    \E x \in conflicts : x.overlap_begin = intervals[p].start

(* The list is that of the whole round, and sorted. *)
Sorted ==
  /\ TypeInv /\ Faithful(Len(instrs)) /\ Complete(Len(instrs)) /\ Distinct
  /\ StartsOrdered

LEMMA IntervalTypes ==
  ASSUME Sorted, NEW p \in 1..Len(intervals)
  PROVE  /\ intervals[p].start \in Nat /\ intervals[p].end \in Nat
         /\ intervals[p].start < intervals[p].end
         /\ intervals[p].start \in Starts
<1>1. intervals[p] \in IntervalRec /\ OfRound(intervals[p], Len(instrs))
  BY DEF Sorted, TypeInv, Faithful
<1> DEFINE a == intervals[p].slot + 1
<1>2. a \in 1..Len(instrs) /\ instrs[a] \in Instr
  BY <1>1 DEF Sorted, TypeInv, OfRound
<1>3. intervals[p].start = instrs[a].src \/ intervals[p].start = instrs[a].dst
  BY <1>1 DEF OfRound, At
<1>4. intervals[p].start \in Starts
  BY <1>2, <1>3 DEF Starts
<1> QED
  BY <1>1, <1>2, <1>4 DEF OfRound, IntervalRec, Instr

(* Who claims a bit has an interval in the list that covers it. *)
LEMMA ClaimCovered ==
  ASSUME Sorted, NEW x \in (0 .. Len(instrs) - 1) \X {"src", "dst"}, NEW b \in Nat,
         Claims(x[1], x[2], b)
  PROVE  \E p \in 1..Len(intervals) :
           intervals[p].slot = x[1] /\ intervals[p].origin = x[2] /\ Covers(p, b)
<1> DEFINE a == x[1] + 1
<1>1. /\ TypeInv /\ Len(instrs) \in Nat
      /\ x[1] \in Nat /\ a \in 1..Len(instrs) /\ x[2] \in {"src", "dst"}
  BY DEF Sorted, TypeInv
<1>2. instrs[a].n \in Nat /\ instrs[a].src \in Nat /\ instrs[a].dst \in Nat
  BY <1>1, InstrFields
<1>3. At(instrs[a], x[2]) <= b /\ b < At(instrs[a], x[2]) + instrs[a].n
  BY <1>1 DEF Claims, At
<1>4. At(instrs[a], x[2]) \in Nat
  BY <1>2 DEF At
<1>5. instrs[a].n > 0
  BY <1>2, <1>3, <1>4
<1>6. PICK p \in 1..Len(intervals) :
        intervals[p].slot = a - 1 /\ intervals[p].origin = x[2]
  BY <1>1, <1>5 DEF Sorted, Complete, Origins
<1>7. OfRound(intervals[p], Len(instrs))
  BY DEF Sorted, Faithful
<1>8. intervals[p].slot = x[1]
  BY <1>1, <1>6
<1>9. Covers(p, b)
  BY <1>3, <1>6, <1>7, <1>8 DEF OfRound, Covers
<1> QED
  BY <1>6, <1>8, <1>9

(* Two intervals of the list that cover a bit make it contested. *)
LEMMA CoveredTwice ==
  ASSUME Sorted, NEW p \in 1..Len(intervals), NEW q \in 1..Len(intervals), p # q,
         NEW b \in Nat, Covers(p, b), Covers(q, b)
  PROVE  Contested(b)
<1> DEFINE x == <<intervals[p].slot, intervals[p].origin>>
           y == <<intervals[q].slot, intervals[q].origin>>
<1>1. /\ intervals[p] \in IntervalRec /\ intervals[q] \in IntervalRec
      /\ OfRound(intervals[p], Len(instrs)) /\ OfRound(intervals[q], Len(instrs))
      /\ Len(instrs) \in Nat
  BY DEF Sorted, TypeInv, Faithful
<1>2. /\ x \in (0 .. Len(instrs) - 1) \X {"src", "dst"}
      /\ y \in (0 .. Len(instrs) - 1) \X {"src", "dst"}
  <2>1. ASSUME NEW v \in IntervalRec, OfRound(v, Len(instrs))
        PROVE  v.slot \in 0 .. Len(instrs) - 1 /\ v.origin \in {"src", "dst"}
    <3>1. v.slot \in Nat /\ v.origin \in {"src", "dst"}
      BY DEF IntervalRec, Origins
    <3> QED
      BY <1>1, <2>1, <3>1 DEF OfRound
  <2> QED
    BY <1>1, <2>1
<1>3. x # y
  BY DEF Sorted, Distinct
<1>4. Claims(x[1], x[2], b) /\ Claims(y[1], y[2], b)
  BY <1>1 DEF OfRound, Covers, Claims, At
<1> QED
  BY <1>2, <1>3, <1>4 DEF Contested

(* Of two intervals on the lowest contested bit the later begins there, and  *)
(* so, or else earlier bits are contested, does its predecessor reach it.    *)
LEMMA LowestFound ==
  ASSUME Sorted, Found(Len(intervals)),
         NEW b \in Nat, Contested(b), \A c \in Starts : c < b => ~Contested(c)
  PROVE  \E x \in conflicts : x.overlap_begin = b
<1>0. Len(intervals) \in Nat
  BY DEF Sorted, TypeInv
<1>1. PICK x \in (0 .. Len(instrs) - 1) \X {"src", "dst"},
           y \in (0 .. Len(instrs) - 1) \X {"src", "dst"} :
        x # y /\ Claims(x[1], x[2], b) /\ Claims(y[1], y[2], b)
  BY DEF Contested
<1>2. PICK r \in 1..Len(intervals) :
        intervals[r].slot = x[1] /\ intervals[r].origin = x[2] /\ Covers(r, b)
  BY <1>1, ClaimCovered
<1>3. PICK s \in 1..Len(intervals) :
        intervals[s].slot = y[1] /\ intervals[s].origin = y[2] /\ Covers(s, b)
  BY <1>1, ClaimCovered
<1>4. r # s
  BY <1>1, <1>2, <1>3
<1>5. PICK p \in 1..Len(intervals), q \in 1..Len(intervals) :
        p < q /\ Covers(p, b) /\ Covers(q, b)
  BY <1>0, <1>2, <1>3, <1>4
<1>6. intervals[p].start <= intervals[q].start
  BY <1>5 DEF Sorted, StartsOrdered
<1>7. intervals[q].start = b
  <2> SUFFICES ASSUME intervals[q].start < b PROVE FALSE
    BY <1>5, IntervalTypes DEF Covers
  <2> DEFINE c == intervals[q].start
  <2>1. c \in Nat /\ c \in Starts /\ Covers(q, c)
    BY IntervalTypes DEF Covers
  <2>2. Covers(p, c)
    BY <1>5, <1>6, <2>1, IntervalTypes DEF Covers
  <2>3. Contested(c)
    BY <1>5, <2>1, <2>2, CoveredTwice
  <2> QED
    BY <2>1, <2>3
<1>8. q - 1 \in 1..Len(intervals) /\ q \in 2..Len(intervals) /\ (p = q - 1 \/ p < q - 1)
  BY <1>0, <1>5
<1>9. Meets(intervals[q - 1], intervals[q])
  <2> SUFFICES ASSUME ~(b < intervals[q - 1].end) PROVE FALSE
    BY <1>7 DEF Meets
  <2> DEFINE o == q - 1
             c == intervals[o].start
  <2>1. p < o
    BY <1>5, <1>8 DEF Covers
  <2>2. c \in Nat /\ c \in Starts /\ Covers(o, c) /\ c < b
    BY <1>8, IntervalTypes DEF Covers
  <2>3. intervals[p].start <= c
    BY <1>8, <2>1 DEF Sorted, StartsOrdered
  <2>4. Covers(p, c)
    BY <1>5, <2>2, <2>3, IntervalTypes DEF Covers
  <2>5. Contested(c)
    BY <1>8, <2>1, <2>2, <2>4, CoveredTwice
  <2> QED
    BY <2>2, <2>5
<1> QED
  BY <1>7, <1>8, <1>9 DEF Found

LEMMA LowestAtEnd == Sorted /\ Found(Len(intervals)) /\ pc' = "done"
                     /\ UNCHANGED <<instrs, conflicts>> => LowestReported'
<1> SUFFICES ASSUME Sorted, Found(Len(intervals)), UNCHANGED <<instrs, conflicts>>,
                    NEW b \in Starts, Contested(b), \A c \in Starts : c < b => ~Contested(c)
             PROVE  \E x \in conflicts : x.overlap_begin = b
  <2>1. ASSUME UNCHANGED instrs, NEW c PROVE Contested(c)' <=> Contested(c)
    BY <2>1 DEF Contested, Claims
  <2> QED
    BY <2>1 DEF LowestReported, Starts
<1>1. b \in Nat
  BY InstrFields DEF Sorted, Starts
<1> QED
  BY <1>1, LowestFound

Lowest == (pc = "scan" => Found(k - 1)) /\ LowestReported

LEMMA LowestNext == IInv /\ Lowest /\ [Next]_vars => Lowest'
<1> SUFFICES ASSUME IInv, Lowest, [Next]_vars PROVE Lowest'
  OBVIOUS
<1>0. TypeInv /\ Gathering /\ Scanning
  BY DEF IInv
<1>1. CASE SkipNop \/ Gather
  BY <1>1 DEF SkipNop, Gather, Lowest, LowestReported
<1>2. CASE ReturnEarly
  <2>1. Len(intervals) = 0 /\ k - 1 = Len(instrs)
    BY <1>0, <1>2 DEF ReturnEarly, TypeInv, Gathering
  <2>2. Sorted
    BY <1>0, <1>2, <2>1 DEF ReturnEarly, Gathering, Sorted, StartsOrdered
  <2>3. Found(Len(intervals))
    BY <2>1 DEF Found
  <2> QED
    BY <1>2, <2>2, <2>3, LowestAtEnd DEF ReturnEarly, Lowest
<1>3. CASE Sort
  BY <1>3 DEF Sort, Lowest, LowestReported, Found
<1>4. CASE Scan
  <2> DEFINE prev == intervals[k - 1]
             curr == intervals[k]
             report == Conflict(prev.slot, curr.slot, curr.start,
                                Lesser(curr.end, prev.end), Kind(prev, curr))
  <2>1. /\ pc = "scan" /\ pc' = "scan" /\ k' = k + 1 /\ k \in Nat
        /\ intervals' = intervals /\ conflicts \subseteq conflicts'
    BY <1>0, <1>4 DEF Scan, TypeInv
  <2>2. Found(k - 1)
    BY <2>1 DEF Lowest
  <2>3. Meets(prev, curr) => report \in conflicts'
    BY <1>4 DEF Scan
  <2>4. report.overlap_begin = curr.start
    BY ConflictFields
  <2>5. ASSUME NEW p \in 2..k, Meets(intervals[p - 1], intervals[p])
        PROVE  \E x \in conflicts' : x.overlap_begin = intervals[p].start
    <3>1. CASE p = k
      BY <2>3, <2>4, <2>5, <3>1
    <3>2. CASE p # k
      <4>1. p \in 2..(k - 1)
        BY <2>1, <3>2
      <4> QED
        BY <2>1, <2>2, <2>5, <4>1 DEF Found
    <3> QED
      BY <3>1, <3>2
  <2>6. k' - 1 = k
    BY <2>1
  <2> QED
    BY <2>1, <2>5, <2>6 DEF Lowest, LowestReported, Found, Meets
<1>5. CASE Return
  <2>1. k = Len(intervals) + 1 /\ Len(intervals) \in Nat
    BY <1>0, <1>5 DEF Return, TypeInv, Scanning
  <2>2. Sorted
    BY <1>0, <1>5 DEF Return, Scanning, Sorted
  <2>3. Found(Len(intervals))
    <3>1. k - 1 = Len(intervals)
      BY <2>1
    <3> QED
      BY <1>5, <3>1 DEF Return, Lowest
  <2> QED
    BY <1>5, <2>2, <2>3, LowestAtEnd DEF Return, Lowest
<1>6. CASE UNCHANGED vars
  BY <1>6 DEF vars, Lowest, LowestReported, Found, Meets, Contested, Claims
<1> QED
  BY <1>1, <1>2, <1>3, <1>4, <1>5, <1>6 DEF Next

(* For every round the lowest bit that two intervals claim, if it is the     *)
(* start of one, begins a reported region: a list of conflicts leaves out    *)
(* only what lies above one it names.                                        *)
THEOREM LowestReportedCorrect == Spec => []LowestReported
<1>1. Init => Lowest
  BY DEF Init, Lowest, LowestReported
<1>2. Lowest => LowestReported
  BY DEF Lowest
<1> QED
  BY <1>1, <1>2, LowestNext, Invariance, PTL DEF Spec

-----------------------------------------------------------------------------
(* Every variable keeps its type. *)
THEOREM TypeCorrect == Spec => []TypeOK
<1>1. Init => instrs \in Rounds
  BY DEF Init
<1>2. instrs \in Rounds /\ [Next]_vars => (instrs \in Rounds)'
  BY DEF Next, vars, SkipNop, Gather, ReturnEarly, Sort, Scan, Return
<1>3. IInv /\ Reports /\ instrs \in Rounds => TypeOK
  BY DEF IInv, TypeInv, Reports, TypeOK, IntervalRec, Origins, ConflictRec, Kinds
<1> QED
  BY <1>1, <1>2, <1>3, Invariance, ReportsInvariance, PTL DEF Spec

-----------------------------------------------------------------------------
(* Gather appends the two intervals of an instruction.                       *)
LEMMA TwoMore ==
  ASSUME NEW S, NEW s \in Seq(S), NEW a, NEW b
  PROVE  Len(s \o <<a, b>>) = Len(s) + 2
OBVIOUS

(* The safety half of Terminates: a count of the steps to come.              *)

StepsLeft ==
  CASE pc = "gather" -> 3 * (Len(instrs) + 1 - k) + Len(intervals) + 3
    [] pc = "scan" -> (Len(intervals) + 1 - k) + 1
    [] pc = "done" -> 0

(* Every step of _check_tick leaves fewer to come, for a round of any length: *)
(* the first loop makes two intervals of an instruction, the sort keeps them  *)
(* all, the scan passes each once.                                            *)
THEOREM StepsFall == Spec => [](StepsLeft \in Nat) /\ [][StepsLeft' < StepsLeft]_vars
<1>1. ASSUME IInv
      PROVE  /\ Len(instrs) \in Nat /\ Len(intervals) \in Nat /\ k \in Nat
             /\ pc \in {"gather", "scan", "done"}
             /\ pc = "gather" => k <= Len(instrs) + 1
             /\ pc = "scan" => k <= Len(intervals) + 1
  BY <1>1 DEF IInv, TypeInv, Gathering, Scanning
<1>2. ASSUME IInv PROVE StepsLeft \in Nat
  BY <1>1, <1>2 DEF StepsLeft
<1>3. ASSUME IInv, IInv', Next PROVE StepsLeft' < StepsLeft
  <2>1. instrs' = instrs
    BY <1>3 DEF Next, SkipNop, Gather, ReturnEarly, Sort, Scan, Return
  <2>2. /\ Len(instrs) \in Nat /\ Len(intervals) \in Nat /\ k \in Nat
        /\ pc = "gather" => k <= Len(instrs) + 1
        /\ pc = "scan" => k <= Len(intervals) + 1
    BY <1>1, <1>3
  <2>3. CASE SkipNop \/ Scan
    BY <2>1, <2>2, <2>3 DEF SkipNop, Scan, StepsLeft
  <2>4. CASE Gather
    <3>1. Len(intervals') = Len(intervals) + 2
      <4> DEFINE a == Interval(instrs[k].src, instrs[k].n, k - 1, "src")
                 b == Interval(instrs[k].dst, instrs[k].n, k - 1, "dst")
      <4>1. intervals' = intervals \o <<a, b>>
        BY <2>4 DEF Gather
      <4>2. intervals \in Seq(IntervalRec \cup {a, b})
        BY <1>3 DEF IInv, TypeInv
      <4> HIDE DEF a, b
      <4>3. Len(intervals \o <<a, b>>) = Len(intervals) + 2
        BY <4>2, TwoMore
      <4> QED
        BY <4>1, <4>3
    <3> QED
      BY <2>1, <2>2, <2>4, <3>1 DEF Gather, StepsLeft
  <2>5. CASE ReturnEarly \/ Return
    BY <2>1, <2>2, <2>5 DEF ReturnEarly, Return, StepsLeft
  <2>6. CASE Sort
    <3>1. PICK f : intervals' = [p \in 1..Len(intervals) |-> intervals[f[p]]]
      BY <2>6 DEF Sort
    <3>2. intervals' \in Seq(IntervalRec)
      BY <1>3 DEF IInv, TypeInv
    <3>3. DOMAIN intervals' = 1..Len(intervals')
      BY <3>2
    <3>4. Len(intervals') = Len(intervals)
      BY <2>2, <3>1, <3>2, <3>3
    <3> QED
      BY <2>1, <2>2, <2>6, <3>4 DEF Sort, StepsLeft
  <2> QED
    BY <1>3, <2>3, <2>4, <2>5, <2>6 DEF Next
<1> QED
  BY <1>2, <1>3, Invariance, PTL DEF Spec
=============================================================================
