------------------------- MODULE MemoryCheckProofs -------------------------
(***************************************************************************)
(* L1 for every space, configuration and layer.  The loop reports of each   *)
(* instruction it has passed the set Found, a function of the instruction   *)
(* alone; what that set says of the bits of the destination is arithmetic   *)
(* on half-open intervals.                                                  *)
(***************************************************************************)
EXTENDS MemoryCheck, TLAPS

Instr == [n : Nat, dst : Nat, src : Nat]
Violation == [slot : Nat, reason : {"boundary", "protected", "allowed"}]

Touched(i) == \E g \in 1..Len(cfg.protected) : intersects(cfg.protected[g], i.dst, i.n)
Misplaced(i) ==
  cfg.allowed # <<>> /\ ~\E g \in 1..Len(cfg.allowed) : contains(cfg.allowed[g], i.dst, i.n)

(* What the loop finds wrong with an instruction. *)
Found(i) ==
  IF i.n = 0 THEN {}
  ELSE IF i.dst + i.n > SpaceBits THEN {"boundary"}
  ELSE (IF Touched(i) THEN {"protected"} ELSE {})
         \cup (IF Misplaced(i) THEN {"allowed"} ELSE {})

TypeInv ==
  /\ TypeOK
  /\ cfg \in [protected : Seq(Region), allowed : Seq(Region)]
  /\ instrs \in Seq(Instr)
  /\ SpaceBits \in Nat

Current ==
  pc \in {"protected", "allowed"} => ins.n > 0 /\ ins.dst + ins.n <= SpaceBits

Missed ==
  pc = "protected" =>
    \A g \in 1..(r - 1) : ~intersects(cfg.protected[g], ins.dst, ins.n)

(* Every instruction is counted in its turn. *)
Counted ==
  /\ pc \in {"next", "done"} => total = k - 1
  /\ pc \in {"protected", "allowed"} => total = k

(* Reports of the current instruction are made in its own turn only. *)
SlotsBelow ==
  \A v \in 1..Len(violations) :
    \/ violations[v].slot < k - 1
    \/ pc = "allowed" /\ violations[v].slot = k - 1 /\ violations[v].reason = "protected"

Reported ==
  /\ \A a \in 1..(k - 1) : Reasons(a) = Found(instrs[a])
  /\ pc = "allowed" => Reasons(k) = IF Touched(ins) THEN {"protected"} ELSE {}
  /\ pc = "done" => k = Len(instrs) + 1

IInv == TypeInv /\ Current /\ Missed /\ Counted /\ SlotsBelow /\ Once /\ Reported

-----------------------------------------------------------------------------
(* A report adds one reason to the current instruction. *)
LEMMA AddReason ==
  ASSUME violations \in Seq(Violation), k \in Nat \ {0}, NEW reason, Report(reason),
         reason \in {"boundary", "protected", "allowed"}
  PROVE  /\ violations' \in Seq(Violation)
         /\ Len(violations') = Len(violations) + 1
         /\ \A v \in 1..Len(violations) : violations'[v] = violations[v]
         /\ violations'[Len(violations) + 1] = [slot |-> k - 1, reason |-> reason]
BY DEF Report, Violation

LEMMA ReasonsAfter ==
  ASSUME violations \in Seq(Violation), k \in Nat \ {0}, NEW reason, Report(reason),
         reason \in {"boundary", "protected", "allowed"}, NEW a \in Nat
  PROVE  Reasons(a)' = Reasons(a) \cup (IF a = k THEN {reason} ELSE {})
<1> DEFINE L == Len(violations)
<1>1. /\ Len(violations') = L + 1 /\ L \in Nat
      /\ \A v \in 1..L : violations'[v] = violations[v]
      /\ violations'[L + 1] = [slot |-> k - 1, reason |-> reason]
  BY AddReason
<1> HIDE DEF L
<1>2. Reasons(a)' = {violations'[v].reason : v \in {v \in 1..(L + 1) : violations'[v].slot = a - 1}}
  BY <1>1 DEF Reasons
<1>3. Reasons(a) = {violations[v].reason : v \in {v \in 1..L : violations[v].slot = a - 1}}
  BY DEF Reasons, L
<1>4. ASSUME NEW x PROVE x \in Reasons(a)' <=> x \in Reasons(a) \cup (IF a = k THEN {reason} ELSE {})
  BY <1>1, <1>2, <1>3
<1> QED
  BY <1>4

LEMMA SameReasons ==
  ASSUME UNCHANGED violations, NEW a
  PROVE  Reasons(a)' = Reasons(a)
BY DEF Reasons

(* Nothing is said of the current instruction before its turn comes to it. *)
LEMMA NothingYet ==
  ASSUME SlotsBelow, k \in Nat, violations \in Seq(Violation), pc # "allowed"
  PROVE  Reasons(k) = {}
BY DEF SlotsBelow, Reasons, Violation

-----------------------------------------------------------------------------
LEMMA InitInv == Init => IInv
<1> SUFFICES ASSUME Init PROVE IInv
  OBVIOUS
<1>1. TypeInv
  BY MemoryCheckAssumption DEF Init, TypeInv, TypeOK, Instr
<1>2. Current /\ Missed /\ Counted /\ SlotsBelow /\ Once /\ Reported
  BY DEF Init, Current, Missed, Counted, SlotsBelow, Once, Reported
<1> QED
  BY <1>1, <1>2 DEF IInv

(* A report is the last of its slot, and the second at most. *)
LEMMA ReportInTurn ==
  ASSUME TypeInv, SlotsBelow, Once, NEW reason, Report(reason),
         reason \in {"boundary", "protected", "allowed"},
         pc = "allowed" => reason = "allowed"
  PROVE  /\ Once'
         /\ \A v \in 1..Len(violations') :
              \/ violations'[v].slot < k - 1
              \/ violations'[v].slot = k - 1 /\ violations'[v].reason = reason
              \/ /\ pc = "allowed" /\ violations'[v].slot = k - 1
                 /\ violations'[v].reason = "protected"
<1> DEFINE L == Len(violations)
<1>1. violations \in Seq(Violation) /\ k \in Nat \ {0}
  BY DEF TypeInv, TypeOK, Violation
<1>2. /\ L \in Nat /\ Len(violations') = L + 1
      /\ \A v \in 1..L : violations'[v] = violations[v]
      /\ violations'[L + 1] = [slot |-> k - 1, reason |-> reason]
  BY <1>1, AddReason
<1>3. /\ violations'[L + 1].slot = k - 1
      /\ violations'[L + 1].reason = reason
  BY <1>2
<1>4. ASSUME NEW v \in 1..L
      PROVE  /\ violations'[v] = violations[v] /\ violations[v].slot \in Nat
             /\ \/ violations[v].slot < k - 1
                \/ /\ pc = "allowed" /\ violations[v].slot = k - 1
                   /\ violations[v].reason = "protected"
  <2>1. violations[v] \in Violation
    BY <1>1
  <2> QED
    BY <2>1, <1>2 DEF Violation, SlotsBelow
<1>5. ASSUME NEW v \in 1..(L + 1) PROVE v \in 1..L \/ v = L + 1
  BY <1>2
<1>6. ASSUME NEW v \in 1..(L + 1), NEW w \in 1..(L + 1), v < w
      PROVE  \/ violations'[v].slot < violations'[w].slot
             \/ /\ violations'[v].slot = violations'[w].slot
                /\ violations'[v].reason = "protected" /\ violations'[w].reason = "allowed"
  <2>1. v \in 1..L
    BY <1>2, <1>6
  <2>2. CASE w \in 1..L
    BY <2>1, <2>2, <1>4, <1>6 DEF Once
  <2>3. CASE w = L + 1
    BY <2>1, <2>3, <1>1, <1>3, <1>4
  <2> QED
    BY <2>2, <2>3, <1>5
<1> HIDE DEF L
<1>7. Once'
  BY <1>2, <1>6 DEF Once
<1>8. ASSUME NEW v \in 1..(L + 1)
      PROVE  \/ violations'[v].slot < k - 1
             \/ violations'[v].slot = k - 1 /\ violations'[v].reason = reason
             \/ /\ pc = "allowed" /\ violations'[v].slot = k - 1
                /\ violations'[v].reason = "protected"
  BY <1>3, <1>4, <1>5
<1> QED
  BY <1>2, <1>7, <1>8

LEMMA SlotsPassed ==
  ASSUME violations' \in Seq(Violation), k \in Nat \ {0}, k' = k + 1,
         \A v \in 1..Len(violations') :
           violations'[v].slot < k - 1 \/ violations'[v].slot = k - 1
  PROVE  SlotsBelow'
<1> SUFFICES ASSUME NEW v \in 1..Len(violations') PROVE violations'[v].slot < k' - 1
  BY DEF SlotsBelow
<1>1. violations'[v] \in Violation
  OBVIOUS
<1>2. violations'[v].slot \in Nat
  BY <1>1 DEF Violation
<1> QED
  BY <1>2

(* The turn of an instruction ends with all that is found of it reported. *)
LEMMA TurnOver ==
  ASSUME TypeInv, UNCHANGED <<cfg, instrs>>, k' = k + 1, pc' = "next",
         \A a \in 1..k : Reasons(a)' = Found(instrs[a])
  PROVE  Reported'
<1>1. 1..(k' - 1) = 1..k
  BY DEF TypeInv, TypeOK
<1>2. ASSUME NEW a \in 1..k PROVE (Reasons(a) = Found(instrs[a]))'
  <2>1. Found(instrs[a])' = Found(instrs[a])
    BY DEF Found, Touched, Misplaced
  <2> QED
    BY <2>1
<1>3. \A a \in 1..(k' - 1) : (Reasons(a) = Found(instrs[a]))'
  BY <1>1, <1>2
<1> QED
  BY <1>3 DEF Reported

LEMMA NextInv == IInv /\ [Next]_vars => IInv'
<1> SUFFICES ASSUME IInv, [Next]_vars PROVE IInv'
  OBVIOUS
<1>t. /\ cfg \in [protected : Seq(Region), allowed : Seq(Region)]
      /\ instrs \in Seq(Instr) /\ violations \in Seq(Violation)
      /\ k \in Nat \ {0} /\ r \in Nat \ {0} /\ k <= Len(instrs) + 1
      /\ SpaceBits \in Nat /\ total \in Nat /\ nop \in 0..total
  BY DEF IInv, TypeInv, TypeOK, Violation
<1>v. \A v \in 1..Len(violations) :
        /\ violations[v] \in Violation
        /\ violations[v].slot \in Nat
  <2> SUFFICES ASSUME NEW v \in 1..Len(violations)
               PROVE  violations[v] \in Violation /\ violations[v].slot \in Nat
    OBVIOUS
  <2>1. violations[v] \in Violation
    BY <1>t
  <2> QED
    BY <2>1 DEF Violation
<1>i. k <= Len(instrs) => ins \in Instr
  BY <1>t DEF ins
<1>0. UNCHANGED <<cfg, instrs>>
  BY DEF Next, vars, SkipNop, OutOfSpace, InSpace, Hit, Miss, NoHit, Allowed, Return
<1>f. \A i : Found(i)' = Found(i) /\ Touched(i)' = Touched(i)
  BY <1>0 DEF Found, Touched, Misplaced
<1>1. CASE SkipNop
  <2> USE <1>1 DEF SkipNop
  <2>1. TypeInv'
    BY <1>t, <1>0 DEF IInv, TypeInv, TypeOK, Counted
  <2>2. Current' /\ Missed' /\ Counted' /\ Once'
    BY <1>t DEF IInv, Current, Missed, Counted, Once
  <2>3. SlotsBelow'
    BY <1>t, <1>v DEF IInv, SlotsBelow
  <2>4. Reported'
    <3>1. Reasons(k) = {} /\ Found(instrs[k]) = {}
      BY NothingYet, <1>t DEF IInv, Found, ins
    <3>2. \A a : Reasons(a)' = Reasons(a)
      BY SameReasons
    <3>q. ASSUME NEW a \in 1..k PROVE Reasons(a)' = Found(instrs[a])
      <4>1. a \in Nat /\ (a = k \/ a \in 1..(k - 1))
        BY <1>t
      <4>2. CASE a = k
        BY <3>1, <3>2, <4>1, <4>2
      <4>3. CASE a \in 1..(k - 1)
        <5>1. a # k /\ Reasons(a) = Found(instrs[a])
          BY <4>3, <1>t DEF IInv, Reported
        <5> QED
          BY <5>1, <3>2, <4>1
      <4> QED
        BY <4>1, <4>2, <4>3
    <3> QED
      BY <3>q, <1>0, TurnOver DEF IInv
  <2> QED
    BY <2>1, <2>2, <2>3, <2>4 DEF IInv
<1>2. CASE OutOfSpace
  <2> USE <1>2 DEF OutOfSpace
  <2>a. /\ violations' \in Seq(Violation) /\ Len(violations') = Len(violations) + 1
        /\ \A v \in 1..Len(violations) : violations'[v] = violations[v]
        /\ violations'[Len(violations) + 1] = [slot |-> k - 1, reason |-> "boundary"]
    BY AddReason, <1>t
  <2>1. TypeInv'
    <3>1. total = k - 1 /\ k' \in 1..(Len(instrs) + 1)
      BY <1>t DEF IInv, Counted
    <3>2. total' \in 0..Len(instrs) /\ nop' \in 0..total'
      BY <3>1, <1>t
    <3> QED
      BY <2>a, <3>1, <3>2, <1>t, <1>0 DEF IInv, TypeInv, TypeOK, Violation
  <2>2. Current' /\ Missed' /\ Counted'
    BY <1>t DEF IInv, Current, Missed, Counted
  <2>b. \A v \in 1..Len(violations') :
          violations'[v].slot < k - 1 \/ violations'[v].slot = k - 1
    BY ReportInTurn DEF IInv
  <2>3. SlotsBelow'
    BY <2>a, <2>b, SlotsPassed, <1>t
  <2>4. Once'
    BY ReportInTurn DEF IInv
  <2>5. Reported'
    <3>1. Reasons(k) = {} /\ Found(instrs[k]) = {"boundary"}
      BY NothingYet, <1>t DEF IInv, Found, ins, Exceeds
    <3>2. \A a \in Nat : Reasons(a)' = Reasons(a) \cup (IF a = k THEN {"boundary"} ELSE {})
      BY ReasonsAfter, <1>t
    <3>q. ASSUME NEW a \in 1..k PROVE Reasons(a)' = Found(instrs[a])
      <4>1. a \in Nat /\ (a = k \/ a \in 1..(k - 1))
        BY <1>t
      <4>2. CASE a = k
        BY <3>1, <3>2, <4>1, <4>2
      <4>3. CASE a \in 1..(k - 1)
        <5>1. a # k /\ Reasons(a) = Found(instrs[a])
          BY <4>3, <1>t DEF IInv, Reported
        <5> QED
          BY <5>1, <3>2, <4>1
      <4> QED
        BY <4>1, <4>2, <4>3
    <3> QED
      BY <3>q, <1>0, TurnOver DEF IInv
  <2> QED
    BY <2>1, <2>2, <2>3, <2>4, <2>5 DEF IInv
<1>3. CASE InSpace
  <2> USE <1>3 DEF InSpace
  <2>1. TypeInv'
    BY <1>t, <1>0 DEF IInv, TypeInv, TypeOK, Counted
  <2>2. Current' /\ Missed' /\ Counted' /\ Once'
    BY <1>t, <1>i, <1>0 DEF IInv, Current, Missed, Counted, Once, ins, Exceeds, Instr
  <2>3. SlotsBelow'
    BY <1>t DEF IInv, SlotsBelow
  <2>4. Reported'
    BY SameReasons, <1>t, <1>0, <1>f DEF IInv, Reported
  <2> QED
    BY <2>1, <2>2, <2>3, <2>4 DEF IInv
<1>4. CASE Hit
  <2> USE <1>4 DEF Hit
  <2>a. /\ violations' \in Seq(Violation) /\ Len(violations') = Len(violations) + 1
        /\ \A v \in 1..Len(violations) : violations'[v] = violations[v]
        /\ violations'[Len(violations) + 1] = [slot |-> k - 1, reason |-> "protected"]
    BY AddReason, <1>t
  <2>1. TypeInv'
    BY <2>a, <1>t, <1>0 DEF IInv, TypeInv, TypeOK, Violation, Counted
  <2>2. Current' /\ Missed' /\ Counted'
    BY <1>0, <1>t DEF IInv, Current, Missed, Counted, ins
  <2>3. SlotsBelow'
    BY ReportInTurn, <1>t DEF IInv, SlotsBelow
  <2>4. Once'
    BY ReportInTurn DEF IInv
  <2>5. Reported'
    <3>1. Reasons(k) = {} /\ Touched(ins)
      BY NothingYet, <1>t DEF IInv, Touched
    <3>2. \A a \in Nat : Reasons(a)' = Reasons(a) \cup (IF a = k THEN {"protected"} ELSE {})
      BY ReasonsAfter, <1>t
    <3>3. Touched(ins)'
      BY <3>1, <1>0 DEF Touched, ins
    <3> QED
      <4>1. ASSUME NEW a \in 1..(k - 1) PROVE (Reasons(a) = Found(instrs[a]))'
        <5>1. a \in Nat /\ a # k
          BY <1>t
        <5>2. Reasons(a)' = Found(instrs[a])
          BY <5>1, <3>2 DEF IInv, Reported
        <5>3. Found(instrs[a])' = Found(instrs[a])
          BY <1>0 DEF Found, Touched, Misplaced
        <5> QED
          BY <5>2, <5>3
      <4>2. (Reasons(k) = {"protected"})'
        <5>1. ASSUME NEW a, a = k PROVE Reasons(a)' = {"protected"}
          BY <5>1, <3>1, <3>2, <1>t
        <5> QED
          BY <5>1 DEF Reasons
      <4> QED
        BY <4>1, <4>2, <3>3, <1>t DEF Reported
  <2> QED
    BY <2>1, <2>2, <2>3, <2>4, <2>5 DEF IInv
<1>5. CASE Miss
  <2> USE <1>5 DEF Miss
  <2>1. TypeInv'
    BY <1>t, <1>0 DEF IInv, TypeInv, TypeOK, Counted
  <2>2. Current' /\ Counted' /\ Once'
    BY <1>0 DEF IInv, Current, Counted, Once, ins
  <2>3. Missed'
    BY <1>0, <1>t DEF IInv, Missed, ins
  <2>4. SlotsBelow'
    BY DEF IInv, SlotsBelow
  <2>5. Reported'
    BY SameReasons, <1>t, <1>0, <1>f DEF IInv, Reported
  <2> QED
    BY <2>1, <2>2, <2>3, <2>4, <2>5 DEF IInv
<1>6. CASE NoHit
  <2> USE <1>6 DEF NoHit
  <2>1. TypeInv'
    BY <1>t, <1>0 DEF IInv, TypeInv, TypeOK, Counted
  <2>2. Current' /\ Missed' /\ Counted' /\ Once'
    BY <1>0 DEF IInv, Current, Missed, Counted, Once, ins
  <2>3. SlotsBelow'
    BY DEF IInv, SlotsBelow
  <2>4. Reported'
    <3>1. Reasons(k) = {}
      BY NothingYet, <1>t DEF IInv
    <3>2. ~Touched(ins)
      BY <1>t DEF IInv, TypeInv, TypeOK, Missed, Touched
    <3>3. ~Touched(ins)'
      BY <3>2, <1>0 DEF Touched, ins
    <3> QED
      BY <3>1, <3>3, SameReasons, <1>t, <1>0, <1>f DEF IInv, Reported
  <2> QED
    BY <2>1, <2>2, <2>3, <2>4 DEF IInv
<1>7. CASE Allowed
  <2> USE <1>7 DEF Allowed
  <2>c. k <= Len(instrs) /\ ins = instrs[k] /\ ins \in Instr
    BY <1>i DEF IInv, TypeInv, TypeOK, ins
  <2>p. Permitted <=> ~Misplaced(ins)
    BY DEF Permitted, _is_in_allowed, Misplaced
  <2>n. Found(ins) = (IF Touched(ins) THEN {"protected"} ELSE {})
                       \cup (IF Misplaced(ins) THEN {"allowed"} ELSE {})
    <3>1. ins.n > 0 /\ ins.dst + ins.n <= SpaceBits
      BY DEF IInv, Current
    <3>2. ins.n # 0 /\ ~(ins.dst + ins.n > SpaceBits)
      BY <3>1, <2>c, <1>t DEF Instr
    <3> QED
      BY <3>2 DEF Found
  <2>k. Reasons(k) = IF Touched(ins) THEN {"protected"} ELSE {}
    BY DEF IInv, Reported
  <2>1. CASE Permitted
    <3>1. UNCHANGED violations
      BY <2>1
    <3>2. TypeInv' /\ Current' /\ Missed' /\ Counted' /\ Once'
      BY <3>1, <2>c, <1>t, <1>0 DEF IInv, TypeInv, TypeOK, Current, Missed, Counted, Once
    <3>b. \A v \in 1..Len(violations') :
            violations'[v].slot < k - 1 \/ violations'[v].slot = k - 1
      BY <3>1, <1>t DEF IInv, SlotsBelow
    <3>3. SlotsBelow'
      BY <3>1, <3>b, SlotsPassed, <1>t
    <3>4. Reported'
      <4>1. \A a : Reasons(a)' = Reasons(a)
        BY <3>1, SameReasons
      <4>2. Reasons(k) = Found(instrs[k])
        BY <2>1, <2>p, <2>n, <2>k, <2>c
      <4>q. ASSUME NEW a \in 1..k PROVE Reasons(a)' = Found(instrs[a])
        <5>1. a \in Nat /\ (a = k \/ a \in 1..(k - 1))
          BY <1>t
        <5>2. CASE a = k
          BY <4>1, <4>2, <5>1, <5>2
        <5>3. CASE a \in 1..(k - 1)
          <6>1. a # k /\ Reasons(a) = Found(instrs[a])
            BY <5>3, <1>t DEF IInv, Reported
          <6> QED
            BY <6>1, <4>1, <5>1
        <5> QED
          BY <5>1, <5>2, <5>3
      <4> QED
        BY <4>q, <1>0, TurnOver DEF IInv
    <3> QED
      BY <3>2, <3>3, <3>4 DEF IInv
  <2>2. CASE ~Permitted
    <3>0. Report("allowed")
      BY <2>2
    <3>a. /\ violations' \in Seq(Violation) /\ Len(violations') = Len(violations) + 1
          /\ \A v \in 1..Len(violations) : violations'[v] = violations[v]
          /\ violations'[Len(violations) + 1] = [slot |-> k - 1, reason |-> "allowed"]
      BY <3>0, AddReason, <1>t
    <3>1. TypeInv'
      BY <3>a, <2>c, <1>t, <1>0 DEF IInv, TypeInv, TypeOK, Violation
    <3>2. Current' /\ Missed' /\ Counted'
      BY <1>t DEF IInv, Current, Missed, Counted
    <3>b. /\ Once'
          /\ \A v \in 1..Len(violations') :
               violations'[v].slot < k - 1 \/ violations'[v].slot = k - 1
      BY <3>0, ReportInTurn DEF IInv
    <3>3. SlotsBelow'
      BY <3>a, <3>b, SlotsPassed, <1>t
    <3>4. Once'
      BY <3>b
    <3>5. Reported'
      <4>1. \A a \in Nat : Reasons(a)' = Reasons(a) \cup (IF a = k THEN {"allowed"} ELSE {})
        BY <3>0, ReasonsAfter, <1>t
      <4>2. Reasons(k) \cup {"allowed"} = Found(instrs[k])
        BY <2>2, <2>p, <2>n, <2>k, <2>c
      <4>q. ASSUME NEW a \in 1..k PROVE Reasons(a)' = Found(instrs[a])
        <5>1. a \in Nat /\ (a = k \/ a \in 1..(k - 1))
          BY <1>t
        <5>2. CASE a = k
          BY <4>1, <4>2, <5>1, <5>2
        <5>3. CASE a \in 1..(k - 1)
          <6>1. a # k /\ Reasons(a) = Found(instrs[a])
            BY <5>3, <1>t DEF IInv, Reported
          <6> QED
            BY <6>1, <4>1, <5>1
        <5> QED
          BY <5>1, <5>2, <5>3
      <4> QED
        BY <4>q, <1>0, TurnOver DEF IInv
    <3> QED
      BY <3>1, <3>2, <3>3, <3>4, <3>5 DEF IInv
  <2> QED
    BY <2>1, <2>2
<1>8. CASE Return
  <2> USE <1>8 DEF Return
  <2>1. TypeInv' /\ Current' /\ Missed' /\ Counted' /\ Once'
    BY <1>t, <1>0 DEF IInv, TypeInv, TypeOK, Current, Missed, Counted, Once
  <2>2. SlotsBelow'
    BY DEF IInv, SlotsBelow
  <2>3. Reported'
    BY SameReasons, <1>t, <1>0, <1>f DEF IInv, Reported
  <2> QED
    BY <2>1, <2>2, <2>3 DEF IInv
<1>9. CASE UNCHANGED vars
  <2>1. UNCHANGED <<k, r, violations, pc, total, nop>> /\ UNCHANGED <<cfg, instrs>>
    BY <1>9 DEF vars
  <2>2. TypeInv' /\ Current' /\ Missed' /\ Counted' /\ Once' /\ SlotsBelow'
    BY <2>1 DEF IInv, TypeInv, TypeOK, Current, Missed, Counted, Once, SlotsBelow, ins
  <2>3. Reported'
    BY <2>1, SameReasons, <1>f DEF IInv, Reported, ins
  <2> QED
    BY <2>2, <2>3 DEF IInv
<1> QED
  BY <1>1, <1>2, <1>3, <1>4, <1>5, <1>6, <1>7, <1>8, <1>9 DEF Next

LEMMA Invariance == Spec => []IInv
BY InitInv, NextInv, PTL DEF Spec

-----------------------------------------------------------------------------
(* Half-open intervals against the bits they hold. *)

LEMMA RegionBounds ==
  ASSUME NEW g \in Region, Bounded(g)
  PROVE  g.begin \in Int /\ g.end \in Int
BY DEF Region, Bounded

LEMMA ContainsBits ==
  ASSUME NEW g \in Region, NEW i \in Instr, i.n > 0
  PROVE  contains(g, i.dst, i.n) <=> \A b \in DstBits(i) : Holds(g, b)
<1>0. i.dst \in Nat /\ i.n \in Nat
  BY DEF Instr
<1>1. CASE ~Bounded(g)
  <2>1. i.dst \in DstBits(i)
    BY <1>0 DEF DstBits
  <2> QED
    BY <1>1, <2>1 DEF contains, Holds
<1>2. CASE Bounded(g)
  <2>1. g.begin \in Int /\ g.end \in Int
    BY <1>2, RegionBounds
  <2>2. ASSUME contains(g, i.dst, i.n), NEW b \in DstBits(i) PROVE Holds(g, b)
    BY <1>0, <2>1, <2>2 DEF contains, Holds, DstBits
  <2>3. ASSUME \A b \in DstBits(i) : Holds(g, b) PROVE contains(g, i.dst, i.n)
    <3>1. i.dst \in DstBits(i) /\ i.dst + i.n - 1 \in DstBits(i)
      BY <1>0 DEF DstBits
    <3>2. Holds(g, i.dst) /\ Holds(g, i.dst + i.n - 1)
      BY <2>3, <3>1
    <3> QED
      BY <1>0, <1>2, <2>1, <3>2 DEF contains, Holds
  <2> QED
    BY <2>2, <2>3
<1> QED
  BY <1>1, <1>2

LEMMA IntersectsIfHeld ==
  ASSUME NEW g \in Region, NEW i \in Instr, NEW b \in DstBits(i), Holds(g, b)
  PROVE  intersects(g, i.dst, i.n)
<1>1. Bounded(g) /\ g.begin \in Int /\ g.end \in Int
  BY RegionBounds DEF Holds
<1>2. i.dst \in Nat /\ i.n \in Nat
  BY DEF Instr
<1> QED
  BY <1>1, <1>2 DEF Holds, DstBits, intersects

(* Only a region that holds a bit at all is sure to share one it intersects. *)
LEMMA HeldIfIntersects ==
  ASSUME NEW g \in Region, NEW i \in Instr, i.n > 0,
         intersects(g, i.dst, i.n), g.begin < g.end
  PROVE  \E b \in DstBits(i) : Holds(g, b)
<1>1. Bounded(g) /\ g.begin \in Int /\ g.end \in Int
  BY RegionBounds DEF intersects
<1>2. i.dst \in Nat /\ i.n \in Nat
  BY DEF Instr
<1>3. CASE i.dst < g.begin
  <2>1. g.begin \in DstBits(i) /\ Holds(g, g.begin)
    BY <1>1, <1>2, <1>3 DEF DstBits, Holds, intersects
  <2> QED
    BY <2>1
<1>4. CASE g.begin <= i.dst
  <2>1. i.dst \in DstBits(i) /\ Holds(g, i.dst)
    BY <1>1, <1>2, <1>4 DEF DstBits, Holds, intersects
  <2> QED
    BY <2>1
<1> QED
  BY <1>1, <1>2, <1>3, <1>4

LEMMA BoundaryBits ==
  ASSUME NEW i \in Instr, i.n > 0, SpaceBits \in Nat
  PROVE  i.dst + i.n > SpaceBits <=> \E b \in DstBits(i) : b >= SpaceBits
<1>1. i.dst \in Nat /\ i.n \in Nat
  BY DEF Instr
<1>2. i.dst + i.n - 1 \in DstBits(i)
  BY <1>1 DEF DstBits
<1>3. ASSUME i.dst + i.n > SpaceBits PROVE \E b \in DstBits(i) : b >= SpaceBits
  BY <1>1, <1>2, <1>3
<1>4. ASSUME NEW b \in DstBits(i), b >= SpaceBits PROVE i.dst + i.n > SpaceBits
  BY <1>1, <1>4 DEF DstBits
<1> QED
  BY <1>3, <1>4

LEMMA Regions ==
  ASSUME TypeInv
  PROVE  /\ \A g \in 1..Len(cfg.protected) : cfg.protected[g] \in Region
         /\ \A g \in 1..Len(cfg.allowed) : cfg.allowed[g] \in Region
BY DEF TypeInv

(* Nothing found: every bit of the destination is where it may be. *)
LEMMA FoundNothing ==
  ASSUME TypeInv, NEW i \in Instr, Found(i) = {}, NEW b \in DstBits(i)
  PROVE  /\ b < SpaceBits
         /\ \A g \in 1..Len(cfg.protected) : ~Holds(cfg.protected[g], b)
         /\ cfg.allowed = <<>> \/ \E g \in 1..Len(cfg.allowed) : Holds(cfg.allowed[g], b)
<1>1. i.n \in Nat /\ i.dst \in Nat /\ SpaceBits \in Nat
  BY DEF Instr, TypeInv
<1>2. i.n > 0 /\ b \in Nat
  BY <1>1 DEF DstBits
<1>3. ~(i.dst + i.n > SpaceBits) /\ ~Touched(i) /\ ~Misplaced(i)
  BY <1>1, <1>2 DEF Found
<1>4. b < SpaceBits
  BY <1>1, <1>2, <1>3 DEF DstBits
<1>5. \A g \in 1..Len(cfg.protected) : ~Holds(cfg.protected[g], b)
  BY <1>3, Regions, IntersectsIfHeld DEF Touched
<1>6. cfg.allowed = <<>> \/ \E g \in 1..Len(cfg.allowed) : Holds(cfg.allowed[g], b)
  BY <1>2, <1>3, Regions, ContainsBits DEF Misplaced
<1> QED
  BY <1>4, <1>5, <1>6

(* What is found is what is wrong. *)
LEMMA FoundWrong ==
  ASSUME TypeInv, WellFormed, NEW i \in Instr
  PROVE  Found(i) = Wrong(i)
<1>1. i.n \in Nat /\ i.dst \in Nat /\ SpaceBits \in Nat
  BY DEF Instr, TypeInv
<1>2. CASE i.n = 0
  <2>1. DstBits(i) = {}
    BY <1>1, <1>2 DEF DstBits
  <2> QED
    BY <1>2, <2>1 DEF Found, Wrong
<1>3. CASE i.n > 0 /\ i.dst + i.n > SpaceBits
  <2>1. \E b \in DstBits(i) : b >= SpaceBits
    BY <1>1, <1>3, BoundaryBits
  <2> QED
    BY <1>1, <1>3, <2>1 DEF Found, Wrong
<1>4. CASE i.n > 0 /\ ~(i.dst + i.n > SpaceBits)
  <2>1. ~\E b \in DstBits(i) : b >= SpaceBits
    BY <1>1, <1>4, BoundaryBits
  <2>2. Touched(i) <=> \E g \in 1..Len(cfg.protected), b \in DstBits(i) :
                         Holds(cfg.protected[g], b)
    <3>1. ASSUME NEW g \in 1..Len(cfg.protected), intersects(cfg.protected[g], i.dst, i.n)
          PROVE  \E b \in DstBits(i) : Holds(cfg.protected[g], b)
      <4>1. cfg.protected[g].begin < cfg.protected[g].end
        BY <3>1 DEF WellFormed, intersects
      <4> QED
        BY <1>4, <3>1, <4>1, Regions, HeldIfIntersects
    <3>2. ASSUME NEW g \in 1..Len(cfg.protected), NEW b \in DstBits(i),
                 Holds(cfg.protected[g], b)
          PROVE  Touched(i)
      BY <3>2, Regions, IntersectsIfHeld DEF Touched
    <3> QED
      BY <3>1, <3>2 DEF Touched
  <2>3. Misplaced(i) <=>
          /\ cfg.allowed # <<>>
          /\ \A g \in 1..Len(cfg.allowed) : \E b \in DstBits(i) : ~Holds(cfg.allowed[g], b)
    BY <1>4, Regions, ContainsBits DEF Misplaced
  <2>4. Found(i) = (IF Touched(i) THEN {"protected"} ELSE {})
                     \cup (IF Misplaced(i) THEN {"allowed"} ELSE {})
    BY <1>1, <1>4 DEF Found
  <2>5. Wrong(i) =
          {reason \in {"protected", "allowed"} :
             IF reason = "protected" THEN Touched(i) ELSE Misplaced(i)}
    BY <1>4, <2>1, <2>2, <2>3 DEF Wrong
  <2> QED
    BY <2>4, <2>5
<1> QED
  BY <1>1, <1>2, <1>3, <1>4

-----------------------------------------------------------------------------
(* Every variable keeps its type, and the loops stay inside their lists.     *)
THEOREM TypeCorrect == Spec => []TypeOK
BY Invariance, PTL DEF IInv, TypeInv

(* Reports follow the slots, two of one slot at most.                        *)
THEOREM OnceCorrect == Spec => []Once
BY Invariance, PTL DEF IInv

(* A layer that passes writes only where the configuration lets it.          *)
THEOREM SoundCorrect == Spec => []Sound
<1>1. IInv => Sound
  <2> SUFFICES ASSUME IInv, pc = "done", violations = <<>>,
                      NEW a \in 1..Len(instrs), NEW b \in DstBits(instrs[a])
               PROVE  /\ b < SpaceBits
                      /\ \A g \in 1..Len(cfg.protected) : ~Holds(cfg.protected[g], b)
                      /\ \/ cfg.allowed = <<>>
                         \/ \E g \in 1..Len(cfg.allowed) : Holds(cfg.allowed[g], b)
    BY DEF Sound, status
  <2>1. instrs[a] \in Instr /\ a \in 1..(k - 1)
    BY DEF IInv, TypeInv, Reported
  <2>2. Found(instrs[a]) = {}
    <3>1. Reasons(a) = {}
      BY DEF Reasons
    <3> QED
      BY <2>1, <3>1 DEF IInv, Reported
  <2> QED
    BY <2>1, <2>2, FoundNothing DEF IInv
<1> QED
  BY <1>1, Invariance, PTL

(* With well-formed protected regions the reports are exactly right.         *)
THEOREM ExactCorrect == Spec => []Exact
<1>1. IInv => Exact
  <2> SUFFICES ASSUME IInv, pc = "done", WellFormed, NEW a \in 1..Len(instrs)
               PROVE  Reasons(a) = Wrong(instrs[a])
    BY DEF Exact
  <2>1. instrs[a] \in Instr /\ a \in 1..(k - 1)
    BY DEF IInv, TypeInv, Reported
  <2>2. Reasons(a) = Found(instrs[a])
    BY <2>1 DEF IInv, Reported
  <2> QED
    BY <2>1, <2>2, FoundWrong DEF IInv
<1> QED
  BY <1>1, Invariance, PTL

(* The verdict on a whole layer is the rule for its instructions.            *)
THEOREM LayerVerdictCorrect == Spec => []LayerVerdict
<1>1. IInv => LayerVerdict
  <2> SUFFICES ASSUME IInv, pc = "done"
               PROVE  violations = <<>> <=> LayerSafe(cfg, SpaceBits, instrs)
    BY DEF LayerVerdict, status
  <2>1. /\ instrs \in Seq(Instr) /\ k = Len(instrs) + 1 /\ SpaceBits \in Nat
        /\ violations \in Seq(Violation)
        /\ \A a \in 1..Len(instrs) : Reasons(a) = Found(instrs[a])
    BY DEF IInv, TypeInv, TypeOK, Reported, Violation
  <2>2. ASSUME NEW a \in 1..Len(instrs)
        PROVE  Found(instrs[a]) = {} <=>
                 (instrs[a].n > 0 => Writable(cfg, SpaceBits, instrs[a]))
    <3> DEFINE i == instrs[a]
    <3>1. i \in Instr
      BY <2>1
    <3>2. i.n \in Nat /\ i.dst \in Nat
      BY <3>1 DEF Instr
    <3> HIDE DEF i
    <3>3. Writable(cfg, SpaceBits, i) <=>
            i.dst + i.n <= SpaceBits /\ ~Touched(i) /\ ~Misplaced(i)
      BY Zenon DEF Writable, Touched, Misplaced
    <3>4. Found(i) = {} <=>
            i.n = 0 \/ (~(i.dst + i.n > SpaceBits) /\ ~Touched(i) /\ ~Misplaced(i))
      BY Zenon DEF Found
    <3>5. Found(i) = {} <=> (i.n > 0 => Writable(cfg, SpaceBits, i))
      BY <2>1, <3>2, <3>3, <3>4
    <3> QED
      BY <3>5 DEF i
  <2>3. ASSUME violations # <<>>
        PROVE  \E a \in 1..Len(instrs) : Reasons(a) # {}
    <3>1. 1 \in 1..Len(violations) /\ violations[1] \in Violation
      BY <2>1, <2>3
    <3>2. violations[1].slot \in Nat /\ violations[1].slot < k - 1
      BY <3>1 DEF Violation, IInv, SlotsBelow
    <3>3. violations[1].slot + 1 \in 1..Len(instrs)
      BY <2>1, <3>2
    <3>4. violations[1].reason \in Reasons(violations[1].slot + 1)
      BY <3>1, <3>2 DEF Reasons
    <3> QED
      BY <3>3, <3>4
  <2>4. ASSUME violations = <<>>, NEW a \in 1..Len(instrs) PROVE Reasons(a) = {}
    BY <2>4 DEF Reasons
  <2> QED
    BY <2>1, <2>2, <2>3, <2>4 DEF LayerSafe
<1> QED
  BY <1>1, Invariance, PTL

-----------------------------------------------------------------------------
(* The safety half of Terminates: a count of the steps to come.  One         *)
(* instruction takes at most one for each protected region and 3 more, of    *)
(* which StepsTaken are done.                                                *)

StepsOfOne == Len(cfg.protected) + 3

StepsOfRest == (Len(instrs) + 1 - k) * StepsOfOne

StepsTaken ==
  IF pc = "protected" THEN r ELSE IF pc = "allowed" THEN Len(cfg.protected) + 2 ELSE 0

StepsLeft == IF pc = "done" THEN 0 ELSE StepsOfRest + 1 - StepsTaken

(* Whole numbers: what is left of the layer, now and an instruction later.   *)
LEMMA StepsOfRestType ==
  ASSUME NEW x \in Nat, NEW w \in Nat
  PROVE  x * w \in Nat /\ (x > 0 => x * w >= w /\ (x - 1) * w = x * w - w)
<1>1. x * w \in Nat
  OBVIOUS
<1>2. ASSUME x > 0 PROVE x * w >= w /\ (x - 1) * w = x * w - w
  <2>1. (x - 1) * w = x * w - w
    OBVIOUS
  <2>2. (x - 1) * w \in Nat
    <3>1. x - 1 \in Nat
      BY <1>2
    <3> QED
      BY <3>1
  <2> DEFINE a == x * w
             b == (x - 1) * w
  <2> HIDE DEF a, b
  <2>3. a \in Nat /\ b \in Nat /\ b = a - w
    BY <1>1, <2>1, <2>2 DEF a, b
  <2>4. a >= w
    BY <2>3
  <2> QED
    BY <2>1, <2>4 DEF a
<1> QED
  BY <1>1, <1>2

(* Every step of check_layer leaves fewer to come, for any layer and any     *)
(* regions: neither loop can repeat an instruction or a region.              *)
THEOREM StepsFall == Spec => [](StepsLeft \in Nat) /\ [][StepsLeft' < StepsLeft]_vars
<1> DEFINE L == Len(instrs)
           P == Len(cfg.protected)
           left == L + 1 - k
<1>1. ASSUME IInv
      PROVE  /\ L \in Nat /\ P \in Nat /\ k \in Nat /\ left \in Nat
             /\ r \in 1..(P + 1)
             /\ pc \in {"next", "protected", "allowed", "done"}
             /\ pc \in {"protected", "allowed"} => left > 0
             /\ StepsOfOne = P + 3 /\ StepsOfOne \in Nat
  BY <1>1 DEF IInv, TypeInv, TypeOK, StepsOfOne
<1>2. ASSUME IInv
      PROVE  /\ StepsOfRest \in Nat
             /\ left > 0 => /\ StepsOfRest >= P + 3
                            /\ (left - 1) * StepsOfOne = StepsOfRest - (P + 3)
  <2>1. StepsOfRest = left * StepsOfOne
    BY DEF StepsOfRest
  <2> HIDE DEF left, L, P
  <2> QED
    BY <1>1, <1>2, <2>1, StepsOfRestType
<1>3. ASSUME IInv PROVE StepsLeft \in Nat
  <2>1. /\ pc = "protected" => StepsTaken = r
        /\ pc = "allowed" => StepsTaken = P + 2
        /\ pc = "next" => StepsTaken = 0
    BY DEF StepsTaken
  <2> HIDE DEF left, L, P
  <2>2. pc # "done" => StepsTaken \in Nat /\ StepsTaken <= StepsOfRest + 1
    BY <1>1, <1>2, <1>3, <2>1
  <2> QED
    BY <1>2, <1>3, <2>2 DEF StepsLeft
<1>4. ASSUME IInv, Next PROVE StepsLeft' < StepsLeft
  <2>1. P' = P /\ StepsOfOne' = StepsOfOne /\ L' = L
    BY <1>4 DEF Next, SkipNop, OutOfSpace, InSpace, Hit, Miss, NoHit, Allowed, Return,
                StepsOfOne
  <2>2. k' = k => StepsOfRest' = StepsOfRest
    BY <2>1 DEF StepsOfRest
  <2>3. ASSUME k' = k + 1, left > 0 PROVE StepsOfRest' = StepsOfRest - (P + 3)
    <3>1. left' = left - 1
      BY <1>1, <1>4, <2>1, <2>3
    <3>2. StepsOfRest' = left' * StepsOfOne'
      BY DEF StepsOfRest
    <3> HIDE DEF left, P, L
    <3> QED
      BY <1>2, <1>4, <2>1, <2>3, <3>1, <3>2
  <2>4. k <= Len(instrs) => left > 0
    BY <1>1, <1>4
  <2> HIDE DEF left, L
  <2>5. StepsLeft = (IF pc = "done" THEN 0 ELSE StepsOfRest + 1 - StepsTaken)
    BY DEF StepsLeft
  <2>6. StepsLeft' = (IF pc' = "done" THEN 0 ELSE StepsOfRest' + 1 - StepsTaken')
    BY DEF StepsLeft
  <2>7. CASE SkipNop \/ OutOfSpace
    <3>1. /\ pc = "next" /\ pc' = "next" /\ k' = k + 1 /\ k <= Len(instrs)
          /\ StepsTaken = 0 /\ StepsTaken' = 0
      BY <2>7 DEF SkipNop, OutOfSpace, StepsTaken
    <3>2. StepsOfRest' = StepsOfRest - (P + 3)
      BY <2>3, <2>4, <3>1
    <3>3. StepsLeft = StepsOfRest + 1 - 0 /\ StepsLeft' = StepsOfRest' + 1 - 0
      BY <2>5, <2>6, <3>1
    <3> HIDE DEF P
    <3> QED
      BY <1>1, <1>2, <1>4, <3>2, <3>3
  <2>8. CASE InSpace
    <3>1. /\ pc = "next" /\ pc' = "protected" /\ k' = k
          /\ StepsTaken = 0 /\ StepsTaken' = 1
      BY <2>8 DEF InSpace, StepsTaken
    <3> QED
      BY <1>1, <1>2, <1>4, <2>2, <2>5, <2>6, <3>1
  <2>9. CASE Hit \/ NoHit
    <3>1. /\ pc = "protected" /\ pc' = "allowed" /\ k' = k
          /\ StepsTaken = r /\ StepsTaken' = P' + 2
      BY <2>9 DEF Hit, NoHit, StepsTaken
    <3> HIDE DEF P
    <3> QED
      BY <1>1, <1>2, <1>4, <2>1, <2>2, <2>5, <2>6, <3>1
  <2>10. CASE Miss
    <3>1. /\ pc = "protected" /\ pc' = "protected" /\ k' = k /\ r' = r + 1
          /\ StepsTaken = r /\ StepsTaken' = r'
      BY <2>10 DEF Miss, StepsTaken
    <3> QED
      BY <1>1, <1>2, <1>4, <2>2, <2>5, <2>6, <3>1
  <2>11. CASE Allowed
    <3>1. /\ pc = "allowed" /\ pc' = "next" /\ k' = k + 1
          /\ StepsTaken = P + 2 /\ StepsTaken' = 0
      BY <2>11 DEF Allowed, StepsTaken
    <3> HIDE DEF P
    <3> QED
      BY <1>1, <1>2, <1>4, <2>3, <2>5, <2>6, <3>1
  <2>12. CASE Return
    <3>1. pc = "next" /\ pc' = "done" /\ StepsTaken = 0
      BY <2>12 DEF Return, StepsTaken
    <3> QED
      BY <1>2, <1>4, <2>5, <2>6, <3>1
  <2> QED
    BY <1>4, <2>7, <2>8, <2>9, <2>10, <2>11, <2>12 DEF Next
<1> QED
  BY <1>3, <1>4, Invariance, PTL DEF Spec
=============================================================================
