------------------------------- MODULE Round -------------------------------
(***************************************************************************)
(* What the project promises of a verified program: "up to P contracts      *)
(* execute simultaneously" (README.md:49), and a conflict-free round is     *)
(* "deterministic, race-free parallel execution" (conflict_check.py:66).    *)
(* Between rounds devices answer; a round is one step in which every         *)
(* contract reads before any of them writes.                                *)
(***************************************************************************)
EXTENDS Integers

CONSTANTS
  Bits,           \* addresses
  Halt, InReq,    \* two of them: the machine stops; it waits for input
  Status,         \* bits the devices may always write
  Input(_),       \* bits a memory asks its input to be stored in
  Contracts(_)    \* copies [n, dst, src] a memory holds

VARIABLES
  mem,     \* the memory
  phase    \* "off", "device": between rounds, "copies": in a round

Destination(i) == i.dst .. (i.dst + i.n - 1)

(* The round in one step: the destinations take what all the sources held    *)
(* before it.                                                                *)
Simultaneous(m) ==
  LET round == Contracts(m)
  IN  (m \ UNION {Destination(i) : i \in round})
        \cup UNION {{b \in Destination(i) : b - i.dst + i.src \in m} : i \in round}

(* What the devices may write: their registers, and the input asked for. *)
DeviceBits(m) == Status \cup (IF InReq \in m THEN Input(m) ELSE {})

Init == mem = {} /\ phase = "off"

Load == phase = "off" /\ phase' = "device" /\ mem' \subseteq Bits

Device ==
  /\ phase = "device" /\ phase' = "device"
  /\ mem' \subseteq Bits
  /\ LET free == DeviceBits(mem) IN mem' \ free = mem \ free

(* No round begins under HALT, or with a request unanswered. *)
Begin ==
  /\ phase = "device" /\ phase' = "copies"
  /\ Halt \notin mem /\ InReq \notin mem
  /\ mem' = mem

Copies == phase = "copies" /\ phase' = "device" /\ mem' = Simultaneous(mem)

Stop == phase = "device" /\ phase' = "off" /\ mem' = {}

Next == Load \/ Device \/ Begin \/ Copies \/ Stop

Spec == Init /\ [][Next]_<<mem, phase>>
=============================================================================
