---------------------------- MODULE SpacesVerify ----------------------------
(***************************************************************************)
(* The spaces-verify command line (spaces_verify.py) with the reader of     *)
(* images (image_reader.py) and the configuration (config.py): load every   *)
(* file named, read the instructions of each, run L1 and L2 over all of     *)
(* them, exit.  L1 and L2 enter as the rules modules MemoryCheck and        *)
(* ConflictCheck show their loops to compute.  One behaviour is one process. *)
(***************************************************************************)
EXTENDS Regions, Overlap, BitOps

CONSTANTS
  Disk,        \* the files: a function from paths to records [bytes, ones]
  Configs,     \* contents of configuration files
  Invocations  \* command lines: records [image, given, matched, config, l2_only]

Configurations ==
  [space_bytes : Nat, processor_n : Nat, addr_bits : Nat \cup {None},
   protected : Seq(Region), allowed : Seq(Region)]

(* image is a path or None; given says whether --layers has a pattern, and  *)
(* matched what its patterns find, in order; config is None when the file   *)
(* is not there or not a configuration.                                     *)
CommandLines ==
  {i \in [image : STRING \cup {None}, given : BOOLEAN, matched : Seq(DOMAIN Disk),
          config : Configs \cup {None}, l2_only : BOOLEAN] :
     i.given \/ i.matched = <<>>}

VARIABLES
  args,             \* the command line
  at,               \* where main() is
  todo,             \* paths not yet opened
  layers_data,      \* contents of the files read
  all_layers,       \* their instructions
  tick,             \* the layer being checked
  mem_status,       \* of _merge_memory_results so far
  conflict_status,  \* of check_layers so far
  exit              \* the exit code, None while the process runs

cli == <<args, at, todo, layers_data, all_layers, tick, mem_status, conflict_status, exit>>

-----------------------------------------------------------------------------
(* config.py *)

(* log2 is taken as exact, which it is for multiples of 8 below 2^48. *)
derive_addr_bits(bits) ==
  IF bits <= 0 THEN 8
  ELSE LET w == round_up_to_8(ceil_log2(bits)) IN IF w < 8 THEN 8 ELSE w

space_bits(c) == 8 * c.space_bytes
addr_bits(c) == IF c.addr_bits = None THEN derive_addr_bits(space_bits(c)) ELSE c.addr_bits
instr_bits(c) == 3 * addr_bits(c)

-----------------------------------------------------------------------------
(* image_reader.py *)

(* int.from_bytes(data[first:first + n_bytes], 'big'): a slice that reaches *)
(* past the end of the data is short.                                      *)
FromBytes(data, first, n_bytes) ==
  LET there == data.bytes - first
      count == IF there < 0 THEN 0 ELSE IF there < n_bytes THEN there ELSE n_bytes
  IN  Number(data.ones, 8 * first, 8 * count)

(* v & ((1 << w) - 1) *)
Masked(v, w) == Number(Digits(v, 0, w), 0, w)

(* Mutant: the bits left over to the right are not counted from the byte.   *)
_read_bitsMutant(data, start, width) ==
  LET first == start \div 8
      n_bytes == (start + width - 1) \div 8 - first + 1
      val == FromBytes(data, first, n_bytes)
  IN  Masked(Shr(val, 8 * n_bytes - width), width)

(* The bytes that hold the field as one number, shifted and masked; a short *)
(* slice is shifted as far as a whole one.                                  *)
_read_bits(data, start, width) ==
  LET first == start \div 8
      n_bytes == (start + width - 1) \div 8 - first + 1
      val == FromBytes(data, first, n_bytes)
      shift == 8 * n_bytes - (start % 8) - width
  IN  Masked(Shr(val, shift), width)

_read_instruction(c, data, slot) ==
  LET start == slot * instr_bits(c)
      w == addr_bits(c)
  IN  [n |-> _read_bits(data, start, w), dst |-> _read_bits(data, start + w, w),
       src |-> _read_bits(data, start + 2 * w, w)]

read(c, data) == [a \in 1..c.processor_n |-> _read_instruction(c, data, a - 1)]

TooShort(c, data) == data.bytes < c.space_bytes

-----------------------------------------------------------------------------
(* main() *)

Init ==
  /\ args \in Invocations
  /\ at = "parse" /\ todo = <<>> /\ layers_data = <<>> /\ all_layers = <<>>
  /\ tick = 1 /\ mem_status = "PASS" /\ conflict_status = "PASS" /\ exit = None

Exit(code) ==
  /\ exit' = code /\ at' = "done"
  /\ UNCHANGED <<args, todo, layers_data, all_layers, tick, mem_status, conflict_status>>

Asked == args.image # None \/ args.given

(* parser.error exits with 2; Config raises, and Python exits with 1. *)
NothingAsked == at = "parse" /\ ~Asked /\ Exit(2)
BadConfig == at = "parse" /\ Asked /\ args.config = None /\ Exit(1)

Named == (IF args.image = None THEN <<>> ELSE <<args.image>>) \o args.matched

Parse ==
  /\ at = "parse" /\ Asked /\ args.config # None
  /\ todo' = Named /\ at' = "load"
  /\ UNCHANGED <<args, layers_data, all_layers, tick, mem_status, conflict_status, exit>>

LoadLayer ==
  /\ at = "load" /\ todo # <<>> /\ Head(todo) \in DOMAIN Disk
  /\ layers_data' = Append(layers_data, Disk[Head(todo)])
  /\ todo' = Tail(todo)
  /\ UNCHANGED <<args, at, all_layers, tick, mem_status, conflict_status, exit>>

(* Mutant: a file that is not found is passed over. *)
LayerMissingMutant ==
  /\ at = "load" /\ todo # <<>>
  /\ todo' = Tail(todo)
  /\ UNCHANGED <<args, at, layers_data, all_layers, tick, mem_status, conflict_status, exit>>

(* Not there, or gone since the pattern matched it. *)
LayerMissing == at = "load" /\ todo # <<>> /\ Exit(2)

(* Any other failure to open or read it raises, and Python exits with 1. *)
LayerUnreadable == at = "load" /\ todo # <<>> /\ Exit(1)

NoLayers == at = "load" /\ todo = <<>> /\ layers_data = <<>> /\ Exit(2)

(* The reader raises, and nothing catches it. *)
ShortLayer ==
  /\ at = "load" /\ todo = <<>>
  /\ \E t \in 1..Len(layers_data) : TooShort(args.config, layers_data[t])
  /\ Exit(1)

(* Mutant: the last layer is left out. *)
ReadLayersMutant ==
  /\ at = "load" /\ todo = <<>> /\ layers_data # <<>>
  /\ \A t \in 1..Len(layers_data) : ~TooShort(args.config, layers_data[t])
  /\ all_layers' = [t \in 1..(Len(layers_data) - 1) |-> read(args.config, layers_data[t])]
  /\ at' = IF args.l2_only THEN "l2" ELSE "l1"
  /\ UNCHANGED <<args, todo, layers_data, tick, mem_status, conflict_status, exit>>

ReadLayers ==
  /\ at = "load" /\ todo = <<>> /\ layers_data # <<>>
  /\ \A t \in 1..Len(layers_data) : ~TooShort(args.config, layers_data[t])
  /\ all_layers' = [t \in 1..Len(layers_data) |-> read(args.config, layers_data[t])]
  /\ at' = IF args.l2_only THEN "l2" ELSE "l1"
  /\ UNCHANGED <<args, todo, layers_data, tick, mem_status, conflict_status, exit>>

Safe(t) == LayerSafe(args.config, space_bits(args.config), all_layers[t])

(* Mutant: the status of the last layer stands. *)
MergeMemoryMutant ==
  /\ at = "l1" /\ tick <= Len(all_layers)
  /\ mem_status' = IF Safe(tick) THEN "PASS" ELSE "FAIL"
  /\ tick' = tick + 1
  /\ UNCHANGED <<args, at, todo, layers_data, all_layers, conflict_status, exit>>

(* One turn of _merge_memory_results. *)
MergeMemory ==
  /\ at = "l1" /\ tick <= Len(all_layers)
  /\ mem_status' = IF Safe(tick) THEN mem_status ELSE "FAIL"
  /\ tick' = tick + 1
  /\ UNCHANGED <<args, at, todo, layers_data, all_layers, conflict_status, exit>>

MemoryDone ==
  /\ at = "l1" /\ tick > Len(all_layers)
  /\ at' = "l2" /\ tick' = 1
  /\ UNCHANGED <<args, todo, layers_data, all_layers, mem_status, conflict_status, exit>>

(* One turn of check_layers. *)
CheckTick ==
  /\ at = "l2" /\ tick <= Len(all_layers)
  /\ conflict_status' = IF ConflictFree(all_layers[tick]) THEN conflict_status ELSE "FAIL"
  /\ tick' = tick + 1
  /\ UNCHANGED <<args, at, todo, layers_data, all_layers, mem_status, exit>>

overall_status ==
  IF (~args.l2_only /\ mem_status = "FAIL") \/ conflict_status = "FAIL" THEN "FAIL" ELSE "PASS"

Report ==
  /\ at = "l2" /\ tick > Len(all_layers)
  /\ Exit(IF overall_status = "PASS" THEN 0 ELSE 1)

Next ==
  \/ NothingAsked \/ BadConfig \/ Parse
  \/ LoadLayer \/ LayerMissing \/ LayerUnreadable \/ NoLayers \/ ShortLayer \/ ReadLayers
  \/ MergeMemory \/ MemoryDone \/ CheckTick \/ Report

Spec == Init /\ [][Next]_cli

-----------------------------------------------------------------------------
(* Every variable keeps its type; every file read is read in full. *)
TypeOK ==
  /\ args \in Invocations
  /\ at \in {"parse", "load", "l1", "l2", "done"}
  /\ todo \in Seq({Named[t] : t \in 1..Len(Named)})
  /\ layers_data \in Seq({Disk[p] : p \in DOMAIN Disk})
  /\ all_layers # <<>> => Len(all_layers) = Len(layers_data)
  /\ tick \in 1..(Len(all_layers) + 1)
  /\ mem_status \in {"PASS", "FAIL"} /\ conflict_status \in {"PASS", "FAIL"}
  /\ exit \in {None, 0, 1, 2} /\ (exit # None <=> at = "done")

Accepted(t) == ConflictFree(all_layers[t]) /\ (args.l2_only \/ Safe(t))

(* What the exit code says of the layers.  0: every file named was there and *)
(* whole, each was read in full and passed every check asked for.  And once  *)
(* the layers are read the code is the verdict, 0 or 1 and never 2: no layer *)
(* rejected by an earlier turn of either loop is forgotten.  Of a process    *)
(* that ends before that, see the next one.                                  *)
ExitCodes ==
  LET c == args.config
  IN  /\ exit = 0 =>
           /\ c # None /\ Len(Named) > 0 /\ \A t \in 1..Len(Named) : Named[t] \in DOMAIN Disk
           /\ layers_data = [t \in 1..Len(Named) |-> Disk[Named[t]]]
           /\ \A t \in 1..Len(Named) :
                /\ ~TooShort(c, layers_data[t])
                /\ all_layers[t] = read(c, layers_data[t])
                /\ Accepted(t)
      /\ all_layers # <<>> /\ exit # None =>
           exit = IF \A t \in 1..Len(all_layers) : Accepted(t) THEN 0 ELSE 1

(* "Exit codes: 0 = PASS, 1 = FAIL, 2 = error" (README.md:122): 1 says that  *)
(* some layer was examined and rejected.                                     *)
ExitCodesDocumented == exit = 1 => \E t \in 1..Len(all_layers) : ~Accepted(t)
=============================================================================
