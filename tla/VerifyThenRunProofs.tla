------------------------- MODULE VerifyThenRunProofs -------------------------
(***************************************************************************)
(* The pipeline, for every disk, configuration, command line, VM and input. *)
(* Three invariants, one on top of the other: what spaces-verify has        *)
(* established by each point of main(); that the host only takes steps of   *)
(* module VM, whose invariant therefore holds; and that a guarded machine   *)
(* still holds the program that was verified.                               *)
(***************************************************************************)
EXTENDS VerifyThenRun, VMProofs

-----------------------------------------------------------------------------
(* spaces-verify *)

Passes(t) == CLI!ConflictFree(all_layers[t]) /\ (args.l2_only \/ CLI!Safe(t))

(* The files opened so far, in the order they were named. *)
Loading ==
  /\ Len(layers_data) + Len(todo) = Len(CLI!Named)
  /\ \A t \in 1..Len(layers_data) :
       CLI!Named[t] \in DOMAIN Disk /\ layers_data[t] = Disk[CLI!Named[t]]
  /\ \A t \in 1..Len(todo) : todo[t] = CLI!Named[Len(layers_data) + t]

(* Every file has been read whole. *)
AllRead ==
  /\ todo = <<>> /\ layers_data # <<>>
  /\ \A t \in 1..Len(layers_data) : ~CLI!TooShort(args.config, layers_data[t])
  /\ all_layers = [t \in 1..Len(layers_data) |-> CLI!read(args.config, layers_data[t])]

MemoryPassed(top) == mem_status = "PASS" <=> \A t \in 1..top : CLI!Safe(t)
ConflictPassed(top) ==
  conflict_status = "PASS" <=> \A t \in 1..top : CLI!ConflictFree(all_layers[t])

CliInv ==
  /\ CLI!TypeOK
  /\ at = "parse" => layers_data = <<>> /\ todo = <<>>
  /\ at \in {"parse", "load"} =>
       all_layers = <<>> /\ tick = 1 /\ mem_status = "PASS" /\ conflict_status = "PASS"
  /\ at \in {"load", "l1", "l2"} => args.config # None /\ Loading
  /\ at \in {"l1", "l2"} => AllRead
  /\ at = "l1" => ~args.l2_only /\ MemoryPassed(tick - 1) /\ conflict_status = "PASS"
  /\ at = "l2" =>
       (args.l2_only \/ MemoryPassed(Len(all_layers))) /\ ConflictPassed(tick - 1)
  /\ CLI!ExitCodes

LEMMA Arguments ==
  ASSUME args \in Invocations
  PROVE  /\ args.matched \in Seq(DOMAIN Disk)
         /\ CLI!Named \in Seq({CLI!Named[t] : t \in 1..Len(CLI!Named)})
         /\ args.given \/ args.matched = <<>>
<1>1. args \in CLI!CommandLines
  BY PipelineAssumption
<1>2. args.matched \in Seq(DOMAIN Disk) /\ (args.given \/ args.matched = <<>>)
  BY <1>1 DEF CLI!CommandLines
<1>3. CLI!Named \in Seq(DOMAIN Disk \cup {args.image})
  <2> DEFINE S == DOMAIN Disk \cup {args.image}
             first == IF args.image = None THEN <<>> ELSE <<args.image>>
  <2>1. args.matched \in Seq(S)
    BY <1>2
  <2>2. first \in Seq(S)
    <3> DEFINE x == args.image
    <3>1. x \in S
      OBVIOUS
    <3> HIDE DEF x, S
    <3>2. <<x>> \in Seq(S) /\ <<>> \in Seq(S)
      BY <3>1
    <3> QED
      BY <3>2 DEF x
  <2>3. CLI!Named = first \o args.matched
    BY DEF CLI!Named
  <2> HIDE DEF S, first
  <2>4. CLI!Named \in Seq(S)
    BY <2>1, <2>2, <2>3
  <2> QED
    BY <2>4 DEF S
<1> DEFINE named == CLI!Named
<1>4. named \in Seq({named[t] : t \in 1..Len(named)})
  <2> HIDE DEF named
  <2>1. named \in Seq(DOMAIN Disk \cup {args.image})
    BY <1>3 DEF named
  <2> QED
    BY <2>1
<1> QED
  BY <1>2, <1>4

LEMMA CliInit == CLI!Init => CliInv
<1> SUFFICES ASSUME CLI!Init PROVE CliInv
  OBVIOUS
<1> USE DEF CLI!Init
<1>1. CLI!TypeOK
  BY PipelineAssumption DEF CLI!TypeOK
<1>2. CLI!ExitCodes
  BY PipelineAssumption DEF CLI!ExitCodes
<1> QED
  BY <1>1, <1>2 DEF CliInv

(* The ways out before anything is checked. *)
LEMMA CliEnds ==
  ASSUME CliInv,
         CLI!NothingAsked \/ CLI!BadConfig \/ CLI!LayerMissing \/ CLI!LayerUnreadable
           \/ CLI!NoLayers \/ CLI!ShortLayer
  PROVE  CliInv'
<1>1. /\ at' = "done" /\ exit' \in {1, 2} /\ all_layers = <<>>
      /\ UNCHANGED <<args, todo, layers_data, all_layers, tick, mem_status, conflict_status>>
  BY DEF CliInv, CLI!NothingAsked, CLI!BadConfig, CLI!LayerMissing, CLI!LayerUnreadable,
     CLI!NoLayers, CLI!ShortLayer, CLI!Exit
<1>2. CLI!Named' = CLI!Named
  BY <1>1 DEF CLI!Named
<1>3. CLI!TypeOK'
  BY <1>1, <1>2, PipelineAssumption DEF CliInv, CLI!TypeOK
<1>4. CLI!ExitCodes'
  BY <1>1 DEF CLI!ExitCodes
<1> QED
  BY <1>1, <1>3, <1>4 DEF CliInv

LEMMA CliParse == CliInv /\ CLI!Parse => CliInv'
<1> SUFFICES ASSUME CliInv, CLI!Parse PROVE CliInv'
  OBVIOUS
<1> DEFINE named == CLI!Named
<1>1. /\ at = "parse" /\ at' = "load" /\ todo' = named /\ layers_data = <<>>
      /\ args.config # None
      /\ all_layers = <<>> /\ tick = 1 /\ mem_status = "PASS" /\ conflict_status = "PASS"
      /\ UNCHANGED <<args, layers_data, all_layers, tick, mem_status, conflict_status, exit>>
  BY DEF CLI!Parse, CliInv
<1>2. named' = named
  BY <1>1 DEF CLI!Named
<1>3. named \in Seq({named[t] : t \in 1..Len(named)})
  BY Arguments DEF CliInv, CLI!TypeOK
<1> HIDE DEF named
<1>4. CLI!TypeOK'
  <2>1. todo' \in Seq({CLI!Named'[t] : t \in 1..Len(CLI!Named')})
    BY <1>1, <1>2, <1>3 DEF named
  <2> QED
    BY <1>1, <2>1 DEF CliInv, CLI!TypeOK
<1>5. Loading'
  <2>1. Len(layers_data') = 0 /\ Len(named) \in Nat
    BY <1>1, <1>3
  <2>2. \A t \in 1..Len(todo') : todo'[t] = named'[Len(layers_data') + t]
    BY <1>1, <1>2, <2>1
  <2> QED
    BY <1>1, <1>2, <2>1, <2>2 DEF Loading, named
<1>6. exit' = None /\ CLI!ExitCodes'
  BY <1>1, PipelineAssumption DEF CLI!ExitCodes, CliInv, CLI!TypeOK
<1> QED
  BY <1>1, <1>4, <1>5, <1>6 DEF CliInv

LEMMA CliLoad == CliInv /\ CLI!LoadLayer => CliInv'
<1> SUFFICES ASSUME CliInv, CLI!LoadLayer PROVE CliInv'
  OBVIOUS
<1> DEFINE named == CLI!Named
           L == Len(layers_data)
           file == Disk[Head(todo)]
<1>1. /\ at = "load" /\ at' = "load" /\ todo # <<>> /\ Head(todo) \in DOMAIN Disk
      /\ layers_data' = Append(layers_data, file) /\ todo' = Tail(todo)
      /\ all_layers = <<>> /\ tick = 1 /\ mem_status = "PASS" /\ conflict_status = "PASS"
      /\ UNCHANGED <<args, all_layers, tick, mem_status, conflict_status, exit>>
  BY DEF CLI!LoadLayer, CliInv
<1>2. named' = named
  BY <1>1 DEF CLI!Named
<1>3. /\ todo \in Seq({named[t] : t \in 1..Len(named)})
      /\ layers_data \in Seq({Disk[p] : p \in DOMAIN Disk})
  BY DEF CliInv, CLI!TypeOK
<1>4. /\ L + Len(todo) = Len(named)
      /\ \A t \in 1..L : named[t] \in DOMAIN Disk /\ layers_data[t] = Disk[named[t]]
      /\ \A t \in 1..Len(todo) : todo[t] = named[L + t]
  BY <1>1 DEF CliInv, Loading
<1> HIDE DEF named
<1>5. /\ Len(todo') = Len(todo) - 1 /\ Head(todo) = todo[1] /\ Len(todo) >= 1
      /\ \A t \in 1..Len(todo') : todo'[t] = todo[t + 1]
      /\ Len(layers_data') = L + 1 /\ L \in Nat
      /\ layers_data'[L + 1] = file /\ \A t \in 1..L : layers_data'[t] = layers_data[t]
  BY <1>1, <1>3
<1>6. CLI!TypeOK'
  <2>1. todo' \in Seq({named[t] : t \in 1..Len(named)})
    BY <1>1, <1>3
  <2>2. todo' \in Seq({CLI!Named'[t] : t \in 1..Len(CLI!Named')})
    BY <2>1, <1>2 DEF named
  <2>3. file \in {Disk[p] : p \in DOMAIN Disk}
    BY <1>1
  <2>4. layers_data' \in Seq({Disk[p] : p \in DOMAIN Disk})
    <3> HIDE DEF file
    <3> QED
      BY <1>1, <1>3, <2>3
  <2> QED
    BY <1>1, <2>2, <2>4 DEF CliInv, CLI!TypeOK
<1> HIDE DEF file, L
<1>7. Loading'
  <2>1. Len(layers_data') + Len(todo') = Len(named')
    BY <1>2, <1>3, <1>4, <1>5 DEF L
  <2>2. ASSUME NEW t \in 1..Len(layers_data')
        PROVE  named'[t] \in DOMAIN Disk /\ layers_data'[t] = Disk[named'[t]]
    <3>1. CASE t \in 1..L
      BY <1>2, <1>4, <1>5, <3>1
    <3>2. CASE t = L + 1
      <4>1. named[L + 1] = Head(todo)
        BY <1>3, <1>4, <1>5
      <4> QED
        BY <1>1, <1>2, <1>5, <3>2, <4>1 DEF file
    <3> QED
      BY <1>5, <3>1, <3>2
  <2>3. ASSUME NEW t \in 1..Len(todo') PROVE todo'[t] = named'[Len(layers_data') + t]
    <3>1. todo'[t] = todo[t + 1] /\ t + 1 \in 1..Len(todo)
      BY <1>3, <1>5
    <3>2. L + (t + 1) = L + 1 + t
      BY <1>5
    <3> QED
      BY <1>2, <1>4, <1>5, <3>1, <3>2
  <2> QED
    BY <2>1, <2>2, <2>3 DEF Loading, named
<1>8. exit' = None /\ CLI!ExitCodes'
  BY <1>1, PipelineAssumption DEF CLI!ExitCodes, CliInv, CLI!TypeOK
<1> QED
  BY <1>1, <1>6, <1>7, <1>8 DEF CliInv

LEMMA CliRead == CliInv /\ CLI!ReadLayers => CliInv'
<1> SUFFICES ASSUME CliInv, CLI!ReadLayers PROVE CliInv'
  OBVIOUS
<1>1. /\ at = "load" /\ todo = <<>> /\ layers_data # <<>>
      /\ \A t \in 1..Len(layers_data) : ~CLI!TooShort(args.config, layers_data[t])
      /\ all_layers' = [t \in 1..Len(layers_data) |-> CLI!read(args.config, layers_data[t])]
      /\ at' = IF args.l2_only THEN "l2" ELSE "l1"
      /\ tick = 1 /\ mem_status = "PASS" /\ conflict_status = "PASS" /\ exit = None
      /\ UNCHANGED <<args, todo, layers_data, tick, mem_status, conflict_status, exit>>
  BY DEF CLI!ReadLayers, CliInv, CLI!TypeOK
<1>2. CLI!Named' = CLI!Named
  BY <1>1 DEF CLI!Named
<1>3. layers_data \in Seq({Disk[p] : p \in DOMAIN Disk}) /\ Len(layers_data) \in Nat
  BY DEF CliInv, CLI!TypeOK
<1>4. Len(all_layers') = Len(layers_data)
  BY <1>1, <1>3
<1>5. AllRead'
  BY <1>1 DEF AllRead, CLI!TooShort, CLI!read, CLI!_read_instruction, CLI!instr_bits,
     CLI!addr_bits
<1>6. CLI!TypeOK'
  BY <1>1, <1>2, <1>3, <1>4 DEF CliInv, CLI!TypeOK
<1>7. Loading'
  BY <1>1, <1>2 DEF CliInv, Loading
<1>8. MemoryPassed(tick - 1)' /\ ConflictPassed(tick - 1)'
  BY <1>1 DEF MemoryPassed, ConflictPassed
<1>9. CLI!ExitCodes'
  BY <1>1, PipelineAssumption DEF CLI!ExitCodes
<1>10. (args.l2_only \in BOOLEAN)'
  BY <1>1, PipelineAssumption DEF CliInv, CLI!TypeOK, CLI!CommandLines
<1> QED
  BY <1>1, <1>5, <1>6, <1>7, <1>8, <1>9, <1>10 DEF CliInv

(* The statuses gather one layer after another. *)
LEMMA OneMore ==
  ASSUME NEW k \in Nat \ {0}
  PROVE  1..(k + 1 - 1) = 1..(k - 1) \cup {k}
OBVIOUS

LEMMA CliCheck ==
  CliInv /\ (CLI!MergeMemory \/ CLI!MemoryDone \/ CLI!CheckTick) => CliInv'
<1> SUFFICES ASSUME CliInv, CLI!MergeMemory \/ CLI!MemoryDone \/ CLI!CheckTick PROVE CliInv'
  OBVIOUS
<1>1. /\ UNCHANGED <<args, todo, layers_data, all_layers, exit>>
      /\ at \in {"l1", "l2"} /\ at' \in {"l1", "l2"} /\ exit = None
      /\ tick \in Nat \ {0} /\ Len(all_layers) \in Nat
  <2>1. at \in {"l1", "l2"} /\ at' \in {"l1", "l2"}
    BY DEF CLI!MergeMemory, CLI!MemoryDone, CLI!CheckTick
  <2>2. Len(layers_data) \in Nat /\ AllRead
    BY <2>1 DEF CliInv, CLI!TypeOK
  <2>3. Len(all_layers) \in Nat
    BY <2>2 DEF AllRead
  <2> QED
    BY <2>1, <2>3 DEF CLI!MergeMemory, CLI!MemoryDone, CLI!CheckTick, CliInv, CLI!TypeOK
<1>2. CLI!Named' = CLI!Named /\ Loading' /\ AllRead'
  BY <1>1 DEF CLI!Named, CliInv, Loading, AllRead
<1>3. \A t : CLI!Safe(t)' = CLI!Safe(t)
  BY <1>1 DEF CLI!Safe
<1>4. CLI!ExitCodes'
  BY <1>1, PipelineAssumption DEF CLI!ExitCodes
<1>5. CASE CLI!MergeMemory
  <2>1. /\ at = "l1" /\ at' = "l1" /\ tick <= Len(all_layers) /\ tick' = tick + 1
        /\ mem_status' = IF CLI!Safe(tick) THEN mem_status ELSE "FAIL"
        /\ conflict_status' = conflict_status
    BY <1>5 DEF CLI!MergeMemory
  <2>2. CLI!TypeOK'
    BY <1>1, <1>2, <2>1 DEF CliInv, CLI!TypeOK
  <2>3. MemoryPassed(tick - 1)'
    <3>1. (\A t \in 1..(tick + 1 - 1) : CLI!Safe(t))
            <=> (\A t \in 1..(tick - 1) : CLI!Safe(t)) /\ CLI!Safe(tick)
      BY <1>1, OneMore, Zenon
    <3>2. mem_status = "PASS" <=> \A t \in 1..(tick - 1) : CLI!Safe(t)
      BY <2>1 DEF CliInv, MemoryPassed
    <3>3. mem_status' = "PASS" <=> \A t \in 1..(tick + 1 - 1) : CLI!Safe(t)
      BY <2>1, <3>1, <3>2, Zenon
    <3>4. mem_status' = "PASS" <=> \A t \in 1..(tick' - 1) : CLI!Safe(t)'
      <4>1. tick' = tick + 1
        BY <2>1
      <4> QED
        BY <1>1, <3>3, <4>1 DEF CLI!Safe
    <3> QED
      BY <3>4 DEF MemoryPassed
  <2> QED
    BY <1>1, <1>2, <1>4, <2>1, <2>2, <2>3 DEF CliInv
<1>6. CASE CLI!MemoryDone
  <2>1. /\ at = "l1" /\ at' = "l2" /\ tick > Len(all_layers) /\ tick' = 1
        /\ UNCHANGED <<mem_status, conflict_status>>
    BY <1>6 DEF CLI!MemoryDone
  <2>2. CLI!TypeOK'
    BY <1>1, <1>2, <2>1 DEF CliInv, CLI!TypeOK
  <2>3. tick - 1 = Len(all_layers)
    BY <1>1, <2>1 DEF CliInv, CLI!TypeOK
  <2>4. MemoryPassed(Len(all_layers))'
    BY <1>1, <1>3, <2>1, <2>3 DEF CliInv, MemoryPassed
  <2>5. ConflictPassed(tick - 1)'
    BY <2>1 DEF CliInv, ConflictPassed
  <2> QED
    BY <1>1, <1>2, <1>4, <2>1, <2>2, <2>4, <2>5 DEF CliInv
<1>7. CASE CLI!CheckTick
  <2>1. /\ at = "l2" /\ at' = "l2" /\ tick <= Len(all_layers) /\ tick' = tick + 1
        /\ conflict_status' = IF CLI!ConflictFree(all_layers[tick]) THEN conflict_status
                              ELSE "FAIL"
        /\ mem_status' = mem_status
    BY <1>7 DEF CLI!CheckTick
  <2>2. CLI!TypeOK'
    BY <1>1, <1>2, <2>1 DEF CliInv, CLI!TypeOK
  <2>3. ConflictPassed(tick - 1)'
    <3> DEFINE P(t) == CLI!ConflictFree(all_layers[t])
    <3>1. (\A t \in 1..(tick + 1 - 1) : P(t)) <=> (\A t \in 1..(tick - 1) : P(t)) /\ P(tick)
      <4> HIDE DEF P
      <4> QED
        BY <1>1, OneMore, Zenon
    <3>2. conflict_status = "PASS" <=> \A t \in 1..(tick - 1) : P(t)
      BY <2>1 DEF CliInv, ConflictPassed
    <3> QED
      BY <1>1, <2>1, <3>1, <3>2 DEF ConflictPassed
  <2>4. (args.l2_only \/ MemoryPassed(Len(all_layers)))'
    BY <1>1, <1>3, <2>1 DEF CliInv, MemoryPassed
  <2> QED
    BY <1>1, <1>2, <1>4, <2>1, <2>2, <2>3, <2>4 DEF CliInv
<1> QED
  BY <1>5, <1>6, <1>7

LEMMA CliReport == CliInv /\ CLI!Report => CliInv'
<1> SUFFICES ASSUME CliInv, CLI!Report PROVE CliInv'
  OBVIOUS
<1>1. /\ at = "l2" /\ at' = "done" /\ tick > Len(all_layers)
      /\ exit' = IF CLI!overall_status = "PASS" THEN 0 ELSE 1
      /\ UNCHANGED <<args, todo, layers_data, all_layers, tick, mem_status, conflict_status>>
  BY DEF CLI!Report, CLI!Exit
<1> DEFINE L == Len(layers_data)
<1>2. /\ AllRead /\ Loading /\ L \in Nat /\ Len(all_layers) = L /\ tick = L + 1
  <2>1. AllRead /\ Loading /\ L \in Nat /\ tick \in 1..(Len(all_layers) + 1)
    BY <1>1 DEF CliInv, CLI!TypeOK
  <2>2. Len(all_layers) = L
    BY <2>1 DEF AllRead
  <2> QED
    BY <1>1, <2>1, <2>2
<1>3. /\ args.l2_only \/ (mem_status = "PASS" <=> \A t \in 1..L : CLI!Safe(t))
      /\ conflict_status = "PASS" <=> \A t \in 1..L : CLI!ConflictFree(all_layers[t])
  <2>1. tick - 1 = L
    BY <1>2
  <2> QED
    BY <1>1, <1>2, <2>1 DEF CliInv, MemoryPassed, ConflictPassed
<1>4. CLI!overall_status = "PASS" <=> \A t \in 1..L : Passes(t)
  BY <1>3 DEF CLI!overall_status, Passes, CliInv, CLI!TypeOK
<1>5. exit' = IF \A t \in 1..L : Passes(t) THEN 0 ELSE 1
  BY <1>1, <1>4
<1>6. \A t : Passes(t)' = Passes(t)
  BY <1>1 DEF Passes, CLI!Safe
<1>7. CLI!Named' = CLI!Named
  BY <1>1 DEF CLI!Named
<1>8. CLI!TypeOK'
  BY <1>1, <1>7, PipelineAssumption DEF CliInv, CLI!TypeOK
<1>9. CLI!ExitCodes'
  <2> DEFINE N == Len(CLI!Named)
  <2>1. L = N /\ L > 0
    <3>1. Len(todo) = 0 /\ L + Len(todo) = N
      BY <1>2 DEF AllRead, Loading
    <3>2. L > 0
      BY <1>2 DEF AllRead, CliInv, CLI!TypeOK
    <3>3. N \in Nat
      BY Arguments DEF CliInv, CLI!TypeOK
    <3> QED
      BY <1>2, <3>1, <3>2, <3>3
  <2>2. layers_data = [t \in 1..L |-> Disk[CLI!Named[t]]]
    <3>1. layers_data \in Seq({Disk[p] : p \in DOMAIN Disk})
      BY DEF CliInv, CLI!TypeOK
    <3> QED
      BY <1>2, <3>1 DEF Loading
  <2>3. ASSUME NEW t \in 1..L
        PROVE  /\ CLI!Named[t] \in DOMAIN Disk
               /\ ~CLI!TooShort(args.config, layers_data[t])
               /\ all_layers[t] = CLI!read(args.config, layers_data[t])
    BY <1>2 DEF AllRead, Loading
  <2>4. exit' \in {0, 1}
    BY <1>1
  <2> HIDE DEF L, N
  <2>5. /\ exit' = 0 =>
             /\ args.config # None /\ N > 0 /\ \A t \in 1..N : CLI!Named[t] \in DOMAIN Disk
             /\ layers_data = [t \in 1..N |-> Disk[CLI!Named[t]]]
             /\ \A t \in 1..N :
                  /\ ~CLI!TooShort(args.config, layers_data[t])
                  /\ all_layers[t] = CLI!read(args.config, layers_data[t])
                  /\ Passes(t)
    BY <1>1, <1>5, <2>1, <2>2, <2>3, <2>4 DEF CliInv
  <2>6. Len(all_layers) = L
    BY <1>2
  <2> QED
    BY <1>1, <1>5, <1>6, <1>7, <2>5, <2>6 DEF CLI!ExitCodes, CLI!Accepted, Passes, N
<1> QED
  BY <1>1, <1>8, <1>9 DEF CliInv

LEMMA CliNext == CliInv /\ CLI!Next => CliInv'
BY CliEnds, CliParse, CliLoad, CliRead, CliCheck, CliReport DEF CLI!Next

LEMMA CliSame == CliInv /\ UNCHANGED verifier => CliInv'
<1> SUFFICES ASSUME CliInv, UNCHANGED verifier PROVE CliInv'
  OBVIOUS
<1>1. UNCHANGED <<args, at, todo, layers_data, all_layers, tick, mem_status,
                  conflict_status, exit>>
  BY DEF verifier
<1>2. CLI!TypeOK'
  BY <1>1 DEF CliInv, CLI!TypeOK, CLI!Named
<1>3. CLI!ExitCodes'
  BY <1>1 DEF CliInv, CLI!ExitCodes, CLI!Accepted, CLI!Named, CLI!Safe
<1>4. /\ Loading' = Loading /\ AllRead' = AllRead
      /\ \A k : MemoryPassed(k)' = MemoryPassed(k) /\ ConflictPassed(k)' = ConflictPassed(k)
  BY <1>1 DEF Loading, AllRead, MemoryPassed, ConflictPassed, CLI!Named, CLI!Safe
<1> QED
  BY <1>1, <1>2, <1>3, <1>4 DEF CliInv

-----------------------------------------------------------------------------
(* The host takes steps of module VM only. *)

LEMMA StepsOfVM == PipelineNext => [Next]_vars
<1>1. Verify => UNCHANGED vars
  BY DEF Verify
<1>2. Start \/ LoadImage \/ Run \/ Finish => HostStep
  BY DEF Start, LoadImage, Run, Finish, HostStep
<1>3. RunStep => VmStep
  BY DEF RunStep
<1> QED
  BY <1>1, <1>2, <1>3 DEF PipelineNext, Next

(* Once loaded, the verifier has passed the image and rests. *)
LoadedInv == loaded => Passed /\ at = "done" /\ vm \in {"live", "freed"}

LEMMA LoadedNext ==
  ASSUME CliInv, LoadedInv, [PipelineNext]_pipeline
  PROVE  /\ LoadedInv'
         /\ loaded => ~Verify /\ UNCHANGED <<verifier, loaded>>
<1>1. Verify => at # "done"
  BY DEF Verify, CLI!Next, CLI!NothingAsked, CLI!BadConfig, CLI!Parse, CLI!LoadLayer,
     CLI!LayerMissing, CLI!LayerUnreadable, CLI!NoLayers, CLI!ShortLayer, CLI!ReadLayers,
     CLI!MergeMemory, CLI!MemoryDone, CLI!CheckTick, CLI!Report
<1>2. exit = 0 => at = "done"
  BY PipelineAssumption DEF CliInv, CLI!TypeOK
<1>3. CASE Verify
  BY <1>1, <1>3 DEF LoadedInv, Verify
<1>4. CASE Start
  BY <1>1, <1>4 DEF LoadedInv, Start, VmInit, Passed, verifier
<1>5. CASE LoadImage
  BY <1>1, <1>2, <1>5 DEF LoadedInv, LoadImage, Load, machine, Passed, verifier
<1>6. CASE Run
  BY <1>1, <1>6 DEF LoadedInv, Run, CallRun, machine, Passed, verifier
<1>7. CASE Finish
  BY <1>1, <1>7 DEF LoadedInv, Finish, VmFree, Passed, verifier
<1>8. CASE RunStep
  <2>1. vm' = vm /\ UNCHANGED <<verifier, loaded>>
    BY <1>8 DEF RunStep, VmStep, RunOut, NoSpace, TickBegin, OutIdle, OutRefuse, OutWrite,
       InIdle, InRefuse, InRead, HaltStop, HaltPass, SlotNop, SlotBounds, SlotCopy, TickEnd,
       machine
  <2> QED
    BY <1>1, <2>1 DEF LoadedInv, Passed, verifier
<1>9. CASE UNCHANGED pipeline
  BY <1>1, <1>9 DEF LoadedInv, pipeline, vars, machine, Passed, verifier
<1> QED
  BY <1>3, <1>4, <1>5, <1>6, <1>7, <1>8, <1>9 DEF PipelineNext

-----------------------------------------------------------------------------
(* What a verdict says of a machine it is about. *)

(* Below the workspace only the status registers ever change. *)
Fixed == {b \in 0..(MmioEnd - 1) : b \notin Status}

LEMMA FixedLayout ==
  /\ BitRange(0, ProcessorBits) \subseteq Fixed
  /\ BitRange(InDst, AddrBits) \subseteq Fixed /\ BitRange(InLen, AddrBits) \subseteq Fixed
  /\ Halt \in Fixed
  /\ \A b \in Status : b \in 0..(MmioEnd - 1)
<1> DEFINE A == AddrBits
           P == ProcessorBits
<1>1. A \in Nat /\ P \in Nat
  BY Sizes
<1>2. Halt + 1 <= MmioEnd /\ MmioEnd \in Nat
  <2>1. Halt \in Nat
    BY Sizes DEF Halt, OutGot, OutLen, OutSrc, OutReq, InGot, InLen, InDst, InReq
  <2> HIDE DEF Halt
  <2> QED
    BY <2>1 DEF MmioEnd, round_up_to_8
<1> HIDE DEF MmioEnd
<1>3. Halt = P + 7 + 6 * A
  BY <1>1 DEF Halt, OutGot, OutLen, OutSrc, OutReq, InGot, InLen, InDst, InReq
<1>4. ASSUME NEW b
      PROVE  b \in Status <=>
               \/ b \in {P, P + 1, P + 2, P + 3}
               \/ b \in (P + 4 + 2 * A) .. (P + 3 + 3 * A)
               \/ b \in {P + 4 + 3 * A, P + 5 + 3 * A, P + 6 + 3 * A}
               \/ b \in (P + 7 + 5 * A) .. (P + 6 + 6 * A)
  BY <1>1 DEF Status, BitRange, OutGot, OutLen, OutSrc, OutReq, OutDone, OutErr, InGot,
     InLen, InDst, InReq, InDone, InEof, InErr
<1>5. /\ BitRange(0, ProcessorBits) = 0..(P - 1)
      /\ BitRange(InDst, AddrBits) = (P + 4) .. (P + 3 + A)
      /\ BitRange(InLen, AddrBits) = (P + 4 + A) .. (P + 3 + 2 * A)
  BY <1>1 DEF BitRange, InLen, InDst, InReq
<1> HIDE DEF A, P
<1>6. P + 7 + 6 * A < MmioEnd
  BY <1>1, <1>2, <1>3
<1> HIDE DEF Status
<1>7. ASSUME NEW b \in 0..(P - 1) PROVE b \in Fixed
  BY <1>1, <1>2, <1>4, <1>6 DEF Fixed
<1>8. ASSUME NEW b \in (P + 4) .. (P + 3 + 2 * A) PROVE b \in Fixed
  BY <1>1, <1>2, <1>4, <1>6 DEF Fixed
<1>9. Halt \in Fixed
  BY <1>1, <1>2, <1>3, <1>4, <1>6 DEF Fixed
<1>10. ASSUME NEW b \in Status PROVE b \in 0..(MmioEnd - 1)
  BY <1>1, <1>2, <1>4, <1>6
<1>11. /\ BitRange(InDst, AddrBits) \subseteq (P + 4) .. (P + 3 + 2 * A)
       /\ BitRange(InLen, AddrBits) \subseteq (P + 4) .. (P + 3 + 2 * A)
  BY <1>1, <1>5
<1> QED
  BY <1>5, <1>7, <1>8, <1>9, <1>10, <1>11

(* An instruction L1 lets pass under a guarding configuration writes the     *)
(* workspace only.                                                           *)
LEMMA WritesWorkspace ==
  ASSUME NEW c \in CLI!Configurations, GuardsMachine(c), NEW i \in Inst, i.n > 0,
         CLI!Writable(c, SpaceBits, i)
  PROVE  i.dst >= MmioEnd /\ i.dst + i.n <= SpaceBits
<1>1. i.n \in Nat /\ i.dst \in Nat /\ MmioEnd \in Nat
  BY MmioEndType DEF Inst
<1>2. c.protected \in Seq(CLI!Region) /\ c.allowed \in Seq(CLI!Region)
  BY DEF CLI!Configurations
<1>3. ASSUME NEW g \in CLI!Region, CLI!Bounded(g) PROVE g.begin \in Int /\ g.end \in Int
  BY <1>3 DEF CLI!Region, CLI!Bounded
<1>4. i.dst + i.n <= SpaceBits
  BY DEF CLI!Writable
<1>5. CASE \E k \in 1..Len(c.protected) :
             LET p == c.protected[k]
             IN  CLI!Bounded(p) /\ p.begin <= 0 /\ p.end >= MmioEnd
  <2>1. PICK k \in 1..Len(c.protected) :
          /\ CLI!Bounded(c.protected[k])
          /\ c.protected[k].begin <= 0 /\ c.protected[k].end >= MmioEnd
    BY <1>5
  <2> DEFINE g == c.protected[k]
  <2>2. g \in CLI!Region
    BY <1>2
  <2>3. ~CLI!intersects(g, i.dst, i.n)
    BY DEF CLI!Writable
  <2>4. CLI!Bounded(g) /\ g.begin <= 0 /\ g.end >= MmioEnd
    BY <2>1
  <2> HIDE DEF g
  <2>5. g.begin \in Int /\ g.end \in Int
    BY <1>3, <2>2, <2>4
  <2>6. ~(i.dst < g.end)
    BY <1>1, <2>3, <2>4, <2>5 DEF CLI!intersects
  <2> QED
    BY <1>1, <1>4, <2>4, <2>5, <2>6
<1>6. CASE /\ c.allowed # <<>>
           /\ \A k \in 1..Len(c.allowed) :
                CLI!Bounded(c.allowed[k]) => c.allowed[k].begin >= MmioEnd
  <2>1. PICK k \in 1..Len(c.allowed) : CLI!contains(c.allowed[k], i.dst, i.n)
    BY <1>6 DEF CLI!Writable
  <2> DEFINE g == c.allowed[k]
  <2>2. g \in CLI!Region
    BY <1>2
  <2>3. CLI!contains(g, i.dst, i.n) /\ (CLI!Bounded(g) => g.begin >= MmioEnd)
    BY <1>6, <2>1
  <2> HIDE DEF g
  <2>4. CLI!Bounded(g) /\ g.begin <= i.dst
    BY <2>3 DEF CLI!contains
  <2>5. g.begin \in Int
    BY <1>3, <2>2, <2>4
  <2> QED
    BY <1>1, <1>4, <2>3, <2>4, <2>5
<1> QED
  BY <1>5, <1>6 DEF GuardsMachine

-----------------------------------------------------------------------------
(* The Python reader reads what stands in the file. *)

LEMMA SameNumbers ==
  /\ \A m, pos, w : CLI!Number(m, pos, w) = Number(m, pos, w)
  /\ \A v, k : CLI!Shr(v, k) = Shr(v, k)
  /\ \A v, pos, w : CLI!Digits(v, pos, w) = Digits(v, pos, w)
  /\ \A x : CLI!ceil_log2(x) = ceil_log2(x)
<1>1. \A m, pos, w : CLI!Number(m, pos, w) = Number(m, pos, w)
  BY Zenon DEF CLI!Number, Number, CLI!vm_bit_get, vm_bit_get
<1>2. \A v, k : CLI!Shr(v, k) = Shr(v, k)
  BY Zenon DEF CLI!Shr, Shr
<1>3. \A v, pos, w : CLI!Digits(v, pos, w) = Digits(v, pos, w)
  BY <1>2, Zenon DEF CLI!Digits, Digits, CLI!BitRange, BitRange
<1>4. \A x : CLI!ceil_log2(x) = ceil_log2(x)
  <2>1. CLI!pow2 = pow2
    BY Zenon DEF CLI!pow2, pow2
  <2> QED
    BY <2>1, Zenon DEF CLI!ceil_log2, ceil_log2
<1> QED
  BY <1>1, <1>2, <1>3, <1>4

(* Masking keeps the last bits of a number. *)
LEMMA MaskedNumber ==
  ASSUME NEW m, NEW pos \in Int, NEW skip \in Nat, NEW w \in Nat
  PROVE  CLI!Masked(Number(m, pos, skip + w), w) = Number(m, pos + skip, w)
<1> DEFINE v == Number(m, pos, skip + w)
           low == Digits(v, 0, w)
<1>1. CLI!Masked(v, w) = Number(low, 0, w)
  BY SameNumbers, Zenon DEF CLI!Masked
<1>2. ASSUME NEW q \in 0..(w - 1) PROVE 0 + q \in low <=> (pos + skip) + q \in m
  <2>1. PICK p \in 0..(skip + w - 1) : p = skip + q
    OBVIOUS
  <2>2. Shr(v, (skip + w) - 1 - p) % 2 = 1 <=> pos + p \in m
    BY NumberBits
  <2>3. /\ (skip + w) - 1 - p = 0 + w - 1 - q /\ pos + p = (pos + skip) + q
        /\ 0 + q = q
    BY <2>1
  <2>4. q \in BitRange(0, w)
    BY DEF BitRange
  <2> HIDE DEF v
  <2> QED
    BY <2>2, <2>3, <2>4 DEF Digits
<1> HIDE DEF low, v
<1>3. Number(low, 0, w) = Number(m, pos + skip, w)
  <2>1. pos + skip \in Int /\ 0 \in Int
    OBVIOUS
  <2> QED
    BY <1>2, <2>1, NumberSame
<1> QED
  BY <1>1, <1>3 DEF v

(* A field that lies in the file is read as the bits it consists of. *)
LEMMA ReadsField ==
  ASSUME NEW data, data.bytes \in Nat, NEW pos \in Nat, NEW width \in Nat,
         pos + width <= 8 * data.bytes
  PROVE  CLI!_read_bits(data, pos, width) = Number(data.ones, pos, width)
<1> DEFINE first == pos \div 8
           bit == pos % 8
           n_bytes == (pos + width - 1) \div 8 - first + 1
           shift == 8 * n_bytes - bit - width
           val == CLI!FromBytes(data, first, n_bytes)
<1>1. CLI!_read_bits(data, pos, width) = CLI!Masked(CLI!Shr(val, shift), width)
  BY Zenon DEF CLI!_read_bits
<1>2. /\ first \in Nat /\ bit \in 0..7 /\ pos = 8 * first + bit
      /\ n_bytes \in Nat /\ first + n_bytes <= data.bytes
      /\ shift \in Nat /\ 8 * n_bytes = bit + width + shift
  <2>1. PICK last \in Int : last = (pos + width - 1) \div 8
    OBVIOUS
  <2>2. 8 * last <= pos + width - 1 /\ pos + width - 1 < 8 * last + 8
    BY <2>1
  <2>3. first \in Nat /\ bit \in 0..7 /\ pos = 8 * first + bit
    OBVIOUS
  <2>4. n_bytes = last - first + 1
    BY <2>1
  <2> HIDE DEF first, bit, n_bytes
  <2> QED
    BY <2>2, <2>3, <2>4
<1>3. val = Number(data.ones, 8 * first, 8 * n_bytes)
  <2> DEFINE there == data.bytes - first
             count == IF there < 0 THEN 0 ELSE IF there < n_bytes THEN there ELSE n_bytes
  <2>1. val = Number(data.ones, 8 * first, 8 * count)
    BY SameNumbers, Zenon DEF CLI!FromBytes
  <2> HIDE DEF first, bit, n_bytes, shift, val
  <2>2. ~(there < 0) /\ ~(there < n_bytes)
    <3>1. PICK size \in Nat : size = data.bytes
      OBVIOUS
    <3> QED
      BY <1>2, <3>1
  <2>3. count = n_bytes
    BY <2>2, Zenon
  <2> QED
    BY <2>1, <2>3
<1> HIDE DEF first, bit, n_bytes, shift, val
<1>4. CLI!Shr(val, shift) = Number(data.ones, 8 * first, bit + width)
  <2>1. PICK whole \in Nat : whole = 8 * n_bytes
    BY <1>2
  <2>2. shift \in 0..whole /\ whole - shift = bit + width /\ 8 * first \in Int
    BY <1>2, <2>1
  <2>3. Shr(Number(data.ones, 8 * first, whole), shift)
          = Number(data.ones, 8 * first, whole - shift)
    BY <2>2, NumberShr
  <2> QED
    BY <1>3, <2>1, <2>2, <2>3, SameNumbers
<1>5. CLI!Masked(Number(data.ones, 8 * first, bit + width), width)
        = Number(data.ones, 8 * first + bit, width)
  <2>1. 8 * first \in Int /\ bit \in Nat
    BY <1>2
  <2> QED
    BY <2>1, MaskedNumber
<1> QED
  BY <1>1, <1>2, <1>4, <1>5

(* What "MSB-first" asks for. *)
LEMMA NumberMsbFirst ==
  ASSUME NEW data, NEW pos \in Nat, NEW w \in Nat
  PROVE  MsbFirst(Number(data.ones, pos, w), data, pos, w)
<1> DEFINE v == Number(data.ones, pos, w)
<1>1. /\ v \in Nat /\ Shr(v, w) = 0
      /\ \A q \in 0..(w - 1) : Shr(v, w - 1 - q) % 2 = 1 <=> pos + q \in data.ones
  BY NumberBits
<1> HIDE DEF v
<1>2. v < pow2[w]
  BY <1>1, Fits
<1>3. ASSUME NEW b \in BitRange(pos, w)
      PROVE  Shr(v, pos + w - 1 - b) % 2 = 1 <=> b \in data.ones
  <2>1. PICK q \in 0..(w - 1) : b = pos + q
    <3>1. b - pos \in 0..(w - 1) /\ b = pos + (b - pos)
      BY DEF BitRange
    <3> QED
      BY <3>1
  <2>2. pos + w - 1 - b = w - 1 - q
    BY <2>1
  <2> QED
    BY <1>1, <2>1, <2>2
<1> QED
  BY <1>2, <1>3 DEF MsbFirst, v

LEMMA Configured ==
  ASSUME CliInv, args.config # None
  PROVE  /\ args.config \in CLI!Configurations
         /\ CLI!addr_bits(args.config) \in Nat
<1> DEFINE c == args.config
<1>1. c \in CLI!Configurations
  <2>1. args \in CLI!CommandLines
    BY PipelineAssumption DEF CliInv, CLI!TypeOK
  <2> QED
    BY <2>1, PipelineAssumption DEF CLI!CommandLines
<1>2. c.space_bytes \in Nat /\ c.addr_bits \in Nat \cup {None}
  BY <1>1 DEF CLI!Configurations
<1> HIDE DEF c
<1>3. ASSUME NEW bits \in Nat PROVE CLI!derive_addr_bits(bits) \in Nat
  <2>1. CASE bits <= 0
    BY <2>1 DEF CLI!derive_addr_bits
  <2>2. CASE bits >= 1
    <3>1. CLI!ceil_log2(bits) \in 0..bits
      BY <2>2, CeilLog2, SameNumbers
    <3> QED
      BY <2>2, <3>1 DEF CLI!derive_addr_bits, CLI!round_up_to_8
  <2> QED
    BY <2>1, <2>2
<1>4. CLI!addr_bits(c) \in Nat
  BY <1>2, <1>3 DEF CLI!addr_bits, CLI!space_bits
<1> QED
  BY <1>1, <1>4 DEF c

LEMMA NamedLayers ==
  ASSUME CliInv, exit = 0
  PROVE  /\ args.config # None
         /\ \A t \in 1..Len(CLI!Named) :
              /\ CLI!Named[t] \in DOMAIN Disk /\ layers_data[t] = Disk[CLI!Named[t]]
              /\ all_layers[t] = CLI!read(args.config, layers_data[t])
              /\ ~CLI!TooShort(args.config, layers_data[t])
         /\ \A t \in 1..Len(all_layers) : t \in 1..Len(CLI!Named)
<1>1. Len(CLI!Named) \in Nat
  BY Arguments DEF CliInv, CLI!TypeOK
<1> PICK named \in Seq({CLI!Named[k] : k \in 1..Len(CLI!Named)}) : named = CLI!Named
  BY Arguments DEF CliInv, CLI!TypeOK
<1> HIDE DEF CLI!Named
<1>2. /\ args.config # None
      /\ layers_data = [k \in 1..Len(named) |-> Disk[named[k]]]
      /\ \A k \in 1..Len(named) :
           /\ named[k] \in DOMAIN Disk
           /\ all_layers[k] = CLI!read(args.config, layers_data[k])
           /\ ~CLI!TooShort(args.config, layers_data[k])
  BY DEF CliInv, CLI!ExitCodes
<1>3. all_layers # <<>> => Len(all_layers) = Len(named)
  <2>1. Len(layers_data) = Len(named)
    BY <1>1, <1>2
  <2> QED
    BY <2>1 DEF CliInv, CLI!TypeOK
<1> QED
  BY <1>2, <1>3

LEMMA FieldsInside ==
  ASSUME NEW ip \in Nat, NEW w \in Nat, NEW size \in Nat, ip + 3 * w <= 8 * size
  PROVE  /\ ip + w <= 8 * size /\ (ip + w) + w <= 8 * size
         /\ (ip + 2 * w) + w <= 8 * size
         /\ ip + w \in Nat /\ ip + 2 * w \in Nat
OBVIOUS

(* Where the verifier reads instruction a, for fields of w bits. *)
Ip(a, w) == (a - 1) * 3 * w

(* Every field of a file that lies in it is read MSB-first. *)
LEMMA ReadsLayer ==
  ASSUME CliInv, exit = 0, NEW t \in 1..Len(CLI!Named), NEW a \in 1..Len(all_layers[t]),
         NEW w, w = CLI!addr_bits(args.config), NEW ip, ip = Ip(a, w),
         ip + 3 * w <= 8 * layers_data[t].bytes
  PROVE  /\ w \in Nat /\ ip \in Nat
         /\ all_layers[t][a].n = Number(layers_data[t].ones, ip, w)
         /\ all_layers[t][a].dst = Number(layers_data[t].ones, ip + w, w)
         /\ all_layers[t][a].src = Number(layers_data[t].ones, ip + 2 * w, w)
<1> DEFINE data == layers_data[t]
           c == args.config
<1>1. /\ c # None /\ CLI!Named[t] \in DOMAIN Disk
      /\ data = Disk[CLI!Named[t]] /\ all_layers[t] = CLI!read(c, data)
  BY NamedLayers
<1> HIDE DEF c
<1>2. w \in Nat /\ data.bytes \in Nat
  BY <1>1, Configured, PipelineAssumption DEF c
<1>3. a \in Nat /\ a >= 1 /\ a \in 1..c.processor_n
  <2>1. c.processor_n \in Nat
    BY <1>1, Configured DEF c, CLI!Configurations
  <2> QED
    BY <1>1, <2>1 DEF CLI!read
<1>4. ip \in Nat /\ (a - 1) * CLI!instr_bits(c) = ip
  <2>1. \A x, y \in Nat : x * 3 * y \in Nat /\ x * (3 * y) = x * 3 * y
    OBVIOUS
  <2>2. a - 1 \in Nat /\ CLI!instr_bits(c) = 3 * w
    BY <1>3 DEF CLI!instr_bits, c
  <2> QED
    BY <1>2, <2>1, <2>2 DEF Ip
<1>5. all_layers[t][a]
        = [n |-> CLI!_read_bits(data, ip, w), dst |-> CLI!_read_bits(data, ip + w, w),
           src |-> CLI!_read_bits(data, ip + 2 * w, w)]
  BY <1>1, <1>3, <1>4 DEF CLI!read, CLI!_read_instruction, c
<1>6. /\ ip + w <= 8 * data.bytes /\ (ip + w) + w <= 8 * data.bytes
      /\ (ip + 2 * w) + w <= 8 * data.bytes
      /\ ip + w \in Nat /\ ip + 2 * w \in Nat
  <2>1. PICK size \in Nat : size = data.bytes
    BY <1>2
  <2>2. ip + 3 * w <= 8 * size
    BY <2>1
  <2> HIDE DEF data
  <2> QED
    BY <1>2, <1>4, <2>1, <2>2, FieldsInside
<1> HIDE DEF data
<1>7. /\ CLI!_read_bits(data, ip, w) = Number(data.ones, ip, w)
      /\ CLI!_read_bits(data, ip + w, w) = Number(data.ones, ip + w, w)
      /\ CLI!_read_bits(data, ip + 2 * w, w) = Number(data.ones, ip + 2 * w, w)
  BY <1>2, <1>4, <1>6, ReadsField
<1> QED
  BY <1>2, <1>4, <1>5, <1>7 DEF data

LEMMA ReadsImage ==
  ASSUME CliInv, exit = 0, args.image # None, SameGeometry(args.config)
  PROVE  verified = [a \in 1..ProcessorN |-> vm_read_inst(image, SlotIp(a - 1))]
<1> DEFINE data == Disk[args.image]
           c == args.config
<1>1. CLI!Named[1] = args.image /\ Len(CLI!Named) \in Nat /\ Len(CLI!Named) >= 1
  <2>1. args.matched \in Seq(DOMAIN Disk)
    BY Arguments DEF CliInv, CLI!TypeOK
  <2>2. CLI!Named = <<args.image>> \o args.matched
    BY DEF CLI!Named
  <2> QED
    BY <2>1, <2>2
<1>2. 1 \in 1..Len(CLI!Named)
  <2> HIDE DEF CLI!Named
  <2> QED
    BY <1>1
<1>3. /\ c # None /\ layers_data[1] = data /\ data.bytes \in Nat
      /\ verified = CLI!read(c, data) /\ ~CLI!TooShort(c, data)
  <2> HIDE DEF CLI!Named
  <2> QED
    BY <1>1, <1>2, NamedLayers, PipelineAssumption DEF verified
<1>4. verified = [a \in 1..ProcessorN |-> CLI!_read_instruction(c, data, a - 1)]
  BY <1>3 DEF CLI!read, SameGeometry
<1>5. PICK size \in Nat : size = data.bytes /\ SpaceBytes \in Nat /\ SpaceBytes <= size
  BY <1>3, LayoutAssumption DEF CLI!TooShort, SameGeometry
<1>6. ASSUME NEW a \in 1..ProcessorN
      PROVE  verified[a] = vm_read_inst(image, SlotIp(a - 1))
  <2>1. PICK ip \in Nat : ip = SlotIp(a - 1) /\ ip + InstrBits <= ProcessorBits
    BY SlotInSpace, Sizes
  <2>2. ip + 3 * AddrBits <= SpaceBits /\ ip + 3 * AddrBits <= 8 * data.bytes
    <3>1. ip + 3 * AddrBits <= SpaceBits
      BY <2>1, Layout, Sizes DEF InstrBits
    <3> QED
      BY <1>5, <3>1, Sizes DEF SpaceBits
  <2>3. a \in 1..Len(all_layers[1]) /\ AddrBits = CLI!addr_bits(c)
    BY <1>4, Sizes DEF SameGeometry, verified
  <2>4. ip = Ip(a, AddrBits)
    BY <2>1, Sizes DEF SlotIp, InstrBits, Ip
  <2>5. /\ verified[a].n = Number(data.ones, ip, AddrBits)
        /\ verified[a].dst = Number(data.ones, ip + AddrBits, AddrBits)
        /\ verified[a].src = Number(data.ones, ip + 2 * AddrBits, AddrBits)
    <3>1. /\ CliInv /\ exit = 0 /\ AddrBits = CLI!addr_bits(args.config)
          /\ ip + 3 * AddrBits <= 8 * layers_data[1].bytes
      BY <1>3, <2>2, <2>3
    <3> HIDE DEF CLI!Named, data, c
    <3>2. /\ all_layers[1][a].n = Number(layers_data[1].ones, ip, AddrBits)
          /\ all_layers[1][a].dst = Number(layers_data[1].ones, ip + AddrBits, AddrBits)
          /\ all_layers[1][a].src = Number(layers_data[1].ones, ip + 2 * AddrBits, AddrBits)
      BY <1>2, <2>3, <2>4, <3>1, ReadsLayer
    <3> QED
      BY <1>3, <3>2, Zenon DEF verified
  <2>6. ASSUME NEW pos \in Nat, pos + AddrBits <= SpaceBits
        PROVE  UInt(image, pos) = Number(data.ones, pos, AddrBits)
    <3>1. \A q \in 0..(AddrBits - 1) : pos + q \in image <=> pos + q \in data.ones
      BY <2>6, Sizes DEF image, Bits
    <3> QED
      BY <3>1, Sizes, NumberSame DEF UInt
  <2>7. verified[a] = CLI!_read_instruction(c, data, a - 1)
    BY <1>4
  <2>8. /\ UInt(image, ip) = verified[a].n
        /\ UInt(image, ip + OffDst) = verified[a].dst
        /\ UInt(image, ip + OffSrc) = verified[a].src
    BY <2>2, <2>5, <2>6, Sizes DEF OffDst, OffSrc
  <2> QED
    BY <2>1, <2>7, <2>8 DEF vm_read_inst, Copy, CLI!_read_instruction
<1> QED
  BY <1>4, <1>6

LEMMA ReaderFaithful == CliInv => ReaderAgrees
<1> SUFFICES ASSUME CliInv PROVE ReaderAgrees
  OBVIOUS
<1>1. ASSUME exit = 0, NEW t \in 1..Len(all_layers), NEW a \in 1..Len(all_layers[t]),
             NEW w, w = CLI!addr_bits(args.config), NEW ip, ip = Ip(a, w),
             ip + 3 * w <= 8 * layers_data[t].bytes
      PROVE  /\ MsbFirst(all_layers[t][a].n, layers_data[t], ip, w)
             /\ MsbFirst(all_layers[t][a].dst, layers_data[t], ip + w, w)
             /\ MsbFirst(all_layers[t][a].src, layers_data[t], ip + 2 * w, w)
  <2>1. t \in 1..Len(CLI!Named)
    BY <1>1, NamedLayers
  <2>2. /\ w \in Nat /\ ip \in Nat
        /\ all_layers[t][a].n = Number(layers_data[t].ones, ip, w)
        /\ all_layers[t][a].dst = Number(layers_data[t].ones, ip + w, w)
        /\ all_layers[t][a].src = Number(layers_data[t].ones, ip + 2 * w, w)
    <3> HIDE DEF CLI!Named
    <3> QED
      BY <1>1, <2>1, ReadsLayer
  <2>3. ip + w \in Nat /\ ip + 2 * w \in Nat
    <3>1. \A x, y \in Nat : x + y \in Nat /\ x + 2 * y \in Nat
      OBVIOUS
    <3> QED
      BY <2>2, <3>1
  <2> QED
    BY <2>2, <2>3, NumberMsbFirst
<1> QED
  BY <1>1, ReadsImage, Zenon DEF ReaderAgrees, Ip

LEMMA Verdict ==
  ASSUME CliInv, LoadedInv, Guarded
  PROVE  /\ verified = [a \in 1..ProcessorN |-> vm_read_inst(image, SlotIp(a - 1))]
         /\ Len(verified) = ProcessorN
         /\ CLI!ConflictFree(verified)
         /\ \A a \in 1..ProcessorN :
              /\ verified[a] \in Inst
              /\ verified[a].n > 0 =>
                   verified[a].dst >= MmioEnd /\ verified[a].dst + verified[a].n <= SpaceBits
<1>1. exit = 0 /\ args.image # None /\ ~args.l2_only
      /\ SameGeometry(args.config) /\ GuardsMachine(args.config)
  BY DEF Guarded, LoadedInv, Passed
<1>2. verified = [a \in 1..ProcessorN |-> vm_read_inst(image, SlotIp(a - 1))]
  BY <1>1, ReadsImage
<1>3. /\ args.config # None /\ Len(CLI!Named) > 0
      /\ \A t \in 1..Len(CLI!Named) :
           /\ CLI!ConflictFree(all_layers[t])
           /\ args.l2_only \/ CLI!Safe(t)
  BY <1>1 DEF CliInv, CLI!ExitCodes, CLI!Accepted
<1>4. Len(CLI!Named) \in Nat
  BY Arguments DEF CliInv, CLI!TypeOK
<1> HIDE DEF CLI!Named
<1>5. CLI!ConflictFree(verified) /\ CLI!Safe(1)
  BY <1>1, <1>3, <1>4 DEF verified
<1>6. args.config \in CLI!Configurations
  <2>1. args \in CLI!CommandLines
    BY PipelineAssumption DEF CliInv, CLI!TypeOK
  <2> QED
    BY <1>3, <2>1, PipelineAssumption DEF CLI!CommandLines
<1>7. CLI!LayerSafe(args.config, SpaceBits, verified)
  BY <1>1, <1>5 DEF CLI!Safe, CLI!space_bits, SameGeometry, SpaceBits, verified
<1>8. Len(verified) = ProcessorN
  BY <1>2, Sizes
<1>9. ASSUME NEW a \in 1..ProcessorN
      PROVE  /\ verified[a] \in Inst
             /\ verified[a].n > 0 =>
                  verified[a].dst >= MmioEnd /\ verified[a].dst + verified[a].n <= SpaceBits
  <2>1. verified[a] \in Inst
    BY <1>2, InstType
  <2>2. verified[a].n > 0 => CLI!Writable(args.config, SpaceBits, verified[a])
    BY <1>7, <1>8 DEF CLI!LayerSafe
  <2> QED
    BY <1>1, <1>6, <2>1, <2>2, WritesWorkspace
<1> QED
  BY <1>2, <1>5, <1>8, <1>9

-----------------------------------------------------------------------------
(* A guarded machine still holds the program that was verified. *)

SameCode(m) == \A b \in Fixed : b \in m <=> b \in image

To(a) == BitRange(verified[a].dst, verified[a].n)
From(a, b) == b - verified[a].dst + verified[a].src

(* The copies of the slots that have had their turn, as if made at once. *)
Halfway(m) ==
  \A b \in Bits : b \in m <=>
    \/ \E a \in 1..slot : b \in To(a) /\ From(a, b) \in before
    \/ b \in before /\ \A a \in 1..slot : b \notin To(a)

Turn ==
  /\ before \subseteq Bits /\ Halt \notin before /\ InReq \notin before
  /\ SameCode(before)
  /\ Parallel => Halfway(space)

GuardInv ==
  Guarded =>
    /\ SameCode(start)
    /\ \A b \in dma : b >= MmioEnd
    /\ \A i \in notes : \A b \in BitRange(i.dst, i.n) : b >= MmioEnd
    /\ InReq \in space => InReq \in image
    /\ SourcesInSpace => rc # "VM_ERR"
    /\ pc = "slot" => Turn

LEMMA CodeFixed ==
  ASSUME IInv, GuardInv, Guarded
  PROVE  SameCode(space)
<1> SUFFICES ASSUME NEW b \in Fixed PROVE b \in space <=> b \in image
  BY DEF SameCode
<1>1. b \in start <=> b \in image
  BY DEF GuardInv, SameCode
<1>2. b \notin Status /\ ~(b >= MmioEnd)
  BY MmioEndType DEF Fixed
<1>3. b \notin Touched
  BY <1>2 DEF Touched, GuardInv
<1> QED
  BY <1>1, <1>3 DEF IInv, FrameInv, Agree

LEMMA UIntSame ==
  ASSUME NEW m, SameCode(m), NEW pos \in Int, BitRange(pos, AddrBits) \subseteq Fixed
  PROVE  UInt(m, pos) = UInt(image, pos)
<1>1. \A q \in 0..(AddrBits - 1) : pos + q \in BitRange(pos, AddrBits)
  BY Sizes DEF BitRange
<1>2. \A q \in 0..(AddrBits - 1) : pos + q \in m <=> pos + q \in image
  BY <1>1, Zenon DEF SameCode
<1> QED
  BY <1>2, Sizes, NumberSame DEF UInt

LEMMA SameFetch ==
  ASSUME NEW m, SameCode(m), NEW s \in 0..(ProcessorN - 1)
  PROVE  vm_read_inst(m, SlotIp(s)) = vm_read_inst(image, SlotIp(s))
<1> DEFINE ip == SlotIp(s)
<1>1. ip \in Nat /\ ip + InstrBits <= ProcessorBits
  BY SlotInSpace
<1> HIDE DEF ip
<1>2. /\ BitRange(ip, AddrBits) \subseteq BitRange(0, ProcessorBits)
      /\ BitRange(ip + OffDst, AddrBits) \subseteq BitRange(0, ProcessorBits)
      /\ BitRange(ip + OffSrc, AddrBits) \subseteq BitRange(0, ProcessorBits)
  BY <1>1, Sizes DEF BitRange, OffDst, OffSrc, InstrBits
<1>3. /\ UInt(m, ip) = UInt(image, ip)
      /\ UInt(m, ip + OffDst) = UInt(image, ip + OffDst)
      /\ UInt(m, ip + OffSrc) = UInt(image, ip + OffSrc)
  <2>1. ip \in Int /\ ip + OffDst \in Int /\ ip + OffSrc \in Int
    BY <1>1, Sizes DEF OffDst, OffSrc
  <2> QED
    BY <1>2, <2>1, FixedLayout, UIntSame
<1> QED
  BY <1>3 DEF vm_read_inst, ip

(* The instruction fetched is the one verified, and it is in bounds. *)
LEMMA FetchedVerified ==
  ASSUME IInv, CliInv, LoadedInv, GuardInv, Guarded,
         pc = "slot", slot < ProcessorN
  PROVE  /\ slot + 1 \in 1..ProcessorN /\ Fetched = verified[slot + 1]
         /\ Fetched \in Inst
         /\ Fetched.n # 0 =>
              /\ Fetched.dst >= MmioEnd /\ ~DstOut(Fetched)
              /\ SourcesInSpace => ~SrcOut(Fetched)
<1>1. slot \in 0..(ProcessorN - 1) /\ slot + 1 \in 1..ProcessorN /\ slot + 1 - 1 = slot
  BY Sizes DEF IInv, TypeOK
<1>2. Fetched = vm_read_inst(image, SlotIp(slot))
  BY <1>1, CodeFixed, SameFetch DEF Fetched
<1>3. verified[slot + 1] = vm_read_inst(image, SlotIp(slot))
  BY <1>1, Verdict
<1>4. Len(verified) = ProcessorN /\ Fetched \in Inst
  BY <1>2, Verdict, InstType
<1>5. Fetched.n # 0 => Fetched.dst >= MmioEnd /\ Fetched.dst + Fetched.n <= SpaceBits
  <2>1. Fetched.n # 0 => Fetched.n > 0
    BY <1>4 DEF Inst
  <2> QED
    BY <1>1, <1>2, <1>3, <2>1, Verdict
<1>6. Fetched.n # 0 /\ SourcesInSpace => Fetched.src + Fetched.n <= SpaceBits
  <2>1. Fetched.n # 0 => slot + 1 \in Active
    BY <1>1, <1>2, <1>3, <1>4 DEF Active, Inst
  <2> QED
    BY <1>2, <1>3, <2>1 DEF SourcesInSpace
<1>7. /\ Fetched.n # 0 => ~DstOut(Fetched)
      /\ Fetched.n # 0 /\ SourcesInSpace => ~SrcOut(Fetched)
  BY <1>4, <1>5, <1>6, Sizes DEF DstOut, SrcOut, Inst
<1> QED
  BY <1>1, <1>2, <1>3, <1>4, <1>5, <1>7

(* What a service leaves alone: the frame of its answer. *)
LEMMA OutStep ==
  ASSUME IInv, IInv', OutIdle \/ OutRefuse \/ OutWrite
  PROVE  /\ pc = "out" /\ pc' = "in" /\ start' = start /\ dma' = {} /\ notes' = {} /\ rc' = rc
         /\ Agree(space, space', Status) /\ (InReq \in space' => InReq \in space)
<1>1. /\ pc = "out" /\ pc' = "in" /\ UNCHANGED <<start, dma, notes, rc>>
  BY DEF OutIdle, OutRefuse, OutWrite, history, call
<1>2. start = space /\ dma' = {} /\ notes' = {}
  BY <1>1 DEF IInv, ServiceInv
<1>3. Agree(space, space', Status)
  BY <1>1, <1>2, Zenon DEF IInv, FrameInv, Touched, Agree
<1>4. InReq \notin {OutReq, OutDone, OutErr} \cup BitRange(OutGot, AddrBits)
  BY Sizes DEF BitRange, OutGot, OutLen, OutSrc, OutReq, OutDone, OutErr, InGot, InLen,
     InDst, InReq
<1>5. ASSUME NEW got, NEW failed \in BOOLEAN, InReq \in OutAnswered(OutCleared, got, failed)
      PROVE  InReq \in space
  <2>1. InReq \in WriteUint(OutCleared, OutGot, got)
    BY <1>4, <1>5, Zenon DEF OutAnswered
  <2>2. InReq \in OutCleared
    BY <1>4, <2>1, WriteUintFrame, Zenon DEF Agree
  <2> QED
    BY <2>2 DEF OutCleared
<1>6. InReq \in space' => InReq \in space
  <2>1. CASE OutIdle
    BY <2>1 DEF OutIdle
  <2>2. CASE OutRefuse
    BY <1>5, <2>2 DEF OutRefuse
  <2>3. CASE OutWrite
    <3>1. PICK put : space' = OutAnswered(OutCleared, 8 * put, put # (out_len \div 8))
      BY <2>3 DEF OutWrite
    <3> QED
      BY <1>5, <3>1
  <2> QED
    BY <2>1, <2>2, <2>3
<1> QED
  BY <1>1, <1>2, <1>3, <1>6

LEMMA InStep ==
  ASSUME IInv, IInv', InIdle \/ InRefuse \/ InRead
  PROVE  /\ pc = "in" /\ pc' = "halt" /\ start' = start /\ notes' = {} /\ rc' = rc
         /\ InReq \notin space' /\ Agree(space, space', Status \cup dma')
         /\ dma' # {} => InReq \in space /\ ~Refused(in_dst, in_len)
         /\ dma' \subseteq BitRange(in_dst, in_len)
<1>1. /\ pc = "in" /\ pc' = "halt" /\ UNCHANGED <<start, notes, rc>>
  BY DEF InIdle, InRefuse, InRead, history, call
<1>2. dma = {} /\ notes' = {} /\ InReq \notin space'
  BY <1>1 DEF IInv, ServiceInv
<1>3. Agree(start, space, Status) /\ Agree(start, space', Status \cup dma')
  BY <1>1, <1>2, Zenon DEF IInv, FrameInv, Touched, Agree
<1>4. Agree(space, space', Status \cup dma')
  BY <1>3, Zenon DEF Agree
<1>5. CASE dma' = {}
  BY <1>1, <1>2, <1>4, <1>5
<1>6. CASE dma' # {}
  <2>1. InRead
    BY <1>2, <1>6 DEF InIdle, InRefuse, history
  <2> DEFINE nbytes == in_len \div 8
  <2>2. PICK r \in IF nbytes = 0 THEN {[got |-> 0, eof |-> eof, err |-> err]}
                                 ELSE FreadOutcomes(nbytes) :
          dma' = BitRange(in_dst, 8 * r.got)
    BY <2>1 DEF InRead
  <2>3. in_dst \in Nat /\ in_len \in Nat /\ nbytes \in Nat /\ 8 * nbytes <= in_len
    BY UIntNat DEF in_dst, in_len
  <2>4. r.got \in Nat /\ r.got <= nbytes
    <3> HIDE DEF nbytes
    <3>1. CASE nbytes = 0
      BY <2>2, <2>3, <3>1
    <3>2. CASE nbytes # 0
      <4>1. r \in FreadOutcomes(nbytes)
        BY <2>2, <3>2
      <4> QED
        BY <2>3, <4>1, FreadType DEF IInv
    <3> QED
      BY <3>1, <3>2
  <2>5. dma' \subseteq BitRange(in_dst, in_len)
    <3> HIDE DEF nbytes
    <3> QED
      BY <2>2, <2>3, <2>4 DEF BitRange
  <2>6. InReq \in space /\ ~Refused(in_dst, in_len)
    BY <2>1 DEF InRead
  <2> QED
    BY <1>1, <1>2, <1>4, <2>5, <2>6
<1> QED
  BY <1>5, <1>6

(* Input that a guarded program asks for goes to the workspace. *)
LEMMA InputWorkspace ==
  ASSUME IInv, GuardInv, Guarded, InReq \in space, ~Refused(in_dst, in_len)
  PROVE  in_dst >= MmioEnd
<1>1. InReq \in image
  BY DEF GuardInv
<1>2. in_dst = UInt(image, InDst) /\ in_len = UInt(image, InLen)
  <2>1. InDst \in Int /\ InLen \in Int
    BY Registers
  <2> QED
    BY <2>1, CodeFixed, FixedLayout, UIntSame DEF in_dst, in_len
<1> QED
  BY <1>1, <1>2 DEF Guarded, InputTame

(* Nothing the configuration and the image determine changes while it runs. *)
LEMMA Still ==
  ASSUME UNCHANGED <<verifier, loaded, vm>>
  PROVE  /\ Guarded' = Guarded /\ image' = image /\ verified' = verified
         /\ SourcesInSpace' = SourcesInSpace /\ Parallel' = Parallel
<1>1. UNCHANGED <<args, all_layers, loaded, vm>>
  BY DEF verifier
<1>2. image' = image /\ verified' = verified
  BY <1>1 DEF image, verified
<1>3. Active' = Active
  BY <1>2 DEF Active
<1>4. SourcesInSpace' = SourcesInSpace /\ ExactCopies' = ExactCopies
  BY <1>2, <1>3 DEF SourcesInSpace, ExactCopies
<1>5. InputTame' = InputTame
  BY <1>2 DEF InputTame
<1>6. Guarded' = Guarded
  BY <1>1, <1>5 DEF Guarded
<1> QED
  BY <1>2, <1>4, <1>6 DEF Parallel

(* One more slot: its source was not written this tick, nor its destination. *)
LEMMA HalfwayCopy ==
  ASSUME IInv, CliInv, LoadedInv, GuardInv, Guarded, Parallel, SlotCopy,
         before' = before, verified' = verified
  PROVE  Halfway(space)'
<1> DEFINE a == slot + 1
           i == verified[a]
<1>1. /\ pc = "slot" /\ slot < ProcessorN /\ slot' = a
      /\ Fetched.n # 0 /\ ~SrcOut(Fetched) /\ ~DstOut(Fetched)
  BY DEF SlotCopy
<1>2. a \in 1..ProcessorN /\ Fetched = i /\ i \in Inst
  BY <1>1, FetchedVerified
<1>3. Len(verified) = ProcessorN /\ CLI!ConflictFree(verified)
  BY Verdict
<1>4. slot \in Nat /\ i.n \in Nat /\ i.dst \in Nat /\ i.src \in Nat /\ i.n > 0
      /\ i.src + i.n <= SpaceBits /\ i.dst + i.n <= SpaceBits
  <2>1. Fetched.n \in Nat /\ Fetched.dst \in Nat /\ Fetched.src \in Nat
    BY <1>2 DEF Inst
  <2> HIDE DEF a, i
  <2>2. slot \in Nat
    BY DEF IInv, TypeOK
  <2> QED
    BY <1>1, <1>2, <2>1, <2>2, Sizes DEF SrcOut, DstOut
<1>5. BitRange(i.src, i.n) \subseteq Bits /\ To(a) \subseteq Bits
  BY <1>4, RangeInSpace DEF To
<1>6. ~SkewedHead(i.n, i.src, i.dst) /\ ~WordBody(i.n, i.src, i.dst)
  BY <1>2, <1>3, <1>4 DEF Parallel, ExactCopies, Active
<1>7. PICK past \in OverReads :
        space' = bitcpy(space \cup past, i.n, i.src, i.dst) \ past
  BY <1>2 DEF SlotCopy
<1>8. past \cap Bits = {}
  BY VMAssumption
<1>9. space' = Copied(space \cup past, i.n, i.src, i.dst) \ past
  BY <1>4, <1>6, <1>7, bitcpyExact
<1>10. ASSUME NEW b \in Bits
       PROVE  b \in space' <=> \/ b \in To(a) /\ From(a, b) \in space
                               \/ b \notin To(a) /\ b \in space
  <2>1. b \in To(a) => From(a, b) \in BitRange(i.src, i.n)
    BY <1>4 DEF To, From, BitRange
  <2>2. From(a, b) \in space \cup past /\ b \in To(a) <=> From(a, b) \in space /\ b \in To(a)
    BY <1>5, <1>8, <2>1
  <2>3. b \in Copied(space \cup past, i.n, i.src, i.dst)
          <=> \/ b \in To(a) /\ From(a, b) \in space \cup past
              \/ b \notin To(a) /\ b \in space \cup past
    BY DEF Copied, To, From
  <2> QED
    BY <1>8, <1>9, <2>2, <2>3
(* Earlier destinations meet neither this source nor this destination. *)
<1>11. ASSUME NEW c \in 1..slot
       PROVE  To(c) \cap To(a) = {} /\ To(c) \cap BitRange(i.src, i.n) = {}
  <2> DEFINE j == verified[c]
  <2>1. c \in 1..Len(verified) /\ a \in 1..Len(verified) /\ c # a
    BY <1>2, <1>3, <1>4, Sizes
  <2>2. c \in 1..ProcessorN
    BY <1>3, <2>1
  <2>3. j \in Inst
    BY <2>2, Verdict
  <2>4. j.n \in Nat /\ j.dst \in Nat /\ j.src \in Nat
    BY <2>3 DEF Inst
  <2>5. j.n > 0 => /\ CLI!Apart(i.src, i.n, j.dst, j.n)
                   /\ CLI!Apart(i.dst, i.n, j.dst, j.n)
    BY <1>3, <1>4, <2>1, Zenon DEF CLI!ConflictFree
  <2> HIDE DEF i, j
  <2>6. /\ BitRange(j.dst, j.n) \cap BitRange(i.dst, i.n) = {}
        /\ BitRange(j.dst, j.n) \cap BitRange(i.src, i.n) = {}
    BY <1>4, <2>4, <2>5 DEF CLI!Apart, BitRange
  <2> QED
    BY <2>6 DEF i, j, To
<1>12. Halfway(space)
  BY <1>1 DEF GuardInv, Turn
<1>13. 1..a = 1..slot \cup {a}
  BY <1>4
<1>14. ASSUME NEW b \in Bits, b \in To(a)
       PROVE  /\ From(a, b) \in space <=> From(a, b) \in before
              /\ \A c \in 1..slot : b \notin To(c)
  <2>1. From(a, b) \in BitRange(i.src, i.n)
    BY <1>4, <1>14 DEF To, From, BitRange
  <2>2. From(a, b) \in Bits /\ \A c \in 1..slot : From(a, b) \notin To(c)
    BY <1>5, <1>11, <2>1
  <2>3. From(a, b) \in space <=> From(a, b) \in before
    <3> DEFINE x == From(a, b)
    <3>1. x \in Bits /\ \A c \in 1..slot : x \notin To(c)
      BY <2>2
    <3> HIDE DEF x
    <3>2. x \in space <=> x \in before
      BY <1>12, <3>1, Zenon DEF Halfway
    <3> QED
      BY <3>2 DEF x
  <2> QED
    BY <1>11, <1>14, <2>3
<1> HIDE DEF i
<1>15. ASSUME NEW b \in Bits
       PROVE  b \in space' <=>
                \/ \E c \in 1..a : b \in To(c) /\ From(c, b) \in before
                \/ b \in before /\ \A c \in 1..a : b \notin To(c)
  <2> HIDE DEF a
  <2>1. CASE b \in To(a)
    BY <1>10, <1>13, <1>14, <2>1, Zenon
  <2>2. CASE b \notin To(a)
    <3>1. b \in space' <=> b \in space
      BY <1>10, <2>2
    <3>2. b \in space <=>
            \/ \E c \in 1..slot : b \in To(c) /\ From(c, b) \in before
            \/ b \in before /\ \A c \in 1..slot : b \notin To(c)
      BY <1>12 DEF Halfway
    <3> QED
      BY <1>13, <2>2, <3>1, <3>2, Zenon
  <2> QED
    BY <2>1, <2>2
<1>16. \A c, b : To(c)' = To(c) /\ From(c, b)' = From(c, b)
  BY DEF To, From
<1> QED
  BY <1>1, <1>15, <1>16 DEF Halfway

LEMMA GuardInit == PipelineInit => GuardInv
BY DEF PipelineInit, GuardInv, Guarded

LEMMA InReqLow == InReq \in Nat /\ InReq < MmioEnd /\ InReq \in Status
<1>1. InReq = ProcessorBits /\ InReq \in Status
  BY DEF InReq, Status
<1> QED
  BY <1>1, Sizes, MmioEndType

(* The machine's own steps. *)
LEMMA GuardRun ==
  ASSUME IInv, IInv', CliInv, LoadedInv, GuardInv, Guarded, RunStep
  PROVE  GuardInv'
<1>1. /\ SameCode(start) /\ \A b \in dma : b >= MmioEnd
      /\ \A i \in notes : \A b \in BitRange(i.dst, i.n) : b >= MmioEnd
      /\ InReq \in space => InReq \in image
      /\ SourcesInSpace => rc # "VM_ERR"
      /\ pc = "slot" => Turn
  BY DEF GuardInv
<1>2. SameCode(space) /\ space \subseteq Bits /\ vm = "live"
  BY CodeFixed DEF IInv, TypeOK, Guarded
<1>3. UNCHANGED <<verifier, loaded, vm>>
  BY DEF RunStep, VmStep, RunOut, NoSpace, TickBegin, OutIdle, OutRefuse, OutWrite,
     InIdle, InRefuse, InRead, HaltStop, HaltPass, SlotNop, SlotBounds, SlotCopy, TickEnd,
     machine
<1>4. /\ Guarded' = Guarded /\ image' = image /\ verified' = verified
      /\ SourcesInSpace' = SourcesInSpace /\ Parallel' = Parallel
  BY <1>3, Still
<1>5. \A m : SameCode(m)' <=> SameCode(m)
  BY <1>4 DEF SameCode
<1>6. before' = IF pc = "halt" /\ pc' = "slot" THEN space ELSE before
  BY DEF RunStep
<1>7. ASSUME SameCode(start'), \A b \in dma' : b >= MmioEnd,
             \A i \in notes' : \A b \in BitRange(i.dst, i.n) : b >= MmioEnd,
             InReq \in space' => InReq \in image,
             SourcesInSpace => rc' # "VM_ERR",
             pc' = "slot" => Turn'
      PROVE  GuardInv'
  <2>1. SameCode(start)'
    BY <1>4, <1>7 DEF SameCode
  <2> QED
    BY <1>4, <1>7, <2>1 DEF GuardInv
<1>8. CASE RunOut \/ HaltStop
  <2>1. /\ UNCHANGED <<start, dma, notes, space>> /\ rc' # "VM_ERR" /\ pc' = "host"
    BY <1>8 DEF RunOut, HaltStop, history
  <2> QED
    BY <1>1, <1>7, <2>1
<1>9. CASE NoSpace
  BY <1>2, <1>9 DEF NoSpace
<1>10. CASE TickBegin
  <2>1. space' = space /\ start' = space /\ dma' = {} /\ notes' = {} /\ rc' = rc /\ pc' = "out"
    BY <1>10 DEF TickBegin, FreshHistory
  <2> QED
    BY <1>1, <1>2, <1>7, <2>1
<1>11. CASE OutIdle \/ OutRefuse \/ OutWrite
  <2>1. /\ pc' = "in" /\ start' = start /\ dma' = {} /\ notes' = {} /\ rc' = rc
        /\ InReq \in space' => InReq \in space
    BY <1>11, OutStep
  <2> QED
    BY <1>1, <1>7, <2>1
<1>12. CASE InIdle \/ InRefuse \/ InRead
  <2>1. /\ pc' = "halt" /\ start' = start /\ notes' = {} /\ rc' = rc /\ InReq \notin space'
        /\ dma' # {} => InReq \in space /\ ~Refused(in_dst, in_len)
        /\ dma' \subseteq BitRange(in_dst, in_len)
    BY <1>12, InStep
  <2>2. ASSUME NEW b \in dma' PROVE b >= MmioEnd
    <3>1. in_dst >= MmioEnd
      BY <2>1, <2>2, InputWorkspace
    <3>2. b \in Int /\ b >= in_dst
      BY <2>1, <2>2, UIntNat DEF BitRange, in_dst, in_len
    <3> QED
      BY <3>1, <3>2, UIntNat, MmioEndType DEF in_dst
  <2> QED
    BY <1>1, <1>7, <2>1, <2>2
<1>13. CASE HaltPass
  <2>1. /\ UNCHANGED <<start, dma, notes, space, rc>> /\ pc = "halt" /\ pc' = "slot" /\ slot' = 0
        /\ Halt \notin space
    BY <1>13 DEF HaltPass, history
  <2>2. InReq \notin space
    BY <2>1 DEF IInv, ServiceInv
  <2>3. before' = space
    BY <1>6, <2>1
  <2>4. SameCode(before)' /\ Halfway(space)'
    <3>1. SameCode(before')
      BY <1>2, <2>3
    <3> QED
      BY <1>4, <2>1, <2>3, <3>1 DEF SameCode, Halfway
  <2> QED
    BY <1>1, <1>2, <1>7, <2>1, <2>2, <2>3, <2>4 DEF Turn
<1>14. CASE SlotNop
  <2>1. /\ UNCHANGED <<start, dma, notes, space, rc>> /\ pc = "slot" /\ slot < ProcessorN
        /\ slot' = slot + 1 /\ Fetched.n = 0
    BY <1>14 DEF SlotNop, history
  <2>2. before' = before /\ Turn
    BY <1>1, <1>6, <2>1
  <2>3. To(slot + 1) = {}
    <3>1. Fetched = verified[slot + 1] /\ Fetched \in Inst
      BY <2>1, FetchedVerified
    <3>2. BitRange(Fetched.dst, Fetched.n) = {}
      BY <2>1, <3>1 DEF BitRange, Inst
    <3> QED
      BY <3>1, <3>2 DEF To
  <2>4. Halfway(space) => Halfway(space)'
    <3> SUFFICES ASSUME Halfway(space), NEW b \in Bits
                 PROVE  b \in space <=>
                          \/ \E c \in 1..(slot + 1) : b \in To(c) /\ From(c, b) \in before
                          \/ b \in before /\ \A c \in 1..(slot + 1) : b \notin To(c)
      BY <1>4, <2>1, <2>2 DEF Halfway, To, From
    <3>1. 1..(slot + 1) = 1..slot \cup {slot + 1}
      BY DEF IInv, TypeOK
    <3> QED
      BY <2>3, <3>1, Zenon DEF Halfway
  <2>5. Turn'
    BY <1>4, <1>5, <2>1, <2>2, <2>4 DEF Turn, SameCode
  <2> QED
    BY <1>1, <1>7, <2>1, <2>5
<1>15. CASE SlotBounds
  <2>1. /\ UNCHANGED <<start, dma, notes, space>> /\ pc = "slot" /\ slot < ProcessorN
        /\ pc' = "host" /\ Fetched.n # 0 /\ (SrcOut(Fetched) \/ DstOut(Fetched))
    BY <1>15 DEF SlotBounds, history
  <2>2. ~SourcesInSpace
    BY <2>1, FetchedVerified
  <2> QED
    BY <1>1, <1>7, <2>1, <2>2
<1>16. CASE SlotCopy
  <2>1. /\ UNCHANGED <<start, dma, rc>> /\ pc = "slot" /\ slot < ProcessorN
        /\ notes' = notes \cup {Fetched} /\ Fetched.n # 0
    BY <1>16 DEF SlotCopy
  <2>2. before' = before /\ Turn
    BY <1>1, <1>6, <1>16, <2>1 DEF SlotCopy
  <2>3. Fetched \in Inst /\ Fetched.dst >= MmioEnd
    BY <2>1, FetchedVerified
  <2>4. ASSUME NEW b \in BitRange(Fetched.dst, Fetched.n) PROVE b >= MmioEnd
    BY <2>3, MmioEndType DEF BitRange, Inst
  <2>5. InReq \in space' => InReq \in space
    <3>1. PICK past \in OverReads :
            space' = bitcpy(space \cup past, Fetched.n, Fetched.src, Fetched.dst) \ past
      BY <1>16 DEF SlotCopy
    <3>2. InReq \notin BitRange(Fetched.dst, Fetched.n)
      BY <2>4, InReqLow, MmioEndType
    <3>3. InReq \in bitcpy(space \cup past, Fetched.n, Fetched.src, Fetched.dst)
            => InReq \in space \cup past
      BY <3>2, bitcpyFrame DEF Agree
    <3> QED
      BY <3>1, <3>3
  <2>6. Parallel => Halfway(space)'
    BY <1>4, <1>16, <2>2, HalfwayCopy
  <2>7. Turn'
    BY <1>4, <2>2, <2>6 DEF Turn, SameCode
  <2> QED
    BY <1>1, <1>7, <2>1, <2>4, <2>5, <2>7
<1>17. CASE TickEnd
  <2>1. UNCHANGED <<start, dma, notes, space, rc>> /\ pc' = "tick"
    BY <1>17 DEF TickEnd, history, call
  <2> QED
    BY <1>1, <1>7, <2>1
<1> QED
  BY <1>8, <1>9, <1>10, <1>11, <1>12, <1>13, <1>14, <1>15, <1>16, <1>17
     DEF RunStep, VmStep

LEMMA GuardNext ==
  ASSUME IInv, IInv', CliInv, LoadedInv, GuardInv, [PipelineNext]_pipeline
  PROVE  GuardInv'
<1> SUFFICES ASSUME Guarded' PROVE GuardInv'
  BY DEF GuardInv
<1>1. loaded' /\ vm' = "live"
  BY DEF Guarded
<1>2. CASE Verify
  BY <1>1, <1>2, LoadedNext DEF Verify
<1>3. CASE Start
  BY <1>1, <1>3 DEF Start, VmInit, LoadedInv
<1>4. CASE LoadImage
  <2>1. /\ space' = image /\ start' = space' /\ dma' = {} /\ notes' = {}
        /\ rc' = "none" /\ pc' = "host" /\ args' = args
    BY <1>4 DEF LoadImage, Load, FreshHistory, call, verifier
  <2>2. image' = image
    BY <2>1 DEF image
  <2> QED
    BY <2>1, <2>2 DEF GuardInv, SameCode
<1>5. CASE Run
  <2>1. UNCHANGED <<verifier, loaded, vm, space, start, dma, notes, rc>> /\ pc' = "tick"
    BY <1>5 DEF Run, CallRun, machine, history
  <2> QED
    BY <2>1, Still DEF GuardInv, SameCode
<1>6. CASE Finish
  BY <1>1, <1>6 DEF Finish, VmFree
<1>7. CASE RunStep
  <2>1. UNCHANGED <<verifier, loaded, vm>>
    BY <1>7 DEF RunStep, VmStep, RunOut, NoSpace, TickBegin, OutIdle, OutRefuse, OutWrite,
       InIdle, InRefuse, InRead, HaltStop, HaltPass, SlotNop, SlotBounds, SlotCopy, TickEnd,
       machine
  <2> QED
    BY <1>7, <2>1, Still, GuardRun
<1>8. CASE UNCHANGED pipeline
  <2>1. UNCHANGED <<verifier, loaded, vm, space, start, dma, notes, rc, pc, slot, before>>
    BY <1>8 DEF pipeline, vars, machine, call, history
  <2>2. /\ Guarded' = Guarded /\ image' = image /\ verified' = verified
        /\ SourcesInSpace' = SourcesInSpace /\ Parallel' = Parallel
    BY <2>1, Still
  <2>3. Turn' <=> Turn
    BY <2>1, <2>2 DEF Turn, SameCode, Halfway, To, From
  <2> QED
    BY <2>1, <2>2, <2>3 DEF GuardInv, SameCode
<1> QED
  BY <1>2, <1>3, <1>4, <1>5, <1>6, <1>7, <1>8 DEF PipelineNext

-----------------------------------------------------------------------------
LEMMA SafeNext ==
  ASSUME IInv, CliInv, LoadedInv, [PipelineNext]_pipeline
  PROVE  IInv' /\ CliInv' /\ LoadedInv'
<1>1. [Next]_vars
  BY StepsOfVM DEF pipeline
<1>2. IInv'
  BY <1>1, NextInv
<1>3. CLI!Next \/ UNCHANGED verifier
  BY DEF PipelineNext, Verify, Start, LoadImage, Run, Finish, RunStep, pipeline
<1>4. CliInv'
  BY <1>3, CliNext, CliSame
<1> QED
  BY <1>2, <1>4, LoadedNext

LEMMA Safety == PipelineSpec => [](IInv /\ CliInv /\ LoadedInv)
<1>1. PipelineInit => IInv /\ CliInv /\ LoadedInv
  BY InitInv, CliInit DEF PipelineInit, LoadedInv
<1>2. IInv /\ CliInv /\ LoadedInv /\ [PipelineNext]_pipeline
        => (IInv /\ CliInv /\ LoadedInv)'
  BY SafeNext
<1> QED
  BY <1>1, <1>2, PTL DEF PipelineSpec

LEMMA GuardSafety == PipelineSpec => []GuardInv
<1> DEFINE K == IInv /\ CliInv /\ LoadedInv
<1>1. K /\ K'  /\ GuardInv /\ [PipelineNext]_pipeline => GuardInv'
  BY GuardNext
<1>2. PipelineSpec => []K
  BY Safety
<1> HIDE DEF K
<1> QED
  BY <1>1, <1>2, GuardInit, PTL DEF PipelineSpec

(* The verifier reads every file it accepts in full, and its state stays well *)
(* formed whatever files, configuration and arguments it is given.           *)
THEOREM VerifierTypeCorrect == PipelineSpec => []VerifierTypeOK
<1>1. CliInv => VerifierTypeOK
  BY DEF CliInv, VerifierTypeOK
<1> QED
  BY <1>1, Safety, PTL

(* An exit code of 0 means that every file named was found, whole, and passed *)
(* every check asked for; and once the layers are read the exit code is their *)
(* verdict, 0 if each passed and 1 if one did not.  (A 1 may also come from a *)
(* process that died before: ExitCodesDocumented, which a run refutes.)      *)
THEOREM ExitCodesCorrect == PipelineSpec => []ExitCodes
<1>1. CliInv => ExitCodes
  BY DEF CliInv, ExitCodes
<1> QED
  BY <1>1, Safety, PTL

(* The pipeline only takes steps of the machine, so the machine's own        *)
(* guarantees hold of whatever image the verifier lets through: what it      *)
(* writes, reports, answers, prints and loads.                               *)
THEOREM MachineCorrect ==
  PipelineSpec => /\ [](TypeOK /\ ErrorReport /\ Explained /\ PrintThenHalt /\ BootLoads)
                  /\ AnswersTruthful /\ OutputFromStart
<1>1. PipelineSpec => Init /\ [][Next]_vars
  <2>1. PipelineInit => Init
    BY DEF PipelineInit
  <2>2. [PipelineNext]_pipeline => [Next]_vars
    BY StepsOfVM DEF pipeline
  <2> QED
    BY <2>1, <2>2, PTL DEF PipelineSpec
<1>2. IInv => TypeOK /\ ErrorReport /\ Explained /\ PrintThenHalt
  <2>1. IInv => TypeOK /\ PrintThenHalt
    BY DEF IInv, ServiceInv
  <2>2. IInv => ErrorReport
    BY DEF IInv, ErrorInv, Report, ErrorReport
  <2>3. IInv => Explained
    BY Zenon DEF IInv, Explained, FrameInv, Agree, Touched
  <2> QED
    BY <2>1, <2>2, <2>3
<1> QED
  BY <1>1, <1>2, Invariance, BootInvariant, BootSafety, AnswersSafety, OutputSafety, PTL

(* The Python reader reads every field of every file MSB-first, and of the   *)
(* image it reads what vm_read_inst reads: for all files, widths and sizes.  *)
THEOREM ReaderAgreesCorrect == PipelineSpec => []ReaderAgrees
BY ReaderFaithful, Safety, PTL

(* A machine whose configuration guards it fetches, in every tick, the       *)
(* instructions that were verified.                                          *)
THEOREM RunsWhatWasVerifiedCorrect == PipelineSpec => []RunsWhatWasVerified
<1>1. IInv /\ CliInv /\ LoadedInv /\ GuardInv => RunsWhatWasVerified
  BY FetchedVerified DEF RunsWhatWasVerified
<1> QED
  BY <1>1, Safety, GuardSafety, PTL

(* Such a machine never returns VM_ERR if its sources lie in the space.      *)
THEOREM NeverFailsCorrect == PipelineSpec => []NeverFails
<1>1. GuardInv => NeverFails
  BY DEF GuardInv, NeverFails
<1> QED
  BY <1>1, GuardSafety, PTL

-----------------------------------------------------------------------------
(* The turns of a verified round make one step of module Round. *)

LEMMA RoundDone ==
  ASSUME IInv, CliInv, LoadedInv, GuardInv, Parallel,
         pc = "slot", slot = ProcessorN
  PROVE  space = Ideal!Simultaneous(before)
<1> DEFINE N == ProcessorN
           round == contracts(before)
           kept == before \ UNION {Ideal!Destination(i) : i \in round}
           moved == UNION {{b \in Ideal!Destination(i) : b - i.dst + i.src \in before} :
                             i \in round}
<1>1. /\ Guarded /\ before \subseteq Bits /\ SameCode(before) /\ Halfway(space)
      /\ space \subseteq Bits
  BY DEF GuardInv, Turn, Parallel, IInv, TypeOK
<1>2. ASSUME NEW s \in 0..(N - 1)
      PROVE  vm_read_inst(before, SlotIp(s)) = verified[s + 1]
  <2>1. vm_read_inst(before, SlotIp(s)) = vm_read_inst(image, SlotIp(s))
    BY <1>1, SameFetch
  <2>2. s + 1 \in 1..N /\ s + 1 - 1 = s
    BY Sizes
  <2> QED
    BY <1>1, <2>1, <2>2, Verdict
<1>3. round = {verified[a] : a \in 1..N}
  <2>1. ASSUME NEW a \in 1..N PROVE verified[a] \in round
    <3>1. a - 1 \in 0..(N - 1) /\ a - 1 + 1 = a
      BY Sizes
    <3> QED
      BY <1>2, <3>1 DEF contracts
  <2>2. ASSUME NEW s \in 0..(N - 1) PROVE s + 1 \in 1..N
    BY Sizes
  <2> QED
    BY <1>2, <2>1, <2>2 DEF contracts
<1>4. ASSUME NEW a \in 1..N PROVE To(a) \subseteq Bits /\ To(a) = Ideal!Destination(verified[a])
  <2> DEFINE i == verified[a]
  <2>1. i \in Inst /\ (i.n > 0 => i.dst + i.n <= SpaceBits)
    BY <1>1, Verdict
  <2>2. i.n \in Nat /\ i.dst \in Nat
    BY <2>1 DEF Inst
  <2> HIDE DEF i
  <2>3. BitRange(i.dst, i.n) \subseteq Bits
    <3>1. CASE i.n = 0
      BY <2>2, <3>1 DEF BitRange
    <3>2. CASE i.n > 0
      BY <2>1, <2>2, <3>2, RangeInSpace
    <3> QED
      BY <2>2, <3>1, <3>2
  <2>4. BitRange(i.dst, i.n) = Ideal!Destination(i)
    BY DEF BitRange, Ideal!Destination
  <2> QED
    BY <2>3, <2>4 DEF i, To
<1>5. \A b : b \in kept <=> b \in before /\ \A a \in 1..N : b \notin To(a)
  <2> HIDE DEF round
  <2>1. \A b : b \in kept <=>
          b \in before /\ \A i \in {verified[a] : a \in 1..N} : b \notin Ideal!Destination(i)
    BY <1>3
  <2> QED
    BY <1>4, <2>1
<1>6. \A b : b \in moved <=> \E a \in 1..N : b \in To(a) /\ From(a, b) \in before
  <2> HIDE DEF round
  <2>1. \A b : b \in moved <=>
          \E i \in {verified[a] : a \in 1..N} :
            b \in Ideal!Destination(i) /\ b - i.dst + i.src \in before
    BY <1>3
  <2> QED
    BY <1>4, <2>1 DEF From
<1>7. \A b \in Bits : b \in space <=> b \in kept \cup moved
  BY <1>1, <1>5, <1>6, Zenon DEF Halfway
<1>8. kept \cup moved \subseteq Bits
  BY <1>1, <1>4, <1>5, <1>6
<1>9. Ideal!Simultaneous(before) = kept \cup moved
  BY DEF Ideal!Simultaneous
<1> HIDE DEF kept, moved
<1> QED
  BY <1>1, <1>7, <1>8, <1>9

LEMMA RoundStep ==
  ASSUME IInv, IInv', CliInv, LoadedInv, GuardInv, Parallel, RunStep
  PROVE  /\ Parallel' = Parallel
         /\ LET mem == IF pc = "slot" THEN before ELSE space
                phase == IF pc = "slot" THEN "copies" ELSE "device"
            IN  \/ UNCHANGED <<mem, phase>>
                \/ /\ phase = "device" /\ phase' = "device" /\ mem' \subseteq Bits
                   /\ mem' \ Ideal!DeviceBits(mem) = mem \ Ideal!DeviceBits(mem)
                \/ /\ phase = "device" /\ phase' = "copies"
                   /\ Halt \notin mem /\ InReq \notin mem /\ mem' = mem
                \/ phase = "copies" /\ phase' = "device" /\ mem' = Ideal!Simultaneous(mem)
<1> DEFINE mem == IF pc = "slot" THEN before ELSE space
           phase == IF pc = "slot" THEN "copies" ELSE "device"
<1>1. UNCHANGED <<verifier, loaded, vm>>
  BY DEF RunStep, VmStep, RunOut, NoSpace, TickBegin, OutIdle, OutRefuse, OutWrite,
     InIdle, InRefuse, InRead, HaltStop, HaltPass, SlotNop, SlotBounds, SlotCopy, TickEnd,
     machine
<1>2. Parallel' = Parallel
  BY <1>1, Still
<1>3. before' = IF pc = "halt" /\ pc' = "slot" THEN space ELSE before
  BY DEF RunStep
<1>4. Guarded /\ SourcesInSpace /\ vm = "live" /\ space' \subseteq Bits
  BY DEF Parallel, Guarded, IInv, TypeOK
<1>5. CASE RunOut \/ TickBegin \/ HaltStop
  <2>1. pc # "slot" /\ pc' # "slot" /\ space' = space
    BY <1>5 DEF RunOut, TickBegin, HaltStop
  <2> QED
    BY <1>2, <2>1
<1>6. CASE NoSpace
  BY <1>4, <1>6 DEF NoSpace
<1>7. CASE OutIdle \/ OutRefuse \/ OutWrite
  <2>1. pc = "out" /\ pc' = "in" /\ Agree(space, space', Status)
    BY <1>7, OutStep
  <2>2. space' \ Ideal!DeviceBits(space) = space \ Ideal!DeviceBits(space)
    BY <2>1, Zenon DEF Agree, Ideal!DeviceBits
  <2> QED
    BY <1>2, <1>4, <2>1, <2>2
<1>8. CASE InIdle \/ InRefuse \/ InRead
  <2>1. /\ pc = "in" /\ pc' = "halt" /\ Agree(space, space', Status \cup dma')
        /\ dma' # {} => InReq \in space
        /\ dma' \subseteq BitRange(in_dst, in_len)
    BY <1>8, InStep
  <2>2. Status \cup dma' \subseteq Ideal!DeviceBits(space)
    BY <2>1 DEF Ideal!DeviceBits, input_bits, in_dst, in_len
  <2>3. space' \ Ideal!DeviceBits(space) = space \ Ideal!DeviceBits(space)
    BY <2>1, <2>2, Zenon DEF Agree
  <2> QED
    BY <1>2, <1>4, <2>1, <2>3
<1>9. CASE HaltPass
  <2>1. /\ pc = "halt" /\ pc' = "slot" /\ space' = space /\ Halt \notin space
        /\ InReq \notin space
    BY <1>9 DEF HaltPass, IInv, ServiceInv
  <2> QED
    BY <1>2, <1>3, <2>1
<1>10. CASE SlotNop \/ SlotCopy
  <2>1. pc = "slot" /\ pc' = "slot"
    BY <1>10 DEF SlotNop, SlotCopy
  <2> QED
    BY <1>2, <1>3, <2>1
<1>11. CASE SlotBounds
  <2>1. /\ pc = "slot" /\ slot < ProcessorN
        /\ Fetched.n # 0 /\ (SrcOut(Fetched) \/ DstOut(Fetched))
    BY <1>11 DEF SlotBounds
  <2> QED
    BY <1>4, <2>1, FetchedVerified
<1>12. CASE TickEnd
  <2>1. pc = "slot" /\ slot = ProcessorN /\ pc' = "tick" /\ space' = space
    BY <1>12 DEF TickEnd
  <2>2. space = Ideal!Simultaneous(before)
    BY <2>1, RoundDone
  <2> QED
    BY <1>2, <2>1, <2>2
<1> QED
  BY <1>5, <1>6, <1>7, <1>8, <1>9, <1>10, <1>11, <1>12 DEF RunStep, VmStep

LEMMA RoundNext ==
  ASSUME IInv, IInv', CliInv, LoadedInv, GuardInv, [PipelineNext]_pipeline
  PROVE  [Ideal!Next]_<<IF ~Parallel THEN {} ELSE IF pc = "slot" THEN before ELSE space,
                        IF ~Parallel THEN "off" ELSE IF pc = "slot" THEN "copies" ELSE "device">>
<1> USE DEF Ideal!Next, Ideal!Load, Ideal!Device, Ideal!Begin, Ideal!Copies, Ideal!Stop
<1>1. Parallel => loaded /\ vm = "live"
  BY DEF Parallel, Guarded
<1>2. Parallel' => loaded' /\ vm' = "live"
  BY DEF Parallel, Guarded
<1>3. CASE Verify
  <2>1. ~loaded /\ loaded' = loaded
    BY <1>3, LoadedNext DEF Verify
  <2> QED
    BY <1>1, <1>2, <2>1
<1>4. CASE Start
  <2>1. ~loaded /\ loaded' = loaded
    BY <1>4 DEF Start, VmInit, LoadedInv
  <2> QED
    BY <1>1, <1>2, <2>1
<1>5. CASE LoadImage
  <2>1. ~loaded /\ pc' = "host" /\ space' \subseteq Bits
    BY <1>5 DEF LoadImage, Load, IInv, TypeOK
  <2> QED
    BY <1>1, <2>1
<1>6. CASE Run
  <2>1. /\ UNCHANGED <<verifier, loaded, vm, space, before>>
        /\ pc = "host" /\ pc' = "tick"
    BY <1>6 DEF Run, CallRun, machine
  <2>2. Parallel' = Parallel
    BY <2>1, Still
  <2> QED
    BY <2>1, <2>2
<1>7. CASE Finish
  <2>1. pc = "host" /\ vm' = "freed"
    BY <1>7 DEF Finish, VmFree
  <2> QED
    BY <1>2, <2>1
<1>8. CASE RunStep
  <2>1. UNCHANGED <<verifier, loaded, vm>>
    BY <1>8 DEF RunStep, VmStep, RunOut, NoSpace, TickBegin, OutIdle, OutRefuse, OutWrite,
       InIdle, InRefuse, InRead, HaltStop, HaltPass, SlotNop, SlotBounds, SlotCopy, TickEnd,
       machine
  <2>2. Parallel' = Parallel
    BY <2>1, Still
  <2>3. CASE ~Parallel
    BY <2>2, <2>3
  <2>4. CASE Parallel
    BY <1>8, <2>2, <2>4, RoundStep, Zenon
  <2> QED
    BY <2>3, <2>4
<1>9. CASE UNCHANGED pipeline
  <2>1. UNCHANGED <<verifier, loaded, vm, space, before, pc>>
    BY <1>9 DEF pipeline, vars, machine
  <2>2. Parallel' = Parallel
    BY <2>1, Still
  <2> QED
    BY <2>1, <2>2
<1> QED
  BY <1>3, <1>4, <1>5, <1>6, <1>7, <1>8, <1>9 DEF PipelineNext

(* A verified round whose sources lie in the space and whose copies bitcpy   *)
(* makes exactly is one step in which every contract reads before any writes *)
(* (module Round).                                                           *)
THEOREM RoundsSimultaneousCorrect == PipelineSpec => RoundsSimultaneous
<1> DEFINE K == IInv /\ CliInv /\ LoadedInv
<1>1. PipelineInit => Ideal!Init
  BY DEF PipelineInit, Ideal!Init, Parallel, Guarded
<1>2. K /\ K'  /\ GuardInv /\ [PipelineNext]_pipeline
        => [Ideal!Next]_<<IF ~Parallel THEN {} ELSE IF pc = "slot" THEN before ELSE space,
                          IF ~Parallel THEN "off"
                          ELSE IF pc = "slot" THEN "copies" ELSE "device">>
  BY RoundNext
<1>3. PipelineSpec => []K
  BY Safety
<1> HIDE DEF K
<1> QED
  BY <1>1, <1>2, <1>3, GuardSafety, PTL DEF PipelineSpec, RoundsSimultaneous, Ideal!Spec
=============================================================================
