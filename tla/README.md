# smartcontract-verifier in TLA+

The repository is a verifier for programs of a one-instruction machine and the
runtime of that machine. A *space* is a bit-addressed memory; its first bits are
a *processor* of `processor_n` slots, each an instruction `copy(n, dst, src)`; a
*tick* serves the memory-mapped I/O and then executes every slot in turn. A
*contract* is an instruction of a slot, a *layer* is one processor image, a
*round* is one tick. `spaces-verify` reads layer images and checks them: L1
(destinations in bounds and in permitted regions) and L2 (no bit of a round in
two source or destination intervals).

Paths below are relative to the repository's root, as in `PROJECT.json`
(`src/src/vm/space.c` there is `src/vm/space.c` of the repository).

## 1. Inventory

| part | code | state it keeps | operations | interacts with |
|---|---|---|---|---|
| bitcpy | `src/vm/bitcpy.c` | the buffer it works on, byte pointers, bits left | one: copy n bits between bit addresses | called by the tick engine on `vm->space` |
| memory map, instruction codec | `src/vm/space.c`, `space.h` | none (a layout derived from two sizes) | `vm_compute_mmio_layout`, `vm_read_uint`, `vm_write_uint`, `vm_read_inst`, `vm_write_inst` | used by every other part of the VM; mirrored by the image reader |
| tick engine | `src/vm/space.c` | space, `tick_counter`, `last_err` | `vm_init`, `vm_free`, `vm_tick`, `vm_run` | bitcpy, the services, hooks of the host |
| MMIO services | `src/vm/space.c` | handshake registers in the space; flags and position of two `FILE`s | `service_out`, `service_in` | stdio; the program sees only registers |
| boot loader builder | `src/vm/space.c` | none | `vm_build_boot_loader_layer` | writes a layer that patches itself when ticked |
| host API | `src/vm/space.h` | a C program that owns the VM | loads memory, builds layers, runs, frees, installs hooks | all of the VM |
| 32-bit invariants | `src/vm/invariants.c` | writes `last_err` | `vm_invariants_strict_align32_check` | a host may call it between ticks; nothing in the repository does |
| configuration | `src/config.py`, `config/default_config.json` | sizes, regions | load, derive `addr_bits`, `Region.contains`, `Region.intersects` | image reader, L1 |
| image reader | `src/image_reader.py` | none | parse a layer file to instructions | L1 and L2 read what it returns |
| L1 memory check | `src/memory_check.py` | none | check a layer | report |
| L2 conflict check | `src/conflict_check.py` | intervals, conflicts of one round | check a round, a list of rounds, a batch | report |
| snapshot | `src/snapshot.py` | a file: header, then the space | save, load, make a fixture | image format |
| report, CLI | `src/report.py`, `src/spaces_verify.py` | results of both levels | collect files, run the levels, print, exit code | everything in Python |

What is hard here, and the property that part must have:

* **bitcpy**: several code paths chosen by offsets and size, masked stores at both
  ends, loads beyond the source. It must change nothing outside its destination,
  return, and move the right bits.
* **tick engine**: programs rewrite themselves while they run, and a tick that
  fails keeps what it did. Memory must stay in bounds for every program, an error
  report must be true, every change must be attributable, `vm_run` must return.
* **MMIO services**: output, input and HALT in one fixed order; input may be
  stored over the very registers that carry the answer; end-of-file and error
  flags of the stream outlive a request. Answers must match what the file did.
* **boot loader**: works only because a slot is fetched after an earlier slot of
  the same tick has patched it.
* **L2**: compares neighbours of a sorted list, and has to be right about all
  pairs; its reports have to name real regions.
* **L1, configuration, image reader**: what they accept ought to be what the VM
  can execute; empty, open and inverted regions; fields that straddle bytes.
* **CLI**: some files missing, unreadable or short, one layer or one level failing
  while others pass. Exit code 0 must mean that everything named was checked.
* **the pipeline** verify, then run (`docs/vm-integration.md:94-108`): the verifier sees
  the instructions once, the VM fetches them from a memory that its slots and its
  input write. What runs must be what was verified, and a round must have the effect
  of all its copies at once.
* **32-bit invariants**: called between ticks, about pointers whose own stores might
  overwrite them. What it lets pass must stay true until a pointer moves.

Nothing in the repository is multi-threaded. Its concurrency is that of the slots
of a tick (sequential in this runtime; L2 exists so that they could run in
parallel) and of the program, the input and the host sharing one memory.
`PROJECT.json` lists the hazards line by line with the properties that watch them.

## 2. Modules

```
BitOps ── Bitcpy ──────── MCBitcpy
   ├───── CopySpace ── VM ── VerifyThenRun ── MCVerifyThenRun
   │           │       └──── MCVM
   │           └── Invariants ── MCInvariants
   └─┐
Overlap, Regions ── SpacesVerify ──(INSTANCE)──> VerifyThenRun <──(refines)── Round
Overlap ── ConflictCheck ── MCConflictCheck
Regions ── MemoryCheck ──── MCMemoryCheck

BitOpsProofs ── BitcpyProofs               (each *Proofs extends the module it is named for)
   └── CopySpaceProofs ── VMProofs ── VerifyThenRunProofs
               └───────── InvariantsProofs
ConflictCheckProofs, MemoryCheckProofs
```

**Representation.** A memory is the *set of the bit addresses that hold 1*; a bit is
numbered as `vm_bit_get` numbers it (bit 0 is the most significant bit of byte 0).
A byte is a subset of `0..7` in the same numbering, so masks are unions and
intersections, shifts move elements. Numbers of the program stay numbers; `Number`
reads one (`v = (v << 1) | bit`, as `vm_read_uint` does), `Digits` are the bits that
writing one sets, and every reader and writer of the C code and of the Python code is made
of these two. `Number`, `Shr` and `pow2` are recursive *functions*, so that the prover can
reason about them.

* `BitOps` holds the data: numbers, bytes, masks (`keep_hi`, `keep_lo`), the 64-bit word
  loads of `bitcpy.c` on a little-endian host (`PutWord`), `Copied` (what copying
  *means*) and `bitcpy`, a closed form of what the code *does*, flaws included.
* `Bitcpy` is `bitcpy.c` as a state machine: `call`, `mem`, `n_bits`, the byte
  pointers `s` and `d`, the loop counter `i` and a `pc` that names the block of
  code. Each early return, loop turn and block is an action. The buffer is
  unbounded: a load past the end of the space finds whatever the memory has there.
* `CopySpace` is the memory map, the codec and the boot layer, for every layout
  `vm_init` accepts (`LayoutAssumption`).
* `VM` is `vm_init`, `vm_free`, `vm_build_boot_loader_layer`, `vm_run` and
  `vm_tick`. The steps of a tick are the code's: `pc` goes `tick` → `out` → `in` →
  `halt` → `slot` (once per slot) → `tick`; at `host` no call is in progress.
  `SlotCopy` uses the closed form of `BitOps`, so a step of VM is a whole bitcpy
  call, which nothing can interrupt. `rest`, `eof`, `err` are the stream `in`,
  `printed` is what `fwrite` took for `out`. `start`, `dma` and `notes` are history
  variables that only properties read. `HostWrite` is a host that writes an instruction
  or a bit between two runs; `written` remembers that it did. With one slot the boot loader
  builder writes outside the space (`space.c:366`), which is undefined: `BootSupported` tells,
  the machine ends in the state `"overrun"`, in which the host makes no more calls.
* `ConflictCheck` is one call of `_check_tick`: the loop that gathers intervals, the
  early return, the sort, the scan. `conflicts` is a set where the code has a list:
  the code reports a self overlap when it gathers it and possibly again in the scan,
  with the same contents, so only the multiplicity is lost.
* `MemoryCheck` is one call of `check_layer` with the regions of `config.py`: `k` is the
  instruction, `r` the protected region it is compared with, `pc` where the loop body
  is. A missing bound is the constant `None`. The text of a reason is abstracted to the
  rule it names.
* `Overlap` (`ConflictFree`) and `Regions` (`Region`, `LayerSafe`) state what L2 and L1
  demand as a rule without loops. `ConflictCheck.Verdict` and `MemoryCheck.LayerVerdict`,
  proved and checked, say that the loops compute those rules, so that `SpacesVerify` may
  use the rules where `main()` calls the loops.
* `SpacesVerify` is one process of `spaces-verify`: `at` is where `main()` is, each early
  exit an action with its exit code, each turn of `_merge_memory_results` and
  `check_layers` one step. The reader is `_read_bits` with its byte window, shift and
  mask. A file is a record of its length and its one bits.
* `VerifyThenRun` composes it with `VM`: the host starts, loads and runs the image only
  after exit code 0. `verifier` and VM never step together; what couples them is the
  file. `Guarded` says when a verdict is about the machine that runs: same sizes in the
  configuration as in the VM, L1 not switched off, regions that keep every destination
  out of processor and registers, and no request in the image to read input there.
* `Round` is the abstract specification of a verified program: rounds in which every
  contract reads before any of them writes, and between them devices that write only
  their registers and the input asked for. `VerifyThenRun` implements it: `mem` is the
  space between ticks and, while the slots take their turns, the space the round
  began with; only the step that ends the tick is a `Copies` step.
* `Invariants` is the check of `invariants.c` as an action between the ticks of a program
  that moves pointers (`MovePointer`) and stores through RP (`Store24`, only while the
  check stands). The program is no part of the repository: `Tick`s of it are modelled by
  their effect on the space. The history variables `cells` and `stored` remember where the
  last check found the pointer cells and which bits have been stored to since; `Reached` says
  that a store has got into a cell that begins in the first 24 bits of an aligned word,
  after its first.
* `MC*` modules give the constants their values for TLC; `*Proofs` modules hold
  theorems and nothing else.

Operators whose name ends in `Mutant` are plausible wrong versions of the definition
that follows them. No specification uses them; they show, one for each property,
that the property fails when the code is wrong in that way.

## 3. Runs

| run | question | properties |
|---|---|---|
| `bitcpy` | what does every path of bitcpy do | `TypeOK`, `OnlyDestination`, `MatchesBitcpy`, `CopiesExactly`, `Terminates` |
| `bitcpy_head` | does it do what the README says | `CopiesAsDocumented` (violated) |
| `vm` | does the VM stay sound under hostile programs, inputs and files | `TypeOK`, `ErrorReport`, `Explained`, `PrintThenHalt`, `AnswersTruthful`, `OutputFromStart` |
| `boot` | does a tick of the boot layer load the layer it points at, and does every `vm_run` return | `TypeOK`, `BootLoads`, `Returns` |
| `boot_anywhere` | does it for every pointer the builder accepts | `BootLoadsAnywhere` (violated) |
| `conflict_check` | is the neighbour scan right about a round | `TypeOK`, `Verdict`, `ReportsReal`, `LowestReported`, `Terminates` |
| `memory_check` | does L1 accept and report the right things | `TypeOK`, `Sound`, `Exact`, `Once`, `LayerVerdict`, `Terminates` |
| `invariants` | what can undo the alignment check, and has every refusal a reason | `AccessesInWorkspace`, `NoFalseAlarm`, `StoreKeepsPointers` |
| `invariants_cells` | does it protect the pointer cells, as its comment says | `CellsProtected` (violated) |
| `verify_then_run` | is what runs what was verified, and does it run as a round | `VerifierTypeOK`, `ExitCodes`, `ReaderAgrees`, `RunsWhatWasVerified`, `NeverFails`, `RoundsSimultaneous` |
| `verify_documented` | does PASS exclude VM_ERR | `PassNeverFails` (violated) |
| `exit_documented` | does exit code 1 mean FAIL | `ExitCodesDocumented` (violated) |

**Bounds, and why they are enough.**

* `bitcpy`: the code depends on an offset only through `src % 8`, `dst % 8` and their
  order, and on the size through 0, 8, the head, and 64. `MCFarCalls` has several
  offsets for each order and sizes on both sides of 8, of one word and of two;
  `MCNearCalls` has touching and overlapping ranges both ways. Two memories,
  a pattern no short shift maps to itself and its complement, make a bit that is
  wrongly set and one that is wrongly cleared both visible.
* `vm` and `boot` share one machine (`MCVM`): 32 bytes, 8-bit addresses and three slots, the
  least that has room for a boot layer's slots and for a workspace besides: the processor is
  bits 0..71, the registers end at 128. One slot can rewrite the next in the same tick, and
  copies can end exactly at, and one bit past, the end of the space.
* `vm`: programs are pairs of instructions chosen to set HALT, set requests, patch the next slot,
  break each bound, overlap and reach over the end; requests are good, misaligned,
  past the end, empty, and over the processor and over the registers themselves.
  `MaxTicks` = 3 and `Lives` = {0, 2} allow a run that ends, a second run after it,
  and one more tick that works on what the earlier ones left. `ShortCounts` = {0, 1}
  are where a failing transfer stops. `OverReads` are the extremes of what bitcpy may
  find past the space: all zeros, all ones. `Load` happens once, into the zeroed
  space, and a host has one machine. `Patches` rewrite a slot and set a register after a run.
* `boot`: the workspace holds a boot layer and, over the fields of it that are zero, a layer that
  halts; loaded programs are these two, idle or with requests for input and output, and a part of
  those of `vm`. Before the first run boot layers are built, into the zeroed space or over a loaded
  program, and over each other; pointers name each layer, a place that is no byte boundary, one
  too near the end, and one too wide, which the builder refuses. With `Lives` up to 4 the chain boot layer → boot layer → program →
  HALT runs in one call. `Returns` is checked here, under weak fairness; the programs of `vm` that
  rewrite their own slots are among those run. `bitcpy_head` and `boot_anywhere` use parts of
  the constants of `bitcpy` and `boot`.
* `conflict_check`: all pairs of instructions with `n` up to 2 on six bits, and
  triples with a long and a short `n`, which nest, touch and coincide. Three
  instructions give six intervals, and non-neighbours that overlap.
* `memory_check`: every instruction with `n` in {0, 1, 2, 4, 6} on a space of 12 bits, pairs
  for the order of reports, and configurations whose regions touch, overlap, adjoin,
  reach out of the space, are empty or inverted, or lack bounds as those of
  `config/default_config.json` do. Two protected regions are enough for one report to
  hide another.
* `invariants`: 255 bytes and one slot, the smallest space of 16-bit addresses with room for
  the table and cells. Cells lie apart, next to each other, over each other, in the
  registers, past the end, and behind the place of a store; pointers are null, the first
  and the last aligned word, and each kind the check refuses. Three ticks allow a
  pointer that moves after a check and two stores through it.
* `verify_then_run`: 32 bytes, three slots. Images: disjoint copies, some unaligned, with and
  without input and output, input over the code, HALT, skewed copies, a source past
  the end, overlapping contracts, copies onto slots and registers; a file too short,
  one too long, and one with fields of twelve bits, which straddle bytes. Configurations that protect, allow,
  leave a bound open, or describe another machine. Command lines with one image, an
  image and layers, layers alone, paths that are not there, patterns that match nothing.
  Four ticks: input arrives in one and is copied by the next.

`MaxTicks`, `Lives`, `ShortCounts`, `Programs`, `Inputs`, `Calls`, `Memories`, `Rounds`, `Patches`,
`Pointers`, `Data`, `Disk`, `Invocations`, `Configs` and `Layers` are all constants: the theorems of section 4 are about any values of them.

**Fairness.** `Bitcpy`, `ConflictCheck` and `MemoryCheck` assume `WF_vars(Next)`: each is one call of
sequential code that waits for nothing. `VM` assumes `WF_vars(VmStep)`, the steps
inside a call of `vm_run`, for the same reason (`fread` and `fwrite` are taken to
return); nothing obliges the host to call. `Invariants`, `VerifyThenRun` and `Round` state
safety only and assume no fairness. Deadlock is allowed where a behaviour is a
single call or one pipeline, and checked for `VM` and `Invariants`.

**What the runs found.**

* `bitcpy.c:152`: when `src % 8 < dst % 8` the head of a misaligned copy is taken from
  one byte too far (`bitcpy_head`). `bitcpy.c:171`: the 64-bit loop shifts little-endian
  words as if they were big-endian (`boot_anywhere`); the loop for equal offsets (`bitcpy.c:123`)
  does too, and shifts data that needs no shift. Every copy of 8 bits or more that
  does not overlap and takes one of these ways leaves wrong bits. `README.md:47` says
  `copy` moves exactly `[src, src+n)` to `[dst, dst+n)`. `SkewedHead` and `WordBody` of
  `BitOps` say exactly which calls are affected; `CopiesExactly` says that no other is.
* `space.c:358`: `space.h:204` promises that one tick of the boot layer loads the layer
  at the pointer. It does for byte-aligned pointers only (`boot`, `boot_anywhere`).
* `memory_check.py:50`: L1 bounds `dst + n` and no level looks at `src + n`, so that an image
  `spaces-verify` passes can end in `VM_ERR`, which `docs/vm-integration.md:32` excludes
  (`verify_documented`). With sources in the space it cannot (`NeverFails`).
* `invariants.c:99`: the check asks whether RP points into a pointer cell, not whether the 24 bits
  from there on reach one. `invariants.c:98` says that the cells are protected; with RP at 1984
  and a cell at 2000 the check passes and the store writes the cell (`invariants_cells`). If the
  cell is that of RP itself, the next store may go anywhere in the space, the table included.
  `AccessesInWorkspace` and `StoreKeepsPointers` say that nothing else can undo the check.
* `spaces_verify.py:82`: `README.md:122` says exit code 1 is FAIL and 2 an error, `roadmap.md:151` 2 a
  parse error. A configuration that cannot be loaded, a layer that may not be read and one shorter
  than the space raise out of `main()`, and the process ends with 1 (`exit_documented`). What does
  hold (`ExitCodes`): 0 means that every file named was read in full and passed, and once the
  layers are read the code is their verdict.

What `verify_then_run` shows of the verifier's limits is in the conditions of its properties:
a configuration with an open bound, another geometry, `--l2-only`, or an image that asks for
input over its own code lets a verified image run instructions nobody verified
(`Guarded`); a verified round is one simultaneous step only if its copies are among those
`bitcpy` makes exactly (`ExactCopies`).

Differences met while reading that no run states as a claim: `strict_align32` (`space.h:149`) is
read nowhere; `vm_run(vm, 0)` returns `VM_OK` without touching `last_err`; `tick_end`
is not called for a tick that fails; with `processor_n = 2` the boot layer's patch slot
replaces the slot that carries the pointer, and with 1 it is written outside the
space; `roadmap.md` (L1.4.3) speaks of the union of allowed regions, the code wants one
region to hold the whole destination; an empty protected region is "intersected" by what
lies around it (hence the condition `WellFormed` of `Exact`); under
`config/default_config.json`, whose bounds are null, the processor is not protected and
every layer with an instruction fails for want of an allowed region.

## 4. Proofs

Every safety invariant and every action property the passing runs check is also a theorem,
and so is the refinement of `Round`. The proofs hold for every value of the constants that
satisfies the named assumptions of the modules: `CallsAssumption`, `MemoriesAssumption`
(natural numbers), `LayoutAssumption` (a layout `vm_init` accepts: addresses of whole bytes, wide
enough for the space), `VMAssumption` (programs lie in the space,
what lies past it does not),
`RoundsAssumption` (rounds are sequences of instructions), `MemoryCheckAssumption`
(regions have integer or missing bounds), `InvariantsAssumption` (programs lie in the space,
data in 24 bits) and `PipelineAssumption` (configurations and command lines are well typed, a
file has a size and its bits are bits).

**Induction.** What a recursive function computes for every input needs induction over its
argument. The library's induction theorem takes an operator as a parameter and cannot be
instantiated here; `SetInduction` of `BitOpsProofs` says the same of a *set* of numbers
(a set that holds 0, and `n + 1` with `n`, holds every natural), and follows from the
well-foundedness of `<` on `Nat`. A proof defines the set `{n \in Nat : P(n)}` it means
and cites it.

* `BitOpsProofs` and `CopySpaceProofs` hold lemmas and no theorem of their own. The first: what the
  recursive functions are (`Pow2Turn`, `ShrTurn`, `NumberTurn`), numbers below `pow2[w]` fit
  `w` bits (`Fits`), a number is unchanged if its bits are (`NumberSame`), shifting drops
  its last bits (`NumberShr`), its bits are those read (`NumberBits`), **what is read back is what
  was written** (`NumberDigits`), `ceil_log2` is the logarithm (`CeilLog2`), and a copy on no
  flawed path is exact (`bitcpyExact`). The second: the layout (every slot and register is in
  the space, below `MmioEnd`), frames of reads and writes, instructions and their fields read back
  or elsewhere (`ReadBack`, `InstReadBack`, `InstElsewhere`), every address of the space fits the
  address field (`AddressFits`), and what a boot layer's slots decode to (`BootReads`).
* `BitcpyProofs`: `TypeCorrect` (`n_bits`, unsigned in the code, never wraps) and
  `WritesOnlyDestination`. `OnlyDestination` alone is not inductive: a store at pointer `d`
  is inside the destination only because `d` and `n_bits` are tied to the call.
  `PointerInv` says, per `pc`, that the bits still to move end where the destination ends
  (`8 * d + n_bits = call.dst + call.n` in the fast paths once the head is done), and
  that fewer than 8 are left for the tail. The source pointer plays no part: wherever
  bitcpy loads from, its stores stay inside. `MatchesBitcpyCorrect` needs to know what is in memory
  at every turn: `Contents` says that the fallback loop has so far made the copy of `i` bits (from
  the low end or from the high end), that after `k` turns of a 64-bit loop memory is `k` turns
  of the closed form (`MoveWords`), and that the byte loops have made an exact copy of the rest
  up to where they stand. The last holds only because ranges that reach this loop are apart, so
  that nothing they load has been stored. `CopiesExactlyCorrect` follows with `bitcpyExact`.
* `VMProofs`: `TypeCorrect`, which contains memory safety (`space \subseteq Bits`: no
  program, input or file outcome makes the VM set a bit outside its allocation; the one exception,
  the boot loader builder on a machine of one slot, is the state `"overrun"`, in which `TypeOK`
  says that there is one slot),
  `ErrorReportCorrect`, `ExplainedCorrect`, `PrintThenHaltCorrect` and
  `OutputFromStartCorrect`. The invariant is `IInv == TypeOK /\ FrameInv /\ ErrorInv /\
  ServiceInv`. `FrameInv` is `Explained` in the form the frame lemmas compose:
  `Agree(start, space, Touched)`, the two memories differ only where a service, the
  tick's input or a noted copy wrote. `ErrorInv` says that a report is true wherever
  control is, that a tick begins without one and that every return code comes with
  the right one. `ServiceInv` follows both requests from the step that serves them
  to the HALT test, which is what "print first, then stop" needs, and keeps the
  space equal to `start` until the output is done, from which `OutputFromStart`, an
  action property, follows.
  `AnswersTruthfulCorrect`: a count a file moved is at most the request, which came out of a
  register of the same width, so it fits (`FitsRegister`) and reads back (`NumberDigits`);
  that EOF is reported only when the file has ended rests on `EofInv`, that the stream's flag,
  which outlives a request, is set only when nothing is left to read; IN_ERR follows the other flag,
  of this request or an earlier one.
  `BootLoadsCorrect`: `BootInv` says how far the boot layer is when each slot's turn comes:
  nothing copied before the patch slot; then the load slot's source field holds the pointer, which
  that slot, fetched only now, is decoded from; at the end the layer is in the processor. Both
  copies are byte-aligned, hence exact, and every field the
  builder writes fits because the address width is derived from the space's size. Input cannot
  arrive in between: the boot layer's registers are zero when its tick begins.
* `ConflictCheckProofs`: `TypeCorrect`, `VerdictCorrect`, `ReportsRealCorrect`,
  `LowestReportedCorrect`. The argument
  for `Verdict`: while the loop gathers, the list holds both intervals of each
  instruction exactly once (`Faithful`, `Complete`, `Distinct`); the sort permutes it and
  orders the starts; while no conflict has been reported no interval reaches into
  its successor (`ClearBelow`); then none reaches into any later one, so no two meet. In
  the other direction every report is about two different intervals that share a bit
  (`Clash`), so the round has a conflict. `LowestReported`: of two intervals that share the
  lowest contested bit the later one begins there, or its start would be contested and lower;
  its predecessor in the list reaches that bit for the same reason (`LowestFound`), so the
  scan has reported it (`Found`).
* `MemoryCheckProofs`: `TypeCorrect`, `SoundCorrect`, `ExactCorrect`, `OnceCorrect`. The
  invariant says that what is reported of every instruction already passed is `Found`, a
  function of that instruction alone, and that reports of the current one are made in
  its turn only (`SlotsBelow`). `Sound` and `Exact` then are facts about one instruction:
  half-open intervals against the bits they hold (`ContainsBits`, `IntersectsIfHeld`,
  `HeldIfIntersects`). `LayerVerdictCorrect` follows from the same `Found`.
* `InvariantsProofs`: `AccessesInWorkspaceCorrect`, `StoreKeepsPointersCorrect`,
  `NoFalseAlarmCorrect`. The invariant (`Standing`) says that while `rc = "0"` and no store has
  `Reached` a cell, the table still names the cells of the last check and their pointers pass it
  still. Its preservation by `Store24` is arithmetic: RP is a multiple of 32 outside the table
  and the cells, and 24 bits from there reach no cell that begins on a word or in a word's last
  byte (`Unchanged`). That the first store to undo the check is one into a cell of the other kind
  is what the two properties say.
* `VerifyThenRunProofs`: three layers. `CliInv` says what `main()` has established at each point
  and gives `VerifierTypeCorrect` and `ExitCodesCorrect`. Every step of the pipeline is a step or stutter of
  `VM` (`StepsOfVM`), so `VMProofs` gives `MachineCorrect`, all that it
  proves of a VM. `GuardInv` says that a guarded machine
  has in its processor the bits of the image, and in its IN registers the image's request
  or none; it is preserved because no verified destination, no register of a service and no
  input reaches the processor. `ReaderAgreesCorrect`: the big-endian number of the bytes around a
  field, shifted right and masked as `_read_bits` does, is the number of the field's bits
  (`NumberShr`, `NumberBits`), for every width and position; so both programs decode the image alike.
  From these follow `RunsWhatWasVerifiedCorrect` and `NeverFailsCorrect`. For
  `RoundsSimultaneousCorrect` the invariant also says, in the middle of a round, that the
  slots that had their turn have written what their sources held before the round, and that
  nothing else has changed (`HalfwayCopy`): L2 keeps the sources of later slots unwritten.

Each strengthened invariant was first checked by TLC on the instance of its run.

**Model-checked only.** Liveness: `Terminates` of bitcpy and of both levels, and `Returns` of `vm_run`.
That a step *is* taken needs fairness and ENABLED, which the prover's method does not cover. The other
half is proved: `StepsFall` of `BitcpyProofs`, `ConflictCheckProofs`, `MemoryCheckProofs` and
`VMProofs` gives a natural number that every step of the call decreases, so that no loop can go
round for ever, whatever the input or program; it also bounds the call, for example by
`life * (processor_n + 5) + 1` steps of `vm_run`.

## 5. Not modelled

* Snapshots: `snapshot.py` makes fixtures and only tests call it; neither the verifier nor
  the VM ever reads one. Its two writes are listed as a hazard without a property.
* `check_batch` (numbers the operations it is given and calls `_check_tick`), the counters of
  `check_layers`, the text and JSON of reports: data of the report, on which no step depends.
* Reader: the bit loop for fields wider than 64 bits, and `read_non_nop`, which nothing calls.
  `derive_addr_bits` takes the logarithm of a floating-point number; the model takes it as exact.
* Host: changing hooks between ticks (hooks other than `note_copy` see the VM and change
  nothing), a second `vm_init` of the same object. In `VerifyThenRun` the host
  does what the document's script does and writes nothing else.
* `fflush` after `fwrite`: its result is ignored, so no state of the VM depends on it.
* JSON parsing, tests and build files.
* Undefined behaviour other than the loads past the space: what happens after the boot loader
  builder has written out of the space of a machine of one slot (`"overrun"`).

## 6. Plan

Done so far: bitcpy, the VM with its host, both levels, the command line with reader and
configuration, the pipeline and its refinement of rounds, the alignment check; and the proof of every
safety property of these. Left, in order:

1. A host that changes the space between ticks of a verified program, and what it may change
   without losing `RunsWhatWasVerified`.
2. Snapshots, if anything but the tests comes to use them.
