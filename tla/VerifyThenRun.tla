--------------------------- MODULE VerifyThenRun ---------------------------
(***************************************************************************)
(* The pipeline of docs/vm-integration.md:94-108: spaces-verify examines an *)
(* image, and only if it exits with 0 a host loads the same file into the   *)
(* VM and runs it.  The verifier looks at the instructions once; the VM     *)
(* fetches them from a memory its copies and its input write.               *)
(***************************************************************************)
EXTENDS VM

CONSTANTS Disk, Configs, Invocations, None   \* see SpacesVerify

VARIABLES
  args, at, todo, layers_data, all_layers, tick, mem_status, conflict_status,
  exit,     \* the state of spaces-verify
  loaded,   \* the host has loaded the image
  before    \* history: the space when the slots of this tick began

CLI == INSTANCE SpacesVerify

(* A file has a size, and the host runs one of them. *)
ASSUME PipelineAssumption ==
  /\ None \notin Int /\ Configs \subseteq CLI!Configurations
  /\ Invocations \subseteq CLI!CommandLines
  /\ \A p \in DOMAIN Disk : Disk[p].bytes \in Nat /\ Disk[p].ones \cap Bits \in Programs

verifier == <<args, at, todo, layers_data, all_layers, tick, mem_status,
              conflict_status, exit>>
pipeline == <<vars, verifier, loaded, before>>

PipelineInit == Init /\ CLI!Init /\ loaded = FALSE /\ before = {}

-----------------------------------------------------------------------------
Verify == CLI!Next /\ UNCHANGED <<vars, loaded, before>>

(* `if [ $? -ne 0 ]; then exit 1; fi` *)
Passed == exit = 0 /\ args.image # None

image == Disk[args.image].ones \cap Bits

Start == Passed /\ VmInit /\ UNCHANGED <<verifier, loaded, before>>

LoadImage ==
  /\ Passed /\ ~loaded
  /\ Load /\ space' = image
  /\ loaded' = TRUE
  /\ UNCHANGED <<verifier, before>>

Run == loaded /\ vm = "live" /\ CallRun /\ UNCHANGED <<verifier, loaded, before>>

Finish == loaded /\ rc # "none" /\ VmFree /\ UNCHANGED <<verifier, loaded, before>>

RunStep ==
  /\ VmStep
  /\ before' = IF pc = "halt" /\ pc' = "slot" THEN space ELSE before
  /\ UNCHANGED <<verifier, loaded>>

PipelineNext == Verify \/ Start \/ LoadImage \/ Run \/ Finish \/ RunStep

PipelineSpec == PipelineInit /\ [][PipelineNext]_pipeline

-----------------------------------------------------------------------------
(* When a verdict is about the machine that runs: the configuration has the  *)
(* VM's sizes, L1 was not switched off, its regions keep every destination   *)
(* out of the processor and its registers, and so does the input request of  *)
(* the image.                                                                *)

SameGeometry(c) ==
  c.space_bytes = SpaceBytes /\ c.processor_n = ProcessorN /\ CLI!addr_bits(c) = AddrBits

GuardsMachine(c) ==
  \/ \E g \in 1..Len(c.protected) :
       LET p == c.protected[g]
       IN  CLI!Bounded(p) /\ p.begin <= 0 /\ p.end >= MmioEnd
  \/ /\ c.allowed # <<>>
     /\ \A g \in 1..Len(c.allowed) :
          CLI!Bounded(c.allowed[g]) => c.allowed[g].begin >= MmioEnd

InputTame ==
  InReq \in image =>
    LET to == UInt(image, InDst)
    IN  Refused(to, UInt(image, InLen)) \/ to >= MmioEnd

Guarded ==
  /\ loaded /\ vm = "live"
  /\ ~args.l2_only /\ SameGeometry(args.config) /\ GuardsMachine(args.config)
  /\ InputTame

verified == all_layers[1]
Active == {a \in 1..Len(verified) : verified[a].n > 0}

SourcesInSpace == \A a \in Active : verified[a].src + verified[a].n <= SpaceBits

(* The copies bitcpy makes as asked: see module Bitcpy. *)
ExactCopies ==
  \A a \in Active :
    LET i == verified[a]
    IN  ~SkewedHead(i.n, i.src, i.dst) /\ ~WordBody(i.n, i.src, i.dst)

-----------------------------------------------------------------------------
(* The verifier's properties, stated in module SpacesVerify: types, what the *)
(* exit codes 0 and 1 say of layers read, what README.md:122 says of them.   *)
VerifierTypeOK == CLI!TypeOK
ExitCodes == CLI!ExitCodes
ExitCodesDocumented == CLI!ExitCodesDocumented

(* What "MSB-first" (image_reader.py:64) says of a number read from a file.  *)
MsbFirst(v, data, pos, w) ==
  /\ v < pow2[w]
  /\ \A b \in BitRange(pos, w) : Shr(v, pos + w - 1 - b) % 2 = 1 <=> b \in data.ones

(* The reader with its byte windows, shifts and masks decodes every field    *)
(* that lies in the file, of any width and also where it straddles bytes;    *)
(* and what it decodes of the image is what vm_read_inst makes of it.        *)
ReaderAgrees ==
  /\ exit = 0 =>
       LET w == CLI!addr_bits(args.config)
       IN  \A t \in 1..Len(all_layers) : \A a \in 1..Len(all_layers[t]) :
             LET ip == (a - 1) * 3 * w
                 i == all_layers[t][a]
             IN  ip + 3 * w <= 8 * layers_data[t].bytes =>
                   /\ MsbFirst(i.n, layers_data[t], ip, w)
                   /\ MsbFirst(i.dst, layers_data[t], ip + w, w)
                   /\ MsbFirst(i.src, layers_data[t], ip + 2 * w, w)
  /\ exit = 0 /\ args.image # None /\ SameGeometry(args.config) =>
       verified = [a \in 1..ProcessorN |-> vm_read_inst(image, SlotIp(a - 1))]

(* "The VM fetches each instruction when its turn comes": in every tick, it  *)
(* fetches the one that was verified, whatever the slots before it copied    *)
(* and whatever input came in.                                               *)
RunsWhatWasVerified ==
  Guarded /\ pc = "slot" /\ slot < ProcessorN => Fetched = verified[slot + 1]

(* Nor does it ever fail, if its sources lie in the space, which L1 does not *)
(* look at.                                                                  *)
NeverFails == Guarded /\ SourcesInSpace => rc # "VM_ERR"

(* "If spaces-verify said PASS, vm_tick must not fail with VM_ERR"           *)
(* (docs/vm-integration.md:32).                                              *)
PassNeverFails == Guarded => rc # "VM_ERR"

(* A verified round whose copies bitcpy makes exactly runs as one step, all  *)
(* copies at once, though the slots take their turns: README.md:49.          *)
Parallel == Guarded /\ SourcesInSpace /\ ExactCopies

contracts(m) == {vm_read_inst(m, SlotIp(s)) : s \in 0..(ProcessorN - 1)}
input_bits(m) == BitRange(UInt(m, InDst), UInt(m, InLen))

Ideal == INSTANCE Round WITH
  Contracts <- contracts, Input <- input_bits,
  mem <- IF ~Parallel THEN {} ELSE IF pc = "slot" THEN before ELSE space,
  phase <- IF ~Parallel THEN "off" ELSE IF pc = "slot" THEN "copies" ELSE "device"

RoundsSimultaneous == Ideal!Spec
=============================================================================
