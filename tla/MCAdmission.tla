----------------------------- MODULE MCAdmission -----------------------------
(***************************************************************************)
(* The tools of hydralisk/admission and hydralisk/evals on small inputs.   *)
(* They share no state and run in different processes, so that a behaviour *)
(* is one of one tool, and the others rest.                                *)
(***************************************************************************)
EXTENDS TerminalBench, VendorPatches, FlashPreflight, ExpertRouting,
        SparseDecode, FableLadder, FableTransform, TLC

CONSTANTS t1, t2  \* the tasks of a job

VARIABLE part     \* the tool that runs

\* Nothing tells the tasks of a job apart.
TaskSymmetry == Permutations({t1, t2})

-----------------------------------------------------------------------------
(* Payloads of an adapter.                                                 *)

LoRA(name, family, target, layer) ==
    [name |-> name, family |-> family, target |-> target, layer |-> layer,
     a |-> 8, b |-> 8, zero |-> FALSE]

\* The payload that the configuration promises, and others that differ in
\* one module: it is not there, or has no A, another rank, layer or context.
Configured ==
    {LoRA("main", "attention", t, 0) : t \in InAttention}
    \cup {LoRA("main", "mlp_shared_experts", t, 0) : t \in Targets \ InAttention}

Odder(m) ==
    {[m EXCEPT !.a = 0], [m EXCEPT !.b = 16], [m EXCEPT !.layer = 1],
     [m EXCEPT !.layer = NoLayer], [m EXCEPT !.family = "mlp"]}

ConfiguredBut ==
    {Configured} \cup {Configured \ {m} : m \in Configured}
    \cup UNION {{(Configured \ {m}) \cup {n} : n \in Odder(m)} : m \in Configured}

\* The payload that was published, of one layer; modules that others may
\* have, one of them of another stack; and zero deltas.
Published ==
    {LoRA("main", "mlp_shared_experts", t, 0) : t \in Targets \ InAttention}
    \cup {LoRA("main", f, "gate_proj", 0) :
            f \in {"attention_compressor", "attention_compressor_indexer"}}

Odd ==
    {LoRA("mtp", "mlp_shared_experts", "gate_proj", 0),
     LoRA("main", "mlp_shared_experts", "gate_proj", 1),
     LoRA("main", "mlp_shared_experts", "up_proj", NoLayer),
     [LoRA("main", "mlp_shared_experts", "down_proj", 1) EXCEPT !.b = 16],
     LoRA("main", "attention", "q_proj", 0),
     LoRA("main", "attention_compressor_indexer", "gate_proj", NoLayer)}

Zero(m) == [m EXCEPT !.zero = TRUE]

FewModules ==
    {p \in UNION {kSubset(n, Published \cup Odd \cup {Zero(m) : m \in Published}) :
                    n \in 1..2} :
        \A m \in p : ~m.zero => Zero(m) \notin p}

MCPayloads ==
    ConfiguredBut \cup FewModules
    \cup {Published, {Zero(m) : m \in Published}}

ASSUME PublishedAssumption == Published \in Payloads

-----------------------------------------------------------------------------
(* A tool at rest.                                                         *)

BenchRests ==
    /\ input = "job" /\ receipt = Nothing
    /\ trial = [t \in Tasks |-> [k \in 1..Runs |-> "queued"]]
    /\ names = [t \in Tasks |-> [k \in 1..Runs |-> k]]

PatchRests ==
    /\ disk = [e \in EditIds |-> "old"] /\ cut = {} /\ tool = Idle
    /\ said = "nothing" /\ told = "nothing" /\ runs = 0
    /\ vllm = [os |-> "typing", helper |-> "anchor", decode |-> "call",
               prefill |-> "call", cut |-> FALSE]

FlashRests ==
    /\ metadata = <<>> /\ got = 0 /\ begun = FALSE /\ size = 1 /\ sized = 0
    /\ json = NoReport /\ md = NoReport

RoutingRests ==
    /\ experts = [i \in Routes |-> None]
    /\ rank = [o \in Offsets |-> "waiting"]
    /\ inputs = [o \in Offsets |-> NoRoutes] /\ output = [o \in Offsets |-> {}]

DecodeRests ==
    /\ batch = <<>> /\ chosen = <<>> /\ ran = "no"
    /\ attended = [reference |-> {}, fallback |-> {}]

LadderRests ==
    /\ targets = AdapterTargets /\ modules = {} /\ changes = 0
    /\ compat = NoFile /\ canary = NoFile /\ lab = NoFile
    /\ retarget = NoFile /\ owner = NoFile

FableRests ==
    /\ payload = Published /\ smoke = "none" /\ map = "none" /\ proof = "none"
    /\ packed = NoPacked /\ artifact = NoArtifact
    /\ writing = FALSE /\ packs = 0

-----------------------------------------------------------------------------
vars == <<part, benchVars, patchVars, flashVars, routingVars, decodeVars,
          ladderVars, fableVars>>

Init ==
    /\ part \in {"bench", "patches", "flash", "routing", "decode", "ladder",
                 "fable"}
    /\ IF part = "bench" THEN BenchInit ELSE BenchRests
    /\ IF part = "patches" THEN PatchInit ELSE PatchRests
    /\ IF part = "flash" THEN FlashInit ELSE FlashRests
    /\ IF part = "routing" THEN RoutingInit ELSE RoutingRests
    /\ IF part = "decode" THEN DecodeInit ELSE DecodeRests
    /\ IF part = "ladder" THEN LadderInit ELSE LadderRests
    /\ IF part = "fable" THEN FableInit ELSE FableRests

Next ==
    /\ UNCHANGED part
    /\ \/ /\ part = "bench" /\ BenchNext
          /\ UNCHANGED <<patchVars, flashVars, routingVars, decodeVars,
                         ladderVars, fableVars>>
       \/ /\ part = "patches" /\ PatchNext
          /\ UNCHANGED <<benchVars, flashVars, routingVars, decodeVars,
                         ladderVars, fableVars>>
       \/ /\ part = "flash" /\ FlashNext
          /\ UNCHANGED <<benchVars, patchVars, routingVars, decodeVars,
                         ladderVars, fableVars>>
       \/ /\ part = "routing" /\ RoutingNext
          /\ UNCHANGED <<benchVars, patchVars, flashVars, decodeVars,
                         ladderVars, fableVars>>
       \/ /\ part = "decode" /\ DecodeNext
          /\ UNCHANGED <<benchVars, patchVars, flashVars, routingVars,
                         ladderVars, fableVars>>
       \/ /\ part = "ladder" /\ LadderNext
          /\ UNCHANGED <<benchVars, patchVars, flashVars, routingVars,
                         decodeVars, fableVars>>
       \/ /\ part = "fable" /\ FableNext
          /\ UNCHANGED <<benchVars, patchVars, flashVars, routingVars,
                         decodeVars, ladderVars>>

Spec == Init /\ [][Next]_vars

-----------------------------------------------------------------------------
(* Properties                                                              *)

\* The variables of the tools keep their types.
ReportsTypeOK ==
    /\ BenchTypeOK /\ PatchTypeOK /\ FlashTypeOK /\ RoutingTypeOK
    /\ DecodeTypeOK /\ LadderTypeOK /\ FableTypeOK

\* What a tool of the admission says can be acted on: LadderHonest of the
\* reports on the adapter (FableLadder), DeltaHonest of the file of packed
\* deltas (FableTransform), PreflightSafe of the decisions on lanes
\* (FlashPreflight), PatchesHonest of packages that were patched
\* (VendorPatches).
ReportsHonest == LadderHonest /\ DeltaHonest /\ PreflightSafe /\ PatchesHonest

\* The admission's reference routes agree with what replaces them: RoutedOnce
\* of experts in shards (ExpertRouting), SameRoutes of the sparse fallback
\* (SparseDecode).
RoutesKept == RoutedOnce /\ SameRoutes
=============================================================================
