------------------------ MODULE AdmissionReports_proofs ------------------------
(***************************************************************************)
(* Proofs that the reports of the admission can be acted on, whatever the  *)
(* targets, modules and payloads of an adapter, the sizes of a file while  *)
(* it comes, and the number of runs of a tool, dead ones included.         *)
(*                                                                         *)
(* Each invariant says what a report holds of the state that it was made   *)
(* of.  LadderInv: of a report that it keeps as its source, and which may  *)
(* since have been overwritten.  FableInv: of the run that made the file   *)
(* of packed deltas.  FlashInv: of the part of the file that was there.    *)
(* PatchInv: of the order in which the edits of a package are made.        *)
(***************************************************************************)
EXTENDS FableLadder, FableTransform, FlashPreflight, VendorPatches,
        FiniteSetTheorems, FunctionTheorems, SequenceTheorems, TLAPS

-----------------------------------------------------------------------------
(* The ladder of reports (FableLadder).                                     *)

\* A report of the probe agrees with itself.
ProbeSays(r) ==
    /\ r.targets # {}
    /\ r.missing = r.targets \ r.modules
    /\ r.canLoad \in BOOLEAN
    /\ r.canLoad <=> r.missing = {}

\* A report of the canary decides as its probe did.
CanarySays(r) ==
    /\ r = [status |-> r.status, canLoad |-> r.canLoad, missing |-> r.missing,
            attempted |-> r.attempted, blockers |-> r.blockers, of |-> r.of]
    /\ ProbeSays(r.of)
    /\ r.canLoad \in BOOLEAN /\ r.attempted \in BOOLEAN
    /\ r.canLoad <=> r.of.canLoad
    /\ r.attempted => r.canLoad
    /\ r.blockers = {} <=> r.canLoad

\* A lab evaluation was tried where its canary's load was made.
LabSays(r) ==
    /\ CanarySays(r.of)
    /\ r.admitted = FALSE
    /\ r.attempted \in BOOLEAN
    /\ r.attempted <=> r.of.canLoad /\ r.of.attempted
    /\ r.blockers = {} <=> r.of.canLoad /\ ~r.of.attempted

\* A plan sorts what its probe missed.
PlanSays(r) ==
    /\ ProbeSays(r.of)
    /\ r.packed \cup r.sourced \cup r.unknown = r.of.missing
    /\ r.packed \cap (r.sourced \cup r.unknown) = {}
    /\ r.canLoad \in BOOLEAN
    /\ r.canLoad <=> r.of.canLoad

\* The owner's report proposes packing or vanilla loading.
OwnerSays(r) == ~(r.vanilla /\ r.canProceed)

LadderInv ==
    /\ LadderTypeOK
    /\ compat # NoFile => ProbeSays(compat)
    /\ canary # NoFile => CanarySays(canary)
    /\ lab # NoFile => LabSays(lab)
    /\ retarget # NoFile => PlanSays(retarget)
    /\ owner # NoFile => OwnerSays(owner)

-----------------------------------------------------------------------------
\* _classify_retarget_target: a target is attachable as it is exactly when
\* the image has a module for it; of the rest each gets one kind of work.
LEMMA ClassifyMissing ==
    ASSUME NEW target, NEW there
    PROVE  /\ Classify(target, there) \in
                {"direct_attachable", "packed_transform_required",
                 "source_inventory_required", "unmapped_unknown"}
           /\ Classify(target, there) = "direct_attachable"
                <=> target \in there
  <1>1. CASE target \in there
    BY <1>1 DEF Classify
  <1>2. CASE target \notin there
    <2>1. CASE target \in Attention \cup GateUp
      BY <1>2, <2>1 DEF Classify, Attention, GateUp
    <2>2. CASE target = "o_proj"
      BY <1>2, <2>2 DEF Classify, Attention, GateUp
    <2>3. CASE target \notin Attention \cup GateUp /\ target # "o_proj"
      BY <1>2, <2>3 DEF Classify, Attention, GateUp
    <2> QED BY <2>1, <2>2, <2>3
  <1> QED BY <1>1, <1>2

\* The targets for which a plan finds work of a kind.
Work(kind, wanted, there) == {t \in wanted : Classify(t, there) = kind}

\* The plan's three kinds of work make up what is missing, and no target that
\* is packed is of another kind.
LEMMA PlanSortsMissing ==
    ASSUME NEW wanted, NEW there
    PROVE  LET fused == Work("packed_transform_required", wanted, there)
               sourced == Work("source_inventory_required", wanted, there)
               unknown == Work("unmapped_unknown", wanted, there)
           IN  /\ fused \cup sourced \cup unknown = wanted \ there
               /\ fused \cap (sourced \cup unknown) = {}
  <1> DEFINE fused == Work("packed_transform_required", wanted, there)
             sourced == Work("source_inventory_required", wanted, there)
             unknown == Work("unmapped_unknown", wanted, there)
  <1>1. ASSUME NEW t
        PROVE  t \in fused \cup sourced \cup unknown <=> t \in wanted \ there
    BY ClassifyMissing DEF Work
  <1>2. fused \cup sourced \cup unknown = wanted \ there
    BY <1>1
  <1>3. fused \cap (sourced \cup unknown) = {}
    BY DEF Work
  <1> QED BY <1>2, <1>3

-----------------------------------------------------------------------------
LEMMA LadderInvInit == LadderInit => LadderInv
  BY LadderAssumption DEF LadderInit, LadderInv, LadderTypeOK

\* Every tool writes a report that says what its source said.
LEMMA LadderInvStep == LadderInv /\ [LadderNext]_ladderVars => LadderInv'
  <1> SUFFICES ASSUME LadderInv, [LadderNext]_ladderVars
               PROVE  LadderInv'
    OBVIOUS
  <1>t. LadderTypeOK'
    <2>1. LadderTypeOK /\ MaxChanges \in Nat
      BY LadderAssumption DEF LadderInv
    <2>2. CASE NewImage \/ NewAdapter
      BY <2>1, <2>2 DEF LadderTypeOK, NewImage, NewAdapter, Changes
    <2>3. CASE UNCHANGED <<targets, modules, changes>>
      BY <2>1, <2>3 DEF LadderTypeOK
    <2>4. NewImage \/ NewAdapter \/ UNCHANGED <<targets, modules, changes>>
      BY DEF LadderNext, ladderVars, Probe, LoadCanary, OperatorLoads, LabEval,
             RetargetPlan, OwnerOfOProj
    <2> QED BY <2>2, <2>3, <2>4
  <1>1. CASE NewImage
    BY <1>1, <1>t DEF LadderInv, NewImage, files, ProbeSays, CanarySays, LabSays,
                PlanSays, OwnerSays
  <1>2. CASE NewAdapter
    BY <1>2, <1>t DEF LadderInv, NewAdapter, files, ProbeSays, CanarySays, LabSays,
                PlanSays, OwnerSays
  <1>3. ASSUME NEW extra, NEW unsafe, NEW whole, Probe(extra, unsafe, whole)
        PROVE  LadderInv'
    <2>1. ProbeSays(compat')
      BY <1>3 DEF Probe, ProbeSays, MissingFrom
    <2> QED BY <1>3, <1>t, <2>1 DEF Probe, LadderInv, ProbeSays, CanarySays,
                              LabSays, PlanSays, OwnerSays
  <1>4. CASE LoadCanary
    <2>1. ProbeSays(compat)
      BY <1>4 DEF LoadCanary, LadderInv
    <2>2. CanarySays(canary')
      BY <1>4, <2>1 DEF LoadCanary, CanarySays, ProbeSays
    <2> QED BY <1>4, <1>t, <2>2 DEF LoadCanary, LadderInv, ProbeSays, CanarySays,
                              LabSays, PlanSays, OwnerSays
  <1>5. CASE OperatorLoads
    <2>1. CanarySays(canary) /\ canary.canLoad
      BY <1>5 DEF OperatorLoads, LadderInv
    <2>2. CanarySays(canary')
      BY <1>5, <2>1 DEF OperatorLoads, CanarySays, ProbeSays
    <2> QED BY <1>5, <1>t, <2>2 DEF OperatorLoads, LadderInv, ProbeSays, CanarySays,
                              LabSays, PlanSays, OwnerSays
  <1>6. CASE LabEval
    <2>1. CanarySays(canary)
      BY <1>6 DEF LabEval, LadderInv
    <2>2. LabSays(lab')
      <3> DEFINE tried == canary.canLoad /\ canary.attempted
      <3>1. lab'.of = canary /\ lab'.admitted = FALSE /\ lab'.attempted = tried
        BY <1>6 DEF LabEval
      <3>2. lab'.blockers = canary.blockers \cup
                IF tried THEN {"lab_eval_metrics_missing"} ELSE {}
        BY <1>6 DEF LabEval
      <3>3. lab'.blockers = {} <=> canary.canLoad /\ ~canary.attempted
        BY <2>1, <3>2 DEF CanarySays
      <3> QED BY <2>1, <3>1, <3>3 DEF LabSays, CanarySays
    <2> QED BY <1>6, <1>t, <2>2 DEF LabEval, LadderInv, ProbeSays, CanarySays,
                              LabSays, PlanSays, OwnerSays
  <1>7. CASE RetargetPlan
    <2>1. ProbeSays(compat)
      BY <1>7 DEF RetargetPlan, LadderInv
    <2> DEFINE fused == Work("packed_transform_required",
                              compat.targets, compat.modules)
               sourced == Work("source_inventory_required",
                               compat.targets, compat.modules)
               unknown == Work("unmapped_unknown",
                               compat.targets, compat.modules)
    <2>2. /\ retarget'.of = compat /\ retarget'.packed = fused
          /\ retarget'.sourced = sourced /\ retarget'.unknown = unknown
          /\ retarget'.canLoad = (fused \cup sourced \cup unknown = {})
      BY <1>7 DEF RetargetPlan, Work
    <2>3. /\ fused \cup sourced \cup unknown = compat.targets \ compat.modules
          /\ fused \cap (sourced \cup unknown) = {}
      BY PlanSortsMissing
    <2> HIDE DEF fused, sourced, unknown
    <2>4. PlanSays(retarget')
      BY <2>1, <2>2, <2>3 DEF PlanSays, ProbeSays
    <2> QED BY <1>7, <1>t, <2>4 DEF RetargetPlan, LadderInv, ProbeSays, CanarySays,
                              LabSays, PlanSays, OwnerSays
  <1>8. ASSUME NEW source, OwnerOfOProj(source)
        PROVE  LadderInv'
    <2>1. OwnerSays(owner')
      BY <1>8 DEF OwnerOfOProj, OwnerSays
    <2> QED BY <1>8, <1>t, <2>1 DEF OwnerOfOProj, LadderInv, ProbeSays, CanarySays,
                              LabSays, PlanSays, OwnerSays
  <1>9. CASE UNCHANGED ladderVars
    BY <1>9, <1>t DEF ladderVars, LadderInv, ProbeSays, CanarySays, LabSays,
                PlanSays, OwnerSays
  <1> QED BY <1>1, <1>2, <1>3, <1>4, <1>5, <1>6, <1>7, <1>8, <1>9
          DEF LadderNext

\* What the reports say on their own makes the ladder honest.
LEMMA LadderInvHonest == LadderInv => LadderHonest
  <1> SUFFICES ASSUME LadderInv PROVE LadderHonest
    OBVIOUS
  <1>1. canary # NoFile /\ (canary.canLoad \/ canary.attempted) =>
          canary.of.targets # {} /\ canary.of.targets \subseteq canary.of.modules
    BY DEF LadderInv, CanarySays, ProbeSays
  <1>2. canary # NoFile /\ retarget # NoFile /\ canary.of = retarget.of =>
          canary.canLoad = retarget.canLoad
    BY DEF LadderInv, CanarySays, PlanSays
  <1>3. retarget # NoFile =>
          /\ retarget.packed \cup retarget.sourced \cup retarget.unknown =
               retarget.of.missing
          /\ retarget.packed \cap (retarget.sourced \cup retarget.unknown) = {}
    BY DEF LadderInv, PlanSays
  <1>4. lab # NoFile =>
          /\ ~lab.admitted
          /\ lab.attempted => /\ lab.of.attempted
                              /\ lab.of.of.targets \subseteq lab.of.of.modules
          /\ lab.blockers = {} => lab.of.canLoad /\ ~lab.of.attempted
    BY DEF LadderInv, LabSays, CanarySays, ProbeSays
  <1>5. owner # NoFile => ~(owner.vanilla /\ owner.canProceed)
    BY DEF LadderInv, OwnerSays
  <1> QED BY <1>1, <1>2, <1>3, <1>4, <1>5 DEF LadderHonest

\* No step of the ladder lets through what the probe under it did not, for
\* every set of targets and modules and every number of replacements
\* (deepseek_v4_fable.py, the build_..._report functions).
THEOREM LadderIsHonest == LadderSpec => []LadderHonest
  <1>1. LadderInit => LadderInv
    BY LadderInvInit
  <1>2. LadderInv /\ [LadderNext]_ladderVars => LadderInv'
    BY LadderInvStep
  <1>3. LadderInv => LadderHonest
    BY LadderInvHonest
  <1> QED BY <1>1, <1>2, <1>3, PTL DEF LadderSpec

-----------------------------------------------------------------------------
(* The packed deltas.                                                      *)

\* SetToSeq lists a finite set.
LEMMA ListOfSet ==
    ASSUME NEW S, IsFiniteSet(S)
    PROVE  /\ SetToSeq(S) \in Seq(S)
           /\ {SetToSeq(S)[i] : i \in DOMAIN SetToSeq(S)} = S
           /\ S # {} => SetToSeq(S) # <<>>
  <1> DEFINE n == Cardinality(S)
             list == SetToSeq(S)
  <1>1. n \in Nat /\ ExistsBijection(1..n, S)
    BY FS_CardinalityType
  <1>2. PICK f : f \in Bijection(1..n, S)
    BY <1>1, Zenon DEF ExistsBijection
  <1>3. f \in [1..n -> S] /\ IsInjective(f)
    BY <1>2, Zenon DEF Bijection, Injection
  <1>4. list \in [1..n -> S] /\ IsInjective(list)
    BY <1>3, Zenon DEF SetToSeq
  <1>5. list \in Seq(S)
    BY <1>1, <1>4, SeqDef, Zenon
  <1>6. list \in Injection(1..n, S)
    BY <1>4, Zenon DEF Injection
  <1>7. Cardinality(1..n) = n /\ IsFiniteSet(1..n)
    BY <1>1, FS_Interval
  <1>8. list \in Surjection(1..n, S)
    BY <1>6, <1>7, FS_Injection, Zenon
  <1> HIDE DEF n, list
  <1>9. {list[i] : i \in DOMAIN list} = S
    <2>1. \A x \in S : \E i \in 1..n : list[i] = x
      BY <1>8, Zenon DEF Surjection
    <2>2. DOMAIN list = 1..n /\ \A i \in 1..n : list[i] \in S
      BY <1>4, Zenon
    <2> QED BY <2>1, <2>2, Zenon
  <1>10. S # {} => list # <<>>
    <2>1. list = <<>> => DOMAIN list = {}
      OBVIOUS
    <2> QED BY <1>9, <2>1, Zenon
  <1> QED BY <1>5, <1>9, <1>10, Zenon DEF list

LEMMA MaxOfOne ==
    ASSUME NEW j \in Int
    PROVE  Max({j}) = j
  <1>1. j \in {j} /\ \A y \in {j} : j >= y
    OBVIOUS
  <1>2. Max({j}) \in {j}
    BY <1>1, Zenon DEF Max
  <1> QED BY <1>2, Zenon

\* Each delta goes to a surface of the runtime, and to its shard.
LEMMA OutputsAreSurfaces ==
    ASSUME NEW m, NEW o \in Outputs(m)
    PROVE  \E s \in Surfaces : <<s.family, s.target, s.shard>> = <<o[2], o[3], o[4]>>
  <1>1. CASE m.family = "mlp_shared_experts"
    <2>1. CASE m.target = "gate_proj"
      <3>1. o = <<m.layer, m.family, m.target, 0>>
        BY <1>1, <2>1 DEF Outputs
      <3>2. [family |-> "mlp_shared_experts", target |-> "gate_proj", shard |-> 0]
              \in Surfaces
        BY DEF Surfaces
      <3> QED BY <1>1, <2>1, <3>1, <3>2
    <2>2. CASE m.target = "up_proj"
      <3>1. o = <<m.layer, m.family, m.target, 1>>
        BY <1>1, <2>2 DEF Outputs
      <3>2. [family |-> "mlp_shared_experts", target |-> "up_proj", shard |-> 1]
              \in Surfaces
        BY DEF Surfaces
      <3> QED BY <1>1, <2>2, <3>1, <3>2
    <2>3. CASE m.target = "down_proj"
      <3>1. o = <<m.layer, m.family, m.target, NoShard>>
        BY <1>1, <2>3 DEF Outputs
      <3>2. [family |-> "mlp_shared_experts", target |-> "down_proj",
             shard |-> NoShard] \in Surfaces
        BY DEF Surfaces
      <3> QED BY <1>1, <2>3, <3>1, <3>2
    <2>4. CASE m.target \notin {"gate_proj", "up_proj", "down_proj"}
      BY <1>1, <2>4 DEF Outputs
    <2> QED BY <2>1, <2>2, <2>3, <2>4
  <1>2. CASE m.family \in {"attention_compressor", "attention_compressor_indexer"}
    <2>1. m.target = "gate_proj" /\ o = <<m.layer, m.family, m.target, 1>>
      BY <1>2 DEF Outputs
    <2>2. /\ [family |-> "attention_compressor", target |-> "gate_proj",
              shard |-> 1] \in Surfaces
          /\ [family |-> "attention_compressor_indexer", target |-> "gate_proj",
              shard |-> 1] \in Surfaces
      BY DEF Surfaces
    <2> QED BY <1>2, <2>1, <2>2
  <1>3. CASE m.family \notin {"mlp_shared_experts", "attention_compressor",
                              "attention_compressor_indexer"}
    BY <1>3 DEF Outputs
  <1> QED BY <1>1, <1>2, <1>3

\* A module of which the context map knows the surface has an output, and its
\* target is none of those in the attention.
LEMMA SurfacesHaveOutputs ==
    ASSUME NEW m, NEW s \in Surfaces, <<s.family, s.target>> = <<m.family, m.target>>
    PROVE  Outputs(m) # {} /\ m.target # "q_proj"
  <1>1. m.family = s.family /\ m.target = s.target
    OBVIOUS
  <1>2. \/ m.family = "mlp_shared_experts"
             /\ m.target \in {"gate_proj", "up_proj", "down_proj"}
        \/ m.family \in {"attention_compressor", "attention_compressor_indexer"}
             /\ m.target = "gate_proj"
    BY <1>1 DEF Surfaces
  <1> QED BY <1>2 DEF Outputs

-----------------------------------------------------------------------------
\* The specs of a run of the writer on a payload: some of its pairs, and with
\* all layers every one that has a layer and an output.
Writable(p) ==
    {m \in p : /\ Complete(m) /\ m.layer \in Layers(p) \ {NoLayer}
              /\ Outputs(m) # {}}

Whole(p, specs, all) ==
    /\ specs \in Seq(p) /\ specs # <<>>
    /\ \A i \in DOMAIN specs : Complete(specs[i])
    /\ all => {specs[i] : i \in DOMAIN specs} = Writable(p)

AllZero(p) == \A m \in p : m.b # 0 => m.zero

\* What the file and the report of the writer are, and which run made them.
WriterShape ==
    /\ packs \in 0..MaxPacks /\ writing \in BOOLEAN
    /\ artifact.by = packs /\ packed.by \in 0..packs
    /\ artifact.there \in 0..Len(artifact.specs)
    /\ packs > 0 =>
         /\ artifact = [specs |-> artifact.specs, there |-> artifact.there,
                        by |-> artifact.by, all |-> artifact.all,
                        zero |-> artifact.zero]
         /\ Whole(payload, artifact.specs, artifact.all)
         /\ artifact.zero <=> AllZero(payload)
    /\ writing => packed.by < packs
    /\ packed # NoPacked =>
         /\ Whole(payload, packed.specs, packed.all)
         /\ packed.semantic <=> ~AllZero(payload)
         /\ packed.by = packs =>
              artifact.there = Len(packed.specs) /\ artifact.specs = packed.specs

\* What the reports on the payload say of it.
ReportShape ==
    /\ smoke = "shape_manifest_ready_for_transform_writer" => Blockers = {}
    /\ map = "context_map_ready_for_transform_writer" =>
         \A g \in Groups : MappingBlockers(g) = {}

FableInv == payload \in Payloads /\ WriterShape /\ ReportShape

LEMMA NothingWritten ==
    ASSUME packs = 0, writing = FALSE, packed = NoPacked, artifact = NoArtifact
    PROVE  WriterShape
  <1>1. packs \in 0..MaxPacks /\ writing \in BOOLEAN
    <2>1. MaxPacks \in Nat
      BY FableAssumption
    <2>2. 0 \in 0..MaxPacks
      BY <2>1
    <2> QED BY <2>2, Zenon
  <1>2. /\ artifact.by = 0 /\ artifact.there = 0 /\ artifact.specs = <<>>
        /\ packed.by = 0
    BY DEF NoPacked, NoArtifact
  <1>3. artifact.there \in 0..Len(artifact.specs) /\ packed.by \in 0..packs
    BY <1>2
  <1> QED BY <1>1, <1>2, <1>3 DEF WriterShape

LEMMA FableInvInit == FableInit => FableInv
  BY NothingWritten DEF FableInit, FableInv, ReportShape

\* As long as the payload stays, so does what the reports look at.
LEMMA SamePayload ==
    ASSUME payload' = payload
    PROVE  /\ Blockers' = Blockers /\ Groups' = Groups
           /\ \A g : MappingBlockers(g)' = MappingBlockers(g)
  <1>1. Blockers' = Blockers
    BY DEF Blockers, Of
  <1>2. Groups' = Groups
    BY DEF Groups
  <1>3. \A g : MappingBlockers(g)' = MappingBlockers(g)
    BY DEF MappingBlockers, InGroup
  <1> QED BY <1>1, <1>2, <1>3

\* A run of the writer has specs of its own.
LEMMA SpecsAreWhole ==
    ASSUME NEW layers, Packable(layers) # {}, payload \in Payloads
    PROVE  Whole(payload, SetToSeq(Packable(layers)), layers = AllLayers)
  <1> DEFINE some == Packable(layers)
             specs == SetToSeq(some)
  <1>1. some \subseteq payload /\ \A m \in some : Complete(m)
    BY DEF Packable
  <1>2. IsFiniteSet(some)
    BY <1>1, FableAssumption, FS_Subset
  <1>3. /\ specs \in Seq(some) /\ {specs[i] : i \in DOMAIN specs} = some
        /\ specs # <<>>
    BY <1>2, ListOfSet, Zenon
  <1>4. layers = AllLayers => some = Writable(payload)
    BY DEF Packable, AllLayers, Writable
  <1> HIDE DEF some, specs
  <1>5. \A i \in DOMAIN specs : specs[i] \in some
    BY <1>3, Zenon
  <1>6. specs \in Seq(payload)
    BY <1>1, <1>3
  <1>7. Whole(payload, specs, layers = AllLayers)
    BY <1>1, <1>3, <1>4, <1>5, <1>6, Zenon DEF Whole
  <1> QED BY <1>7 DEF specs, some

LEMMA FableInvStep == FableInv /\ [FableNext]_fableVars => FableInv'
  <1> SUFFICES ASSUME FableInv, [FableNext]_fableVars PROVE FableInv'
    OBVIOUS
  <1> USE DEF FableInv
  <1> DEFINE Writer == <<packed, artifact, writing, packs>>
  <1>0. payload' = payload
    BY DEF FableNext, fableVars, TransformSmoke, ContextMap, LoaderProof,
           PackBegin, PackDelta, PackReport, PackDies
  <1>p. payload' \in Payloads
    BY <1>0
  <1>s. /\ Blockers' = Blockers /\ Groups' = Groups
        /\ \A g : MappingBlockers(g)' = MappingBlockers(g)
    BY <1>0, SamePayload
  <1>w. UNCHANGED Writer => WriterShape'
    BY <1>0 DEF WriterShape
  <1>r. UNCHANGED <<smoke, map>> => ReportShape'
    BY <1>s DEF ReportShape
  <1>n. MaxPacks \in Nat /\ packs \in 0..MaxPacks
    BY FableAssumption DEF WriterShape
  <1>1. CASE TransformSmoke
    <2>1. UNCHANGED Writer /\ map' = map
      BY <1>1 DEF TransformSmoke
    <2>2. smoke' = "shape_manifest_ready_for_transform_writer" => Blockers = {}
      BY <1>1 DEF TransformSmoke
    <2>3. ReportShape'
      BY <1>s, <2>1, <2>2 DEF ReportShape
    <2> QED BY <1>p, <1>w, <2>1, <2>3
  <1>2. CASE ContextMap
    <2>1. UNCHANGED Writer /\ smoke' = smoke
      BY <1>2 DEF ContextMap
    <2>2. map' = "context_map_ready_for_transform_writer" =>
            \A g \in Groups : MappingBlockers(g) = {}
      BY <1>2 DEF ContextMap
    <2>3. ReportShape'
      BY <1>s, <2>1, <2>2 DEF ReportShape
    <2> QED BY <1>p, <1>w, <2>1, <2>3
  <1>3. CASE LoaderProof
    BY <1>3, <1>p, <1>w, <1>r DEF LoaderProof
  <1>4. ASSUME NEW layers, PackBegin(layers) PROVE FableInv'
    <2> DEFINE specs == SetToSeq(Packable(layers))
               all == layers = AllLayers
    <2>1. Whole(payload, specs, all)
      BY <1>4, SpecsAreWhole DEF PackBegin
    <2> HIDE DEF specs, all
    <2>2. /\ artifact' = [specs |-> specs, there |-> 0, by |-> packs + 1,
                          all |-> all, zero |-> AllZero(payload)]
          /\ packs < MaxPacks /\ packs' = packs + 1 /\ writing' = TRUE
          /\ UNCHANGED <<smoke, map, packed>>
      BY <1>4 DEF PackBegin, AllZero, specs, all
    <2>3. /\ packs' \in 0..MaxPacks /\ packed'.by < packs' /\ packs' > 0
          /\ packed'.by \in 0..packs'
      BY <1>n, <2>2 DEF WriterShape
    <2>4. /\ artifact'.by = packs' /\ artifact'.there = 0
          /\ artifact'.specs = specs /\ artifact'.all = all
          /\ artifact'.zero = AllZero(payload)
      BY <2>2
    <2>5. Len(specs) \in Nat
      BY <2>1 DEF Whole
    <2>6. artifact'.there \in 0..Len(artifact'.specs)
      BY <2>4, <2>5
    <2>7. packed' # NoPacked =>
            /\ Whole(payload', packed'.specs, packed'.all)
            /\ packed'.semantic <=> ~AllZero(payload')
      BY <1>0, <2>2 DEF WriterShape
    <2>8. WriterShape'
      BY <1>0, <2>1, <2>2, <2>3, <2>4, <2>6, <2>7 DEF WriterShape
    <2> QED BY <1>p, <1>r, <2>2, <2>8
  <1>5. CASE PackDelta
    <2>0. packs > 0 /\ artifact.there \in 0..Len(artifact.specs)
      BY <1>5, <1>n DEF PackDelta, WriterShape
    <2>1. UNCHANGED <<smoke, map, packed, packs>>
      BY <1>5 DEF PackDelta
    <2>2. Whole(payload, artifact.specs, artifact.all)
      BY <2>0 DEF WriterShape
    <2>3. Len(artifact.specs) \in Nat
      BY <2>2 DEF Whole
    <2>4. /\ artifact'.specs = artifact.specs /\ artifact'.by = artifact.by
          /\ artifact'.all = artifact.all /\ artifact'.zero = artifact.zero
          /\ artifact'.there \in 0..Len(artifact.specs)
          /\ artifact' = [specs |-> artifact'.specs, there |-> artifact'.there,
                          by |-> artifact'.by, all |-> artifact'.all,
                          zero |-> artifact'.zero]
      <3>1. artifact = [specs |-> artifact.specs, there |-> artifact.there,
                        by |-> artifact.by, all |-> artifact.all,
                        zero |-> artifact.zero]
        BY <2>0 DEF WriterShape
      <3>2. /\ artifact.there < Len(artifact.specs)
            /\ \/ artifact' = [artifact EXCEPT !.there = @ + 1]
               \/ artifact' = artifact
        BY <1>5 DEF PackDelta
      <3>3. CASE artifact' = artifact
        BY <3>1, <3>3, <2>0
      <3>4. CASE artifact' = [artifact EXCEPT !.there = @ + 1]
        <4>1. artifact' = [specs |-> artifact.specs, there |-> artifact.there + 1,
                           by |-> artifact.by, all |-> artifact.all,
                           zero |-> artifact.zero]
          BY <3>1, <3>4
        <4>2. artifact.there + 1 \in 0..Len(artifact.specs)
          BY <3>2, <2>0, <2>3
        <4> QED BY <4>1, <4>2
      <3> QED BY <3>2, <3>3, <3>4
    <2>5. writing' \in BOOLEAN /\ packed'.by < packs'
      BY <1>5, <2>1 DEF PackDelta, WriterShape
    <2>6. WriterShape'
      BY <1>0, <2>1, <2>2, <2>4, <2>5 DEF WriterShape
    <2> QED BY <1>p, <1>r, <2>1, <2>6
  <1>6. CASE PackReport
    <2>0. packs > 0
      BY <1>6, <1>n DEF PackReport, WriterShape
    <2>1. /\ UNCHANGED <<smoke, map, artifact, packs>> /\ writing' = FALSE
          /\ packed' = [by |-> packs, specs |-> artifact.specs,
                        all |-> artifact.all, semantic |-> ~artifact.zero]
          /\ artifact.there = Len(artifact.specs)
      BY <1>6 DEF PackReport, WriterShape
    <2>2. /\ packed'.by = packs /\ packed'.specs = artifact.specs
          /\ packed'.all = artifact.all /\ packed'.semantic = ~artifact.zero
      BY <2>1
    <2>3. /\ Whole(payload, artifact.specs, artifact.all)
          /\ artifact.zero <=> AllZero(payload)
      BY <2>0 DEF WriterShape
    <2>4. packed'.by \in 0..packs'
      BY <1>n, <2>1, <2>2
    <2>5. WriterShape'
      BY <1>0, <2>1, <2>2, <2>3, <2>4 DEF WriterShape
    <2> QED BY <1>p, <1>r, <2>1, <2>5
  <1>7. CASE PackDies
    <2>1. UNCHANGED <<smoke, map, packed, artifact, packs>> /\ writing' = FALSE
      BY <1>7 DEF PackDies
    <2>2. WriterShape'
      BY <1>0, <2>1 DEF WriterShape
    <2> QED BY <1>p, <1>r, <2>1, <2>2
  <1>8. CASE UNCHANGED fableVars
    BY <1>8, <1>p, <1>w, <1>r DEF fableVars
  <1> QED BY <1>1, <1>2, <1>3, <1>4, <1>5, <1>6, <1>7, <1>8 DEF FableNext

-----------------------------------------------------------------------------
\* The header's tensors have a place each where no two specs are twins.
LEMMA PlacesWithoutTwins ==
    ASSUME NEW p, NEW specs \in Seq(p), ~Twins(specs)
    PROVE  Places(specs) = DOMAIN specs
  <1>1. \A j \in DOMAIN specs :
          {i \in DOMAIN specs : Outputs(specs[i]) = Outputs(specs[j])} = {j}
    BY DEF Twins
  <1>2. \A j \in DOMAIN specs :
          Max({i \in DOMAIN specs : Outputs(specs[i]) = Outputs(specs[j])}) = j
    <2> TAKE j \in DOMAIN specs
    <2>1. j \in Int
      OBVIOUS
    <2> QED BY <1>1, <2>1, MaxOfOne
  <1>3. Places(specs) = {j : j \in DOMAIN specs}
    BY <1>2, Zenon DEF Places
  <1> QED BY <1>3

\* A module that has a pair, in a payload that the context map calls ready.
LEMMA ReadyHasSurface ==
    ASSUME NEW m \in payload, Complete(m),
           \A g \in Groups : MappingBlockers(g) = {}
    PROVE  Outputs(m) # {} /\ m.target # "q_proj"
  <1> DEFINE g == <<m.family, m.target>>
  <1>1. g \in Groups
    BY DEF Groups
  <1>2. MappingBlockers(g) = {}
    BY <1>1
  <1>3. \E s \in Surfaces : <<s.family, s.target>> = g
    BY <1>2 DEF MappingBlockers
  <1> QED BY <1>3, SurfacesHaveOutputs

LEMMA FableInvHonest == FableInv => DeltaHonest
  <1> SUFFICES ASSUME FableInv PROVE DeltaHonest
    OBVIOUS
  <1>1. payload \in Payloads /\ WriterShape /\ ReportShape
    BY DEF FableInv
  <1>2. packed # NoPacked /\ packed.by = artifact.by =>
          artifact.there = Len(packed.specs) /\ artifact.specs = packed.specs
    BY <1>1 DEF WriterShape
  <1>3. ASSUME packed # NoPacked
        PROVE  /\ packed.specs # <<>>
               /\ ~Twins(packed.specs) => Places(packed.specs) = DOMAIN packed.specs
               /\ \A i \in DOMAIN packed.specs : \A o \in Outputs(packed.specs[i]) :
                    \E s \in Surfaces :
                       <<s.family, s.target, s.shard>> = <<o[2], o[3], o[4]>>
               /\ ~packed.semantic =>
                    \A i \in DOMAIN packed.specs : packed.specs[i].zero
               /\ packed.all /\ map = "context_map_ready_for_transform_writer" =>
                    {m \in payload : Complete(m) /\ m.layer # NoLayer} =
                      {packed.specs[i] : i \in DOMAIN packed.specs}
    <2>1. /\ Whole(payload, packed.specs, packed.all)
          /\ packed.semantic <=> ~AllZero(payload)
      BY <1>1, <1>3 DEF WriterShape
    <2>2. packed.specs \in Seq(payload) /\ packed.specs # <<>>
      BY <2>1 DEF Whole
    <2>3. \A i \in DOMAIN packed.specs :
            packed.specs[i] \in payload /\ Complete(packed.specs[i])
      BY <2>1, <2>2 DEF Whole
    <2>4. ~Twins(packed.specs) => Places(packed.specs) = DOMAIN packed.specs
      BY <2>2, PlacesWithoutTwins
    <2>5. \A i \in DOMAIN packed.specs : \A o \in Outputs(packed.specs[i]) :
            \E s \in Surfaces :
               <<s.family, s.target, s.shard>> = <<o[2], o[3], o[4]>>
      BY OutputsAreSurfaces
    <2>6. ~packed.semantic => \A i \in DOMAIN packed.specs : packed.specs[i].zero
      BY <2>1, <2>3 DEF AllZero, Complete
    <2>7. ASSUME packed.all, map = "context_map_ready_for_transform_writer"
          PROVE  {m \in payload : Complete(m) /\ m.layer # NoLayer} =
                      {packed.specs[i] : i \in DOMAIN packed.specs}
      <3>1. \A g \in Groups : MappingBlockers(g) = {}
        BY <1>1, <2>7 DEF ReportShape
      <3>2. \A m \in payload : Complete(m) => Outputs(m) # {}
        BY <3>1, ReadyHasSurface
      <3>3. {packed.specs[i] : i \in DOMAIN packed.specs} = Writable(payload)
        BY <2>1, <2>7 DEF Whole
      <3>4. \A m \in payload : m.layer # NoLayer => m.layer \in Layers(payload)
        BY DEF Layers
      <3>5. Writable(payload) = {m \in payload : Complete(m) /\ m.layer # NoLayer}
        BY <3>2, <3>4 DEF Writable
      <3> QED BY <3>3, <3>5
    <2> QED BY <2>2, <2>4, <2>5, <2>6, <2>7
  <1>4. ASSUME smoke = "shape_manifest_ready_for_transform_writer",
               map = "context_map_ready_for_transform_writer"
        PROVE  FALSE
    <2>1. Blockers = {} /\ \A g \in Groups : MappingBlockers(g) = {}
      BY <1>1, <1>4 DEF ReportShape
    <2>2. <<"missing_lora_pairs", "q_proj">> \notin Blockers
      BY <2>1
    <2>3. "q_proj" \in Targets
      BY DEF Targets, InAttention
    <2>4. \E m \in Of("q_proj") : Complete(m)
      BY <2>2, <2>3 DEF Blockers
    <2>5. PICK m \in payload : Complete(m) /\ m.target = "q_proj"
      BY <2>4 DEF Of
    <2> QED BY <2>1, <2>5, ReadyHasSurface
  <1> QED BY <1>2, <1>3, <1>4 DEF DeltaHonest

LEMMA FableInvTypes == FableInv => FableTypeOK
  BY DEF FableInv, WriterShape, FableTypeOK

-----------------------------------------------------------------------------
(* The preflight.                                                          *)

\* What classify_lanes may count on of a lane: numbers, and that the lane
\* which is deprioritized has L4 GPUs.
LaneShape(lane) ==
    /\ lane.total \in Nat /\ lane.host \in Nat
    /\ lane.fit \in {"reserved", "candidate", "kernel_risk", "deprioritized"}
    /\ lane.fit = "deprioritized" => lane.gpu = "l4"

\* A lane of that name has these GPUs and this fit.
SomeLane(name, gpu, fit) ==
    \E count, each, host \in Nat :
        Lanes[name] = GpuLane(gpu, count, each, host, fit)

LEMMA Products == \A m, n \in Nat : m * n \in Nat
  OBVIOUS

LEMMA LaneOf ==
    ASSUME NEW name, NEW gpu, NEW fit, SomeLane(name, gpu, fit)
    PROVE  /\ Lanes[name].gpu = gpu /\ Lanes[name].fit = fit
           /\ Lanes[name].total \in Nat /\ Lanes[name].host \in Nat
  <1>1. PICK count, each, host \in Nat :
               Lanes[name] = GpuLane(gpu, count, each, host, fit)
    BY Zenon DEF SomeLane
  <1> DEFINE lane == GpuLane(gpu, count, each, host, fit)
  <1>2. lane.gpu = gpu /\ lane.fit = fit
    BY Zenon DEF GpuLane
  <1>3. lane.total = count * each /\ lane.host = host * 1024
    BY Zenon DEF GpuLane
  <1>4. count * each \in Nat /\ host * 1024 \in Nat
    BY Products
  <1> HIDE DEF lane
  <1>5. Lanes[name] = lane
    BY <1>1, Zenon DEF lane
  <1>6. lane.total \in Nat /\ lane.host \in Nat
    BY <1>3, <1>4, SMT
  <1> QED BY <1>2, <1>5, <1>6, Zenon

\* DEFAULT_GCE_LANES have it; two of them are never to be used.
LEMMA LanesAre ==
    /\ \A l \in DOMAIN Lanes : LaneShape(Lanes[l])
    /\ Lanes["live_a3_1g"].fit = "reserved"
    /\ Lanes["g2_8g"].fit = "deprioritized"
  <1>1. DOMAIN Lanes = {"live_a3_1g", "g4_48", "g4_96", "g4_192", "g4_384",
                        "a3_2g", "a3_4g", "a2_4g", "g2_8g"}
    BY DEF Lanes
  <1>2. SomeLane("live_a3_1g", "h100", "reserved")
    <2>1. Lanes["live_a3_1g"] = GpuLane("h100", 1, 81559, 234, "reserved")
      BY DEF Lanes
    <2> QED BY <2>1, SMT DEF SomeLane
  <1>3. SomeLane("g4_48", "rtx", "candidate")
    <2>1. Lanes["g4_48"] = GpuLane("rtx", 1, 97887, 180, "candidate")
      BY DEF Lanes
    <2> QED BY <2>1, SMT DEF SomeLane
  <1>4. SomeLane("g4_96", "rtx", "candidate")
    <2>1. Lanes["g4_96"] = GpuLane("rtx", 2, 97887, 360, "candidate")
      BY DEF Lanes
    <2> QED BY <2>1, SMT DEF SomeLane
  <1>5. SomeLane("g4_192", "rtx", "candidate")
    <2>1. Lanes["g4_192"] = GpuLane("rtx", 4, 97887, 720, "candidate")
      BY DEF Lanes
    <2> QED BY <2>1, SMT DEF SomeLane
  <1>6. SomeLane("g4_384", "rtx", "candidate")
    <2>1. Lanes["g4_384"] = GpuLane("rtx", 8, 97887, 1440, "candidate")
      BY DEF Lanes
    <2> QED BY <2>1, SMT DEF SomeLane
  <1>7. SomeLane("a3_2g", "h100", "candidate")
    <2>1. Lanes["a3_2g"] = GpuLane("h100", 2, 81559, 468, "candidate")
      BY DEF Lanes
    <2> QED BY <2>1, SMT DEF SomeLane
  <1>8. SomeLane("a3_4g", "h100", "candidate")
    <2>1. Lanes["a3_4g"] = GpuLane("h100", 4, 81559, 936, "candidate")
      BY DEF Lanes
    <2> QED BY <2>1, SMT DEF SomeLane
  <1>9. SomeLane("a2_4g", "a100", "kernel_risk")
    <2>1. Lanes["a2_4g"] = GpuLane("a100", 4, 40536, 340, "kernel_risk")
      BY DEF Lanes
    <2> QED BY <2>1, SMT DEF SomeLane
  <1>10. SomeLane("g2_8g", "l4", "deprioritized")
    <2>1. Lanes["g2_8g"] = GpuLane("l4", 8, 23034, 384, "deprioritized")
      BY DEF Lanes
    <2> QED BY <2>1, SMT DEF SomeLane
  <1>12. LaneShape(Lanes["live_a3_1g"]) /\ Lanes["live_a3_1g"].fit = "reserved"
    BY <1>2, LaneOf DEF LaneShape
  <1>13. LaneShape(Lanes["g4_48"])
    BY <1>3, LaneOf DEF LaneShape
  <1>14. LaneShape(Lanes["g4_96"])
    BY <1>4, LaneOf DEF LaneShape
  <1>15. LaneShape(Lanes["g4_192"])
    BY <1>5, LaneOf DEF LaneShape
  <1>16. LaneShape(Lanes["g4_384"])
    BY <1>6, LaneOf DEF LaneShape
  <1>17. LaneShape(Lanes["a3_2g"])
    BY <1>7, LaneOf DEF LaneShape
  <1>18. LaneShape(Lanes["a3_4g"])
    BY <1>8, LaneOf DEF LaneShape
  <1>19. LaneShape(Lanes["a2_4g"])
    BY <1>9, LaneOf DEF LaneShape
  <1>20. LaneShape(Lanes["g2_8g"]) /\ Lanes["g2_8g"].fit = "deprioritized"
    BY <1>10, LaneOf DEF LaneShape
  <1> QED BY <1>1, <1>12, <1>13, <1>14, <1>15, <1>16, <1>17, <1>18, <1>19, <1>20

\* The margin's floor and the host's ceiling err on the safe side.
LEMMA QuarterToSpare ==
    ASSUME NEW host \in Nat, NEW mib \in Nat, host >= (5 * mib + 3) \div 4
    PROVE  4 * host >= 5 * mib
  BY SMT

\* The margin, as the number that it is of the memory.
MarginOf(total, mib) ==
    (total * 9) \div 10 - RuntimeReserve - (mib + KvReserve)

LEMMA MarginNumber ==
    ASSUME NEW total \in Nat, NEW mib \in Nat
    PROVE  MarginOf(total, mib) >= 0 \/ MarginOf(total, mib) < 0
  BY SMT DEF MarginOf, RuntimeReserve, KvReserve

LEMMA MarginFalls ==
    ASSUME NEW total \in Nat, NEW few \in Nat, NEW many \in Nat, few <= many,
           MarginOf(total, many) >= 0
    PROVE  MarginOf(total, few) >= 0
  BY SMT DEF MarginOf, RuntimeReserve, KvReserve

LEMMA MarginNeeds ==
    ASSUME NEW total \in Nat, NEW mib \in Nat, MarginOf(total, mib) >= 0
    PROVE  10 * Needs(mib) <= 9 * total
  BY SMT DEF MarginOf, RuntimeReserve, KvReserve, Needs

LEMMA Ordered ==
    ASSUME NEW low \in 0..2, NEW high \in 0..2,
           low = 2 => high = 2, low = 1 => high = 1 \/ high = 2
    PROVE  low <= high
  BY SMT

LEMMA HostFalls ==
    ASSUME NEW host \in Nat, NEW few \in Nat, NEW many \in Nat, few <= many,
           host >= (5 * many + 3) \div 4
    PROVE  host >= (5 * few + 3) \div 4
  BY SMT

\* A lane that may take weights a part at a time.
Roomy(lane) == lane.total >= 32768

LEMMA RankOf ==
    ASSUME NEW decision
    PROVE  /\ Rank(decision) \in 0..2
           /\ Rank(decision) = 2 <=> decision = "proceed_if_capacity_admits"
           /\ Rank(decision) = 1 <=>
                decision = "proceed_only_for_custom_offload_prefetch_validation"
  <1>1. CASE decision = "proceed_if_capacity_admits"
    BY <1>1 DEF Rank
  <1>2. CASE decision = "proceed_only_for_custom_offload_prefetch_validation"
    BY <1>2 DEF Rank
  <1>3. CASE decision \notin {"proceed_if_capacity_admits",
                   "proceed_only_for_custom_offload_prefetch_validation"}
    BY <1>3 DEF Rank
  <1> QED BY <1>1, <1>2, <1>3

\* What a rank means: the conditions of classify_lanes under which it is given.
LEMMA RankIs ==
    ASSUME NEW lane, LaneShape(lane), NEW mib \in Nat
    PROVE  LET rank == Rank(Decision(lane, mib))
           IN  /\ rank \in 0..2
               /\ rank = 2 <=> lane.fit = "candidate" /\ Margin(lane, mib) >= 0
               /\ rank = 1 <=> /\ lane.fit \in {"candidate", "kernel_risk"}
                               /\ lane.gpu # "l4"
                               /\ Margin(lane, mib) < 0 /\ HostHolds(lane, mib)
                               /\ Roomy(lane)
  <1> DEFINE decision == Decision(lane, mib)
             holds == HostHolds(lane, mib)
             margin == Margin(lane, mib)
  <1>1. margin < 0 <=> ~(margin >= 0)
    <2>1. lane.total \in Nat
      BY Zenon DEF LaneShape
    <2>2. margin \in Int
      BY <2>1, SMT DEF Margin, RuntimeReserve, KvReserve
    <2> HIDE DEF margin
    <2> QED BY <2>2, SMT
  <1>2. lane.fit \in {"reserved", "candidate", "kernel_risk", "deprioritized"}
        /\ (lane.fit = "deprioritized" => lane.gpu = "l4")
    BY Zenon DEF LaneShape
  <1>3. /\ Rank(decision) \in 0..2
        /\ Rank(decision) = 2 <=> decision = "proceed_if_capacity_admits"
        /\ Rank(decision) = 1 <=>
             decision = "proceed_only_for_custom_offload_prefetch_validation"
    BY RankOf
  <1> SUFFICES /\ decision = "proceed_if_capacity_admits"
                    <=> lane.fit = "candidate" /\ margin >= 0
               /\ decision = "proceed_only_for_custom_offload_prefetch_validation"
                    <=> /\ lane.fit \in {"candidate", "kernel_risk"}
                        /\ lane.gpu # "l4" /\ margin < 0 /\ holds /\ Roomy(lane)
    <2> HIDE DEF decision, margin, holds
    <2> QED BY <1>3, Zenon DEF decision, margin, holds
  <1>4. CASE lane.fit = "reserved"
    <2>1. decision = "reject_for_deepseek_until_drained"
      BY <1>4, SMT DEF Decision
    <2> HIDE DEF decision
    <2> QED BY <1>4, <2>1, Zenon
  <1>5. CASE lane.fit # "reserved" /\ margin >= 0
    <2>1. decision = IF lane.fit = "candidate" THEN "proceed_if_capacity_admits"
                     ELSE "do_not_start_here"
      BY <1>1, <1>5, SMT DEF Decision, Roomy, margin, holds
    <2> HIDE DEF decision, margin, holds
    <2> QED BY <1>1, <1>5, <2>1, Zenon
  <1>6. CASE lane.fit # "reserved" /\ margin < 0
    <2>1. decision = IF ~holds THEN "reject"
                     ELSE IF Roomy(lane) /\ lane.gpu # "l4"
                     THEN "proceed_only_for_custom_offload_prefetch_validation"
                     ELSE "do_not_start_here"
      BY <1>1, <1>6, SMT DEF Decision, Roomy, margin, holds
    <2> HIDE DEF decision, margin, holds
    <2> QED BY <1>1, <1>2, <1>6, <2>1, Zenon
  <1> QED BY <1>1, <1>4, <1>5, <1>6, Zenon

\* A lane that the whole file would be given is not turned down for a part
\* of it.
LEMMA RankFalls ==
    ASSUME NEW lane, LaneShape(lane), NEW few \in Nat, NEW many \in Nat,
           few <= many, lane.fit # "kernel_risk"
    PROVE  Rank(Decision(lane, many)) <= Rank(Decision(lane, few))
  <1>1. lane.total \in Nat /\ lane.host \in Nat
    BY Zenon DEF LaneShape
  <1>2. Margin(lane, many) >= 0 => Margin(lane, few) >= 0
    BY <1>1, MarginFalls, Zenon DEF Margin, MarginOf
  <1>3. HostHolds(lane, many) => HostHolds(lane, few)
    BY <1>1, HostFalls, Zenon DEF HostHolds
  <1>4. Margin(lane, few) >= 0 \/ Margin(lane, few) < 0
    BY <1>1, MarginNumber, Zenon DEF Margin, MarginOf
  <1>5. /\ Rank(Decision(lane, many)) \in 0..2
        /\ Rank(Decision(lane, few)) \in 0..2
    BY RankIs, Zenon
  <1>6. Rank(Decision(lane, many)) = 2 => Rank(Decision(lane, few)) = 2
    BY <1>2, RankIs, Zenon
  <1>7. Rank(Decision(lane, many)) = 1 =>
          Rank(Decision(lane, few)) = 1 \/ Rank(Decision(lane, few)) = 2
    <2>1. Rank(Decision(lane, many)) = 1 =>
            /\ lane.fit \in {"candidate", "kernel_risk"} /\ lane.gpu # "l4"
            /\ HostHolds(lane, many) /\ Roomy(lane)
      BY RankIs, Zenon
    <2>2. lane.fit \in {"candidate", "kernel_risk"} => lane.fit = "candidate"
      BY Zenon
    <2>3. lane.fit = "candidate" /\ Margin(lane, few) >= 0 =>
            Rank(Decision(lane, few)) = 2
      BY RankIs, Zenon
    <2>4. lane.fit = "candidate" /\ lane.gpu # "l4" /\ Margin(lane, few) < 0
            /\ HostHolds(lane, few) /\ Roomy(lane) =>
            Rank(Decision(lane, few)) = 1
      BY RankIs, Zenon
    <2> QED BY <1>3, <1>4, <2>1, <2>2, <2>3, <2>4, Zenon
  <1> DEFINE high == Rank(Decision(lane, few))
             low == Rank(Decision(lane, many))
  <1> HIDE DEF high, low
  <1>8. high \in 0..2 /\ low \in 0..2 /\ (low = 2 => high = 2)
        /\ (low = 1 => high = 1 \/ high = 2)
    BY <1>5, <1>6, <1>7, Zenon DEF high, low
  <1>9. low <= high
    BY <1>8, Ordered, Zenon
  <1> QED BY <1>9, Zenon DEF high, low

-----------------------------------------------------------------------------
\* A report was made of the file as it was, and the file only grows.
IsReport(r, whole) ==
    /\ r.mib \in Sizes \cup {1} /\ r.mib <= whole
    /\ r.decisions = [l \in DOMAIN Lanes |-> Decision(Lanes[l], r.mib)]

FlashInv ==
    /\ metadata \in Seq(Entries) /\ got \in 0..Len(metadata) /\ begun \in BOOLEAN
    /\ size \in Sizes \cup {1}
    /\ sized \in Sizes \cup {0, 1} /\ sized <= size
    /\ json = NoReport \/ IsReport(json, size)
    /\ md = NoReport \/ IsReport(md, size)

LEMMA SizesAreNumbers == Sizes \cup {1} \subseteq Nat
  <1>1. Sizes \subseteq Nat \ {0}
    BY FlashAssumption, Zenon
  <1> QED BY <1>1

LEMMA FlashInvInit == FlashInit => FlashInv
  <1> SUFFICES ASSUME FlashInit PROVE FlashInv
    OBVIOUS
  <1>1. metadata \in Seq(Entries)
    <2>1. PICK m \in 0..MaxEntries : metadata \in [1..m -> Entries]
      BY Zenon DEF FlashInit, BoundedSeq, SeqOf
    <2>2. m \in Nat
      BY FlashAssumption, SMT
    <2>3. Seq(Entries) = UNION {[1..n -> Entries] : n \in Nat}
      BY SeqDef, Zenon
    <2> QED BY <2>1, <2>2, <2>3, Zenon
  <1>2. 0 \in 0..Len(metadata)
    BY <1>1
  <1>3. /\ got = 0 /\ begun = FALSE /\ size \in Sizes \cup {1}
        /\ json = NoReport /\ md = NoReport
    BY Zenon DEF FlashInit
  <1>4. sized \in Sizes \cup {0, 1} /\ sized <= size
    BY DEF FlashInit
  <1> QED BY <1>1, <1>2, <1>3, <1>4, Zenon DEF FlashInv

LEMMA FlashInvStep == FlashInv /\ [FlashNext]_flashVars => FlashInv'
  <1> SUFFICES ASSUME FlashInv, [FlashNext]_flashVars
               PROVE  FlashInv'
    OBVIOUS
  <1>1. CASE EntryComes
    <2>1. got' \in 0..Len(metadata)
      BY <1>1 DEF EntryComes, FlashInv
    <2> QED BY <1>1, <2>1 DEF EntryComes, FlashInv, IsReport
  <1>2. CASE TensorsCome
    <2>1. size' \in Sizes /\ size < size'
      BY <1>2 DEF TensorsCome
    <2>2. ASSUME NEW r, IsReport(r, size) PROVE IsReport(r, size')
      BY <2>1, <2>2, SizesAreNumbers DEF IsReport, FlashInv
    <2>3. sized' \in Sizes \cup {0, 1} /\ sized' <= size'
      BY <1>2, <2>1, SizesAreNumbers DEF TensorsCome, FlashInv
    <2> QED BY <1>2, <2>1, <2>2, <2>3 DEF TensorsCome, FlashInv
  <1>3. CASE Preflight
    <2>1. IsReport(json', size')
      <3>1. sized \in Sizes \cup {1} /\ sized <= size /\ size' = size
        BY <1>3 DEF Preflight, FlashInv
      <3>2. json' = [mib |-> sized, decisions |->
                       [l \in DOMAIN Lanes |-> Decision(Lanes[l], sized)]]
        BY <1>3, Zenon DEF Preflight
      <3> QED BY <3>1, <3>2 DEF IsReport
    <2>2. sized' \in Sizes \cup {0, 1} /\ sized' <= size'
      BY <1>3, SizesAreNumbers DEF Preflight, FlashInv
    <2> QED BY <1>3, <2>1, <2>2 DEF Preflight, FlashInv, IsReport
  <1>4. CASE WriteMarkdown
    BY <1>4 DEF WriteMarkdown, FlashInv, IsReport
  <1>5. CASE TakeSize
    <2>1. sized' \in Sizes \cup {0, 1} /\ sized' <= size'
      BY <1>5, SizesAreNumbers DEF TakeSize, FlashInv
    <2> QED BY <1>5, <2>1 DEF TakeSize, FlashInv, IsReport
  <1>6. CASE ParseRaises
    <2>1. sized' \in Sizes \cup {0, 1} /\ sized' <= size'
      BY <1>6, SizesAreNumbers DEF ParseRaises, FlashInv
    <2> QED BY <1>6, <2>1 DEF ParseRaises, FlashInv, IsReport
  <1>7. CASE UNCHANGED flashVars
    BY <1>7 DEF flashVars, FlashInv, IsReport
  <1> QED BY <1>1, <1>2, <1>3, <1>4, <1>5, <1>6, <1>7 DEF FlashNext

\* What PreflightSafe asks of a report and a lane.
SafeFor(r, l, whole) ==
    LET lane == Lanes[l]
        rank == Rank(r.decisions[l])
    IN  /\ rank > 0 => l \notin {"live_a3_1g", "g2_8g"}
        /\ rank = 2 => 10 * Needs(r.mib) <= 9 * lane.total
        /\ rank = 1 => 4 * lane.host >= 5 * r.mib
        /\ lane.fit # "kernel_risk" => Rank(Decision(lane, whole)) <= rank

\* A report that was made of a part of the file is safe for it, and no harder
\* than one of the whole file.
LEMMA ReportIsSafe ==
    ASSUME FlashInv, NEW r, IsReport(r, size), NEW l \in DOMAIN Lanes
    PROVE  SafeFor(r, l, size)
  <1> DEFINE lane == Lanes[l]
             rank == Rank(Decision(lane, r.mib))
  <1>1. Rank(r.decisions[l]) = rank
    <2>1. r.decisions = [k \in DOMAIN Lanes |-> Decision(Lanes[k], r.mib)]
      BY Zenon DEF IsReport
    <2> QED BY <2>1, Zenon
  <1>2. r.mib \in Nat /\ size \in Nat /\ r.mib <= size
    <2>1. r.mib \in Sizes \cup {1} /\ r.mib <= size /\ size \in Sizes \cup {1}
      BY Zenon DEF IsReport, FlashInv
    <2> QED BY <2>1, SizesAreNumbers
  <1>3. LaneShape(lane)
    BY LanesAre, Zenon
  <1>4. rank \in 0..2
    BY <1>2, <1>3, RankIs, Zenon
  <1>5. rank = 2 \/ rank = 1 => l \notin {"live_a3_1g", "g2_8g"}
    <2>1. rank = 2 \/ rank = 1 => lane.fit \in {"candidate", "kernel_risk"}
      BY <1>2, <1>3, RankIs, Zenon
    <2>2. /\ Lanes["live_a3_1g"].fit = "reserved"
          /\ Lanes["g2_8g"].fit = "deprioritized"
      BY LanesAre, Zenon
    <2> HIDE DEF rank
    <2> QED BY <2>1, <2>2, Zenon
  <1>6. rank = 2 => 10 * Needs(r.mib) <= 9 * lane.total
    <2>1. rank = 2 => Margin(lane, r.mib) >= 0
      BY <1>2, <1>3, RankIs, Zenon
    <2>2. lane.total \in Nat
      BY <1>3, Zenon DEF LaneShape
    <2>3. Margin(lane, r.mib) = MarginOf(lane.total, r.mib)
      BY Zenon DEF Margin, MarginOf
    <2> HIDE DEF rank
    <2> QED BY <1>2, <2>1, <2>2, <2>3, MarginNeeds, Zenon
  <1>7. rank = 1 => 4 * lane.host >= 5 * r.mib
    <2>1. rank = 1 => HostHolds(lane, r.mib)
      BY <1>2, <1>3, RankIs, Zenon
    <2>2. lane.host \in Nat
      BY <1>3, Zenon DEF LaneShape
    <2>3. HostHolds(lane, r.mib) => lane.host >= (5 * r.mib + 3) \div 4
      BY Zenon DEF HostHolds
    <2> HIDE DEF rank
    <2> QED BY <1>2, <2>1, <2>2, <2>3, QuarterToSpare
  <1>8. lane.fit # "kernel_risk" => Rank(Decision(lane, size)) <= rank
    BY <1>2, <1>3, RankFalls, Zenon
  <1>9. rank > 0 => l \notin {"live_a3_1g", "g2_8g"}
    <2> HIDE DEF rank
    <2>1. rank > 0 => rank = 2 \/ rank = 1
      BY <1>4
    <2> QED BY <1>5, <2>1, Zenon
  <1> HIDE DEF rank
  <1> QED BY <1>1, <1>6, <1>7, <1>8, <1>9, Zenon DEF SafeFor

LEMMA FlashInvSafe == FlashInv => PreflightSafe
  <1> SUFFICES ASSUME FlashInv PROVE PreflightSafe
    OBVIOUS
  <1>1. ASSUME NEW r \in {json, md}, r # NoReport, NEW l \in DOMAIN Lanes
        PROVE  SafeFor(r, l, size)
    <2>1. IsReport(r, size)
      <3>1. CASE r = json
        BY <1>1, <3>1, Zenon DEF FlashInv
      <3>2. CASE r = md
        BY <1>1, <3>2, Zenon DEF FlashInv
      <3> QED BY <3>1, <3>2
    <2> QED BY <2>1, ReportIsSafe, Zenon
  <1> QED BY <1>1, Zenon DEF PreflightSafe, SafeFor

LEMMA FlashInvTypes == FlashInv => FlashTypeOK
  BY DEF FlashInv, FlashTypeOK, IsReport

-----------------------------------------------------------------------------
(* The patched packages.                                                   *)

\* The edits of _source_edits, by number.
LEMMA EditsAre ==
    /\ EditIds = 1..12 /\ Len(Edits) = 12
    /\ Edits[1].file = "api" /\ Edits[2].file = "api" /\ Edits[3].file = "api"
    /\ Edits[4].file = "api" /\ Edits[5].file = "api"
    /\ Edits[6].file = "dispatch" /\ Edits[7].file = "dispatch"
    /\ Edits[8].file = "static" /\ Edits[9].file = "micro"
    /\ Edits[10].file = "dynamic"
    /\ Edits[11].file = "w4a16" /\ Edits[12].file = "w4a16"
  <1>1. EditIds = 1..12
    BY DEF EditIds, Edits
  <1>2. Len(Edits) = 12
    BY DEF Edits
  <1>3. /\ Edits[1].file = "api" /\ Edits[2].file = "api"
        /\ Edits[3].file = "api" /\ Edits[4].file = "api"
        /\ Edits[5].file = "api"
    BY DEF Edits
  <1>4. Edits[6].file = "dispatch" /\ Edits[7].file = "dispatch"
    BY DEF Edits
  <1>5. /\ Edits[8].file = "static" /\ Edits[9].file = "micro"
        /\ Edits[10].file = "dynamic"
    BY DEF Edits
  <1>6. Edits[11].file = "w4a16" /\ Edits[12].file = "w4a16"
    BY DEF Edits
  <1> QED BY <1>1, <1>2, <1>3, <1>4, <1>5, <1>6

LEMMA EditIdsAre == EditIds = 1..12 /\ Len(Edits) = 12
  BY EditsAre

LEMMA ToolAtIs == 0..(Len(Edits) + 1) = 0..13
  BY EditIdsAre

LEMMA IdleIs == Idle \in [at : 0..(Len(Edits) + 1), dry : BOOLEAN]
  BY ToolAtIs DEF Idle

\* While the overlay runs it has told nothing yet; the edits behind it are
\* made, or in a dry run have their text.
RunShape ==
    /\ tool # Idle => said = "nothing"
    /\ \A e \in EditIds : e < tool.at =>
         IF tool.dry THEN disk[e] # "gone" ELSE Done(e)

\* Edits are made in their order: in files that are whole there is none
\* without those before it.
EditsInOrder ==
    cut = {} => \A d, e \in EditIds : d < e /\ Done(e) => Done(d)

\* What the overlay told holds of the disk as long as it tells it.
OverlaySays ==
    /\ said = "apply ok" /\ cut = {} => \A e \in EditIds : Done(e)
    /\ said = "dry ok" /\ cut = {} => \A e \in EditIds : disk[e] # "gone"
    /\ said = "valid" /\ cut = {} => \A e \in EditIds \ {Len(Edits)} : Done(e)

\* The helper comes with all that the patch makes, unless the file is cut off.
HelperShape ==
    ~vllm.cut =>
        /\ vllm.helper \in {"old", "current"} =>
             vllm.os = "import" /\ vllm.decode = "branch" /\ vllm.prefill = "branch"
        /\ told \in {"patched", "already"} => vllm.helper = "current"

PatchInv ==
    /\ PatchTypeOK
    /\ RunShape /\ EditsInOrder /\ OverlaySays /\ HelperShape

\* The next text of an edit: not gone unless it was, and then it is made.
LEMMA AfterIs ==
    ASSUME PatchTypeOK, NEW e \in EditIds
    PROVE  /\ After(e) \in Texts
           /\ Everywhere(e) => After(e) # "half"
           /\ After(e) = "gone" <=> disk[e] = "gone"
           /\ disk[e] # "gone" => After(e) \in {"new", "half"}
           /\ Done(e) => After(e) = disk[e]
  <1>1. disk[e] \in Texts /\ (Everywhere(e) => disk[e] # "half")
    BY DEF PatchTypeOK
  <1> QED BY <1>1 DEF After, Texts, Done

\* A release has no edit made.
LEMMA ReleasedIs ==
    ASSUME NEW d \in Released
    PROVE  d \in [EditIds -> Texts] /\ \A e \in EditIds : d[e] \notin {"new", "half"}
  BY DEF Released, Texts

\* validate_overlay finds every edit but one, if they are made in order.
LEMMA ValidFindsAll ==
    ASSUME PatchInv, Valid(disk), cut = {}
    PROVE  \A e \in EditIds \ {Len(Edits)} : Done(e)
  <1>1. \A e \in EditIds \ {4} : Edits[e].file \in {"api", "dispatch"} => Done(e)
    BY DEF Valid, Done
  <1>2. Done(1) /\ Done(2) /\ Done(3) /\ Done(5) /\ Done(6) /\ Done(7)
    BY <1>1, EditsAre
  <1>3. \A k \in Kernels : \E e \in EditIds : Edits[e].file = k /\ Done(e)
    BY DEF Valid, Done
  <1>4. Done(8) /\ Done(9) /\ Done(10)
    <2>1. PICK e \in EditIds : Edits[e].file = "static" /\ Done(e)
      BY <1>3 DEF Kernels
    <2>2. PICK f \in EditIds : Edits[f].file = "micro" /\ Done(f)
      BY <1>3 DEF Kernels
    <2>3. PICK g \in EditIds : Edits[g].file = "dynamic" /\ Done(g)
      BY <1>3 DEF Kernels
    <2>4. e = 8
      BY <2>1, EditsAre
    <2>5. f = 9
      BY <2>2, EditsAre
    <2>6. g = 10
      BY <2>3, EditsAre
    <2> QED BY <2>1, <2>2, <2>3, <2>4, <2>5, <2>6
  <1>5. PICK w \in EditIds : Edits[w].file = "w4a16" /\ Done(w)
    BY <1>3 DEF Kernels
  <1>6. w \in {11, 12}
    BY <1>5, EditsAre
  <1>7. \A d, e \in EditIds : d < e /\ Done(e) => Done(d)
    BY DEF PatchInv, EditsInOrder
  <1>8. \A d \in EditIds : d < 11 => Done(d)
    BY <1>5, <1>6, <1>7, EditIdsAre
  <1>9. Done(11)
    BY <1>5, <1>6, <1>7, EditIdsAre
  <1> QED BY <1>8, <1>9, EditIdsAre

LEMMA PatchInvInit == PatchInit => PatchInv
  <1> SUFFICES ASSUME PatchInit PROVE PatchInv
    OBVIOUS
  <1>1. disk \in [EditIds -> Texts] /\ \A e \in EditIds : disk[e] \notin {"new", "half"}
    BY ReleasedIs DEF PatchInit
  <1>2. vllm \in VllmFiles /\ HelperShape
    BY DEF PatchInit, VllmReleased, HelperShape
  <1>3. PatchTypeOK
    BY <1>1, <1>2, PatchAssumption, EditIdsAre DEF PatchInit, PatchTypeOK, Idle
  <1>4. RunShape
    BY EditIdsAre DEF PatchInit, RunShape, Idle
  <1>5. EditsInOrder /\ OverlaySays
    BY <1>1 DEF PatchInit, EditsInOrder, OverlaySays, Done
  <1> QED BY <1>2, <1>3, <1>4, <1>5 DEF PatchInv

\* Nothing of the overlay moves.
LEMMA OverlayRests ==
    ASSUME RunShape, EditsInOrder, OverlaySays, UNCHANGED overlayVars
    PROVE  RunShape' /\ EditsInOrder' /\ OverlaySays'
  <1>1. disk' = disk /\ cut' = cut /\ tool' = tool /\ said' = said
    BY DEF overlayVars
  <1>2. RunShape'
    BY <1>1 DEF RunShape, Done
  <1>3. EditsInOrder'
    BY <1>1 DEF EditsInOrder, Done
  <1>4. OverlaySays'
    BY <1>1 DEF OverlaySays, Done
  <1> QED BY <1>2, <1>3, <1>4

\* Nor of the patch of vLLM.
LEMMA MlaRests ==
    ASSUME HelperShape, UNCHANGED mlaVars
    PROVE  HelperShape'
  BY DEF HelperShape, mlaVars

\* The types of the bound and of the variables that an action leaves alone.
LEMMA PatchStep == PatchInv /\ [PatchNext]_patchVars => PatchInv'
  <1> SUFFICES ASSUME PatchInv, [PatchNext]_patchVars
               PROVE  PatchInv'
    OBVIOUS
  <1>a. PatchTypeOK /\ RunShape /\ EditsInOrder /\ OverlaySays /\ HelperShape
    BY DEF PatchInv
  <1>c. runs \in 0..MaxRuns /\ tool \in [at : 0..13, dry : BOOLEAN]
    BY <1>a, ToolAtIs DEF PatchTypeOK
  <1>b. ASSUME Counts PROVE runs' \in 0..MaxRuns
    BY <1>b, <1>c, PatchAssumption DEF Counts
  <1>1. CASE Release
    <2>1. disk' \in [EditIds -> Texts] /\ \A e \in EditIds : disk'[e] \notin {"new", "half"}
      BY <1>1, ReleasedIs DEF Release
    <2>2. cut' = {} /\ said' = "nothing" /\ tool' = tool /\ tool = Idle
      BY <1>1 DEF Release
    <2>3. vllm' = vllm /\ told' = told
      BY <1>1 DEF Release, mlaVars
    <2>4. PatchTypeOK'
      BY <1>1, <1>a, <1>b, <2>1, <2>2, <2>3 DEF PatchTypeOK, Release
    <2>5. RunShape'
      BY <2>2, EditIdsAre DEF RunShape, Idle
    <2>6. EditsInOrder' /\ OverlaySays'
      BY <2>1, <2>2 DEF EditsInOrder, OverlaySays, Done
    <2>7. HelperShape'
      BY <1>a, <2>3 DEF HelperShape
    <2> QED BY <2>4, <2>5, <2>6, <2>7 DEF PatchInv
  <1>2. ASSUME NEW dry \in BOOLEAN, Apply(dry)
        PROVE  PatchInv'
    <2>1. /\ tool' = [at |-> 1, dry |-> dry] /\ said' = "nothing"
          /\ disk' = disk /\ cut' = cut /\ vllm' = vllm /\ told' = told
      BY <1>2 DEF Apply, mlaVars
    <2>2. PatchTypeOK'
      <3>1. tool' \in [at : 0..(Len(Edits) + 1), dry : BOOLEAN]
        BY <2>1, ToolAtIs
      <3>2. runs' \in 0..MaxRuns
        BY <1>2, <1>b DEF Apply
      <3> QED BY <1>a, <2>1, <3>1, <3>2 DEF PatchTypeOK
    <2>3. RunShape'
      BY <2>1, EditIdsAre DEF RunShape
    <2>4. EditsInOrder' /\ OverlaySays'
      BY <1>a, <2>1 DEF EditsInOrder, OverlaySays, Done
    <2>5. HelperShape'
      BY <1>a, <2>1 DEF HelperShape
    <2> QED BY <2>2, <2>3, <2>4, <2>5 DEF PatchInv
  <1>3. CASE Edit
    <2> DEFINE k == tool.at
    <2>1. k \in EditIds /\ cut' = cut /\ vllm' = vllm /\ told' = told /\ runs' = runs
      BY <1>3 DEF Edit, mlaVars
    <2>2. /\ tool \in [at : 0..13, dry : BOOLEAN] /\ tool # Idle /\ said = "nothing"
      <3>1. tool # Idle
        BY <2>1, EditIdsAre DEF Idle
      <3> QED BY <1>a, <1>c, <3>1 DEF RunShape
    <2>3. CASE disk[k] = "gone"
      <3>1. tool' = Idle /\ said' = "missing" /\ disk' = disk
        BY <1>3, <2>3 DEF Edit
      <3>2. PatchTypeOK'
        BY <1>a, <2>1, <3>1, IdleIs DEF PatchTypeOK
      <3>3. RunShape'
        BY <3>1, EditIdsAre DEF RunShape, Idle
      <3>4. EditsInOrder' /\ OverlaySays'
        BY <1>a, <2>1, <3>1 DEF EditsInOrder, OverlaySays, Done
      <3>5. HelperShape'
        BY <1>a, <2>1 DEF HelperShape
      <3> QED BY <3>2, <3>3, <3>4, <3>5 DEF PatchInv
    <2>4. CASE disk[k] # "gone"
      <3>1. /\ tool' = [tool EXCEPT !.at = @ + 1] /\ said' = said
            /\ disk' = IF tool.dry THEN disk ELSE [disk EXCEPT ![k] = After(k)]
        BY <1>3, <2>4 DEF Edit
      <3>2. /\ After(k) \in {"new", "half"} /\ After(k) \in Texts
            /\ Everywhere(k) => After(k) # "half"
        BY <1>a, <2>1, <2>4, AfterIs
      <3>3. tool' \in [at : 0..13, dry : BOOLEAN] /\ tool'.at = k + 1
            /\ tool'.dry = tool.dry
        BY <2>1, <2>2, <3>1, EditIdsAre
      <3> HIDE DEF k
      <3>4. /\ disk' \in [EditIds -> Texts]
            /\ \A e \in EditIds : disk'[e] = IF e = k /\ ~tool.dry THEN After(k)
                                             ELSE disk[e]
        BY <1>a, <2>1, <3>1, <3>2 DEF PatchTypeOK
      <3>5. PatchTypeOK'
        <4>1. \A e \in EditIds : Everywhere(e) => disk'[e] # "half"
          BY <1>a, <2>1, <3>2, <3>4 DEF PatchTypeOK
        <4>2. tool' \in [at : 0..(Len(Edits) + 1), dry : BOOLEAN]
          BY <3>3, ToolAtIs
        <4> QED BY <1>a, <2>1, <3>1, <3>4, <4>1, <4>2 DEF PatchTypeOK
      <3>6. \A e \in EditIds : e < k =>
              IF tool.dry THEN disk[e] # "gone" ELSE Done(e)
        BY <1>a DEF RunShape, k
      <3>7. RunShape'
        <4>1. ASSUME NEW e \in EditIds, e < k + 1
              PROVE  IF tool.dry THEN disk'[e] # "gone"
                     ELSE disk'[e] \in {"new", "half"}
          <5>1. e < k \/ e = k
            BY <4>1, <2>1, EditIdsAre
          <5> QED BY <5>1, <3>2, <3>4, <3>6, <2>4 DEF Done
        <4> QED BY <2>2, <3>1, <3>3, <4>1 DEF RunShape, Done
      <3>8. EditsInOrder'
        <4>1. CASE tool.dry
          BY <1>a, <2>1, <3>1, <4>1 DEF EditsInOrder, Done
        <4>2. CASE ~tool.dry
          <5>1. \A e \in EditIds : disk'[e] \in {"new", "half"} <=> Done(e) \/ e = k
            BY <3>2, <3>4, <4>2 DEF Done
          <5>2. ASSUME cut = {}, NEW d \in EditIds, NEW e \in EditIds, d < e,
                       Done(e) \/ e = k
                PROVE  Done(d)
            BY <1>a, <3>6, <4>2, <5>2 DEF EditsInOrder
          <5> QED BY <2>1, <5>1, <5>2 DEF EditsInOrder, Done
        <4> QED BY <4>1, <4>2
      <3>9. OverlaySays'
        BY <2>2, <3>1 DEF OverlaySays
      <3>10. HelperShape'
        BY <1>a, <2>1 DEF HelperShape
      <3> QED BY <3>5, <3>7, <3>8, <3>9, <3>10 DEF PatchInv
    <2> QED BY <2>3, <2>4
  <1>4. CASE ApplyEnds
    <2>1. /\ tool.at = 13 /\ tool' = Idle /\ disk' = disk /\ cut' = cut
          /\ vllm' = vllm /\ told' = told /\ runs' = runs
      <3>1. Len(Edits) + 1 = 13
        BY EditIdsAre
      <3> QED BY <1>4, <3>1, Zenon DEF ApplyEnds, mlaVars
    <2>2. /\ said' \in {"invalid", "dry ok", "apply ok"}
          /\ said' = "dry ok" => tool.dry
          /\ said' = "apply ok" => ~tool.dry
      BY <1>4 DEF ApplyEnds
    <2>3. \A e \in EditIds : IF tool.dry THEN disk[e] # "gone" ELSE Done(e)
      BY <1>a, <2>1, EditIdsAre DEF RunShape
    <2>4. PatchTypeOK'
      BY <1>a, <2>1, <2>2, IdleIs DEF PatchTypeOK
    <2>5. RunShape'
      BY <2>1, EditIdsAre DEF RunShape, Idle
    <2>6. EditsInOrder'
      BY <1>a, <2>1 DEF EditsInOrder, Done
    <2>7. OverlaySays'
      BY <2>1, <2>2, <2>3 DEF OverlaySays, Done
    <2>8. HelperShape'
      BY <1>a, <2>1 DEF HelperShape
    <2> QED BY <2>4, <2>5, <2>6, <2>7, <2>8 DEF PatchInv
  <1>5. CASE Validate
    <2>1. /\ tool = Idle /\ said' = IF Valid(disk) THEN "valid" ELSE "invalid"
          /\ disk' = disk /\ cut' = cut /\ tool' = tool /\ vllm' = vllm /\ told' = told
      BY <1>5 DEF Validate, mlaVars
    <2>2. said' = "valid" /\ cut = {} => \A e \in EditIds \ {Len(Edits)} : Done(e)
      BY <2>1, ValidFindsAll
    <2>3. PatchTypeOK'
      BY <1>5, <1>a, <1>b, <2>1, EditIdsAre DEF PatchTypeOK, Validate
    <2>4. RunShape'
      BY <2>1, EditIdsAre DEF RunShape, Idle
    <2>5. EditsInOrder'
      BY <1>a, <2>1 DEF EditsInOrder, Done
    <2>6. OverlaySays'
      BY <2>1, <2>2 DEF OverlaySays, Done
    <2>7. HelperShape'
      BY <1>a, <2>1 DEF HelperShape
    <2> QED BY <2>3, <2>4, <2>5, <2>6, <2>7 DEF PatchInv
  <1>6. CASE Dies
    <2>1. /\ tool' = Idle /\ disk' = disk /\ cut' = cut /\ said' = said
          /\ vllm' = vllm /\ told' = told /\ runs' = runs
      BY <1>6 DEF Dies, mlaVars
    <2>2. PatchTypeOK'
      BY <1>a, <2>1, IdleIs DEF PatchTypeOK
    <2>3. RunShape'
      BY <2>1, EditIdsAre DEF RunShape, Idle
    <2>4. EditsInOrder' /\ OverlaySays'
      BY <1>a, <2>1 DEF EditsInOrder, OverlaySays, Done
    <2>5. HelperShape'
      BY <1>a, <2>1 DEF HelperShape
    <2> QED BY <2>2, <2>3, <2>4, <2>5 DEF PatchInv
  <1>7. CASE DiesWriting
    <2>1. /\ tool.at \in EditIds /\ tool' = Idle /\ said' = said
          /\ vllm' = vllm /\ told' = told /\ runs' = runs
          /\ cut' = cut \cup {Edits[tool.at].file}
      BY <1>7 DEF DiesWriting, mlaVars
    <2>2. /\ disk' \in [EditIds -> Texts]
          /\ \A e \in EditIds : Everywhere(e) => disk'[e] # "half"
      <3> DEFINE file == {e \in EditIds : Edits[e].file = Edits[tool.at].file}
      <3>1. PICK from \in file \cup {Len(Edits) + 1} :
                disk' = [e \in EditIds |->
                           IF e \in file /\ e >= from THEN "gone"
                           ELSE IF e = tool.at THEN After(e) ELSE disk[e]]
        BY <1>7 DEF DiesWriting
      <3>2. After(tool.at) \in Texts
            /\ (Everywhere(tool.at) => After(tool.at) # "half")
        BY <1>a, <2>1, AfterIs
      <3> HIDE DEF file
      <3> QED BY <1>a, <3>1, <3>2 DEF PatchTypeOK, Texts
    <2>3. cut' # {} /\ cut' \subseteq {Edits[e].file : e \in EditIds}
      BY <1>a, <2>1 DEF PatchTypeOK
    <2>4. PatchTypeOK'
      <3>1. \A e \in EditIds : Everywhere(e)' <=> Everywhere(e)
        BY DEF Everywhere
      <3> QED BY <1>a, <2>1, <2>2, <2>3, <3>1, IdleIs DEF PatchTypeOK
    <2>5. RunShape'
      BY <2>1, EditIdsAre DEF RunShape, Idle
    <2>6. EditsInOrder' /\ OverlaySays'
      BY <2>3 DEF EditsInOrder, OverlaySays
    <2>7. HelperShape'
      BY <1>a, <2>1 DEF HelperShape
    <2> QED BY <2>4, <2>5, <2>6, <2>7 DEF PatchInv
  <1>8. ASSUME VllmRelease \/ MlaPatch \/ MlaDryRun \/ MlaDiesWriting
        PROVE  PatchInv'
    <2>1. UNCHANGED overlayVars /\ Counts
      BY <1>8 DEF VllmRelease, MlaPatch, MlaDryRun, MlaDiesWriting
    <2>2. /\ vllm' \in VllmFiles /\ told' \in {"nothing", "patched", "already", "raised"}
          /\ HelperShape'
      <3>1. vllm \in VllmFiles /\ HelperShape
        BY <1>a DEF PatchTypeOK
      <3>2. CASE VllmRelease
        BY <3>2 DEF VllmRelease, VllmReleased, HelperShape
      <3>3. CASE MlaPatch
        <4>1. vllm' = Patched.file /\ told' = Patched.result
          BY <3>3 DEF MlaPatch
        <4>2. CASE vllm.helper = "current"
          BY <3>1, <4>1, <4>2 DEF Patched, HelperShape
        <4>3. CASE vllm.helper = "old"
          <5>1. CASE vllm.cut
            BY <3>1, <4>1, <4>3, <5>1 DEF Patched, HelperShape
          <5>2. CASE ~vllm.cut
            <6>1. told' = "patched" /\ vllm' = [vllm EXCEPT !.helper = "current"]
              BY <4>1, <4>3, <5>2 DEF Patched
            <6> QED BY <3>1, <4>3, <5>2, <6>1 DEF VllmFiles, HelperShape
          <5> QED BY <5>1, <5>2
        <4>4. CASE /\ vllm.helper = "anchor" /\ vllm.os # "gone"
                   /\ vllm.decode = "call" /\ vllm.prefill = "call"
          <5>1. /\ told' = "patched"
                /\ vllm' = [vllm EXCEPT !.os = "import", !.helper = "current",
                                        !.decode = "branch", !.prefill = "branch"]
            BY <4>1, <4>4 DEF Patched
          <5> QED BY <3>1, <5>1 DEF VllmFiles, HelperShape
        <4>5. CASE /\ vllm.helper \notin {"current", "old"}
                   /\ ~(vllm.helper = "anchor" /\ vllm.os # "gone"
                          /\ vllm.decode = "call" /\ vllm.prefill = "call")
          <5>1. told' = "raised" /\ vllm' = vllm
            BY <4>1, <4>5 DEF Patched
          <5> QED BY <3>1, <5>1 DEF HelperShape
        <4> QED BY <4>2, <4>3, <4>4, <4>5
      <3>4. CASE MlaDryRun
        BY <3>1, <3>4 DEF MlaDryRun, HelperShape
      <3>5. CASE MlaDiesWriting
        BY <3>5 DEF MlaDiesWriting, VllmFiles, HelperShape
      <3> QED BY <1>8, <3>2, <3>3, <3>4, <3>5
    <2>3. PatchTypeOK'
      BY <1>a, <1>b, <2>1, <2>2 DEF PatchTypeOK, overlayVars
    <2>4. RunShape' /\ EditsInOrder' /\ OverlaySays'
      BY <1>a, <2>1, OverlayRests
    <2> QED BY <2>2, <2>3, <2>4 DEF PatchInv
  <1>9. CASE UNCHANGED patchVars
    <2>1. UNCHANGED overlayVars /\ UNCHANGED mlaVars /\ runs' = runs
      BY <1>9 DEF patchVars
    <2>2. PatchTypeOK'
      BY <1>a, <2>1 DEF PatchTypeOK, overlayVars, mlaVars
    <2> QED BY <1>a, <2>1, <2>2, OverlayRests, MlaRests DEF PatchInv
  <1> QED BY <1>1, <1>2, <1>3, <1>4, <1>5, <1>6, <1>7, <1>8, <1>9
          DEF PatchNext

\* What the tools say of a package follows.
LEMMA PatchInvHonest == PatchInv => PatchesHonest
  BY DEF PatchInv, OverlaySays, HelperShape, PatchesHonest
=============================================================================
