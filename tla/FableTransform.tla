----------------------------- MODULE FableTransform -----------------------------
(***************************************************************************)
(* From the payload of the adapter to a file of packed deltas              *)
(* (hydralisk/admission/deepseek_v4_fable.py).  Three tools look at the    *)
(* header of the payload: the transform smoke expects the targets of the   *)
(* configuration, the context map asks which surface of the runtime each   *)
(* group of modules goes to, the loader proof is about the indexer.  A     *)
(* fourth writes the deltas, and reads none of their reports.              *)
(*                                                                         *)
(* Of a tensor there is its rank; its other dimension and its values are   *)
(* left out, but for whether all of them are zero.                         *)
(***************************************************************************)
EXTENDS Naturals, Sequences, FiniteSets, FiniteSetsExt, SequencesExt

CONSTANTS
    Payloads,  \* sets of LoRA modules that an adapter file may have
    MaxPacks   \* bound: runs of the writer

ASSUME FableAssumption ==
    /\ \A p \in Payloads : IsFiniteSet(p)
    /\ MaxPacks \in Nat

NoLayer == 99

VARIABLES
    payload,   \* the modules of the adapter file
    smoke,     \* the reports: of the transform smoke,
    map,       \* of the context map,
    proof,     \* of the loader proof,
    packed,    \* and of the writer
    artifact,  \* its file: what it is to hold, and how much of it is there
    writing,   \* the writer is at work, with the layers it was given
    packs      \* how often it has been run

fableVars == <<payload, smoke, map, proof, packed, artifact, writing, packs>>

NoArtifact == [specs |-> <<>>, there |-> 0, by |-> 0]
NoPacked == [by |-> 0]

FableInit ==
    /\ payload \in Payloads
    /\ smoke = "none" /\ map = "none" /\ proof = "none"
    /\ packed = NoPacked /\ artifact = NoArtifact
    /\ writing = FALSE /\ packs = 0

-----------------------------------------------------------------------------
(* The modules of the payload: each has a name, a target, a layer, the     *)
(* family of contexts its path is in, and the ranks of A and B, 0 for a    *)
(* tensor that is not there.                                               *)

\* collect_lora_pairs
Complete(m) == m.a # 0 /\ m.b # 0

Of(target) == {m \in payload : m.target = target}

\* _lora_context: of the mlp, only _context_family tells shared experts apart.
Context(m) == IF m.family = "mlp_shared_experts" THEN "mlp" ELSE m.family

Layers(ms) == {m.layer : m \in ms} \ {NoLayer}

-----------------------------------------------------------------------------
(* build_transform_smoke_report                                            *)

PackedFamilies ==
    {<<"q_proj", "k_proj", "v_proj">>, <<"gate_proj", "up_proj">>,
     <<"o_proj">>, <<"down_proj">>}
InAttention == {"q_proj", "k_proj", "v_proj", "o_proj"}
Targets == InAttention \cup {"gate_proj", "up_proj", "down_proj"}

Expected(target) == IF target \in InAttention THEN "attention" ELSE "mlp"

\* _summarize_packed_families: layers are compared among the targets of a
\* family that have any.
Blockers ==
    {<<"missing_lora_pairs", t>> :
        t \in {u \in Targets : ~\E m \in Of(u) : Complete(m)}}
    \cup {<<"incomplete_lora_pairs", t>> :
        t \in {u \in Targets : \E m \in Of(u) : ~Complete(m)}}
    \cup {<<"incompatible_lora_shapes", t>> :
        t \in {u \in Targets : \E m \in Of(u) : Complete(m) /\ m.a # m.b}}
    \cup {<<"unsupported_lora_context", t>> :
        t \in {u \in Targets : \E m \in Of(u) : Context(m) # Expected(u)}}
    \cup {<<"target_layer_sets_differ", f>> :
        f \in {g \in PackedFamilies :
                 \E i, j \in DOMAIN g :
                    LET one == Layers(Of(g[i]))
                        two == Layers(Of(g[j]))
                    IN  one # {} /\ two # {} /\ one # two}}

\* _has_config_payload_mismatch
Mismatch(blockers) ==
    \/ \E t \in InAttention : <<"missing_lora_pairs", t>> \in blockers
    \/ \E b \in blockers : b[1] = "unsupported_lora_context"

TransformSmoke ==
    /\ smoke' = IF Blockers = {} THEN "shape_manifest_ready_for_transform_writer"
                ELSE IF Mismatch(Blockers)
                THEN "blocked_adapter_config_payload_mismatch"
                ELSE "blocked_adapter_shape_manifest_incomplete"
    /\ UNCHANGED <<payload, map, proof, packed, artifact, writing, packs>>

-----------------------------------------------------------------------------
(* build_context_map_report, with the inventory that is recorded: the      *)
(* surfaces of the runtime, each with the shard that takes the target.     *)

NoShard == 9

Surfaces ==
    {[family |-> "mlp_shared_experts", target |-> "gate_proj", shard |-> 0],
     [family |-> "mlp_shared_experts", target |-> "up_proj", shard |-> 1],
     [family |-> "mlp_shared_experts", target |-> "down_proj", shard |-> NoShard],
     [family |-> "attention_compressor", target |-> "gate_proj", shard |-> 1],
     [family |-> "attention_compressor_indexer", target |-> "gate_proj",
      shard |-> 1]}

\* _build_context_entries: the groups of modules whose pairs are complete.
Groups == {<<m.family, m.target>> : m \in {n \in payload : Complete(n)}}
InGroup(g) == {m \in payload : Complete(m) /\ <<m.family, m.target>> = g}

\* _context_mapping_blockers, of one group
MappingBlockers(g) ==
    IF ~\E s \in Surfaces : <<s.family, s.target>> = g
    THEN {"missing_runtime_surface"}
    ELSE {b \in {"loader_path_proof_required", "missing_layer_coverage"} :
            IF b = "loader_path_proof_required"
            THEN g[1] = "attention_compressor_indexer"
            ELSE /\ g[2] \in {"gate_proj", "up_proj", "down_proj"}
                 /\ Layers(InGroup(g)) = {}}

\* A payload without a complete pair has no groups, and is ready.
ContextMap ==
    /\ map' = IF \E g \in Groups : /\ g[1] = "attention_compressor_indexer"
                                   /\ MappingBlockers(g) # {}
              THEN "blocked_indexer_loader_mapping_required"
              ELSE IF \E g \in Groups : MappingBlockers(g) # {}
              THEN "blocked_context_mapping_incomplete"
              ELSE "context_map_ready_for_transform_writer"
    /\ UNCHANGED <<payload, smoke, proof, packed, artifact, writing, packs>>

\* build_indexer_loader_proof_report: the names of the first two layers are
\* rewritten as the loader does it, which works for any layer, and where no
\* module has one there is nothing to rewrite.
LoaderProof ==
    /\ proof' = IF \E m \in payload :
                      /\ Complete(m) /\ m.target = "gate_proj"
                      /\ m.family = "attention_compressor_indexer"
                THEN "indexer_loader_mapping_proven"
                ELSE "blocked_indexer_loader_mapping_unproven"
    /\ UNCHANGED <<payload, smoke, map, packed, artifact, writing, packs>>

-----------------------------------------------------------------------------
(* build_packed_delta_report                                               *)

\* Mutant of Outputs: gate and up change places.
OutputsSwapped(m) ==
    {<<m.layer, s.family, s.target, s.shard>> :
        s \in {r \in Surfaces : /\ r.family = m.family /\ r.family # "mlp_shared_experts"
                                /\ r.target = m.target}}
    \cup {<<m.layer, m.family, m.target, s>> :
            s \in IF m.family # "mlp_shared_experts" THEN {}
                  ELSE CASE m.target = "gate_proj" -> {1}
                         [] m.target = "up_proj" -> {0}
                         [] OTHER -> {}}

\* _packed_delta_output_for_module: the tensor of the checkpoint that a
\* module's delta is for, with its shard, or none.
Outputs(m) ==
    CASE m.family = "mlp_shared_experts" ->
           {<<m.layer, m.family, m.target, s>> :
              s \in CASE m.target = "gate_proj" -> {0}
                      [] m.target = "up_proj" -> {1}
                      [] m.target = "down_proj" -> {NoShard}
                      [] OTHER -> {}}
      [] m.family \in {"attention_compressor", "attention_compressor_indexer"} ->
           IF m.target = "gate_proj" THEN {<<m.layer, m.family, m.target, 1>>}
           ELSE {}
      [] OTHER -> {}

\* _packed_delta_specs: the modules that are written, in the order of their
\* outputs, those of an output that two have in any.
Packable(layers) ==
    {m \in payload : /\ Complete(m) /\ m.layer \in layers \ {NoLayer}
                     /\ Outputs(m) # {}}

AllLayers == Layers(payload)

\* The writer begins: header first, for all it is going to write.
\* _adapter_lora_value_stats looks at each B of the payload.
PackBegin(layers) ==
    /\ ~writing /\ packs < MaxPacks
    /\ Packable(layers) # {}
    /\ writing' = TRUE /\ packs' = packs + 1
    /\ artifact' = [specs |-> SetToSeq(Packable(layers)), there |-> 0,
                    by |-> packs + 1, all |-> layers = AllLayers,
                    zero |-> \A m \in payload : m.b # 0 => m.zero]
    /\ UNCHANGED <<payload, smoke, map, proof, packed>>

\* One delta, B times A: ranks that differ raise, and the file stays as it is.
PackDelta ==
    /\ writing /\ artifact.there < Len(artifact.specs)
    /\ LET m == artifact.specs[artifact.there + 1]
       IN  IF m.a = m.b
           THEN artifact' = [artifact EXCEPT !.there = @ + 1] /\ UNCHANGED writing
           ELSE writing' = FALSE /\ UNCHANGED artifact
    /\ UNCHANGED <<payload, smoke, map, proof, packed, packs>>

PackReport ==
    /\ writing /\ artifact.there = Len(artifact.specs)
    /\ writing' = FALSE
    /\ packed' = [by |-> artifact.by, specs |-> artifact.specs,
                  all |-> artifact.all, semantic |-> ~artifact.zero]
    /\ UNCHANGED <<payload, smoke, map, proof, artifact, packs>>

PackDies ==
    /\ writing
    /\ writing' = FALSE
    /\ UNCHANGED <<payload, smoke, map, proof, packed, artifact, packs>>

FableNext ==
    \/ TransformSmoke \/ ContextMap \/ LoaderProof
    \/ \E layers \in {AllLayers} \cup {{l} : l \in AllLayers} : PackBegin(layers)
    \/ PackDelta \/ PackReport \/ PackDies

-----------------------------------------------------------------------------
(* Properties                                                              *)

FableTypeOK ==
    /\ payload \in Payloads /\ packs \in 0..MaxPacks /\ writing \in BOOLEAN
    /\ artifact.there \in 0..Len(artifact.specs)
    /\ packed.by \in 0..packs

\* Two modules for one tensor of the checkpoint: their layers have the same
\* number in different stacks.
Twins(specs) ==
    \E i, j \in DOMAIN specs : i # j /\ Outputs(specs[i]) = Outputs(specs[j])

\* The header of the file: an output has the place of the last of its specs.
Places(specs) ==
    {Max({i \in DOMAIN specs : Outputs(specs[i]) = Outputs(specs[j])}) :
        j \in DOMAIN specs}

\* A report of packed deltas can be relied on, whatever runs died before or
\* after it (deepseek_v4_fable.py, build_packed_delta_report and the reports
\* before it): its file is whole until the next run begins, and the tensors
\* of its header fill it without a gap, but for twins; each delta goes to a
\* surface of the runtime that the context map knows, and to its shard; one
\* that is called zero changes nothing; with all layers, everything that the
\* context map had admitted and that has a layer is in it; and the two tools
\* that call a payload ready for the writer never do so of the same payload.
DeltaHonest ==
    /\ packed # NoPacked /\ packed.by = artifact.by =>
         artifact.there = Len(packed.specs) /\ artifact.specs = packed.specs
    /\ packed # NoPacked =>
         /\ packed.specs # <<>>
         /\ ~Twins(packed.specs) => Places(packed.specs) = DOMAIN packed.specs
         /\ \A i \in DOMAIN packed.specs : \A o \in Outputs(packed.specs[i]) :
              \E s \in Surfaces :
                 <<s.family, s.target, s.shard>> = <<o[2], o[3], o[4]>>
         /\ ~packed.semantic =>
              \A i \in DOMAIN packed.specs : packed.specs[i].zero
         /\ packed.all /\ map = "context_map_ready_for_transform_writer" =>
              {m \in payload : Complete(m) /\ m.layer # NoLayer} =
                {packed.specs[i] : i \in DOMAIN packed.specs}
    /\ ~(/\ smoke = "shape_manifest_ready_for_transform_writer"
         /\ map = "context_map_ready_for_transform_writer")
=============================================================================
