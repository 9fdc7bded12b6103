------------------------------ MODULE FableLadder ------------------------------
(***************************************************************************)
(* The ladder of reports that leads to an adapter on a runtime, or not     *)
(* (hydralisk/admission/deepseek_v4_fable.py): a probe compares the        *)
(* adapter's target modules with the modules of a runtime image, and the   *)
(* tools after it read the report of an earlier one from its file, for a   *)
(* decision on loading, on a lab evaluation and on packing targets that    *)
(* the runtime has fused.                                                  *)
(*                                                                         *)
(* Image and adapter are external and may be replaced between two tools,   *)
(* which then go on with what was true once.  The operator who makes the   *)
(* private load notes it in the report on it (external).                   *)
(***************************************************************************)
EXTENDS Naturals, FiniteSets

CONSTANTS
    AdapterTargets,  \* target modules that an adapter may name
    RuntimeModules,  \* last names of modules that an image may have
    MaxChanges       \* bound: new images and new adapters

ASSUME LadderAssumption == MaxChanges \in Nat

VARIABLES
    targets,   \* of the adapter, as its configuration names them
    modules,   \* of the image
    changes,   \* of either, so far
    compat,    \* the reports, as they were written last: the probe,
    canary,    \* the load canary,
    lab,       \* the lab evaluation,
    retarget,  \* the plan for packed targets,
    owner      \* and the owner of o_proj

ladderVars == <<targets, modules, changes, compat, canary, lab, retarget, owner>>

NoFile == [status |-> "none"]

LadderInit ==
    /\ targets \in (SUBSET AdapterTargets) \ {{}}
    /\ modules \in SUBSET RuntimeModules
    /\ changes = 0
    /\ compat = NoFile /\ canary = NoFile /\ lab = NoFile
    /\ retarget = NoFile /\ owner = NoFile

files == <<compat, canary, lab, retarget, owner>>

Changes == changes < MaxChanges /\ changes' = changes + 1

NewImage ==
    /\ Changes
    /\ modules' \in SUBSET RuntimeModules
    /\ UNCHANGED <<targets, files>>

\* A configuration without targets is refused by the probe.
NewAdapter ==
    /\ Changes
    /\ targets' \in SUBSET AdapterTargets
    /\ UNCHANGED <<modules, files>>

-----------------------------------------------------------------------------
(* The probe: validate_requested_files, the metadata, the module list and  *)
(* build_report.                                                           *)

\* A merged shard needs the flag, and any other extra file is refused.
FilesAllowed(extra, unsafe) ==
    extra = "recorded" \/ (extra = "merged shard" /\ unsafe)

\* compare_adapter_targets: a module has the target for its last name.
MissingFrom(wanted, there) == wanted \ there

\* A metadata file that is not there ends the probe before it reports.
Probe(extra, unsafe, whole) ==
    /\ FilesAllowed(extra, unsafe) /\ whole
    /\ targets # {}
    /\ LET missing == MissingFrom(targets, modules)
       IN  compat' = [status  |-> IF missing = {}
                                  THEN "adapter_targets_match_runtime_surface"
                                  ELSE "rejected_adapter_incompatible",
                      targets |-> targets, modules |-> modules,
                      missing |-> missing, canLoad |-> missing = {}]
    /\ UNCHANGED <<targets, modules, changes, canary, lab, retarget, owner>>

-----------------------------------------------------------------------------
(* The tools that read a report.                                           *)

\* build_load_canary_report: the tool decides, and loads nothing.
LoadCanary ==
    /\ compat # NoFile
    /\ canary' = [status    |-> IF compat.canLoad
                                THEN "ready_for_private_adapter_load_canary"
                                ELSE "blocked_adapter_incompatible",
                  canLoad   |-> compat.canLoad,
                  missing   |-> compat.missing,
                  attempted |-> FALSE,
                  blockers  |-> IF compat.canLoad THEN {}
                                ELSE {"adapter_runtime_targets_missing"},
                  of        |-> compat]
    /\ UNCHANGED <<targets, modules, changes, compat, lab, retarget, owner>>

\* The operator's private load, where the report allows one.
OperatorLoads ==
    /\ canary # NoFile /\ canary.canLoad
    /\ canary' = [canary EXCEPT !.attempted = TRUE]
    /\ UNCHANGED <<targets, modules, changes, compat, lab, retarget, owner>>

\* build_lab_eval_report: no evaluation is admitted, whatever was loaded, for
\* there is no way to give the metrics.
LabEval ==
    /\ canary # NoFile
    /\ LET tried == canary.canLoad /\ canary.attempted
       IN  lab' = [status    |-> IF tried
                                 THEN "rejected_quality_or_safety_gate_failed"
                                 ELSE "rejected_runtime_unstable",
                   attempted |-> tried,
                   admitted  |-> FALSE,
                   blockers  |-> canary.blockers \cup
                                 IF tried THEN {"lab_eval_metrics_missing"} ELSE {},
                   of        |-> canary]
    /\ UNCHANGED <<targets, modules, changes, compat, canary, retarget, owner>>

Attention == {"q_proj", "k_proj", "v_proj"}
GateUp == {"gate_proj", "up_proj"}

\* Mutant of Classify: a target of a packed family is packed in any case.
ClassifyByName(target, there) ==
    CASE target \in Attention \cup GateUp -> "packed_transform_required"
      [] target \notin Attention \cup GateUp /\ target \in there ->
           "direct_attachable"
      [] OTHER -> "unmapped_unknown"

\* _classify_retarget_target
Classify(target, there) ==
    CASE target \in there -> "direct_attachable"
      [] target \in (Attention \cup GateUp) \ there -> "packed_transform_required"
      [] target \in {"o_proj"} \ there -> "source_inventory_required"
      [] OTHER -> "unmapped_unknown"

\* build_retarget_plan_report, from the report of the probe.
RetargetPlan ==
    /\ compat # NoFile
    /\ LET having(status) ==
               {t \in compat.targets : Classify(t, compat.modules) = status}
           packed == having("packed_transform_required")
           sourced == having("source_inventory_required")
           unknown == having("unmapped_unknown")
       IN  retarget' =
             [status  |-> IF sourced \cup unknown # {}
                          THEN "blocked_source_inventory_required"
                          ELSE IF packed # {}
                          THEN "blocked_packed_transform_implementation_missing"
                          ELSE "ready_for_private_adapter_load_canary",
              packed  |-> packed, sourced |-> sourced, unknown |-> unknown,
              canLoad |-> packed \cup sourced \cup unknown = {},
              of      |-> compat]
    /\ UNCHANGED <<targets, modules, changes, compat, canary, lab, owner>>

\* build_o_proj_ownership_report, from an inventory of an image's source: a
\* model module with the attribute, an attention method of its own, the call
\* it makes, and the kernel's function.
OwnerOfOProj(source) ==
    /\ LET exposed == "attribute" \in source
           kernel == {"method", "call", "kernel"} \subseteq source
       IN  owner' = [status     |-> CASE exposed -> "adapter_addressable_o_proj_module"
                                      [] ~exposed /\ kernel ->
                                           "o_proj_owner_proven_kernel_provider"
                                      [] OTHER -> "blocked_o_proj_owner_unknown",
                     vanilla    |-> exposed,
                     canProceed |-> kernel /\ ~exposed]
    /\ UNCHANGED <<targets, modules, changes, compat, canary, lab, retarget>>

LadderNext ==
    \/ NewImage \/ NewAdapter
    \/ \E extra \in {"recorded", "merged shard", "other"},
          unsafe, whole \in BOOLEAN : Probe(extra, unsafe, whole)
    \/ LoadCanary \/ OperatorLoads \/ LabEval \/ RetargetPlan
    \/ \E source \in SUBSET {"attribute", "method", "call", "kernel"} :
         OwnerOfOProj(source)

LadderSpec == LadderInit /\ [][LadderNext]_ladderVars

-----------------------------------------------------------------------------
(* Properties                                                              *)

LadderTypeOK ==
    /\ targets \subseteq AdapterTargets /\ modules \subseteq RuntimeModules
    /\ changes \in 0..MaxChanges

\* No step of the ladder lets through what the probe under it did not, even
\* with reports of different days (deepseek_v4_fable.py): a load is allowed,
\* and was made, only for an adapter of which every target was a module of the
\* image that was probed; of one probe the canary and the plan come to the
\* same decision, and the plan finds a kind of work for each target that was
\* missing and for no other; an evaluation has been tried only after a load,
\* is never admitted, and has no blockers only while a load is still to come;
\* and packing o_proj is proposed only where vanilla loading is not.
LadderHonest ==
    /\ canary # NoFile /\ (canary.canLoad \/ canary.attempted) =>
         canary.of.targets # {} /\ canary.of.targets \subseteq canary.of.modules
    /\ canary # NoFile /\ retarget # NoFile /\ canary.of = retarget.of =>
         canary.canLoad = retarget.canLoad
    /\ retarget # NoFile =>
         /\ retarget.packed \cup retarget.sourced \cup retarget.unknown =
              retarget.of.missing
         /\ retarget.packed \cap (retarget.sourced \cup retarget.unknown) = {}
    /\ lab # NoFile =>
         /\ ~lab.admitted
         /\ lab.attempted => /\ lab.of.attempted
                             /\ lab.of.of.targets \subseteq lab.of.of.modules
         /\ lab.blockers = {} => lab.of.canLoad /\ ~lab.of.attempted
    /\ owner # NoFile => ~(owner.vanilla /\ owner.canProceed)
=============================================================================
