---------------------------- MODULE VendorPatches ----------------------------
(***************************************************************************)
(* The two tools of hydralisk/admission that edit installed packages:      *)
(* deepseek_v4_b12x_clamp_patch.py, which makes twelve edits in six files  *)
(* of FlashInfer and writes a file after each, and                         *)
(* deepseek_v4_sparse_mla_vllm_patch.py, which rewrites one file of vLLM.  *)
(*                                                                         *)
(* A release of a package brings files in which the text of an edit is     *)
(* there, once or twice, or is not.  A tool may die between two writes, or *)
(* within one, which leaves the file cut off.                              *)
(***************************************************************************)
EXTENDS Naturals, Sequences, FiniteSets

CONSTANT MaxRuns  \* bound: releases and runs of a tool, together

ASSUME PatchAssumption == MaxRuns \in Nat

\* The edits of _source_edits in their order, each by its file and name.
Edits ==
    <<[file |-> "api", does |-> "fused_moe takes the limit"],
      [file |-> "api", does |-> "fused_moe forwards it"],
      [file |-> "api", does |-> "wrapper takes it"],
      [file |-> "api", does |-> "wrapper stores it"],
      [file |-> "api", does |-> "wrapper forwards it"],
      [file |-> "dispatch", does |-> "launch takes it"],
      [file |-> "dispatch", does |-> "launch normalizes it"],
      [file |-> "static", does |-> "mark the clamp site"],
      [file |-> "micro", does |-> "mark the clamp site"],
      [file |-> "dynamic", does |-> "mark the clamp site"],
      [file |-> "w4a16", does |-> "mark the clamp site"],
      [file |-> "w4a16", does |-> "mark the standalone site"]>>

EditIds == DOMAIN Edits
Kernels == {"static", "micro", "dynamic", "w4a16"}

\* Edits with count 0 change every place of their text, the others one.
Everywhere(e) == Edits[e].file \in {"static", "micro", "dynamic"}

VARIABLES
    disk,   \* each edit: its text is old, old at two places (twice), new,
            \* new at one of two (half), or gone
    cut,    \* the files that were cut off
    tool,   \* the overlay's run: the edit it is at, or 0; and if it is dry
    said,   \* what the last run of the overlay found, of the disk as it is
    vllm,   \* the parts of the vLLM file
    told,   \* what the last run of the sparse MLA patch found of it
    runs

overlayVars == <<disk, cut, tool, said>>
mlaVars == <<vllm, told>>
patchVars == <<overlayVars, mlaVars, runs>>

Texts == {"old", "twice", "new", "half", "gone"}
Idle == [at |-> 0, dry |-> FALSE]

\* The parts of the vLLM file in their order: import os, or the import of
\* typing that it is put before; the helper after its anchor, the decode call
\* and the prefill call.  Of a helper that is cut off before its version,
\* what is there is an old one.
VllmFiles ==
    [os : {"import", "typing", "gone"},
     helper : {"anchor", "old", "current", "gone"},
     decode : {"call", "branch", "gone"}, prefill : {"call", "branch", "gone"},
     cut : BOOLEAN]

PatchTypeOK ==
    /\ disk \in [EditIds -> Texts]
    /\ \A e \in EditIds : Everywhere(e) => disk[e] # "half"
    /\ cut \subseteq {Edits[e].file : e \in EditIds}
    /\ tool \in [at : 0..(Len(Edits) + 1), dry : BOOLEAN]
    /\ said \in {"nothing", "dry ok", "apply ok", "valid", "invalid", "missing"}
    /\ vllm \in VllmFiles
    /\ told \in {"nothing", "patched", "already", "raised"}
    /\ runs \in 0..MaxRuns

\* A release as the tool was made for it, or one in which one text differs.
Released ==
    {[e \in EditIds |-> IF e = odd THEN text ELSE "old"] :
        odd \in EditIds \cup {0}, text \in {"gone", "twice"}}

\* A new release, in which one text may be gone, or a file that an earlier
\* version of the patch has left.
VllmReleased ==
    {f \in VllmFiles :
        /\ ~f.cut
        /\ \/ /\ f.helper \in {"anchor", "gone"}
              /\ f.decode # "branch" /\ f.prefill # "branch"
              /\ Cardinality({p \in DOMAIN f \ {"cut"} : f[p] = "gone"}) <= 1
           \/ f = [os |-> "import", helper |-> "old", decode |-> "branch",
                   prefill |-> "branch", cut |-> FALSE]}

PatchInit ==
    /\ disk \in Released /\ cut = {} /\ tool = Idle /\ said = "nothing"
    /\ vllm \in VllmReleased /\ told = "nothing"
    /\ runs = 0

-----------------------------------------------------------------------------
(* The overlay: apply_overlay, edit by edit, and validate_overlay.         *)

Counts == runs < MaxRuns /\ runs' = runs + 1

Release ==
    /\ Counts /\ tool = Idle
    /\ disk' \in Released /\ cut' = {} /\ said' = "nothing"
    /\ UNCHANGED <<tool, mlaVars>>

Apply(dry) ==
    /\ Counts /\ tool = Idle
    /\ tool' = [at |-> 1, dry |-> dry]
    /\ said' = "nothing"
    /\ UNCHANGED <<disk, cut, mlaVars>>

\* _apply_edit_text: text that is there in its new form is left alone.
After(e) ==
    CASE disk[e] = "old" -> "new"
      [] disk[e] = "twice" -> IF Everywhere(e) THEN "new" ELSE "half"
      [] OTHER -> disk[e]

\* Mutant of Edit: an edit without its text is passed over.
EditSkipping ==
    /\ tool.at \in EditIds
    /\ tool' = [tool EXCEPT !.at = @ + 1]
    /\ disk' = IF tool.dry THEN disk ELSE [disk EXCEPT ![tool.at] = After(tool.at)]
    /\ UNCHANGED <<cut, said, mlaVars, runs>>

\* One edit: a dry run keeps the text to itself, and an edit without its
\* text ends the run, with those before it written.
Edit ==
    /\ tool.at \in EditIds
    /\ IF disk[tool.at] = "gone"
       THEN tool' = Idle /\ said' = "missing" /\ UNCHANGED disk
       ELSE /\ tool' = [tool EXCEPT !.at = @ + 1]
            /\ disk' = IF tool.dry THEN disk
                       ELSE [disk EXCEPT ![tool.at] = After(tool.at)]
            /\ UNCHANGED said
    /\ UNCHANGED <<cut, mlaVars, runs>>

\* validate_overlay, of the texts as they are: the store of the wrapper is
\* not looked at, and one mark is enough for a kernel.  A module that is cut
\* off does not parse, or lacks what is looked for.
Valid(text) ==
    LET has(e) == text[e] \in {"new", "half"}
    IN  /\ {"api", "dispatch"} \cap cut = {}
        /\ \A e \in EditIds \ {4} : Edits[e].file \in {"api", "dispatch"} => has(e)
        /\ \A k \in Kernels : \E e \in EditIds : Edits[e].file = k /\ has(e)

\* The dry run looks at the texts it has kept.
ApplyEnds ==
    /\ tool.at = Len(Edits) + 1
    /\ tool' = Idle
    /\ LET text == IF tool.dry THEN [e \in EditIds |-> After(e)] ELSE disk
       IN  said' = IF ~Valid(text) THEN "invalid"
                   ELSE IF tool.dry THEN "dry ok" ELSE "apply ok"
    /\ UNCHANGED <<disk, cut, mlaVars, runs>>

Validate ==
    /\ Counts /\ tool = Idle
    /\ said' = IF Valid(disk) THEN "valid" ELSE "invalid"
    /\ UNCHANGED <<disk, cut, tool, mlaVars>>

\* The process dies between two edits, or in the write of one: the rest of
\* the file is gone, from some edit on.
Dies ==
    /\ tool # Idle /\ tool' = Idle
    /\ UNCHANGED <<disk, cut, said, mlaVars, runs>>

DiesWriting ==
    /\ tool.at \in EditIds /\ ~tool.dry /\ After(tool.at) # disk[tool.at]
    /\ tool' = Idle
    /\ LET file == {e \in EditIds : Edits[e].file = Edits[tool.at].file}
       IN  /\ \E from \in file \cup {Len(Edits) + 1} :
                disk' = [e \in EditIds |->
                           IF e \in file /\ e >= from THEN "gone"
                           ELSE IF e = tool.at THEN After(e) ELSE disk[e]]
           /\ cut' = cut \cup {Edits[tool.at].file}
    /\ UNCHANGED <<said, mlaVars, runs>>

-----------------------------------------------------------------------------
(* The sparse MLA patch: patch_source and patch_file.                      *)

VllmRelease ==
    /\ Counts
    /\ vllm' \in VllmReleased /\ told' = "nothing"
    /\ UNCHANGED overlayVars

\* What patch_source makes of the file, or raised.  The current helper says
\* that all is done; an older one is replaced, and nothing else, if the end
\* of it is found.
Patched ==
    CASE vllm.helper = "current" -> [result |-> "already", file |-> vllm]
      [] vllm.helper = "old" ->
           IF vllm.cut THEN [result |-> "raised", file |-> vllm]
           ELSE [result |-> "patched",
                 file |-> [vllm EXCEPT !.helper = "current"]]
      [] vllm.helper = "anchor" /\ vllm.os # "gone" /\ vllm.decode = "call"
           /\ vllm.prefill = "call" ->
           [result |-> "patched",
            file |-> [vllm EXCEPT !.os = "import", !.helper = "current",
                                  !.decode = "branch", !.prefill = "branch"]]
      [] OTHER -> [result |-> "raised", file |-> vllm]

MlaPatch ==
    /\ Counts
    /\ vllm' = Patched.file /\ told' = Patched.result
    /\ UNCHANGED overlayVars

MlaDryRun ==
    /\ Counts
    /\ told' = "nothing"
    /\ UNCHANGED <<overlayVars, vllm>>

\* The write of a patched file is cut off after some of its parts, or in the
\* helper before its version.
MlaDiesWriting ==
    /\ Counts
    /\ Patched.result = "patched" /\ told' = "nothing"
    /\ \E kept \in {"head", "import", "begun", "helper", "decode"} :
         vllm' = [os |-> IF kept = "head" THEN "gone" ELSE "import",
                  helper |-> CASE kept \in {"head", "import"} -> "gone"
                               [] kept = "begun" -> "old"
                               [] OTHER -> "current",
                  decode |-> IF kept = "decode" THEN "branch" ELSE "gone",
                  prefill |-> "gone", cut |-> TRUE]
    /\ UNCHANGED overlayVars

-----------------------------------------------------------------------------
PatchNext ==
    \/ Release \/ (\E dry \in BOOLEAN : Apply(dry)) \/ Edit \/ ApplyEnds
    \/ Validate \/ Dies \/ DiesWriting
    \/ VllmRelease \/ MlaPatch \/ MlaDryRun \/ MlaDiesWriting

-----------------------------------------------------------------------------
(* Properties                                                              *)

Done(e) == disk[e] \in {"new", "half"}

\* What the tools say of a package holds of it, also when an earlier run
\* died between two edits and whatever a release has moved
\* (deepseek_v4_b12x_clamp_patch.py, apply_overlay and validate_overlay;
\* deepseek_v4_sparse_mla_vllm_patch.py, patch_source): an apply that is ok
\* has made every edit; a dry run that is ok finds the text of all, so that
\* the apply will be; a package that validates has every edit but the
\* standalone site of w4a16, which the marker of the other covers; and a vLLM
\* file that is patched, or was before, has helper and both branches.  A
\* write that was cut off is the exception: kernels are not parsed, and the
\* helper comes before the branches, so that the rest may be missing.
PatchesHonest ==
    /\ said = "apply ok" /\ cut = {} => \A e \in EditIds : Done(e)
    /\ said = "dry ok" /\ cut = {} => \A e \in EditIds : disk[e] # "gone"
    /\ said = "valid" /\ cut = {} =>
         \A e \in EditIds \ {Len(Edits)} : Done(e)
    /\ told \in {"patched", "already"} /\ ~vllm.cut =>
         /\ vllm.os = "import" /\ vllm.helper = "current"
         /\ vllm.decode = "branch" /\ vllm.prefill = "branch"
=============================================================================
