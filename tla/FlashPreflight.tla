---------------------------- MODULE FlashPreflight ----------------------------
(***************************************************************************)
(* The admission preflight of DeepSeek-V4-Flash on GCE                     *)
(* (hydralisk/admission/deepseek_v4_flash.py): it reads the head of a GGUF *)
(* artifact, takes the size of the file for the size of the weights and    *)
(* says of each lane whether to go on.                                     *)
(*                                                                         *)
(* The artifact is external and may still be on its way: the file grows,   *)
(* first by the entries of its metadata, then by tensors, which are not    *)
(* read.                                                                   *)
(***************************************************************************)
EXTENDS Integers, Sequences, SequencesExt

CONSTANTS
    MaxEntries,  \* bound: metadata entries of the artifact
    Sizes        \* MiB that the file may have while it comes and at its end

ASSUME FlashAssumption ==
    /\ MaxEntries \in Nat
    /\ Sizes \subseteq Nat \ {0} /\ Sizes # {}

\* The fields of a lane that its class depends on; memory of a GPU in MiB,
\* of the host in GiB.
GpuLane(gpu, count, each, host, fit) ==
    [gpu |-> gpu, total |-> count * each, host |-> host * 1024, fit |-> fit]

\* DEFAULT_GCE_LANES, by the machine type.
Lanes ==
    [live_a3_1g |-> GpuLane("h100", 1, 81559, 234, "reserved"),
     g4_48      |-> GpuLane("rtx", 1, 97887, 180, "candidate"),
     g4_96      |-> GpuLane("rtx", 2, 97887, 360, "candidate"),
     g4_192     |-> GpuLane("rtx", 4, 97887, 720, "candidate"),
     g4_384     |-> GpuLane("rtx", 8, 97887, 1440, "candidate"),
     a3_2g      |-> GpuLane("h100", 2, 81559, 468, "candidate"),
     a3_4g      |-> GpuLane("h100", 4, 81559, 936, "candidate"),
     a2_4g      |-> GpuLane("a100", 4, 40536, 340, "kernel_risk"),
     g2_8g      |-> GpuLane("l4", 8, 23034, 384, "deprioritized")]

\* How an entry is read: to its end, or its payload skipped by a seek (an
\* array of more than 64 items), or not at all (a type that is unknown, or a
\* long array of arrays).
Entries == {"read", "skipped", "unsupported"}

VARIABLES
    metadata,  \* the entries of the artifact
    got,       \* how many of them are in the file
    begun,     \* of the next one, type and length are there
    size,      \* of the file, in MiB, once the metadata are there
    sized,     \* what the preflight under way took for it; 0 if there is none
    json,      \* the size and decisions of the report written last
    md         \* and of its copy for readers

flashVars == <<metadata, got, begun, size, sized, json, md>>

NoReport == [mib |-> 0, decisions |-> [l \in DOMAIN Lanes |-> "none"]]

FlashInit ==
    /\ metadata \in BoundedSeq(Entries, MaxEntries)
    /\ got = 0 /\ begun = FALSE /\ size = 1 /\ sized = 0
    /\ json = NoReport /\ md = NoReport

-----------------------------------------------------------------------------
(* The artifact on its way.                                                *)

EntryComes ==
    /\ got < Len(metadata)
    /\ IF begun THEN got' = got + 1 /\ begun' = FALSE
                ELSE begun' = TRUE /\ UNCHANGED got
    /\ UNCHANGED <<metadata, size, sized, json, md>>

TensorsCome ==
    /\ got = Len(metadata)
    /\ size' \in {s \in Sizes : s > size}
    /\ UNCHANGED <<metadata, got, begun, sized, json, md>>

-----------------------------------------------------------------------------
(* The preflight.                                                          *)

\* parse_gguf_metadata takes the size of the file before it is opened.
TakeSize ==
    /\ sized = 0 /\ sized' = size
    /\ UNCHANGED <<metadata, got, begun, size, json, md>>

\* An entry that is cut off raises, unless its payload is skipped, where a
\* seek goes past the end and the next read raises, if there is one.
Parsed ==
    /\ \A i \in 1..got : metadata[i] # "unsupported"
    /\ \/ got = Len(metadata)
       \/ got + 1 = Len(metadata) /\ begun /\ metadata[got + 1] = "skipped"

KvReserve == 8192
RuntimeReserve == 4096

\* floor of 90 per cent, and the margin over weights and reserves
Margin(lane, mib) ==
    (lane.total * 9) \div 10 - RuntimeReserve - (mib + KvReserve)

\* ceil of 1.25 times the weights, in host memory
HostHolds(lane, mib) == lane.host >= (5 * mib + 3) \div 4

\* Mutant of Decision: the reserved host is found out after the memory.
DecisionByMemory(lane, mib) ==
    CASE Margin(lane, mib) >= 0 ->
           IF lane.fit = "candidate" \/ lane.fit = "reserved"
           THEN "proceed_if_capacity_admits" ELSE "do_not_start_here"
      [] lane.fit = "reserved" -> "reject_for_deepseek_until_drained"
      [] OTHER -> "reject"

\* classify_lanes, of one lane
Decision(lane, mib) ==
    CASE lane.fit = "reserved" -> "reject_for_deepseek_until_drained"
      [] lane.fit # "reserved" /\ Margin(lane, mib) >= 0 ->
           IF lane.fit = "candidate" THEN "proceed_if_capacity_admits"
           ELSE "do_not_start_here"
      [] lane.fit # "reserved" /\ Margin(lane, mib) < 0 ->
           IF ~HostHolds(lane, mib) THEN "reject"
           ELSE IF lane.total >= 32768 /\ lane.gpu # "l4"
           THEN "proceed_only_for_custom_offload_prefetch_validation"
           ELSE "do_not_start_here"

\* classify_lanes and build_preflight_report, written by write_report; the
\* recommendation is the same whatever they find.
Preflight ==
    /\ sized # 0 /\ Parsed
    /\ sized' = 0
    /\ json' = [mib |-> sized,
                decisions |-> [l \in DOMAIN Lanes |-> Decision(Lanes[l], sized)]]
    /\ UNCHANGED <<metadata, got, begun, size, md>>

ParseRaises ==
    /\ sized # 0 /\ ~Parsed
    /\ sized' = 0
    /\ UNCHANGED <<metadata, got, begun, size, json, md>>

\* The second file of write_report: a preflight may die before it.
WriteMarkdown ==
    /\ sized = 0 /\ md # json
    /\ md' = json
    /\ UNCHANGED <<metadata, got, begun, size, sized, json>>

FlashNext ==
    \/ EntryComes \/ TensorsCome
    \/ TakeSize \/ Preflight \/ ParseRaises \/ WriteMarkdown

-----------------------------------------------------------------------------
(* Properties                                                              *)

FlashTypeOK ==
    /\ metadata \in Seq(Entries) /\ got \in 0..Len(metadata) /\ begun \in BOOLEAN
    /\ size \in Sizes \cup {1} /\ sized \in Sizes \cup {0, 1}
    /\ \A r \in {json, md} : r = NoReport \/ r.mib \in Sizes \cup {1}

\* How far a decision lets the operator go.
Rank(decision) ==
    CASE decision = "proceed_if_capacity_admits" -> 2
      [] decision = "proceed_only_for_custom_offload_prefetch_validation" -> 1
      [] OTHER -> 0

\* Weights with 8 GiB for the KV cache and 4 for the runtime.
Needs(mib) == mib + 8192 + 4096

\* What either report lets the operator do is safe for the file it was made
\* of, and a report of a file that was still on its way errs on one side
\* (deepseek_v4_flash.py, classify_lanes): weights that go on a GPU leave the
\* reserves free in nine tenths of its memory, weights that do not fit are in
\* host memory with a quarter to spare, and neither the host that is reserved
\* nor L4 GPUs are ever used; and a lane that it turned down is not one that
\* the whole file would be given.  The lane of kernel_risk is the exception
\* to the last: it is turned down while the weights fit, and offered for
\* offloading when they do not.
PreflightSafe ==
    \A r \in {json, md} : r # NoReport =>
        \A l \in DOMAIN Lanes :
            LET lane == Lanes[l]
                rank == Rank(r.decisions[l])
            IN  /\ rank > 0 => l \notin {"live_a3_1g", "g2_8g"}
                /\ rank = 2 => 10 * Needs(r.mib) <= 9 * lane.total
                /\ rank = 1 => 4 * lane.host >= 5 * r.mib
                /\ lane.fit # "kernel_risk" =>
                     Rank(Decision(lane, size)) <= rank
=============================================================================
