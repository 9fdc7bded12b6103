----------------------------- MODULE SparseDecode -----------------------------
(***************************************************************************)
(* Which places of the caches a query attends to in sparse MLA: by the     *)
(* reference of hydralisk/admission/deepseek_v4_sparse_mla.py, which is    *)
(* told positions and the length of the sequence, and by the fallback that *)
(* deepseek_v4_sparse_mla_vllm_patch.py puts into vLLM, which is told one  *)
(* row of slots, of the sliding window first and of the compressed cache   *)
(* after it, and does not use the length.                                  *)
(*                                                                         *)
(* How vLLM fills a row is external: a token's own window, padded with -1  *)
(* in front, then what the indexer chose among the positions up to it.     *)
(* The slots of a sequence are its positions here; numbers are left out.   *)
(***************************************************************************)
EXTENDS Integers, Sequences, FiniteSets, FiniteSetsExt

CONSTANTS
    Slots,     \* slots of a cache: pages times page size
    Window,    \* tokens of the sliding window
    Requests   \* bound: requests of a batch

ASSUME DecodeAssumption == {Slots, Window, Requests} \subseteq Nat \ {0}

VARIABLES
    batch,     \* the requests: length of each, and how many tokens are new
    chosen,    \* the positions that the indexer chose, of each new token
    attended,  \* what each token attends to by the reference, and the fallback
    ran        \* no, done, or raised, of the fallback

decodeVars == <<batch, chosen, attended, ran>>

\* A new token: its request, and its position in it.
Tokens(b) ==
    {t \in (DOMAIN b) \X (0..(Slots - 1)) :
        t[2] \in (b[t[1]].length - b[t[1]].new)..(b[t[1]].length - 1)}

\* At most Limit positions are chosen for a token; the indexer may give the
\* place of one that it has not got as -1.
Limit == 2

DecodeInit ==
    /\ batch \in UNION {[1..n -> {q \in [length : 1..Slots, new : 1..2] :
                                    q.new <= q.length}] : n \in 1..Requests}
    /\ chosen \in [Tokens(batch) -> {<<>>, <<0>>, <<-1, 1>>, <<1, 0>>, <<2, -1>>}]
    /\ \A t \in Tokens(batch) : \A i \in DOMAIN chosen[t] : chosen[t][i] <= t[2]
    /\ attended = [reference |-> {}, fallback |-> {}]
    /\ ran = "no"

-----------------------------------------------------------------------------
Place(t, cache, position) == <<t, cache, position>>

\* reference_sparse_mla_decode, of a query that is the last of a sequence: the
\* window's positions and those of the first topk entries that lie in it.
ReferenceRoutes(t, length, entries, topk) ==
    LET seen == Min({length, Slots})
    IN  {Place(t, "swa", p) :
           p \in (IF seen > Window THEN seen - Window ELSE 0)..(seen - 1)}
        \cup
        {Place(t, "compressed", entries[i]) :
           i \in {j \in 1..Min({topk, Len(entries)}) :
                    entries[j] \in 0..(seen - 1)}}

Reference ==
    /\ attended' = [attended EXCEPT !.reference =
          UNION {ReferenceRoutes(t, t[2] + 1, chosen[t], Limit) :
                   t \in Tokens(batch)}]
    /\ UNCHANGED <<batch, chosen, ran>>

\* The row of a token, and the limit of its entries (external).
Row(t) ==
    [i \in 1..Window |-> LET p == t[2] - Window + i IN IF p >= 0 THEN p ELSE -1]
        \o chosen[t]

\* Mutant of FallbackRoutes: the compressed entries begin where the entries
\* of the window that count end.
RoutesAfterWindow(t, row, limit) ==
    LET filtered(from, to) ==
            {row[i] : i \in {j \in from..to : row[j] \in 0..(Slots - 1)}}
        window == Cardinality(filtered(1, Window))
    IN  {Place(t, "swa", s) : s \in filtered(1, Min({Window, limit}))}
        \cup {Place(t, "compressed", s) : s \in filtered(window + 1, limit)}

\* _hydralisk_sparse_mla_fallback, of one token: columns of the window, then
\* the others up to the limit, of which slots outside the cache are dropped.
FallbackRoutes(t, row, limit) ==
    LET filtered(from, to) ==
            {row[i] : i \in {j \in from..to : row[j] \in 0..(Slots - 1)}}
    IN  {Place(t, "swa", s) : s \in filtered(1, Min({Window, limit}))}
        \cup {Place(t, "compressed", s) : s \in filtered(Window + 1, limit)}

\* The branch of the patch gives it one length for each request of the batch:
\* it raises when these are neither one nor as many as the tokens.
Fallback ==
    /\ ran = "no"
    /\ IF Len(batch) \in {1, Cardinality(Tokens(batch))}
       THEN /\ ran' = "done"
            /\ attended' = [attended EXCEPT !.fallback =
                 UNION {FallbackRoutes(t, Row(t), Len(Row(t))) :
                          t \in Tokens(batch)}]
       ELSE ran' = "raised" /\ UNCHANGED attended
    /\ UNCHANGED <<batch, chosen>>

DecodeNext == Reference \/ Fallback

-----------------------------------------------------------------------------
(* Properties                                                              *)

DecodeTypeOK ==
    /\ ran \in {"no", "done", "raised"}
    /\ attended.reference \cup attended.fallback \subseteq
         Tokens(batch) \X {"swa", "compressed"} \X (0..(Slots - 1))

\* The fallback attends to what the reference does, without the lengths, for
\* tokens of decodes and of prefills alike, and to no position that comes
\* after the token (deepseek_v4_sparse_mla_vllm_patch.py, "Correctness-first
\* SM120 sparse MLA fallback"); where it does not, it raises: of batches, only
\* those with several requests of which one has several new tokens.
SameRoutes ==
    /\ ran = "done" /\ attended.reference # {} =>
         attended.fallback = attended.reference
    /\ \A a \in attended.fallback : a[3] <= a[1][2]
    /\ ran = "raised" =>
         Len(batch) > 1 /\ \E r \in DOMAIN batch : batch[r].new > 1
=============================================================================
