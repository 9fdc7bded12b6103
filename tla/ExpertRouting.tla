----------------------------- MODULE ExpertRouting -----------------------------
(***************************************************************************)
(* The routes of tokens to experts when each rank holds a shard of them    *)
(* (hydralisk/admission/deepseek_v4_moe.py).  A B12x kernel wants a fixed  *)
(* number of routes with experts of the rank, so that the routes of others *)
(* are given to some expert of the rank with the scale zero; the outputs   *)
(* of the ranks are added up (external).                                   *)
(*                                                                         *)
(* Numbers are left out: the output of a rank is the bag of the weighted   *)
(* expert outputs that it adds, each as the route it comes from and the    *)
(* weights it was computed with.                                           *)
(***************************************************************************)
EXTENDS Integers, Sequences, FiniteSets

CONSTANTS
    GlobalExperts,  \* experts of the model
    LocalExperts,   \* experts of a rank
    TopK            \* routes of a token

ASSUME RoutingAssumption == {GlobalExperts, LocalExperts, TopK} \subseteq Nat \ {0}

\* The offsets of the ranks: the last shard may be larger than what is left.
Offsets == {o \in 0..(GlobalExperts - 1) : o % LocalExperts = 0}

VARIABLES
    experts,  \* the experts of the token's routes; some may be invalid
    rank,     \* each rank: waiting, remapped, computed
    inputs,   \* the routes that a rank was given, remapped
    output    \* what a rank has added

routingVars == <<experts, rank, inputs, output>>

Routes == 1..TopK
NoRoutes == [expert |-> <<>>, scaled |-> {}]

RoutingInit ==
    /\ experts \in [Routes -> -1..GlobalExperts]
    /\ rank = [o \in Offsets |-> "waiting"]
    /\ inputs = [o \in Offsets |-> NoRoutes]
    /\ output = [o \in Offsets |-> {}]

-----------------------------------------------------------------------------
None == -1

\* Mutant of ToLocal: the first expert of the next rank is taken too.
ToLocalPast(expert, offset) ==
    IF expert - offset \in 0..LocalExperts THEN expert - offset ELSE None

\* global_to_local_expert
ToLocal(expert, offset) ==
    IF expert - offset \in 0..(LocalExperts - 1) THEN expert - offset ELSE None

\* Mutant of Local: an expert is not checked against the number of experts.
LocalOfAny(expert, offset) == ToLocal(expert, offset)

\* The local expert of a global one that is valid.
Local(expert, offset) ==
    IF expert \in 0..(GlobalExperts - 1) THEN ToLocal(expert, offset) ELSE None

FillExpert == 0

\* remap_routes_for_b12x_local_shard: a masked route keeps its place.
Remap(o) ==
    /\ rank[o] = "waiting"
    /\ rank' = [rank EXCEPT ![o] = "remapped"]
    /\ LET local == [i \in Routes |-> Local(experts[i], o)]
       IN  inputs' = [inputs EXCEPT ![o] =
              [expert |-> [i \in Routes |-> IF local[i] = None THEN FillExpert
                                            ELSE local[i]],
               scaled |-> {i \in Routes : local[i] # None}]]
    /\ UNCHANGED <<experts, output>>

\* reference_local_shard_moe: the routes that count, each with the expert of
\* the rank whose weights it takes.
Adds(route, offset, valid) ==
    {<<i, ToLocal(route[i], offset)>> :
        i \in {j \in DOMAIN route : /\ route[j] \in 0..(valid - 1)
                                    /\ ToLocal(route[j], offset) # None}}

\* reference_b12x_local_shard_shim: the reference on the remapped routes, for
\* which the experts of the rank are all there are; a scale of zero adds
\* nothing.
Compute(o) ==
    /\ rank[o] = "remapped"
    /\ rank' = [rank EXCEPT ![o] = "computed"]
    /\ output' = [output EXCEPT ![o] =
          {a \in Adds(inputs[o].expert, 0, LocalExperts) :
             a[1] \in inputs[o].scaled}]
    /\ UNCHANGED <<experts, inputs>>

RoutingNext == \E o \in Offsets : Remap(o) \/ Compute(o)

RoutingSpec == RoutingInit /\ [][RoutingNext]_routingVars

-----------------------------------------------------------------------------
(* Properties                                                              *)

RoutingTypeOK ==
    /\ experts \in [Routes -> -1..GlobalExperts]
    /\ \A o \in Offsets :
         /\ rank[o] # "waiting" =>
              /\ inputs[o].expert \in [Routes -> 0..(LocalExperts - 1)]
              /\ inputs[o].scaled \subseteq Routes
         /\ output[o] \subseteq Routes \X (0..(LocalExperts - 1))

\* A route that is sharded is still one route (deepseek_v4_moe.py, "preserves
\* shape while matching reference skip semantics"): no two ranks add the same
\* route, a rank adds what the reference adds of the routes as the model gave
\* them, and what the ranks add up to is each valid route once, with the
\* weights of its own expert.
RoutedOnce ==
    /\ \A o \in Offsets : rank[o] = "computed" =>
         output[o] = Adds(experts, o, GlobalExperts)
    /\ \A o, p \in Offsets : o # p =>
         {a[1] : a \in output[o]} \cap {a[1] : a \in output[p]} = {}
    /\ (\A o \in Offsets : rank[o] # "waiting") =>
         UNION {inputs[o].scaled : o \in Offsets} =
             {i \in Routes : experts[i] \in 0..(GlobalExperts - 1)}
    /\ \A o \in Offsets : \A a \in output[o] :
         experts[a[1]] = o + a[2]
=============================================================================
