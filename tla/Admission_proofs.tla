--------------------------- MODULE Admission_proofs ---------------------------
(***************************************************************************)
(* Proofs about the admission's reference routes and the receipts of       *)
(* Terminal-Bench, and, with those of AdmissionReports_proofs, of the      *)
(* properties of MCAdmission for every value of the constants.             *)
(*                                                                         *)
(* RoutingInv: each expert number belongs to one offset, the multiple of   *)
(* LocalExperts below it, and a rank is given, and adds, what the routes   *)
(* of the model say, short last shards or not.  DecodeInv: what the tokens *)
(* of a batch attend to; the fallback, which is told no positions, finds   *)
(* those of the reference in its row of slots.  BenchInv: a receipt of a   *)
(* job calls solved what has a trial that passed, and these stay.          *)
(***************************************************************************)
EXTENDS MCAdmission, AdmissionReports_proofs, FiniteSetTheorems,
        SequenceTheorems, TLAPS

-----------------------------------------------------------------------------
(* The reference of experts in shards (ExpertRouting).                      *)

\* What a rank is given: remap_routes_for_b12x_local_shard.
Remapped(o) ==
    [expert |-> [i \in Routes |-> IF Local(experts[i], o) = None THEN FillExpert
                                  ELSE Local(experts[i], o)],
     scaled |-> {i \in Routes : Local(experts[i], o) # None}]

RoutingInv ==
    /\ experts \in [Routes -> -1..GlobalExperts]
    /\ rank \in [Offsets -> {"waiting", "remapped", "computed"}]
    /\ DOMAIN inputs = Offsets /\ DOMAIN output = Offsets
    /\ inputs = [o \in Offsets |-> inputs[o]]
    /\ output = [o \in Offsets |-> output[o]]
    /\ \A o \in Offsets : rank[o] # "waiting" => inputs[o] = Remapped(o)
    /\ \A o \in Offsets :
         output[o] = IF rank[o] = "computed" THEN Adds(experts, o, GlobalExperts)
                     ELSE {}

-----------------------------------------------------------------------------
(* Offsets and experts.                                                    *)

LEMMA OffsetsAreNumbers == Offsets \subseteq Nat
  BY DEF Offsets

\* Division with a rest, for a divisor of any size.
LEMMA DivideBy ==
    ASSUME NEW e \in Nat, NEW width \in Nat \ {0}
    PROVE  /\ e = (width * (e \div width)) + (e % width)
           /\ e % width \in 0..(width - 1)
           /\ e \div width \in Nat
  <1>1. e % width \in 0..(width - 1)
    OBVIOUS
  <1>2. e \div width \in Nat
    OBVIOUS
  <1>3. e = (width * (e \div width)) + (e % width)
    OBVIOUS
  <1> QED BY <1>1, <1>2, <1>3

\* A product of numbers is one.
LEMMA ProductIsNat ==
    ASSUME NEW k \in Nat, NEW width \in Nat \ {0}
    PROVE  width * k \in Nat
  BY SMT

\* A multiple has no rest.
LEMMA MultipleHasNoRest ==
    ASSUME NEW k \in Nat, NEW width \in Nat \ {0}
    PROVE  (width * k) % width = 0
  <1> DEFINE q == (width * k) \div width
             r == (width * k) % width
  <1>1. width * k \in Nat
    BY ProductIsNat
  <1>2. width * k = (width * q) + r /\ q \in Nat /\ r \in 0..(width - 1)
    BY <1>1, DivideBy
  <1> HIDE DEF q, r
  <1>3. r = width * (k - q)
    BY <1>2
  <1>4. CASE k - q <= 0
    <2>1. width * (k - q) <= 0
      BY <1>4, <1>2
    <2> QED BY <2>1, <1>3, <1>2 DEF r
  <1>5. CASE k - q >= 1
    <2>1. width * (k - q) >= width
      BY <1>5, <1>2
    <2> QED BY <2>1, <1>3, <1>2
  <1> QED BY <1>4, <1>5, <1>2

\* Multiples are a shard apart.
LEMMA MultiplesApart ==
    ASSUME NEW width \in Nat \ {0}, NEW a \in Nat, NEW b \in Nat, a < b
    PROVE  (width * a) + width <= width * b
  <1>1. width * (b - a) >= width
    BY SMT
  <1>2. width * (b - a) = (width * b) - (width * a)
    BY SMT
  <1>3. width * a \in Int /\ width * b \in Int
    BY SMT
  <1> QED BY <1>1, <1>2, <1>3

LEMMA ShardsAreNotEmpty == GlobalExperts \in Nat \ {0} /\ LocalExperts \in Nat \ {0}
  BY RoutingAssumption

\* The place of an expert in its shard.
LEMMA Divide ==
    ASSUME NEW e \in Nat
    PROVE  /\ e = (LocalExperts * (e \div LocalExperts)) + (e % LocalExperts)
           /\ e % LocalExperts \in 0..(LocalExperts - 1)
           /\ e \div LocalExperts \in Nat
  BY ShardsAreNotEmpty, DivideBy, Zenon

\* Every expert of the model is in the shard of some rank.
LEMMA EveryExpertHasAnOffset ==
    ASSUME NEW e \in 0..(GlobalExperts - 1)
    PROVE  \E o \in Offsets : e - o \in 0..(LocalExperts - 1)
  <1> DEFINE o == LocalExperts * (e \div LocalExperts)
  <1>1. /\ e = o + (e % LocalExperts)
        /\ e % LocalExperts \in 0..(LocalExperts - 1)
        /\ e \div LocalExperts \in Nat
    <2>1. e \in Nat
      BY ShardsAreNotEmpty
    <2> QED BY <2>1, Divide, Zenon
  <1>2. o % LocalExperts = 0
    BY <1>1, ShardsAreNotEmpty, MultipleHasNoRest
  <1>3. o \in Nat
    BY <1>1, ShardsAreNotEmpty, ProductIsNat
  <1> HIDE DEF o
  <1>4. o \in Offsets /\ e - o \in 0..(LocalExperts - 1)
    BY ShardsAreNotEmpty, <1>1, <1>2, <1>3 DEF Offsets
  <1> QED BY <1>4

\* No number is in the shards of two ranks.
LEMMA OneOffsetAtMost ==
    ASSUME NEW o \in Offsets, NEW p \in Offsets, NEW e \in Int,
           e - o \in 0..(LocalExperts - 1), e - p \in 0..(LocalExperts - 1)
    PROVE  o = p
  <1> DEFINE a == o \div LocalExperts
             b == p \div LocalExperts
  <1>1. o \in Nat /\ p \in Nat /\ o % LocalExperts = 0 /\ p % LocalExperts = 0
    BY DEF Offsets
  <1>2. /\ o = LocalExperts * a /\ a \in Nat
        /\ p = LocalExperts * b /\ b \in Nat
    <2>1. /\ o = (LocalExperts * a) + (o % LocalExperts) /\ a \in Nat
          /\ p = (LocalExperts * b) + (p % LocalExperts) /\ b \in Nat
      BY <1>1, Divide, Zenon
    <2>2. LocalExperts * a \in Nat /\ LocalExperts * b \in Nat
      BY <2>1, ShardsAreNotEmpty, ProductIsNat, Zenon
    <2> HIDE DEF a, b
    <2> QED BY <1>1, <2>1, <2>2
  <1> HIDE DEF a, b
  <1>3. CASE a < b
    <2>1. o + LocalExperts <= p
      BY <1>2, <1>3, ShardsAreNotEmpty, MultiplesApart
    <2> QED BY ShardsAreNotEmpty, <2>1, <1>1
  <1>4. CASE b < a
    <2>1. p + LocalExperts <= o
      BY <1>2, <1>4, ShardsAreNotEmpty, MultiplesApart
    <2> QED BY ShardsAreNotEmpty, <2>1, <1>1
  <1>5. CASE a = b
    BY <1>2, <1>5
  <1> QED BY <1>2, <1>3, <1>4, <1>5

-----------------------------------------------------------------------------
(* A route on a rank.                                                      *)

\* global_to_local_expert for a valid expert: it is found on the rank whose
\* shard it is in, at its place there.
LEMMA LocalIsPlace ==
    ASSUME NEW e \in Int, NEW o \in Offsets
    PROVE  /\ Local(e, o) # None <=> /\ e \in 0..(GlobalExperts - 1)
                                     /\ e - o \in 0..(LocalExperts - 1)
           /\ Local(e, o) # None => Local(e, o) = e - o
           /\ ToLocal(e, o) # None <=> e - o \in 0..(LocalExperts - 1)
           /\ ToLocal(e, o) # None => ToLocal(e, o) = e - o
  BY OffsetsAreNumbers DEF Local, ToLocal, None

\* An expert of the rank is where it is.
LEMMA PlaceIsLocal ==
    ASSUME NEW e \in 0..(LocalExperts - 1)
    PROVE  ToLocal(e, 0) = e /\ ToLocal(e, 0) # None
  BY DEF ToLocal, None

\* reference_b12x_local_shard_shim: on the remapped routes, and with scales
\* of zero for what was masked, a rank adds what the reference adds.
LEMMA ShimIsReference ==
    ASSUME NEW o \in Offsets, experts \in [Routes -> -1..GlobalExperts]
    PROVE  {a \in Adds(Remapped(o).expert, 0, LocalExperts) :
              a[1] \in Remapped(o).scaled} = Adds(experts, o, GlobalExperts)
  <1> DEFINE given == Remapped(o).expert
             scaled == Remapped(o).scaled
  <1>1. \A i \in Routes : experts[i] \in Int
    OBVIOUS
  <1>2. /\ given = [i \in Routes |-> IF Local(experts[i], o) = None
                                      THEN FillExpert ELSE Local(experts[i], o)]
        /\ scaled = {i \in Routes : Local(experts[i], o) # None}
    BY DEF Remapped
  <1> HIDE DEF given, scaled
  <1>3. \A i \in Routes : given[i] \in 0..(LocalExperts - 1)
    BY ShardsAreNotEmpty, <1>1, <1>2, LocalIsPlace DEF FillExpert
  <1>4. Adds(given, 0, LocalExperts) = {<<i, given[i]>> : i \in Routes}
    <2>1. {j \in DOMAIN given : /\ given[j] \in 0..(LocalExperts - 1)
                                /\ ToLocal(given[j], 0) # None} = Routes
      BY <1>2, <1>3, PlaceIsLocal
    <2>2. \A i \in Routes : ToLocal(given[i], 0) = given[i]
      BY <1>3, PlaceIsLocal
    <2> QED BY <2>1, <2>2 DEF Adds
  <1>5. {a \in Adds(given, 0, LocalExperts) : a[1] \in scaled} =
          {<<i, given[i]>> : i \in scaled}
    BY <1>2, <1>4
  <1>6. {j \in DOMAIN experts : /\ experts[j] \in 0..(GlobalExperts - 1)
                                /\ ToLocal(experts[j], o) # None} = scaled
    BY <1>1, <1>2, LocalIsPlace
  <1>7. \A i \in scaled : given[i] = ToLocal(experts[i], o)
    BY <1>1, <1>2, LocalIsPlace
  <1>8. Adds(experts, o, GlobalExperts) = {<<i, given[i]>> : i \in scaled}
    BY <1>6, <1>7 DEF Adds
  <1> QED BY <1>5, <1>8 DEF given, scaled

\* What the reference adds on a rank is of its own experts.
LEMMA AddsAreOwn ==
    ASSUME NEW o \in Offsets, NEW a \in Adds(experts, o, GlobalExperts),
           experts \in [Routes -> -1..GlobalExperts]
    PROVE  /\ a[1] \in Routes
           /\ experts[a[1]] \in Int
           /\ experts[a[1]] - o \in 0..(LocalExperts - 1)
           /\ experts[a[1]] = o + a[2]
  <1>1. PICK i \in Routes : /\ a = <<i, ToLocal(experts[i], o)>>
                            /\ ToLocal(experts[i], o) # None
    BY DEF Adds
  <1>2. experts[i] \in Int /\ o \in Int
    BY OffsetsAreNumbers
  <1>3. /\ experts[i] - o \in 0..(LocalExperts - 1)
        /\ ToLocal(experts[i], o) = experts[i] - o
    BY <1>1, <1>2, LocalIsPlace
  <1> QED BY <1>1, <1>2, <1>3

-----------------------------------------------------------------------------
LEMMA RoutingInvInit == RoutingInit => RoutingInv
  BY DEF RoutingInit, RoutingInv

\* Each rank works on the routes as the model gave them.
LEMMA RoutingInvStep == RoutingInv /\ [RoutingNext]_routingVars => RoutingInv'
  <1> SUFFICES ASSUME RoutingInv, [RoutingNext]_routingVars
               PROVE  RoutingInv'
    OBVIOUS
  <1>1. ASSUME NEW o \in Offsets, Remap(o)
        PROVE  RoutingInv'
    <2>1. experts' = experts /\ output' = output
      BY <1>1 DEF Remap
    <2>2. inputs' = [inputs EXCEPT ![o] = Remapped(o)]
      BY <1>1 DEF Remap, Remapped
    <2>3. rank[o] = "waiting" /\ rank' = [rank EXCEPT ![o] = "remapped"]
      BY <1>1 DEF Remap
    <2>4. \A p : Remapped(p)' = Remapped(p)
      BY <2>1 DEF Remapped
    <2>5. \A p \in Offsets : rank'[p] # "waiting" => inputs'[p] = Remapped(p)'
      BY <2>2, <2>3, <2>4 DEF RoutingInv
    <2>6. \A p \in Offsets :
            output'[p] = IF rank'[p] = "computed"
                         THEN Adds(experts', p, GlobalExperts) ELSE {}
      BY <2>1, <2>3 DEF RoutingInv
    <2> QED BY <2>1, <2>2, <2>3, <2>5, <2>6 DEF RoutingInv
  <1>2. ASSUME NEW o \in Offsets, Compute(o)
        PROVE  RoutingInv'
    <2>1. experts' = experts /\ inputs' = inputs
      BY <1>2 DEF Compute
    <2>2. rank[o] = "remapped" /\ rank' = [rank EXCEPT ![o] = "computed"]
      BY <1>2 DEF Compute
    <2>3. inputs[o] = Remapped(o)
      BY <2>2 DEF RoutingInv
    <2>4. output' = [output EXCEPT ![o] = Adds(experts, o, GlobalExperts)]
      <3>1. experts \in [Routes -> -1..GlobalExperts]
        BY DEF RoutingInv
      <3> QED BY <1>2, <2>3, <3>1, ShimIsReference DEF Compute
    <2>5. \A p : Remapped(p)' = Remapped(p)
      BY <2>1 DEF Remapped
    <2>6. \A p \in Offsets : rank'[p] # "waiting" => inputs'[p] = Remapped(p)'
      BY <2>1, <2>2, <2>5 DEF RoutingInv
    <2>7. \A p \in Offsets :
            output'[p] = IF rank'[p] = "computed"
                         THEN Adds(experts', p, GlobalExperts) ELSE {}
      BY <2>1, <2>2, <2>4 DEF RoutingInv
    <2> QED BY <2>1, <2>2, <2>4, <2>6, <2>7 DEF RoutingInv
  <1>3. CASE UNCHANGED routingVars
    BY <1>3 DEF routingVars, RoutingInv, Remapped
  <1> QED BY <1>1, <1>2, <1>3 DEF RoutingNext

\* The parts of RoutedOnce, from what the ranks were given and have added.
LEMMA RoutingInvRouted == RoutingInv => RoutedOnce
  <1> SUFFICES ASSUME RoutingInv PROVE RoutedOnce
    OBVIOUS
  <1> USE DEF RoutingInv
  <1>1. ASSUME NEW o \in Offsets, rank[o] = "computed"
        PROVE  output[o] = Adds(experts, o, GlobalExperts)
    BY <1>1
  <1>2. ASSUME NEW o \in Offsets, NEW a \in output[o]
        PROVE  a \in Adds(experts, o, GlobalExperts)
    BY <1>2
  <1>3. ASSUME NEW o \in Offsets, NEW p \in Offsets, o # p
        PROVE  {a[1] : a \in output[o]} \cap {a[1] : a \in output[p]} = {}
    <2> SUFFICES ASSUME NEW a \in output[o], NEW b \in output[p], a[1] = b[1]
                 PROVE  FALSE
      OBVIOUS
    <2>1. /\ experts[a[1]] \in Int
          /\ experts[a[1]] - o \in 0..(LocalExperts - 1)
      BY <1>2, AddsAreOwn
    <2>2. experts[b[1]] - p \in 0..(LocalExperts - 1)
      BY <1>2, AddsAreOwn
    <2> QED BY <1>3, <2>1, <2>2, OneOffsetAtMost
  <1>4. ASSUME \A o \in Offsets : rank[o] # "waiting"
        PROVE  UNION {inputs[o].scaled : o \in Offsets} =
                 {i \in Routes : experts[i] \in 0..(GlobalExperts - 1)}
    <2>1. \A o \in Offsets :
            inputs[o].scaled = {i \in Routes : Local(experts[i], o) # None}
      BY <1>4 DEF Remapped
    <2>2. \A i \in Routes : experts[i] \in Int
      OBVIOUS
    <2>3. ASSUME NEW i \in Routes, experts[i] \in 0..(GlobalExperts - 1)
          PROVE  \E o \in Offsets : i \in inputs[o].scaled
      <3>1. PICK o \in Offsets : experts[i] - o \in 0..(LocalExperts - 1)
        BY <2>3, EveryExpertHasAnOffset
      <3>2. Local(experts[i], o) # None
        BY <2>2, <2>3, <3>1, LocalIsPlace
      <3> QED BY <2>1, <3>2
    <2>4. ASSUME NEW o \in Offsets, NEW i \in inputs[o].scaled
          PROVE  i \in Routes /\ experts[i] \in 0..(GlobalExperts - 1)
      BY <2>1, <2>2, <2>4, LocalIsPlace
    <2> QED BY <2>3, <2>4
  <1>5. ASSUME NEW o \in Offsets, NEW a \in output[o]
        PROVE  experts[a[1]] = o + a[2]
    BY <1>2, <1>5, AddsAreOwn
  <1> QED BY <1>1, <1>3, <1>4, <1>5 DEF RoutedOnce

LEMMA RoutingInvTypes == RoutingInv => RoutingTypeOK
  <1> SUFFICES ASSUME RoutingInv PROVE RoutingTypeOK
    OBVIOUS
  <1>1. experts \in [Routes -> -1..GlobalExperts]
    BY DEF RoutingInv
  <1>2. ASSUME NEW o \in Offsets, rank[o] # "waiting"
        PROVE  /\ inputs[o].expert \in [Routes -> 0..(LocalExperts - 1)]
               /\ inputs[o].scaled \subseteq Routes
    <2>1. inputs[o] = Remapped(o)
      BY <1>2 DEF RoutingInv
    <2>2. \A i \in Routes : experts[i] \in Int
      BY <1>1
    <2>3. \A i \in Routes : (IF Local(experts[i], o) = None THEN FillExpert
                            ELSE Local(experts[i], o)) \in 0..(LocalExperts - 1)
      BY <2>2, ShardsAreNotEmpty, LocalIsPlace DEF FillExpert
    <2>4. /\ Remapped(o).expert = [i \in Routes |->
                  IF Local(experts[i], o) = None THEN FillExpert
                  ELSE Local(experts[i], o)]
          /\ Remapped(o).scaled \subseteq Routes
      BY DEF Remapped
    <2> QED BY <2>1, <2>3, <2>4
  <1>3. ASSUME NEW o \in Offsets
        PROVE  output[o] \subseteq Routes \X (0..(LocalExperts - 1))
    <2>1. ASSUME NEW a \in Adds(experts, o, GlobalExperts)
          PROVE  a \in Routes \X (0..(LocalExperts - 1))
      <3>1. PICK i \in Routes : /\ a = <<i, ToLocal(experts[i], o)>>
                                /\ ToLocal(experts[i], o) # None
        BY <1>1 DEF Adds
      <3>2. experts[i] \in Int
        BY <1>1
      <3>3. ToLocal(experts[i], o) \in 0..(LocalExperts - 1)
        BY <3>1, <3>2, LocalIsPlace
      <3> QED BY <3>1, <3>3
    <2> QED BY <2>1 DEF RoutingInv
  <1> QED BY <1>1, <1>2, <1>3 DEF RoutingTypeOK

-----------------------------------------------------------------------------
(* Numbers and rows.                                                       *)

LEMMA SlotsAreNumbers == Slots \in Nat \ {0} /\ Window \in Nat \ {0}
  BY DecodeAssumption

LEMMA MinOfTwo ==
    ASSUME NEW a \in Int, NEW b \in Int
    PROVE  Min({a, b}) = IF a <= b THEN a ELSE b
  <1> DEFINE m == IF a <= b THEN a ELSE b
  <1>1. m \in {a, b} /\ \A y \in {a, b} : m <= y
    OBVIOUS
  <1>2. \A x \in {a, b} : (\A y \in {a, b} : x <= y) => x = m
    OBVIOUS
  <1> HIDE DEF m
  <1>3. Min({a, b}) \in {a, b} /\ \A y \in {a, b} : Min({a, b}) <= y
    BY <1>1, Zenon DEF Min
  <1>4. Min({a, b}) = m
    BY <1>2, <1>3
  <1> QED BY <1>4 DEF m

\* A row of slots: the window up to a place, padded in front, and entries.
WindowAt(p) == [i \in 1..Window |-> IF p - Window + i >= 0 THEN p - Window + i ELSE -1]
RowAt(p, c) == WindowAt(p) \o c

LEMMA RowIs ==
    ASSUME NEW p \in Int, NEW c \in Seq(Int)
    PROVE  /\ Len(RowAt(p, c)) = Window + Len(c)
           /\ \A j \in 1..Window : RowAt(p, c)[j] = WindowAt(p)[j]
           /\ \A i \in 1..Len(c) : RowAt(p, c)[Window + i] = c[i]
  <1>1. WindowAt(p) \in Seq(Int) /\ Len(WindowAt(p)) = Window
    <2>1. WindowAt(p) \in [1..Window -> Int]
      BY SlotsAreNumbers DEF WindowAt
    <2>2. WindowAt(p) \in Seq(Int)
      BY <2>1, SlotsAreNumbers, SeqDef
    <2>3. DOMAIN WindowAt(p) = 1..Window
      BY DEF WindowAt
    <2> QED BY <2>2, <2>3, SlotsAreNumbers
  <1>2. Window \in Nat /\ Len(c) \in Nat
    BY SlotsAreNumbers
  <1> DEFINE w == WindowAt(p)
  <1> HIDE DEF w
  <1>3. /\ Len(w \o c) = Len(w) + Len(c)
        /\ \A j \in 1..Len(w) : (w \o c)[j] = w[j]
        /\ \A i \in 1..Len(c) : (w \o c)[Len(w) + i] = c[i]
    <2>1. w \in Seq(Int)
      BY <1>1 DEF w
    <2>2. \A i \in 1..Len(c) : Len(w) + i > Len(w) /\ Len(w) + i - Len(w) = i
      BY <2>1
    <2> QED BY <2>1, <2>2
  <1> QED BY <1>1, <1>3 DEF RowAt, w

\* The slots of some columns of a row that are in the cache.
InCache(row, from, to) ==
    {row[i] : i \in {j \in from..to : row[j] \in 0..(Slots - 1)}}

\* The routes of the reference, when it is known how much is seen.
SpanFrom(seen) == IF seen > Window THEN seen - Window ELSE 0
Span(seen, last) == SpanFrom(seen)..last

RoutesSeen(t, seen, last, top, entries) ==
    {Place(t, "swa", q) : q \in Span(seen, last)}
    \cup
    {Place(t, "compressed", entries[i]) :
       i \in {j \in 1..top : entries[j] \in 0..last}}

LEMMA SpanReaches ==
    ASSUME NEW last \in Nat
    PROVE  Span(last + 1, last) \subseteq 0..last
  <1>1. Window \in Nat
    BY SlotsAreNumbers
  <1>2. SpanFrom(last + 1) \in Nat
    BY <1>1 DEF SpanFrom
  <1> QED BY <1>2 DEF Span

LEMMA RoutesOfReference ==
    \A t, length, entries, topk :
        ReferenceRoutes(t, length, entries, topk) =
          RoutesSeen(t, Min({length, Slots}), Min({length, Slots}) - 1,
                     Min({topk, Len(entries)}), entries)
  BY Zenon DEF ReferenceRoutes, RoutesSeen, Span, SpanFrom

\* The window of a row is the positions of the window.
LEMMA WindowOfRow ==
    ASSUME NEW p \in 0..(Slots - 1), NEW c \in Seq(Int)
    PROVE  InCache(RowAt(p, c), 1, Window) =
             Span(p + 1, p)
  <1> DEFINE row == RowAt(p, c)
             from == SpanFrom(p + 1)
  <1>0. p \in Nat /\ p < Slots /\ Slots \in Nat /\ Window \in Nat \ {0}
    BY SlotsAreNumbers
  <1>f. from = IF p + 1 > Window THEN p + 1 - Window ELSE 0
    BY <1>0 DEF SpanFrom
  <1> HIDE DEF from
  <1>1. \A j \in 1..Window :
          row[j] = IF p - Window + j >= 0 THEN p - Window + j ELSE -1
    BY <1>0, RowIs DEF WindowAt
  <1> HIDE DEF row
  <1>2. ASSUME NEW s \in InCache(row, 1, Window) PROVE s \in from..p
    <2>1. PICK j \in 1..Window : s = row[j] /\ row[j] \in 0..(Slots - 1)
      BY DEF InCache
    <2>2. s = p - Window + j /\ s >= 0
      BY <2>1, <1>1, <1>0
    <2> QED BY <2>2, <1>0, <1>f
  <1>3. ASSUME NEW s \in from..p PROVE s \in InCache(row, 1, Window)
    <2>1. s - p + Window \in 1..Window
      BY <1>0, <1>f
    <2>2. row[s - p + Window] = s /\ s \in 0..(Slots - 1)
      BY <2>1, <1>1, <1>0, <1>f
    <2> QED BY <2>1, <2>2 DEF InCache
  <1>4. InCache(row, 1, Window) = from..p
    BY <1>2, <1>3
  <1> QED BY <1>4, Zenon DEF row, Span, from

\* The rest of a row is the entries that are places of the sequence.
LEMMA EntriesOfRow ==
    ASSUME NEW p \in 0..(Slots - 1), NEW c \in Seq(Int),
           \A i \in 1..Len(c) : c[i] <= p
    PROVE  InCache(RowAt(p, c), Window + 1, Window + Len(c)) =
             {c[i] : i \in {j \in 1..Len(c) : c[j] \in 0..p}}
  <1> DEFINE row == RowAt(p, c)
             those == {c[i] : i \in {j \in 1..Len(c) : c[j] \in 0..p}}
  <1>0. p \in Nat /\ p < Slots /\ Slots \in Nat /\ Window \in Nat /\ Len(c) \in Nat
    BY SlotsAreNumbers
  <1>1. \A i \in 1..Len(c) : row[Window + i] = c[i] /\ c[i] \in Int
    BY <1>0, RowIs
  <1> HIDE DEF row
  <1>2. ASSUME NEW s \in InCache(row, Window + 1, Window + Len(c)) PROVE s \in those
    <2>1. PICK j \in (Window + 1)..(Window + Len(c)) :
                  s = row[j] /\ row[j] \in 0..(Slots - 1)
      BY DEF InCache
    <2>2. j - Window \in 1..Len(c) /\ Window + (j - Window) = j
      BY <1>0
    <2>3. s = c[j - Window] /\ s <= p
      BY <2>1, <2>2, <1>1
    <2>4. c[j - Window] \in 0..p
      BY <2>1, <2>3, <1>0
    <2> QED BY <2>2, <2>3, <2>4
  <1>3. ASSUME NEW s \in those PROVE s \in InCache(row, Window + 1, Window + Len(c))
    <2>1. PICK i \in 1..Len(c) : s = c[i] /\ c[i] \in 0..p
      OBVIOUS
    <2>2. Window + i \in (Window + 1)..(Window + Len(c))
      BY <1>0
    <2>3. row[Window + i] = s /\ s \in 0..(Slots - 1)
      BY <2>1, <1>0, <1>1
    <2> QED BY <2>2, <2>3 DEF InCache
  <1> QED BY <1>2, <1>3 DEF row, those

\* The fallback takes the places of the reference, none later than the token.
LEMMA RoutesAgree ==
    ASSUME NEW t, t[2] \in 0..(Slots - 1), NEW c \in Seq(Int), Len(c) <= Limit,
           \A i \in 1..Len(c) : c[i] <= t[2]
    PROVE  LET row == RowAt(t[2], c)
               routes == FallbackRoutes(t, row, Len(row))
           IN  /\ routes = ReferenceRoutes(t, t[2] + 1, c, Limit)
               /\ \A a \in routes : /\ a \in {t} \X {"swa", "compressed"} \X (0..(Slots - 1))
                                    /\ a[1] = t /\ a[3] <= t[2]
  <1> DEFINE p == t[2]
             row == RowAt(p, c)
             routes == FallbackRoutes(t, row, Len(row))
             first == InCache(row, 1, Window)
             rest == InCache(row, Window + 1, Window + Len(c))
  <1>0. p \in Nat /\ p < Slots /\ Slots \in Nat /\ Window \in Nat \ {0} /\ Len(c) \in Nat
    BY SlotsAreNumbers
  <1>1. Len(row) = Window + Len(c)
    BY <1>0, RowIs
  <1>2. Min({Window, Len(row)}) = Window
    BY <1>0, <1>1, MinOfTwo
  <1>3. routes = {Place(t, "swa", s) : s \in first}
                 \cup {Place(t, "compressed", s) : s \in rest}
    BY <1>1, <1>2 DEF FallbackRoutes, InCache
  <1>4. first = Span(p + 1, p)
    BY WindowOfRow
  <1>5. rest = {c[i] : i \in {j \in 1..Len(c) : c[j] \in 0..p}}
    BY EntriesOfRow
  <1>6. Min({p + 1, Slots}) = p + 1
    <2>1. p + 1 \in Int /\ Slots \in Int /\ p + 1 <= Slots
      BY <1>0
    <2> QED BY <2>1, MinOfTwo
  <1>7. Min({Limit, Len(c)}) = Len(c)
    <2>1. Limit \in Int /\ Len(c) \in Int /\ Len(c) <= Limit
      BY <1>0 DEF Limit
    <2>2. Limit = Len(c) \/ ~(Limit <= Len(c))
      BY <2>1
    <2> QED BY <2>1, <2>2, MinOfTwo
  <1>8. ReferenceRoutes(t, p + 1, c, Limit) = RoutesSeen(t, p + 1, p, Len(c), c)
    <2>1. Min({p + 1, Slots}) - 1 = p
      BY <1>0, <1>6
    <2> QED BY <1>6, <1>7, <2>1, RoutesOfReference
  <1>10. routes = ReferenceRoutes(t, p + 1, c, Limit)
    <2>1. {Place(t, "compressed", s) : s \in rest} =
             {Place(t, "compressed", c[i]) : i \in {j \in 1..Len(c) : c[j] \in 0..p}}
      BY <1>5
    <2>2. RoutesSeen(t, p + 1, p, Len(c), c) =
            {Place(t, "swa", q) : q \in Span(p + 1, p)}
            \cup {Place(t, "compressed", c[i]) :
                    i \in {j \in 1..Len(c) : c[j] \in 0..p}}
      BY DEF RoutesSeen
    <2>3. {Place(t, "swa", s) : s \in first} =
            {Place(t, "swa", q) : q \in Span(p + 1, p)}
      BY <1>4
    <2>4. routes = RoutesSeen(t, p + 1, p, Len(c), c)
      BY <1>3, <2>1, <2>2, <2>3, Zenon
    <2> QED BY <2>4, <1>8, Zenon
  <1>11. first \cup rest \subseteq 0..p
    <2>1. first \subseteq 0..p
      BY <1>0, <1>4, SpanReaches, Zenon
    <2>2. rest \subseteq 0..p
      BY <1>5
    <2> QED BY <2>1, <2>2
  <1>12. \A a \in routes : \E s \in 0..p : a \in {<<t, "swa", s>>, <<t, "compressed", s>>}
    BY <1>3, <1>11 DEF Place
  <1> HIDE DEF routes
  <1>13. \A a \in routes : /\ a \in {t} \X {"swa", "compressed"} \X (0..(Slots - 1))
                           /\ a[1] = t /\ a[3] <= p
    BY <1>0, <1>12
  <1> QED BY <1>10, <1>13 DEF routes

-----------------------------------------------------------------------------
Requested == {q \in [length : 1..Slots, new : 1..2] : q.new <= q.length}
EntryChoices == {<<>>, <<0>>, <<-1, 1>>, <<1, 0>>, <<2, -1>>}

LEMMA ChoicesAre ==
    ASSUME NEW c \in EntryChoices
    PROVE  c \in Seq(Int) /\ Len(c) <= Limit /\ DOMAIN c = 1..Len(c)
  <1>1. c \in {<<>>, <<0>>, <<-1, 1>>, <<1, 0>>, <<2, -1>>}
    BY DEF EntryChoices
  <1>2. CASE c = <<>>
    BY <1>2 DEF Limit
  <1>3. CASE c = <<0>>
    BY <1>3 DEF Limit
  <1>4. CASE c \in {<<-1, 1>>, <<1, 0>>, <<2, -1>>}
    <2>1. PICK i, j \in Int : c = <<i, j>>
      BY <1>4
    <2> QED BY <2>1 DEF Limit
  <1> QED BY <1>1, <1>2, <1>3, <1>4

\* What all tokens of a batch attend to, by the reference and the fallback.
ReferenceAll(b, c) ==
    UNION {ReferenceRoutes(t, t[2] + 1, c[t], Limit) : t \in Tokens(b)}
FallbackAll(b, c) ==
    UNION {FallbackRoutes(t, RowAt(t[2], c[t]), Len(RowAt(t[2], c[t]))) :
             t \in Tokens(b)}

DecodeInv ==
    /\ \E n \in 0..Requests : batch \in [1..n -> Requested]
    /\ chosen \in [Tokens(batch) -> EntryChoices]
    /\ \A t \in Tokens(batch) : \A i \in DOMAIN chosen[t] : chosen[t][i] <= t[2]
    /\ attended = [reference |-> attended.reference, fallback |-> attended.fallback]
    /\ attended.reference \in {{}, ReferenceAll(batch, chosen)}
    /\ attended.fallback = IF ran = "done" THEN FallbackAll(batch, chosen) ELSE {}
    /\ ran \in {"no", "done", "raised"}
    /\ ran = "raised" => Len(batch) \notin {1, Cardinality(Tokens(batch))}

LEMMA DecodeInvInit == DecodeInit => DecodeInv
  <1> SUFFICES ASSUME DecodeInit PROVE DecodeInv
    OBVIOUS
  <1>1. PICK n \in 1..Requests : batch \in [1..n -> Requested]
    BY DEF DecodeInit, Requested
  <1>2. n \in 0..Requests
    BY DecodeAssumption
  <1> QED BY <1>1, <1>2 DEF DecodeInit, DecodeInv, EntryChoices

LEMMA DecodeInvStep == DecodeInv /\ [DecodeNext]_decodeVars => DecodeInv'
  <1> SUFFICES ASSUME DecodeInv, [DecodeNext]_decodeVars PROVE DecodeInv'
    OBVIOUS
  <1>0. batch' = batch /\ chosen' = chosen
    BY DEF DecodeNext, decodeVars, Reference, Fallback
  <1>t. attended = [reference |-> attended.reference, fallback |-> attended.fallback]
    BY DEF DecodeInv
  <1>1. CASE Reference
    <2>1. attended' = [attended EXCEPT !.reference = ReferenceAll(batch, chosen)]
      BY <1>1 DEF Reference, ReferenceAll
    <2>2. ran' = ran
      BY <1>1 DEF Reference
    <2>3. attended' = [reference |-> ReferenceAll(batch, chosen),
                       fallback |-> attended.fallback]
      BY <1>t, <2>1
    <2> QED BY <1>0, <2>2, <2>3 DEF DecodeInv
  <1>2. CASE Fallback
    <2>1. CASE Len(batch) \in {1, Cardinality(Tokens(batch))}
      <3>1. ran' = "done"
        BY <1>2, <2>1 DEF Fallback
      <3>2. \A t : Row(t) = RowAt(t[2], chosen[t])
        BY DEF Row, RowAt, WindowAt
      <3>3. attended' = [attended EXCEPT !.fallback = FallbackAll(batch, chosen)]
        BY <1>2, <2>1, <3>2 DEF Fallback, FallbackAll
      <3>4. attended' = [reference |-> attended.reference,
                         fallback |-> FallbackAll(batch, chosen)]
        BY <1>t, <3>3
      <3> QED BY <1>0, <3>1, <3>4 DEF DecodeInv
    <2>2. CASE Len(batch) \notin {1, Cardinality(Tokens(batch))}
      BY <1>0, <1>2, <2>2 DEF Fallback, DecodeInv
    <2> QED BY <2>1, <2>2
  <1>3. CASE UNCHANGED decodeVars
    BY <1>3 DEF decodeVars, DecodeInv
  <1> QED BY <1>1, <1>2, <1>3 DEF DecodeNext

\* As many tokens as requests, when each request has one that is new.
LEMMA OneTokenEach ==
    ASSUME NEW n \in Nat, NEW b \in [1..n -> Requested],
           \A r \in 1..n : b[r].new = 1
    PROVE  Cardinality(Tokens(b)) = n
  <1> DEFINE token == [r \in 1..n |-> <<r, b[r].length - 1>>]
  <1>0. Slots \in Nat
    BY SlotsAreNumbers
  <1>1. \A r \in 1..n : b[r].length \in 1..Slots /\ b[r].new = 1
    BY DEF Requested
  <1>2. DOMAIN b = 1..n
    OBVIOUS
  <1>3. \A r \in 1..n : token[r] \in Tokens(b)
    <2> TAKE r \in 1..n
    <2>1. b[r].length - 1 \in 0..(Slots - 1)
      BY <1>0, <1>1
    <2>2. b[r].length - 1 \in (b[r].length - b[r].new)..(b[r].length - 1)
      BY <1>0, <1>1
    <2> QED BY <1>2, <2>1, <2>2 DEF Tokens
  <1>4. \A t \in Tokens(b) : t[1] \in 1..n /\ token[t[1]] = t
    <2> TAKE t \in Tokens(b)
    <2>1. /\ t \in (1..n) \X (0..(Slots - 1))
          /\ t[2] \in (b[t[1]].length - b[t[1]].new)..(b[t[1]].length - 1)
      BY <1>2 DEF Tokens
    <2>2. t[1] \in 1..n /\ t = <<t[1], t[2]>> /\ t[2] \in Int
      BY <2>1
    <2>3. t[2] = b[t[1]].length - 1
      <3>1. b[t[1]].length \in Int /\ b[t[1]].new = 1
        BY <1>0, <1>1, <2>2
      <3> QED BY <2>1, <2>2, <3>1
    <2> QED BY <2>2, <2>3
  <1>5. \A r, s \in 1..n : token[r] = token[s] => r = s
    OBVIOUS
  <1> HIDE DEF token
  <1>6. token \in [1..n -> Tokens(b)]
    BY <1>3 DEF token
  <1>7. token \in Bijection(1..n, Tokens(b))
    BY <1>4, <1>5, <1>6 DEF Bijection, Injection, Surjection, IsInjective
  <1>8. IsFiniteSet(1..n) /\ Cardinality(1..n) = n
    BY FS_Interval
  <1>9. Cardinality(1..n) = Cardinality(Tokens(b))
    BY <1>7, <1>8, FS_Bijection, Zenon DEF ExistsBijection
  <1> QED BY <1>8, <1>9

\* What the invariant says of the routes of a token.
LEMMA DecodeRoutes ==
    ASSUME DecodeInv, NEW t \in Tokens(batch)
    PROVE  LET row == RowAt(t[2], chosen[t])
               routes == FallbackRoutes(t, row, Len(row))
           IN  /\ routes = ReferenceRoutes(t, t[2] + 1, chosen[t], Limit)
               /\ \A a \in routes : /\ a \in Tokens(batch) \X {"swa", "compressed"}
                                               \X (0..(Slots - 1))
                                    /\ a[3] <= a[1][2]
  <1>1. t[2] \in 0..(Slots - 1)
    BY DEF Tokens
  <1>2. chosen[t] \in EntryChoices /\ \A i \in DOMAIN chosen[t] : chosen[t][i] <= t[2]
    BY DEF DecodeInv
  <1>3. /\ chosen[t] \in Seq(Int) /\ Len(chosen[t]) <= Limit
        /\ \A i \in 1..Len(chosen[t]) : chosen[t][i] <= t[2]
    BY <1>2, ChoicesAre
  <1> DEFINE row == RowAt(t[2], chosen[t])
             routes == FallbackRoutes(t, row, Len(row))
  <1>4. /\ routes = ReferenceRoutes(t, t[2] + 1, chosen[t], Limit)
        /\ \A a \in routes : /\ a \in {t} \X {"swa", "compressed"} \X (0..(Slots - 1))
                             /\ a[1] = t /\ a[3] <= t[2]
    BY <1>1, <1>3, RoutesAgree
  <1> HIDE DEF routes
  <1>5. \A a \in routes : /\ a \in Tokens(batch) \X {"swa", "compressed"}
                                     \X (0..(Slots - 1))
                          /\ a[3] <= a[1][2]
    BY <1>4
  <1> QED BY <1>4, <1>5 DEF routes

LEMMA DecodeInvAttends ==
    ASSUME DecodeInv
    PROVE  /\ FallbackAll(batch, chosen) = ReferenceAll(batch, chosen)
           /\ \A a \in FallbackAll(batch, chosen) :
                /\ a \in Tokens(batch) \X {"swa", "compressed"} \X (0..(Slots - 1))
                /\ a[3] <= a[1][2]
  <1> DEFINE fall(t) == FallbackRoutes(t, RowAt(t[2], chosen[t]),
                                       Len(RowAt(t[2], chosen[t])))
             refer(t) == ReferenceRoutes(t, t[2] + 1, chosen[t], Limit)
  <1>1. \A t \in Tokens(batch) :
          /\ fall(t) = refer(t)
          /\ \A a \in fall(t) :
               /\ a \in Tokens(batch) \X {"swa", "compressed"} \X (0..(Slots - 1))
               /\ a[3] <= a[1][2]
    BY DecodeRoutes
  <1>2. /\ FallbackAll(batch, chosen) = UNION {fall(t) : t \in Tokens(batch)}
        /\ ReferenceAll(batch, chosen) = UNION {refer(t) : t \in Tokens(batch)}
    BY DEF FallbackAll, ReferenceAll
  <1> HIDE DEF fall, refer
  <1>3. {fall(t) : t \in Tokens(batch)} = {refer(t) : t \in Tokens(batch)}
    BY <1>1
  <1>4. \A a \in FallbackAll(batch, chosen) : \E t \in Tokens(batch) : a \in fall(t)
    BY <1>2
  <1> QED BY <1>1, <1>2, <1>3, <1>4

LEMMA DecodeInvSame == DecodeInv => SameRoutes
  <1> SUFFICES ASSUME DecodeInv PROVE SameRoutes
    OBVIOUS
  <1>1. ran = "done" /\ attended.reference # {} =>
          attended.fallback = attended.reference
    BY DecodeInvAttends DEF DecodeInv
  <1>2. \A a \in attended.fallback : a[3] <= a[1][2]
    BY DecodeInvAttends DEF DecodeInv
  <1>3. ASSUME ran = "raised"
        PROVE  Len(batch) > 1 /\ \E r \in DOMAIN batch : batch[r].new > 1
    <2>1. PICK n \in 0..Requests : batch \in [1..n -> Requested]
      BY DEF DecodeInv
    <2>2. n \in Nat /\ DOMAIN batch = 1..n
      BY <2>1, DecodeAssumption
    <2>3. Len(batch) = n
      <3>1. batch \in Seq(Requested)
        BY <2>1, <2>2, SeqDef
      <3> QED BY <2>2, <3>1
    <2>4. n # 1 /\ n # Cardinality(Tokens(batch))
      BY <1>3, <2>3 DEF DecodeInv
    <2>5. \A r \in 1..n : batch[r].new \in 1..2
      BY <2>1 DEF Requested
    <2>6. \E r \in 1..n : batch[r].new > 1
      <3>1. CASE \A r \in 1..n : batch[r].new = 1
        BY <2>1, <2>2, <2>4, <3>1, OneTokenEach
      <3>2. CASE \E r \in 1..n : batch[r].new # 1
        BY <2>5, <3>2
      <3> QED BY <3>1, <3>2
    <2>7. n > 1
      BY <2>2, <2>4, <2>6
    <2> QED BY <2>2, <2>3, <2>6, <2>7
  <1> QED BY <1>1, <1>2, <1>3 DEF SameRoutes

LEMMA DecodeInvTypes == DecodeInv => DecodeTypeOK
  <1> SUFFICES ASSUME DecodeInv PROVE DecodeTypeOK
    OBVIOUS
  <1> DEFINE all == Tokens(batch) \X {"swa", "compressed"} \X (0..(Slots - 1))
  <1>1. FallbackAll(batch, chosen) \subseteq all /\ ReferenceAll(batch, chosen) \subseteq all
    BY DecodeInvAttends
  <1> HIDE DEF all
  <1>2. attended.reference \cup attended.fallback \subseteq all
    BY <1>1 DEF DecodeInv
  <1>3. ran \in {"no", "done", "raised"}
    BY DEF DecodeInv
  <1> QED BY <1>2, <1>3 DEF DecodeTypeOK, all

-----------------------------------------------------------------------------
(* Lines and their counts.                                                 *)

\* What the status, the first attempt and the passed ones of a line have to
\* do with each other.
LineOK(line) ==
    /\ line.status \in Statuses
    /\ line.first \in {0, 1} => line.status \in {"solved", "failing"}
    /\ line.first = 1 => line.status = "solved"
    /\ line.passed > 0 => line.status = "solved"

LEMMA LineIs ==
    \A status, attempts, passed, first :
        LET line == Line(status, attempts, passed, first)
        IN  line.status = status /\ line.passed = passed /\ line.first = first
  BY DEF Line

LEMMA AttemptsJudged ==
    ASSUME NEW attempts
    PROVE  /\ LineOK(JudgeAttempts(attempts))
           /\ JudgeAttempts(attempts).status = "solved" <=>
                \E i \in DOMAIN attempts : attempts[i] = "solved"
  <1> DEFINE good == {i \in DOMAIN attempts : attempts[i] = "solved"}
             line == JudgeAttempts(attempts)
  <1>1. /\ line.status = IF good # {} THEN "solved" ELSE "failing"
        /\ line.passed = Cardinality(good)
        /\ line.first = IF Min(DOMAIN attempts) \in good THEN 1 ELSE 0
    <2>1. line = Line(IF good # {} THEN "solved" ELSE "failing",
                      Cardinality(DOMAIN attempts), Cardinality(good),
                      IF Min(DOMAIN attempts) \in good THEN 1 ELSE 0)
      BY DEF JudgeAttempts
    <2> HIDE DEF good, line
    <2> QED BY <2>1, LineIs
  <1>2. good = {} => Cardinality(good) = 0
    BY FS_EmptySet
  <1>3. good # {} <=> \E i \in DOMAIN attempts : attempts[i] = "solved"
    OBVIOUS
  <1> HIDE DEF good, line
  <1>4. line.first = 1 => good # {}
    BY <1>1
  <1>5. line.passed > 0 => good # {}
    BY <1>1, <1>2
  <1>6. LineOK(line)
    BY <1>1, <1>4, <1>5 DEF LineOK, Statuses
  <1>7. line.status = "solved" <=> good # {}
    BY <1>1
  <1> QED BY <1>3, <1>6, <1>7 DEF line

LEMMA StatusJudged ==
    ASSUME NEW task
    PROVE  LineOK(JudgeStatus(task))
  <1>1. PICK status, attempts, passed :
            /\ JudgeStatus(task) = Line(status, attempts, passed, Unknown)
            /\ status \in Statuses
            /\ passed = IF status = "solved" THEN 1 ELSE 0
    <2>1. CASE task.status = "solved"
      BY <2>1, Zenon DEF JudgeStatus, Statuses
    <2>2. CASE task.status = "notStarted"
      <3>1. JudgeStatus(task) = Line("notStarted", 0, 0, Unknown)
        BY <2>2 DEF JudgeStatus
      <3> QED BY <3>1, Zenon DEF Statuses
    <2>3. CASE task.status = "envBroken"
      <3>1. JudgeStatus(task) =
              Line("envBroken", IF task.made = 0 THEN 0 ELSE task.made, 0, Unknown)
        BY <2>3 DEF JudgeStatus
      <3> QED BY <3>1, Zenon DEF Statuses
    <2>4. CASE task.status \notin {"solved", "notStarted", "envBroken"}
      <3>1. JudgeStatus(task) =
              Line("failing", IF task.made = 0 THEN 1 ELSE task.made, 0, Unknown)
        BY <2>4 DEF JudgeStatus
      <3> QED BY <3>1, Zenon DEF Statuses
    <2> QED BY <2>1, <2>2, <2>3, <2>4
  <1> DEFINE line == JudgeStatus(task)
  <1>2. line.status = status /\ line.passed = passed /\ line.first = Unknown
    BY <1>1, LineIs
  <1> HIDE DEF line
  <1>3. LineOK(line)
    BY <1>1, <1>2 DEF LineOK, Unknown
  <1> QED BY <1>3 DEF line

LEMMA TaskJudged ==
    ASSUME NEW t, NEW broken, NEW idle, NEW task
    PROVE  /\ LineOK(Judge(t, broken, idle, task))
           /\ Judge(t, broken, idle, task).status = "solved" =>
                t \notin broken \cup idle
           /\ DOMAIN task.attempts # {} =>
                (Judge(t, broken, idle, task).status = "solved" <=>
                   /\ t \notin broken \cup idle
                   /\ \E i \in DOMAIN task.attempts : task.attempts[i] = "solved")
  <1>1. CASE t \in broken
    <2>1. Judge(t, broken, idle, task) = Line("envBroken", 0, 0, Unknown)
      BY <1>1 DEF Judge
    <2> QED BY <1>1, <2>1, LineIs DEF LineOK, Unknown, Statuses
  <1>2. CASE t \notin broken /\ t \in idle
    <2>1. Judge(t, broken, idle, task) = Line("notStarted", 0, 0, Unknown)
      BY <1>2 DEF Judge
    <2> QED BY <1>2, <2>1, LineIs DEF LineOK, Unknown, Statuses
  <1>3. CASE t \notin broken \cup idle /\ DOMAIN task.attempts # {}
    <2>1. Judge(t, broken, idle, task) = JudgeAttempts(task.attempts)
      BY <1>3 DEF Judge
    <2> QED BY <1>3, <2>1, AttemptsJudged
  <1>4. CASE t \notin broken \cup idle /\ DOMAIN task.attempts = {}
    <2>1. Judge(t, broken, idle, task) = JudgeStatus(task)
      BY <1>4 DEF Judge
    <2> QED BY <1>4, <2>1, StatusJudged
  <1> QED BY <1>1, <1>2, <1>3, <1>4

\* The rates of a receipt are at most one.
RatesOK(r) ==
    /\ r.counts["solved"] <= ProperlyAttempted(r)
    /\ r.solved1 <= r.known1
    /\ r.solved1 <= r.solvedN
    /\ r.solvedN = Cardinality(r.solved)
    /\ r.known1 <= ProperlyAttempted(r)

LEMMA SumOfProper ==
    ASSUME NEW r, r.counts \in [Statuses -> Nat]
    PROVE  ProperlyAttempted(r) = r.counts["solved"] + r.counts["failing"]
  <1>1. /\ r.counts["solved"] \in Nat /\ r.counts["failing"] \in Nat
        /\ r.counts["envBroken"] \in Nat /\ r.counts["notStarted"] \in Nat
    BY DEF Statuses
  <1> QED BY <1>1 DEF ProperlyAttempted, Attempted, Total, SumOf

LEMMA LinesCounted ==
    ASSUME NEW line, IsFiniteSet(DOMAIN line), NEW from, NEW listed,
           \A n \in DOMAIN line :
              /\ LineOK(line[n])
              /\ line[n].status = "solved" => n \in Tasks
    PROVE  LET r == CountLines(line, from, listed)
           IN  /\ r.from = from /\ r.listed = listed
               /\ r.solved = {n \in DOMAIN line : line[n].status = "solved"}
               /\ r.solved \subseteq Tasks
               /\ r.counts \in [Statuses -> Nat]
               /\ RatesOK(r)
  <1> DEFINE r == CountLines(line, from, listed)
             having(status) == {n \in DOMAIN line : line[n].status = status}
             first(what) == {n \in DOMAIN line : line[n].first \in what}
             passed == {n \in DOMAIN line : line[n].passed > 0}
             solved == having("solved")
             failing == having("failing")
  <1>1. /\ r.from = from /\ r.listed = listed
        /\ r.counts = [s \in Statuses |-> Cardinality(having(s))]
        /\ r.known1 = Cardinality(first({0, 1}))
        /\ r.solved1 = Cardinality(first({1}))
        /\ r.solvedN = Cardinality(passed \cup solved)
        /\ r.solved = solved \cap Tasks
    BY DEF CountLines
  <1> HIDE DEF r
  <1>2. solved \cap Tasks = solved
    OBVIOUS
  <1>3. passed \cup solved = solved
    BY DEF LineOK
  <1>4. first({1}) \subseteq solved /\ first({1}) \subseteq first({0, 1})
    BY DEF LineOK
  <1>5. first({0, 1}) \subseteq solved \cup failing
    BY DEF LineOK
  <1>6. \A s : IsFiniteSet(having(s)) /\ Cardinality(having(s)) \in Nat
    <2> TAKE s
    <2>1. having(s) \subseteq DOMAIN line
      OBVIOUS
    <2> QED BY <2>1, FS_Subset, FS_CardinalityType
  <1>7. IsFiniteSet(first({0, 1})) /\ Cardinality(first({0, 1})) \in Nat
    <2>1. first({0, 1}) \subseteq DOMAIN line
      OBVIOUS
    <2> QED BY <2>1, FS_Subset, FS_CardinalityType
  <1>8. r.counts \in [Statuses -> Nat]
    <2> HIDE DEF having
    <2> QED BY <1>1, <1>6
  <1>9. r.counts["solved"] = Cardinality(solved) /\ r.counts["failing"] = Cardinality(failing)
    BY <1>1 DEF Statuses
  <1>10. IsFiniteSet(solved) /\ IsFiniteSet(failing)
         /\ Cardinality(solved) \in Nat /\ Cardinality(failing) \in Nat
    BY <1>6
  <1>11. solved \cap failing = {}
    OBVIOUS
  <1> HIDE DEF having, first, passed, solved, failing
  <1>12. Cardinality(solved \cup failing) = Cardinality(solved) + Cardinality(failing)
         /\ IsFiniteSet(solved \cup failing)
    <2>1. Cardinality(solved \cap failing) = 0
      BY <1>11, FS_EmptySet
    <2>2. /\ IsFiniteSet(solved \cup failing)
          /\ Cardinality(solved \cup failing) =
               Cardinality(solved) + Cardinality(failing) - Cardinality(solved \cap failing)
      BY <1>10, FS_Union, Zenon
    <2> QED BY <1>10, <2>1, <2>2
  <1>13. /\ Cardinality(first({1})) <= Cardinality(solved)
         /\ Cardinality(first({1})) <= Cardinality(first({0, 1}))
         /\ Cardinality(first({0, 1})) <= Cardinality(solved \cup failing)
    BY <1>4, <1>5, <1>7, <1>10, <1>12, FS_Subset
  <1>14. ProperlyAttempted(r) = Cardinality(solved) + Cardinality(failing)
    BY <1>8, <1>9, SumOfProper
  <1>15. RatesOK(r)
    <2>1. r.counts["solved"] <= ProperlyAttempted(r)
      BY <1>9, <1>10, <1>14
    <2>2. r.solved1 <= r.known1 /\ r.solved1 <= r.solvedN
      BY <1>1, <1>3, <1>13
    <2>3. r.solvedN = Cardinality(r.solved)
      BY <1>1, <1>2, <1>3
    <2>4. r.known1 <= ProperlyAttempted(r)
      BY <1>1, <1>12, <1>13, <1>14
    <2> QED BY <2>1, <2>2, <2>3, <2>4 DEF RatesOK
  <1>16. r.solved = solved /\ r.solved \subseteq Tasks
    BY <1>1, <1>2
  <1> QED BY <1>1, <1>8, <1>15, <1>16 DEF r, solved, having

-----------------------------------------------------------------------------
(* The trials of a task.                                                   *)

LEMMA RunsAreNumbers == Runs \in Nat \ {0} /\ MaxGiven \in Nat \ {0}
  BY BenchAssumption

LEMMA NamesNameAll ==
    ASSUME NEW order \in SetToSeqs(1..Runs)
    PROVE  DOMAIN order = 1..Runs /\ \A k \in 1..Runs : \E i \in 1..Runs : order[i] = k
  <1>1. IsFiniteSet(1..Runs) /\ Cardinality(1..Runs) = Runs
    BY RunsAreNumbers, FS_Interval
  <1>2. /\ order \in [1..Runs -> 1..Runs]
        /\ \A i, j \in 1..Runs : i # j => order[i] # order[j]
    BY <1>1, Zenon DEF SetToSeqs
  <1>3. order \in Injection(1..Runs, 1..Runs)
    BY <1>2, Zenon DEF Injection, IsInjective
  <1>4. order \in Surjection(1..Runs, 1..Runs)
    BY <1>1, <1>3, FS_Injection, Zenon
  <1> QED BY <1>2, <1>4, Zenon DEF Surjection

States == {"queued", "begun", "passed", "failed", "cancelled"}
Passed(t) == \E k \in 1..Runs : trial[t][k] = "passed"

\* A task of which a trial passed is seen, and has an attempt that solves it.
LEMMA AttemptsSeen ==
    ASSUME NEW t, names[t] \in SetToSeqs(1..Runs), trial[t] \in [1..Runs -> States]
    PROVE  /\ Passed(t) => DOMAIN AttemptsOf(t) # {}
           /\ (\E i \in DOMAIN AttemptsOf(t) : AttemptsOf(t)[i] = "solved") <=> Passed(t)
  <1> DEFINE order == names[t]
             there == {j \in DOMAIN order : trial[t][order[j]] # "queued"}
  <1>1. DOMAIN order = 1..Runs /\ \A k \in 1..Runs : \E i \in 1..Runs : order[i] = k
    BY NamesNameAll
  <1>2. \A i \in 1..Runs : order[i] \in 1..Runs
    <2>1. Cardinality(1..Runs) = Runs
      BY RunsAreNumbers, FS_Interval
    <2> QED BY <2>1, Zenon DEF SetToSeqs
  <1>3. /\ DOMAIN AttemptsOf(t) = there
        /\ \A i \in there : AttemptsOf(t)[i] = TrialStatus(trial[t][order[i]])
    BY Zenon DEF AttemptsOf
  <1>4. \A state \in States : TrialStatus(state) = "solved" <=> state = "passed"
    BY DEF States, TrialStatus
  <1>5. ASSUME NEW i \in there, AttemptsOf(t)[i] = "solved" PROVE Passed(t)
    <2>1. order[i] \in 1..Runs /\ trial[t][order[i]] \in States
      BY <1>1, <1>2
    <2>2. trial[t][order[i]] = "passed"
      BY <1>3, <1>4, <1>5, <2>1
    <2> QED BY <2>1, <2>2 DEF Passed
  <1>6. ASSUME Passed(t) PROVE \E i \in there : AttemptsOf(t)[i] = "solved"
    <2>1. PICK k \in 1..Runs : trial[t][k] = "passed"
      BY <1>6 DEF Passed
    <2>2. PICK i \in 1..Runs : order[i] = k
      BY <1>1
    <2>3. i \in there
      BY <1>1, <2>1, <2>2
    <2>4. trial[t][order[i]] = "passed" /\ "passed" \in States
      BY <2>1, <2>2 DEF States
    <2> QED BY <1>3, <1>4, <2>3, <2>4
  <1> QED BY <1>3, <1>5, <1>6

-----------------------------------------------------------------------------
(* The receipts.                                                           *)

BenchInv ==
    /\ BenchTypeOK
    /\ receipt.from = "job" => \A t \in receipt.solved : Passed(t)

\* What a step that writes a receipt makes of it.
NewReceipt ==
    /\ receipt'.from \in Reports
    /\ receipt'.counts \in [Statuses -> Nat]
    /\ receipt'.solved \subseteq Tasks
    /\ receipt'.from \in {"job", "tasks"} => RatesOK(receipt')
    /\ receipt'.from = "job" =>
         receipt'.solved = {t \in Tasks \ receipt'.listed : Passed(t)}

LEMMA JobLines ==
    ASSUME BenchTypeOK, NEW broken, NEW idle, ReduceJob(broken, idle)
    PROVE  NewReceipt /\ receipt'.from = "job"
  <1> DEFINE unseen == 1..Missing
             lineOf(n) == IF n \in unseen THEN Line("notStarted", 0, 0, Unknown)
                          ELSE Judge(n, broken, idle, [attempts |-> AttemptsOf(n)])
             line == [n \in Seen \cup unseen |-> lineOf(n)]
  <1>1. receipt' = CountLines(line, "job", broken \cup idle)
    BY DEF ReduceJob
  <1>2. Seen \subseteq Tasks /\ IsFiniteSet(Tasks) /\ IsFiniteSet(Seen)
        /\ Cardinality(Seen) \in Nat /\ Cardinality(Tasks) \in Nat
    <2>1. Seen \subseteq Tasks
      BY DEF Seen
    <2>2. IsFiniteSet(Tasks)
      BY BenchAssumption
    <2> QED BY <2>1, <2>2, FS_Subset, FS_CardinalityType
  <1>3. Missing \in Nat
    <2>1. \A m, n \in Nat : m * n \in Nat
      OBVIOUS
    <2>2. Trials \in Nat
      BY <1>2, <2>1, RunsAreNumbers DEF Trials
    <2> QED BY <1>2, <2>2 DEF Missing
  <1>4. IsFiniteSet(unseen) /\ unseen \subseteq Nat
    BY <1>3, FS_Interval
  <1>5. IsFiniteSet(Seen \cup unseen)
    BY <1>2, <1>4, FS_Union
  <1>6. \A n \in Tasks : n \notin unseen
    BY <1>4, BenchAssumption
  <1>7. \A n : LineOK(lineOf(n))
    <2>1. \A n : LineOK(Judge(n, broken, idle, [attempts |-> AttemptsOf(n)]))
      BY TaskJudged
    <2>2. LineOK(Line("notStarted", 0, 0, Unknown))
      BY LineIs DEF LineOK, Unknown, Statuses
    <2> QED BY <2>1, <2>2
  <1>8. \A n \in unseen : lineOf(n).status = "notStarted"
    BY LineIs
  <1>9. \A n \in Seen : lineOf(n).status = "solved" <=>
                            n \notin broken \cup idle /\ Passed(n)
    <2> TAKE n \in Seen
    <2> DEFINE task == [attempts |-> AttemptsOf(n)]
    <2>1. n \in Tasks /\ DOMAIN AttemptsOf(n) # {} /\ n \notin unseen
      BY <1>6 DEF Seen
    <2>2. task.attempts = AttemptsOf(n)
      OBVIOUS
    <2>3. lineOf(n) = Judge(n, broken, idle, task)
      BY <2>1
    <2> HIDE DEF task, lineOf
    <2>4. lineOf(n).status = "solved" <=>
            /\ n \notin broken \cup idle
            /\ \E i \in DOMAIN AttemptsOf(n) : AttemptsOf(n)[i] = "solved"
      BY <2>1, <2>2, <2>3, TaskJudged
    <2>5. names[n] \in SetToSeqs(1..Runs) /\ trial[n] \in [1..Runs -> States]
      BY <2>1 DEF BenchTypeOK, States
    <2> QED BY <2>4, <2>5, AttemptsSeen
  <1>10. \A n \in Tasks : Passed(n) => n \in Seen
    <2> TAKE n \in Tasks
    <2>1. names[n] \in SetToSeqs(1..Runs) /\ trial[n] \in [1..Runs -> States]
      BY DEF BenchTypeOK, States
    <2> QED BY <2>1, AttemptsSeen DEF Seen
  <1> HIDE DEF lineOf
  <1>11. DOMAIN line = Seen \cup unseen /\ \A n \in DOMAIN line : line[n] = lineOf(n)
    OBVIOUS
  <1> HIDE DEF line, unseen
  <1>12. \A n \in DOMAIN line : /\ LineOK(line[n])
                                /\ line[n].status = "solved" => n \in Tasks
    BY <1>2, <1>7, <1>8, <1>11
  <1>13. IsFiniteSet(DOMAIN line)
    BY <1>5, <1>11
  <1> DEFINE r == CountLines(line, "job", broken \cup idle)
  <1>14. /\ r.from = "job" /\ r.listed = broken \cup idle
         /\ r.solved = {n \in DOMAIN line : line[n].status = "solved"}
         /\ r.solved \subseteq Tasks
         /\ r.counts \in [Statuses -> Nat]
         /\ RatesOK(r)
    BY <1>12, <1>13, LinesCounted
  <1> HIDE DEF r
  <1>15. receipt' = r
    BY <1>1 DEF r
  <1>16. r.solved = {t \in Tasks \ r.listed : Passed(t)}
    <2>1. ASSUME NEW n \in DOMAIN line, line[n].status = "solved"
          PROVE  n \in Tasks \ r.listed /\ Passed(n)
      BY <1>2, <1>8, <1>9, <1>11, <1>14, <2>1
    <2>2. ASSUME NEW n \in Tasks \ r.listed, Passed(n)
          PROVE  n \in DOMAIN line /\ line[n].status = "solved"
      BY <1>9, <1>10, <1>11, <1>14, <2>2
    <2> QED BY <1>14, <2>1, <2>2
  <1> QED BY <1>14, <1>15, <1>16 DEF NewReceipt, Reports

LEMMA TaskLines ==
    ASSUME NEW broken, NEW idle, ReduceTasks(broken, idle)
    PROVE  NewReceipt /\ receipt'.from = "tasks"
  <1>1. PICK given : receipt' = CountLines(
             [t \in Tasks |-> Judge(t, broken, idle,
                                    [attempts |-> <<>>,
                                     status |-> given[t].status,
                                     made |-> given[t].made])],
             "tasks", broken \cup idle)
    BY DEF ReduceTasks
  <1> DEFINE line == [t \in Tasks |-> Judge(t, broken, idle,
                                    [attempts |-> <<>>,
                                     status |-> given[t].status,
                                     made |-> given[t].made])]
             r == CountLines(line, "tasks", broken \cup idle)
  <1>2. DOMAIN line = Tasks /\ IsFiniteSet(Tasks)
    BY BenchAssumption
  <1>3. \A n \in DOMAIN line : /\ LineOK(line[n])
                               /\ line[n].status = "solved" => n \in Tasks
    BY TaskJudged
  <1>4. receipt' = r
    BY <1>1
  <1>6. IsFiniteSet(DOMAIN line)
    BY <1>2
  <1> HIDE DEF line
  <1>5. /\ r.from = "tasks" /\ r.listed = broken \cup idle
        /\ r.solved = {n \in DOMAIN line : line[n].status = "solved"}
        /\ r.solved \subseteq Tasks
        /\ r.counts \in [Statuses -> Nat]
        /\ RatesOK(r)
    BY <1>3, <1>6, LinesCounted
  <1> HIDE DEF r
  <1> QED BY <1>4, <1>5 DEF NewReceipt, Reports

LEMMA CountsGiven ==
    ASSUME ReduceCounts
    PROVE  NewReceipt /\ receipt'.from \in {"refused", "counts"}
  <1>1. PICK given \in [Statuses -> 0..MaxGiven], total \in 0..MaxGiven,
             n \in 0..MaxGiven :
          receipt' = IF total \notin {0, SumOf(given)}
                     THEN [Nothing EXCEPT !.from = "refused"]
                     ELSE [Nothing EXCEPT
                             !.from = "counts", !.counts = given,
                             !.solvedN = IF n = 0 THEN given["solved"] ELSE n]
    BY Zenon DEF ReduceCounts
  <1>2. given \in [Statuses -> Nat]
    BY RunsAreNumbers
  <1>3. CASE receipt' = [Nothing EXCEPT !.from = "refused"]
    BY <1>3 DEF NewReceipt, Reports, Nothing
  <1>4. CASE receipt' = [Nothing EXCEPT !.from = "counts", !.counts = given,
                           !.solvedN = IF n = 0 THEN given["solved"] ELSE n]
    BY <1>2, <1>4 DEF NewReceipt, Reports, Nothing
  <1> QED BY <1>1, <1>3, <1>4

\* A step of the job changes one trial, and none that passed.
JobStep ==
    /\ UNCHANGED <<input, names, receipt>>
    /\ trial' \in [Tasks -> [1..Runs -> States]]
    /\ \A t \in Tasks : Passed(t) => Passed(t)'

LEMMA TrialSteps ==
    ASSUME BenchTypeOK, NEW t \in Tasks, NEW k \in 1..Runs,
           TrialBegins(t, k) \/ TrialEnds(t, k)
    PROVE  JobStep
  <1>1. PICK state \in States : trial' = [trial EXCEPT ![t][k] = state]
    BY DEF TrialBegins, TrialEnds, States
  <1>2. trial[t][k] \in {"queued", "begun"} /\ UNCHANGED <<input, names, receipt>>
    BY DEF TrialBegins, TrialEnds
  <1>3. trial \in [Tasks -> [1..Runs -> States]]
    BY DEF BenchTypeOK, States
  <1>4. trial' \in [Tasks -> [1..Runs -> States]]
    BY <1>1, <1>3
  <1>5. \A u \in Tasks, j \in 1..Runs :
          trial'[u][j] = IF u = t /\ j = k THEN state ELSE trial[u][j]
    BY <1>1, <1>3
  <1>6. \A u \in Tasks : Passed(u) => Passed(u)'
    BY <1>2, <1>5 DEF Passed
  <1> QED BY <1>2, <1>4, <1>6 DEF JobStep

LEMMA BenchSteps ==
    ASSUME BenchTypeOK, BenchNext
    PROVE  \/ JobStep
           \/ NewReceipt /\ UNCHANGED <<input, trial, names>>
  <1>1. ASSUME NEW broken, NEW idle, ReduceJob(broken, idle)
        PROVE  NewReceipt /\ UNCHANGED <<input, trial, names>>
    BY <1>1, JobLines DEF ReduceJob
  <1>2. ASSUME NEW broken, NEW idle, ReduceTasks(broken, idle)
        PROVE  NewReceipt /\ UNCHANGED <<input, trial, names>>
    BY <1>2, TaskLines DEF ReduceTasks
  <1>3. CASE ReduceCounts
    <2>1. UNCHANGED <<input, trial, names>>
      BY <1>3, Zenon DEF ReduceCounts
    <2> QED BY <1>3, <2>1, CountsGiven
  <1> QED BY <1>1, <1>2, <1>3, TrialSteps DEF BenchNext

LEMMA BenchInvInit == BenchInit => BenchInv
  <1> SUFFICES ASSUME BenchInit PROVE BenchInv
    OBVIOUS
  <1>1. receipt = Nothing
    BY DEF BenchInit
  <1>2. /\ receipt.from = "none" /\ receipt.solved = {}
        /\ receipt.counts = [s \in Statuses |-> 0]
    BY <1>1 DEF Nothing
  <1>3. BenchTypeOK
    BY <1>2 DEF BenchTypeOK, BenchInit, Reports
  <1> QED BY <1>2, <1>3 DEF BenchInv

LEMMA BenchInvStep == BenchInv /\ [BenchNext]_benchVars => BenchInv'
  <1> SUFFICES ASSUME BenchInv, [BenchNext]_benchVars PROVE BenchInv'
    OBVIOUS
  <1>0. BenchTypeOK /\ (receipt.from = "job" => \A t \in receipt.solved : Passed(t))
    BY DEF BenchInv
  <1>1. CASE JobStep
    <2>1. BenchTypeOK'
      BY <1>0, <1>1 DEF BenchTypeOK, JobStep, States
    <2>2. receipt.solved \subseteq Tasks
      BY <1>0 DEF BenchTypeOK
    <2>3. receipt'.from = "job" => \A t \in receipt'.solved : Passed(t)'
      BY <1>0, <1>1, <2>2 DEF JobStep
    <2> QED BY <2>1, <2>3 DEF BenchInv
  <1>2. CASE NewReceipt /\ UNCHANGED <<input, trial, names>>
    <2>1. BenchTypeOK'
      BY <1>0, <1>2 DEF BenchTypeOK, NewReceipt
    <2>2. \A t : Passed(t)' <=> Passed(t)
      BY <1>2 DEF Passed
    <2>3. receipt'.from = "job" => \A t \in receipt'.solved : Passed(t)'
      BY <1>2, <2>2 DEF NewReceipt
    <2> QED BY <2>1, <2>3 DEF BenchInv
  <1>3. CASE UNCHANGED benchVars
    BY <1>0, <1>3 DEF benchVars, BenchInv, BenchTypeOK, Passed
  <1> QED BY <1>0, <1>1, <1>2, <1>3, BenchSteps

\* What SolvedIsSolved says of a step.
SolvedStep ==
    receipt' # receipt =>
         /\ receipt'.from \in {"job", "tasks"} =>
              /\ receipt'.counts["solved"] <= ProperlyAttempted(receipt')
              /\ receipt'.solved1 <= receipt'.known1
              /\ receipt'.solved1 <= receipt'.solvedN
              /\ receipt'.solvedN = Cardinality(receipt'.solved)
              /\ receipt'.known1 <= ProperlyAttempted(receipt')
         /\ receipt'.from = "job" =>
              receipt'.solved = {t \in Tasks \ receipt'.listed :
                                   \E k \in 1..Runs : trial[t][k] = "passed"}
         /\ receipt.from = "job" /\ receipt'.from = "job" =>
              receipt.solved \subseteq receipt'.solved \cup receipt'.listed

LEMMA BenchStepSolved == BenchInv /\ [BenchNext]_benchVars => [SolvedStep]_benchVars
  <1> SUFFICES ASSUME BenchInv, BenchNext, receipt' # receipt PROVE SolvedStep
    BY DEF SolvedStep
  <1>1. NewReceipt
    BY BenchSteps DEF BenchInv, JobStep
  <1>2. receipt.from = "job" /\ receipt'.from = "job" =>
          receipt.solved \subseteq receipt'.solved \cup receipt'.listed
    BY <1>1 DEF NewReceipt, BenchInv, BenchTypeOK
  <1>3. receipt'.from = "job" =>
          receipt'.solved = {t \in Tasks \ receipt'.listed :
                               \E k \in 1..Runs : trial[t][k] = "passed"}
    BY <1>1, Zenon DEF NewReceipt, Passed
  <1>4. receipt'.from \in {"job", "tasks"} => RatesOK(receipt')
    BY <1>1 DEF NewReceipt
  <1> QED BY <1>2, <1>3, <1>4, Zenon DEF SolvedStep, RatesOK

-----------------------------------------------------------------------------
(* The tools together.                                                     *)

AdmissionInv ==
    /\ BenchInv /\ PatchInv /\ FlashInv /\ RoutingInv
    /\ DecodeInv /\ LadderInv /\ FableInv

\* A tool that rests is in a state that its invariant allows.
LEMMA BenchRestsWell == BenchRests => BenchInv
  <1> SUFFICES ASSUME BenchRests PROVE BenchInv
    OBVIOUS
  <1> DEFINE byTime == [k \in 1..Runs |-> k]
  <1>1. byTime \in SetToSeqs(1..Runs)
    <2>1. Cardinality(1..Runs) = Runs
      BY RunsAreNumbers, FS_Interval
    <2> QED BY <2>1 DEF SetToSeqs
  <1> HIDE DEF byTime
  <1>2. names = [t \in Tasks |-> byTime]
    BY DEF BenchRests, byTime
  <1>3. receipt.from = "none" /\ receipt.solved = {}
        /\ receipt.counts = [s \in Statuses |-> 0]
    BY DEF BenchRests, Nothing
  <1>4. BenchTypeOK
    <2>1. names \in [Tasks -> SetToSeqs(1..Runs)]
      BY <1>1, <1>2
    <2>2. input = "job" /\ trial = [t \in Tasks |-> [k \in 1..Runs |-> "queued"]]
      BY DEF BenchRests
    <2> QED BY <1>3, <2>1, <2>2 DEF BenchTypeOK, Reports
  <1> QED BY <1>3, <1>4 DEF BenchInv

LEMMA PatchRestsWell == PatchRests => PatchInv
  <1> SUFFICES ASSUME PatchRests PROVE PatchInv
    OBVIOUS
  <1>1. disk \in [EditIds -> Texts] /\ \A e \in EditIds : disk[e] = "old"
    BY DEF PatchRests, Texts
  <1>2. vllm \in VllmFiles /\ HelperShape
    BY DEF PatchRests, VllmFiles, HelperShape
  <1>3. PatchTypeOK
    BY <1>1, <1>2, PatchAssumption, EditIdsAre DEF PatchRests, PatchTypeOK, Idle
  <1>4. RunShape
    BY EditIdsAre DEF PatchRests, RunShape, Idle
  <1>5. EditsInOrder /\ OverlaySays
    BY <1>1 DEF PatchRests, EditsInOrder, OverlaySays, Done
  <1> QED BY <1>2, <1>3, <1>4, <1>5 DEF PatchInv

LEMMA FlashRestsWell == FlashRests => FlashInv
  <1> SUFFICES ASSUME FlashRests PROVE FlashInv
    OBVIOUS
  <1>1. <<>> \in Seq(Entries) /\ 0 \in 0..Len(<<>>)
    OBVIOUS
  <1>2. sized \in Sizes \cup {0, 1} /\ sized <= size
    BY DEF FlashRests
  <1> QED BY <1>1, <1>2, Zenon DEF FlashRests, FlashInv

LEMMA RoutingRestsWell == RoutingRests => RoutingInv
  <1> SUFFICES ASSUME RoutingRests PROVE RoutingInv
    OBVIOUS
  <1>1. None \in -1..GlobalExperts
    BY ShardsAreNotEmpty DEF None
  <1>2. experts \in [Routes -> -1..GlobalExperts]
    BY <1>1 DEF RoutingRests
  <1> QED BY <1>2 DEF RoutingRests, RoutingInv

LEMMA DecodeRestsWell == DecodeRests => DecodeInv
  <1> SUFFICES ASSUME DecodeRests PROVE DecodeInv
    OBVIOUS
  <1>1. batch = <<>> /\ chosen = <<>>
    BY DEF DecodeRests
  <1>2. Tokens(<<>>) = {}
    BY DEF Tokens
  <1>3. <<>> \in [1..0 -> Requested] /\ 0 \in 0..Requests
    BY DecodeAssumption
  <1>4. <<>> \in [{} -> EntryChoices]
    OBVIOUS
  <1>5. /\ attended.reference = {} /\ attended.fallback = {} /\ ran = "no"
        /\ attended = [reference |-> attended.reference,
                       fallback |-> attended.fallback]
    BY DEF DecodeRests
  <1>6. Tokens(batch) = {}
    BY <1>1, <1>2
  <1> QED BY <1>1, <1>3, <1>4, <1>5, <1>6 DEF DecodeInv

LEMMA LadderRestsWell == LadderRests => LadderInv
  BY LadderAssumption DEF LadderRests, LadderInv, LadderTypeOK

LEMMA FableRestsWell == FableRests => FableInv
  <1> SUFFICES ASSUME FableRests PROVE FableInv
    OBVIOUS
  <1>1. packs = 0 /\ writing = FALSE /\ packed = NoPacked /\ artifact = NoArtifact
    BY DEF FableRests
  <1>2. WriterShape
    BY <1>1, NothingWritten
  <1>3. ReportShape /\ payload \in Payloads
    BY PublishedAssumption DEF FableRests, ReportShape
  <1> QED BY <1>2, <1>3 DEF FableInv

LEMMA AdmissionInvInit == Init => AdmissionInv
  <1> SUFFICES ASSUME Init PROVE AdmissionInv
    OBVIOUS
  <1>1. BenchInv
    BY BenchInvInit, BenchRestsWell DEF Init
  <1>2. PatchInv
    BY PatchInvInit, PatchRestsWell DEF Init
  <1>3. FlashInv
    BY FlashInvInit, FlashRestsWell DEF Init
  <1>4. RoutingInv
    BY RoutingInvInit, RoutingRestsWell DEF Init
  <1>5. DecodeInv
    BY DecodeInvInit, DecodeRestsWell DEF Init
  <1>6. LadderInv
    BY LadderInvInit, LadderRestsWell DEF Init
  <1>7. FableInv
    BY FableInvInit, FableRestsWell DEF Init
  <1> QED BY <1>1, <1>2, <1>3, <1>4, <1>5, <1>6, <1>7 DEF AdmissionInv

\* A step is one of one tool, and nothing to the others.
LEMMA StepsOfTools ==
    ASSUME [Next]_vars
    PROVE  /\ [BenchNext]_benchVars /\ [PatchNext]_patchVars
           /\ [FlashNext]_flashVars /\ [RoutingNext]_routingVars
           /\ [DecodeNext]_decodeVars /\ [LadderNext]_ladderVars
           /\ [FableNext]_fableVars
  BY DEF Next, vars

LEMMA AdmissionInvStep == AdmissionInv /\ [Next]_vars => AdmissionInv'
  <1> SUFFICES ASSUME AdmissionInv, [Next]_vars PROVE AdmissionInv'
    OBVIOUS
  <1> USE StepsOfTools DEF AdmissionInv
  <1>1. BenchInv'
    BY BenchInvStep
  <1>2. PatchInv'
    BY PatchStep
  <1>3. FlashInv'
    BY FlashInvStep
  <1>4. RoutingInv'
    BY RoutingInvStep
  <1>5. DecodeInv'
    BY DecodeInvStep
  <1>6. LadderInv'
    BY LadderInvStep
  <1>7. FableInv'
    BY FableInvStep
  <1> QED BY <1>1, <1>2, <1>3, <1>4, <1>5, <1>6, <1>7

LEMMA AlwaysAdmissionInv == Spec => []AdmissionInv
  BY AdmissionInvInit, AdmissionInvStep, PTL DEF Spec

\* The variables of the tools keep their types, however many targets, tasks,
\* experts or runs there are (hydralisk/admission and hydralisk/evals).
THEOREM ReportsTyped == Spec => []ReportsTypeOK
  <1>1. AdmissionInv => ReportsTypeOK
    <2> SUFFICES ASSUME AdmissionInv PROVE ReportsTypeOK
      OBVIOUS
    <2>1. BenchTypeOK /\ PatchTypeOK
      BY DEF AdmissionInv, BenchInv, PatchInv
    <2>2. FlashTypeOK /\ RoutingTypeOK /\ DecodeTypeOK
      BY FlashInvTypes, RoutingInvTypes, DecodeInvTypes DEF AdmissionInv
    <2>3. LadderTypeOK /\ FableTypeOK
      BY FableInvTypes DEF AdmissionInv, LadderInv
    <2> QED BY <2>1, <2>2, <2>3 DEF ReportsTypeOK
  <1> QED BY <1>1, AlwaysAdmissionInv, PTL

\* What a tool of the admission says can be acted on, for every adapter,
\* payload, file and number of runs (deepseek_v4_fable.py, deepseek_v4_flash.py
\* and the vendor patches).
THEOREM ReportsAreHonest == Spec => []ReportsHonest
  <1>1. AdmissionInv => ReportsHonest
    BY LadderInvHonest, FableInvHonest, FlashInvSafe, PatchInvHonest
       DEF AdmissionInv, ReportsHonest
  <1> QED BY <1>1, AlwaysAdmissionInv, PTL

\* No route is lost or taken twice by sharding, and the sparse fallback attends
\* to what the reference does, whatever the sizes of shards, windows and
\* batches (deepseek_v4_moe.py, deepseek_v4_sparse_mla_vllm_patch.py).
THEOREM RoutesAreKept == Spec => []RoutesKept
  <1>1. AdmissionInv => RoutesKept
    BY RoutingInvRouted, DecodeInvSame DEF AdmissionInv, RoutesKept
  <1> QED BY <1>1, AlwaysAdmissionInv, PTL

\* What the numerators of a receipt stand for holds of every set of tasks and
\* number of trials (terminal_bench.py, _counts_from_tasks).
THEOREM SolvedStaysSolved == Spec => SolvedIsSolved
  <1>1. AdmissionInv /\ [Next]_vars => [SolvedStep]_benchVars
    BY StepsOfTools, BenchStepSolved DEF AdmissionInv
  <1>2. [][SolvedStep]_benchVars => SolvedIsSolved
    BY PTL DEF SolvedIsSolved, SolvedStep
  <1> QED BY <1>1, <1>2, AlwaysAdmissionInv, PTL DEF Spec
=============================================================================
