------------------------- MODULE InflightGate_proofs -------------------------
(***************************************************************************)
(* Proofs about InflightGate, for any finite set of requests and any set   *)
(* of limits.  The counting invariant is inductive only together with what *)
(* the queue looks like: a request is parked once, nobody parked holds a   *)
(* lease, and the queue is empty where the gate never queues.              *)
(***************************************************************************)
EXTENDS InflightGate, FiniteSetTheorems, TLAPS

Elements(q) == {q[i] : i \in 1..Len(q)}

OneToOne(q) == \A i, j \in 1..Len(q) : q[i] = q[j] => i = j

QueueInv ==
    /\ OneToOne(waiters)
    /\ granted \cap Elements(waiters) = {}
    /\ \A r \in granted \cup Elements(waiters) : lease[r] = "none"

ModeInv ==
    /\ (limit = 0 \/ ~queueing) => waiters = <<>> /\ granted = {}
    /\ limit = 0 => value = 0

IInv ==
    /\ GateTypeOK
    /\ QueueInv
    /\ ModeInv
    /\ SlotConservation
    /\ PermitNotStranded

-----------------------------------------------------------------------------
(* The queue operations.                                                   *)

\* A one-to-one prefix has as many elements as its length.
LEMMA PrefixCount ==
    ASSUME NEW q \in Seq(Requests), OneToOne(q), NEW k \in 0..Len(q)
    PROVE  LET P == {q[i] : i \in 1..k}
           IN  IsFiniteSet(P) /\ Cardinality(P) = k
<1> DEFINE P == {q[i] : i \in 1..k}
           f == [i \in 1..k |-> q[i]]
<1>1. f \in Bijection(1..k, P)
  <2>1. f \in [1..k -> P]
    OBVIOUS
  <2>2. \A i, j \in 1..k : f[i] = f[j] => i = j
    BY DEF OneToOne
  <2>3. \A p \in P : \E i \in 1..k : f[i] = p
    OBVIOUS
  <2> QED
    BY <2>1, <2>2, <2>3 DEF Bijection, Injection, Surjection, IsInjective
<1>2. IsFiniteSet(1..k) /\ Cardinality(1..k) = k
  BY FS_Interval
<1>3. ExistsBijection(1..k, P)
  BY <1>1 DEF ExistsBijection
<1> QED
  BY <1>2, <1>3, FS_Bijection

\* Passing permits on loses none and creates none, keeps the queue in order,
\* and leaves a permit free only when nobody is parked any more.
LEMMA PassOnFacts ==
    ASSUME NEW q \in Seq(Requests), OneToOne(q),
           NEW v \in Nat,
           NEW w \in SUBSET Requests, w \cap Elements(q) = {},
           PassOn(q, v, w)
    PROVE  /\ value' \in Nat
           /\ waiters' \in Seq(Requests)
           /\ granted' \in SUBSET Requests
           /\ OneToOne(waiters')
           /\ granted' \cap Elements(waiters') = {}
           /\ granted' \cup Elements(waiters') \subseteq w \cup Elements(q)
           /\ value' + Cardinality(granted') = v + Cardinality(w)
           /\ value' > 0 => waiters' = <<>>
<1> DEFINE k == LesserOf(v, Len(q))
           P == {q[i] : i \in 1..k}
<1>1. k \in 0..Len(q) /\ k <= v /\ (k = v \/ k = Len(q)) /\ Len(q) \in Nat
  BY DEF LesserOf
<1>2. /\ value' = v - k
      /\ waiters' = [i \in 1..(Len(q) - k) |-> q[i + k]]
      /\ granted' = w \cup P
  BY DEF PassOn
<1> HIDE DEF k
<1>3. value' \in Nat
  BY <1>1, <1>2
<1>4. waiters' \in Seq(Requests) /\ Len(waiters') = Len(q) - k
  BY <1>1, <1>2
<1>5. \A i \in 1..Len(waiters') : i + k \in 1..Len(q) /\ waiters'[i] = q[i + k]
  <2> SUFFICES ASSUME NEW i \in 1..Len(waiters')
               PROVE  i + k \in 1..Len(q) /\ waiters'[i] = q[i + k]
    OBVIOUS
  <2>1. i \in 1..(Len(q) - k)
    BY <1>4
  <2>2. i + k \in 1..Len(q)
    BY <2>1, <1>1
  <2>3. waiters'[i] = q[i + k]
    BY <2>1, <1>2
  <2> QED
    BY <2>2, <2>3
<1>6. OneToOne(waiters')
  <2> SUFFICES ASSUME NEW i \in 1..Len(waiters'), NEW j \in 1..Len(waiters'),
                      waiters'[i] = waiters'[j]
               PROVE  i = j
    BY DEF OneToOne
  <2>1. i + k \in 1..Len(q) /\ j + k \in 1..Len(q) /\ q[i + k] = q[j + k]
    BY <1>5
  <2>2. i + k = j + k
    BY <2>1 DEF OneToOne
  <2> QED
    BY <2>2, <1>1, <1>4
<1>7. Elements(waiters') \subseteq Elements(q)
  BY <1>5 DEF Elements
<1>8. P \subseteq Elements(q) /\ P \subseteq Requests
  BY <1>1 DEF Elements
<1>9. P \cap Elements(waiters') = {}
  <2> SUFFICES ASSUME NEW i \in 1..k, NEW j \in 1..Len(waiters'), q[i] = waiters'[j]
               PROVE  FALSE
    BY DEF Elements
  <2>1. i \in 1..Len(q) /\ j + k \in 1..Len(q) /\ q[i] = q[j + k]
    BY <1>1, <1>5
  <2>2. i = j + k
    BY <2>1 DEF OneToOne
  <2> QED
    BY <2>2, <1>1, <1>4
<1>10. IsFiniteSet(w) /\ IsFiniteSet(P) /\ Cardinality(P) = k
  <2>1. IsFiniteSet(w)
    BY RequestsAssumption, FS_Subset
  <2> QED
    BY <2>1, <1>1, PrefixCount
<1>11. Cardinality(w \cup P) = Cardinality(w) + k
  <2>1. w \cap P = {}
    BY <1>8
  <2>2. Cardinality(w \cap P) = 0
    BY <2>1, FS_EmptySet
  <2>3. Cardinality(w) \in Nat
    BY <1>10, FS_CardinalityType
  <2>4. Cardinality(w \cup P) = Cardinality(w) + Cardinality(P) - Cardinality(w \cap P)
    BY <1>10, FS_Union
  <2> HIDE DEF P
  <2> QED
    BY <1>10, <2>2, <2>3, <2>4, <1>1
<1>12. value' > 0 => waiters' = <<>>
  <2> SUFFICES ASSUME value' > 0 PROVE waiters' = <<>>
    OBVIOUS
  <2>1. k # v
    BY <1>1, <1>2
  <2>2. Len(waiters') = 0
    BY <2>1, <1>1, <1>4
  <2> QED
    BY <2>2, <1>4
<1>13. Cardinality(w) \in Nat
  BY <1>10, FS_CardinalityType
<1>14. granted' = w \cup P
  BY <1>2
<1>15. value' + Cardinality(granted') = v + Cardinality(w)
  BY <1>1, <1>2, <1>11, <1>13, <1>14
<1> HIDE DEF P
<1>16. granted' \cap Elements(waiters') = {}
  BY <1>7, <1>9, <1>14
<1>17. granted' \cup Elements(waiters') \subseteq w \cup Elements(q)
  BY <1>7, <1>8, <1>14
<1>18. granted' \in SUBSET Requests
  BY <1>8, <1>14
<1> QED
  BY <1>3, <1>4, <1>6, <1>12, <1>15, <1>16, <1>17, <1>18

\* Taking one request out of the queue leaves a queue of the others.
LEMMA WithoutFacts ==
    ASSUME NEW q \in Seq(Requests), OneToOne(q), NEW i \in 1..Len(q)
    PROVE  /\ Without(q, i) \in Seq(Requests)
           /\ OneToOne(Without(q, i))
           /\ Elements(Without(q, i)) \subseteq Elements(q) \ {q[i]}
<1> DEFINE s == Without(q, i)
           at(j) == IF j < i THEN j ELSE j + 1
<1>1. s \in Seq(Requests) /\ Len(s) = Len(q) - 1
  BY DEF Without
<1>2. \A j \in 1..Len(s) : at(j) \in 1..Len(q) /\ at(j) # i /\ s[j] = q[at(j)]
  BY <1>1 DEF Without
<1>3. \A j, l \in 1..Len(s) : at(j) = at(l) => j = l
  BY <1>1
<1> HIDE DEF s, at
<1>4. OneToOne(s)
  BY <1>2, <1>3 DEF OneToOne
<1>5. Elements(s) \subseteq Elements(q) \ {q[i]}
  BY <1>2 DEF Elements, OneToOne
<1> QED
  BY <1>1, <1>4, <1>5 DEF s

-----------------------------------------------------------------------------
(* Leases.                                                                 *)

LEMMA Counts ==
    ASSUME GateTypeOK
    PROVE  /\ IsFiniteSet(Holders) /\ Cardinality(Holders) \in Nat
           /\ IsFiniteSet(granted) /\ Cardinality(granted) \in Nat
           /\ limit \in Nat
<1>1. Holders \in SUBSET Requests /\ granted \in SUBSET Requests
  BY DEF Holders, GateTypeOK
<1>2. IsFiniteSet(Holders) /\ IsFiniteSet(granted)
  BY <1>1, RequestsAssumption, FS_Subset
<1> QED
  BY <1>2, FS_CardinalityType, LimitsAssumption DEF GateTypeOK

LEMMA CountInFacts ==
    ASSUME GateTypeOK, NEW r \in Requests, lease[r] = "none", CountIn(r)
    PROVE  /\ Cardinality(Holders') = Cardinality(Holders) + 1
           /\ lease' \in [Requests -> {"none", "held", "released", "refused"}]
           /\ \A s \in Requests \ {r} : lease'[s] = lease[s]
<1>1. Holders' = Holders \cup {r} /\ r \notin Holders
  BY DEF Holders, CountIn, GateTypeOK
<1> QED
  BY <1>1, Counts, FS_AddElement DEF CountIn, GateTypeOK

LEMMA SaturatedFacts ==
    ASSUME GateTypeOK, NEW r \in Requests, lease[r] = "none", Saturated(r)
    PROVE  /\ Holders' = Holders
           /\ lease' \in [Requests -> {"none", "held", "released", "refused"}]
           /\ \A s \in Requests \ {r} : lease'[s] = lease[s]
BY DEF Holders, Saturated, GateTypeOK

\* A released lease leaves one holder less, and nothing parked is disturbed.
LEMMA DropFacts ==
    ASSUME GateTypeOK, NEW r \in Requests, lease[r] = "held",
           lease' = [lease EXCEPT ![r] = "released"]
    PROVE  /\ Cardinality(Holders') = Cardinality(Holders) - 1
           /\ Cardinality(Holders) > 0
           /\ lease' \in [Requests -> {"none", "held", "released", "refused"}]
           /\ \A s \in Requests : lease[s] = "none" => lease'[s] = "none"
<1>1. Holders' = Holders \ {r} /\ r \in Holders
  BY DEF Holders, GateTypeOK
<1>2. Cardinality(Holders') = Cardinality(Holders) - 1
  BY <1>1, Counts, FS_RemoveElement
<1>3. Holders # {}
  BY <1>1
<1>4. Cardinality(Holders) > 0
  BY <1>3, Counts, FS_EmptySet
<1> QED
  BY <1>2, <1>4 DEF GateTypeOK

\* The elements of a queue are requests; nothing is in an empty one.
LEMMA ElementsFacts ==
    ASSUME NEW q \in Seq(Requests)
    PROVE  Elements(q) \in SUBSET Requests /\ (q = <<>> => Elements(q) = {})
BY DEF Elements

-----------------------------------------------------------------------------
(* Each operation keeps the invariant.                                     *)

LEMMA InitInv == GateInit => IInv
<1> SUFFICES ASSUME GateInit PROVE IInv
  OBVIOUS
<1>1. Holders = {} /\ Cardinality(Holders) = 0 /\ Cardinality(granted) = 0
  BY FS_EmptySet DEF GateInit, Holders
<1>2. GateTypeOK
  BY LimitsAssumption DEF GateInit, GateTypeOK
<1>3. QueueInv
  BY DEF GateInit, QueueInv, OneToOne, Elements
<1>4. ModeInv
  BY DEF GateInit, ModeInv
<1>5. SlotConservation
  BY <1>1, LimitsAssumption DEF GateInit, SlotConservation
<1>6. PermitNotStranded
  BY DEF GateInit, PermitNotStranded
<1> QED
  BY <1>2, <1>3, <1>4, <1>5, <1>6 DEF IInv

LEMMA AcquireNowInv ==
    ASSUME IInv, NEW r \in Requests, AcquireNow(r)
    PROVE  IInv'
<1> USE DEF AcquireNow
<1>1. lease[r] = "none" /\ CountIn(r) /\ GateTypeOK
  BY DEF Newcomer, IInv
<1>2. r \notin granted \cup Elements(waiters)
  BY DEF Newcomer, Parked, Elements
<1>3. /\ Cardinality(Holders') = Cardinality(Holders) + 1
      /\ lease' \in [Requests -> {"none", "held", "released", "refused"}]
      /\ \A s \in Requests \ {r} : lease'[s] = lease[s]
  BY <1>1, CountInFacts
<1>4. waiters \in Seq(Requests) /\ Elements(waiters) \in SUBSET Requests
  BY <1>1, ElementsFacts DEF GateTypeOK
<1>5. value' \in Nat
  BY <1>1 DEF GateTypeOK, Locked
<1>6. GateTypeOK'
  BY <1>1, <1>3, <1>5 DEF GateTypeOK, CountIn, settings
<1>7. QueueInv'
  BY <1>1, <1>2, <1>3, <1>4 DEF IInv, QueueInv, GateTypeOK, Elements, OneToOne
<1>8. ModeInv'
  BY <1>1 DEF IInv, ModeInv, CountIn, settings
<1>9. SlotConservation'
  BY <1>1, <1>3, Counts DEF IInv, SlotConservation, CountIn, settings, GateTypeOK
<1>10. PermitNotStranded'
  BY DEF IInv, PermitNotStranded, Locked, ModeInv
<1> QED
  BY <1>6, <1>7, <1>8, <1>9, <1>10 DEF IInv

LEMMA RefuseBusyInv ==
    ASSUME IInv, NEW r \in Requests, RefuseBusy(r)
    PROVE  IInv'
<1> USE DEF RefuseBusy
<1>1. lease[r] = "none" /\ Saturated(r) /\ GateTypeOK
  BY DEF Newcomer, IInv
<1>2. r \notin granted \cup Elements(waiters)
  BY DEF Newcomer, Parked, Elements
<1>3. /\ Holders' = Holders
      /\ lease' \in [Requests -> {"none", "held", "released", "refused"}]
      /\ \A s \in Requests \ {r} : lease'[s] = lease[s]
  BY <1>1, SaturatedFacts
<1>4. Elements(waiters) \in SUBSET Requests
  BY <1>1, ElementsFacts DEF GateTypeOK
<1>5. GateTypeOK'
  BY <1>1, <1>3 DEF GateTypeOK, Saturated, settings
<1>6. QueueInv'
  BY <1>1, <1>2, <1>3, <1>4 DEF IInv, QueueInv, GateTypeOK, Elements, OneToOne
<1>7. ModeInv' /\ PermitNotStranded'
  BY <1>1 DEF IInv, ModeInv, PermitNotStranded, Saturated, settings
<1>8. SlotConservation'
  BY <1>1, <1>3 DEF IInv, SlotConservation, Saturated, settings
<1> QED
  BY <1>5, <1>6, <1>7, <1>8 DEF IInv

LEMMA JoinQueueInv ==
    ASSUME IInv, NEW r \in Requests, JoinQueue(r)
    PROVE  IInv'
<1> USE DEF JoinQueue
<1>1. lease[r] = "none" /\ GateTypeOK /\ QueueInv
  BY DEF Newcomer, IInv
<1>2. r \notin granted \cup Elements(waiters)
  BY DEF Newcomer, Parked, Elements
<1>3. /\ waiters' \in Seq(Requests)
      /\ Len(waiters') = Len(waiters) + 1
      /\ \A i \in 1..Len(waiters) : waiters'[i] = waiters[i]
      /\ waiters'[Len(waiters) + 1] = r
  BY <1>1 DEF GateTypeOK
<1>4. Len(waiters) \in Nat
  BY <1>1 DEF GateTypeOK
<1>5. Elements(waiters') = Elements(waiters) \cup {r}
  BY <1>3, <1>4 DEF Elements
<1>6. OneToOne(waiters')
  BY <1>1, <1>2, <1>3, <1>4 DEF OneToOne, QueueInv, Elements
<1>7. GateTypeOK'
  BY <1>1, <1>3 DEF GateTypeOK, settings
<1>8. QueueInv'
  BY <1>1, <1>2, <1>5, <1>6 DEF QueueInv
<1>9. ModeInv'
  BY DEF IInv, ModeInv, settings
<1>10. Holders' = Holders
  BY DEF Holders
<1>11. SlotConservation'
  BY <1>10 DEF IInv, SlotConservation, settings
<1>12. PermitNotStranded'
  BY DEF IInv, PermitNotStranded, Locked
<1> QED
  BY <1>7, <1>8, <1>9, <1>11, <1>12 DEF IInv

\* The common part of the three ways out of the queue: r is gone from it, q
\* and w are who is left, and permits are passed on.
LEMMA OutOfQueue ==
    ASSUME IInv, NEW r \in Requests, limit # 0, queueing,
           NEW q \in Seq(Requests), OneToOne(q),
           NEW w \in SUBSET Requests, w \cap Elements(q) = {},
           w \cup Elements(q) \subseteq (granted \cup Elements(waiters)) \ {r},
           NEW v \in Nat, PassOn(q, v, w),
           lease' \in [Requests -> {"none", "held", "released", "refused"}],
           \A s \in Requests \ {r} : lease'[s] = lease[s],
           current' \in Nat, busyRejections' \in Nat, UNCHANGED settings
    PROVE  /\ GateTypeOK' /\ QueueInv' /\ ModeInv' /\ PermitNotStranded'
           /\ value' + Cardinality(granted') = v + Cardinality(w)
           /\ Cardinality(granted') \in Nat
<1>1. /\ value' \in Nat
      /\ waiters' \in Seq(Requests)
      /\ granted' \in SUBSET Requests
      /\ OneToOne(waiters')
      /\ granted' \cap Elements(waiters') = {}
      /\ granted' \cup Elements(waiters') \subseteq w \cup Elements(q)
      /\ value' + Cardinality(granted') = v + Cardinality(w)
      /\ value' > 0 => waiters' = <<>>
  BY PassOnFacts
<1>2. GateTypeOK'
  BY <1>1 DEF IInv, GateTypeOK, settings
<1>3. QueueInv'
  <2>1. \A s \in granted' \cup Elements(waiters') :
            s # r /\ s \in Requests /\ lease[s] = "none"
    BY <1>1, ElementsFacts DEF IInv, QueueInv
  <2> QED
    BY <1>1, <2>1 DEF QueueInv
<1>4. ModeInv' /\ PermitNotStranded'
  BY <1>1 DEF ModeInv, PermitNotStranded, settings
<1>5. Cardinality(granted') \in Nat
  BY <1>1, RequestsAssumption, FS_Subset, FS_CardinalityType
<1> QED
  BY <1>1, <1>2, <1>3, <1>4, <1>5

LEMMA ResumeInv ==
    ASSUME IInv, NEW r \in Requests, Resume(r)
    PROVE  IInv'
<1> USE DEF Resume
<1>1. GateTypeOK /\ QueueInv /\ ModeInv /\ SlotConservation
  BY DEF IInv
<1>2. lease[r] = "none" /\ limit # 0 /\ queueing /\ r \in granted
  BY <1>1 DEF QueueInv, ModeInv, GateTypeOK
<1>3. /\ Cardinality(Holders') = Cardinality(Holders) + 1
      /\ lease' \in [Requests -> {"none", "held", "released", "refused"}]
      /\ \A s \in Requests \ {r} : lease'[s] = lease[s]
  BY <1>1, <1>2, CountInFacts
<1>4. /\ waiters \in Seq(Requests) /\ OneToOne(waiters)
      /\ granted \ {r} \in SUBSET Requests
      /\ (granted \ {r}) \cap Elements(waiters) = {}
      /\ (granted \ {r}) \cup Elements(waiters)
            \subseteq (granted \cup Elements(waiters)) \ {r}
      /\ value \in Nat /\ PassOn(waiters, value, granted \ {r})
  BY <1>1, <1>2 DEF GateTypeOK, QueueInv
<1>5. current' \in Nat /\ busyRejections' \in Nat /\ UNCHANGED settings
      /\ current' = current + 1
  BY <1>1 DEF CountIn, GateTypeOK
<1>6. /\ GateTypeOK' /\ QueueInv' /\ ModeInv' /\ PermitNotStranded'
      /\ value' + Cardinality(granted') = value + Cardinality(granted \ {r})
  BY <1>2, <1>3, <1>4, <1>5, OutOfQueue
<1>7. Cardinality(granted \ {r}) = Cardinality(granted) - 1
  BY <1>1, <1>2, Counts, FS_RemoveElement
<1> HIDE DEF Resume
<1>8. SlotConservation'
  <2>1. limit' = limit /\ value \in Nat /\ value' \in Nat
    BY <1>1, <1>5, <1>6 DEF settings, GateTypeOK
  <2>2. value + Cardinality(granted) + Cardinality(Holders) = limit
    BY <1>1, <1>2 DEF SlotConservation
  <2>3. value' + Cardinality(granted') + Cardinality(Holders') = limit'
    BY <1>1, <1>3, <1>6, <1>7, <2>1, <2>2, Counts
  <2>4. current' = Cardinality(Holders')
    BY <1>1, <1>3, <1>5 DEF SlotConservation
  <2> QED
    BY <2>3, <2>4 DEF SlotConservation
<1> QED
  BY <1>6, <1>8 DEF IInv

LEMMA TimeoutGrantedInv ==
    ASSUME IInv, NEW r \in Requests, TimeoutGranted(r)
    PROVE  IInv'
<1> USE DEF TimeoutGranted
<1>1. GateTypeOK /\ QueueInv /\ ModeInv /\ SlotConservation
  BY DEF IInv
<1>2. lease[r] = "none" /\ limit # 0 /\ queueing /\ r \in granted
  BY <1>1 DEF QueueInv, ModeInv, GateTypeOK
<1>3. /\ Holders' = Holders
      /\ lease' \in [Requests -> {"none", "held", "released", "refused"}]
      /\ \A s \in Requests \ {r} : lease'[s] = lease[s]
  BY <1>1, <1>2, SaturatedFacts
<1>4. /\ waiters \in Seq(Requests) /\ OneToOne(waiters)
      /\ granted \ {r} \in SUBSET Requests
      /\ (granted \ {r}) \cap Elements(waiters) = {}
      /\ (granted \ {r}) \cup Elements(waiters)
            \subseteq (granted \cup Elements(waiters)) \ {r}
      /\ value + 1 \in Nat /\ PassOn(waiters, value + 1, granted \ {r})
  BY <1>1, <1>2 DEF GateTypeOK, QueueInv
<1>5. current' \in Nat /\ busyRejections' \in Nat /\ UNCHANGED settings
      /\ current' = current
  BY <1>1 DEF Saturated, GateTypeOK
<1>6. /\ GateTypeOK' /\ QueueInv' /\ ModeInv' /\ PermitNotStranded'
      /\ value' + Cardinality(granted') = value + 1 + Cardinality(granted \ {r})
  BY <1>2, <1>3, <1>4, <1>5, OutOfQueue
<1>7. Cardinality(granted \ {r}) = Cardinality(granted) - 1
  BY <1>1, <1>2, Counts, FS_RemoveElement
<1>8. SlotConservation'
  BY <1>1, <1>3, <1>4, <1>5, <1>6, <1>7, Counts DEF SlotConservation, settings, GateTypeOK
<1> QED
  BY <1>6, <1>8 DEF IInv

LEMMA TimeoutParkedInv ==
    ASSUME IInv, NEW r \in Requests, TimeoutParked(r)
    PROVE  IInv'
<1>1. PICK i \in 1..Len(waiters) :
        /\ waiters[i] = r
        /\ PassOn(Without(waiters, i), value, granted)
        /\ Saturated(r)
  BY DEF TimeoutParked
<1>2. GateTypeOK /\ QueueInv /\ ModeInv /\ SlotConservation
  BY DEF IInv
<1>3. waiters \in Seq(Requests) /\ OneToOne(waiters) /\ r \in Elements(waiters)
  BY <1>1, <1>2 DEF GateTypeOK, QueueInv, Elements
<1>4. lease[r] = "none" /\ limit # 0 /\ queueing /\ r \notin granted
  BY <1>2, <1>3, ElementsFacts DEF QueueInv, ModeInv
<1>5. /\ Holders' = Holders
      /\ lease' \in [Requests -> {"none", "held", "released", "refused"}]
      /\ \A s \in Requests \ {r} : lease'[s] = lease[s]
  BY <1>1, <1>2, <1>4, SaturatedFacts
<1>6. /\ Without(waiters, i) \in Seq(Requests)
      /\ OneToOne(Without(waiters, i))
      /\ Elements(Without(waiters, i)) \subseteq Elements(waiters) \ {r}
  BY <1>1, <1>3, WithoutFacts
<1>7. /\ granted \in SUBSET Requests /\ value \in Nat
      /\ granted \cap Elements(Without(waiters, i)) = {}
      /\ granted \cup Elements(Without(waiters, i))
            \subseteq (granted \cup Elements(waiters)) \ {r}
  BY <1>2, <1>4, <1>6 DEF GateTypeOK, QueueInv
<1>8. current' \in Nat /\ busyRejections' \in Nat /\ UNCHANGED settings
      /\ current' = current
  BY <1>1, <1>2 DEF Saturated, GateTypeOK
<1>9. /\ GateTypeOK' /\ QueueInv' /\ ModeInv' /\ PermitNotStranded'
      /\ value' + Cardinality(granted') = value + Cardinality(granted)
  <2> DEFINE q == Without(waiters, i)
  <2>1. /\ q \in Seq(Requests) /\ OneToOne(q)
        /\ granted \cap Elements(q) = {}
        /\ granted \cup Elements(q) \subseteq (granted \cup Elements(waiters)) \ {r}
        /\ PassOn(q, value, granted)
    BY <1>1, <1>6, <1>7
  <2> HIDE DEF q
  <2> QED
    BY <1>4, <1>5, <1>7, <1>8, <2>1, OutOfQueue
<1>10. SlotConservation'
  BY <1>2, <1>5, <1>8, <1>9 DEF SlotConservation, settings
<1> QED
  BY <1>9, <1>10 DEF IInv

LEMMA ReleaseLeaseInv ==
    ASSUME IInv, NEW r \in Requests, ReleaseLease(r)
    PROVE  IInv'
<1>1. GateTypeOK /\ QueueInv /\ ModeInv /\ SlotConservation /\ PermitNotStranded
  BY DEF IInv
<1>2. CASE lease[r] = "released" /\ UNCHANGED gateVars
  BY <1>2, <1>1 DEF gateVars, settings, IInv, GateTypeOK, QueueInv, ModeInv,
     SlotConservation, PermitNotStranded, Elements, OneToOne, Holders
<1>3. CASE lease[r] = "held" /\ lease' = [lease EXCEPT ![r] = "released"]
  <2>1. /\ current' = IF current = 0 THEN 0 ELSE current - 1
        /\ IF limit = 0 THEN UNCHANGED <<value, waiters, granted>> ELSE WakeOne
        /\ UNCHANGED <<busyRejections, settings>>
    BY <1>3 DEF ReleaseLease
  <2>2. /\ Cardinality(Holders') = Cardinality(Holders) - 1
        /\ Cardinality(Holders) > 0
        /\ lease' \in [Requests -> {"none", "held", "released", "refused"}]
        /\ \A s \in Requests : lease[s] = "none" => lease'[s] = "none"
    BY <1>1, <1>3, DropFacts
  <2>3. current' = Cardinality(Holders')
    BY <1>1, <2>1, <2>2, Counts DEF SlotConservation
  <2>4. CASE limit = 0 \/ waiters = <<>>
    <3>1. /\ UNCHANGED <<waiters, granted>>
          /\ value' = IF limit = 0 THEN value ELSE value + 1
      BY <2>1, <2>4 DEF WakeOne
    <3>2. GateTypeOK'
      BY <1>1, <2>1, <2>2, <2>3, <3>1, Counts DEF GateTypeOK, settings
    <3>3. QueueInv'
      BY <1>1, <2>2, <3>1, ElementsFacts DEF QueueInv, GateTypeOK, Elements, OneToOne
    <3>4. ModeInv' /\ PermitNotStranded'
      BY <1>1, <2>1, <2>4, <3>1 DEF ModeInv, PermitNotStranded, settings
    <3>5. SlotConservation'
      <4>1. /\ limit' = limit /\ value \in Nat
            /\ Cardinality(granted) \in Nat /\ Cardinality(Holders) \in Nat
            /\ limit # 0 => value + Cardinality(granted) + Cardinality(Holders) = limit
        BY <1>1, <2>1, Counts DEF SlotConservation, settings, GateTypeOK
      <4> QED
        BY <4>1, <2>2, <2>3, <3>1, SMTT(20) DEF SlotConservation
    <3> QED
      BY <3>2, <3>3, <3>4, <3>5 DEF IInv
  <2>5. CASE limit # 0 /\ waiters # <<>>
    <3>1. /\ granted' = granted \cup {Head(waiters)}
          /\ waiters' = Tail(waiters)
          /\ value' = value
      BY <2>1, <2>5 DEF WakeOne
    <3>2. /\ waiters \in Seq(Requests) /\ Len(waiters) \in Nat \ {0}
          /\ Head(waiters) = waiters[1]
          /\ Len(waiters') = Len(waiters) - 1
          /\ waiters' \in Seq(Requests)
          /\ \A i \in 1..Len(waiters') : waiters'[i] = waiters[i + 1]
      BY <1>1, <2>5, <3>1 DEF GateTypeOK
    <3>3. /\ Head(waiters) \in Elements(waiters)
          /\ Head(waiters) \notin Elements(waiters')
          /\ Elements(waiters') \subseteq Elements(waiters)
          /\ OneToOne(waiters')
      BY <1>1, <3>2, SMTT(30) DEF QueueInv, OneToOne, Elements
    <3>4. Head(waiters) \in Requests /\ Head(waiters) \notin granted
      BY <1>1, <3>2, <3>3, ElementsFacts DEF QueueInv
    <3>5. Cardinality(granted') = Cardinality(granted) + 1
      BY <1>1, <3>1, <3>4, Counts, FS_AddElement
    <3>6. GateTypeOK'
      <4>1. granted' \in SUBSET Requests /\ value' \in Nat
        BY <1>1, <3>1, <3>4 DEF GateTypeOK
      <4>2. current' \in Nat
        BY <1>1, <2>1 DEF GateTypeOK
      <4> QED
        BY <1>1, <2>1, <2>2, <3>2, <4>1, <4>2 DEF GateTypeOK, settings
    <3>7. QueueInv'
      <4>1. granted' \cup Elements(waiters') \subseteq granted \cup Elements(waiters)
        BY <3>1, <3>3
      <4>2. granted' \cap Elements(waiters') = {}
        BY <1>1, <3>1, <3>3 DEF QueueInv
      <4>3. \A s \in granted' \cup Elements(waiters') : s \in Requests /\ lease[s] = "none"
        BY <4>1, <1>1, <3>2, ElementsFacts DEF QueueInv, GateTypeOK
      <4> QED
        BY <2>2, <3>3, <4>2, <4>3 DEF QueueInv
    <3>8. ModeInv' /\ PermitNotStranded'
      BY <1>1, <2>1, <2>5, <3>1, <3>4 DEF ModeInv, PermitNotStranded, settings
    <3>9. SlotConservation'
      <4>1. /\ limit' = limit /\ value \in Nat
            /\ Cardinality(granted) \in Nat /\ Cardinality(Holders) \in Nat
            /\ limit # 0 => value + Cardinality(granted) + Cardinality(Holders) = limit
        BY <1>1, <2>1, Counts DEF SlotConservation, settings, GateTypeOK
      <4> QED
        BY <4>1, <2>2, <2>3, <3>1, <3>5, SMTT(20) DEF SlotConservation
    <3> QED
      BY <3>6, <3>7, <3>8, <3>9 DEF IInv
  <2> QED
    BY <2>4, <2>5
<1> QED
  BY <1>2, <1>3 DEF ReleaseLease

-----------------------------------------------------------------------------
(* The theorems.                                                           *)

LEMMA StepInv == IInv /\ [GateNext]_gateVars => IInv'
<1> SUFFICES ASSUME IInv, [GateNext]_gateVars PROVE IInv'
  OBVIOUS
<1>1. CASE UNCHANGED gateVars
  BY <1>1 DEF gateVars, settings, IInv, GateTypeOK, QueueInv, ModeInv,
     SlotConservation, PermitNotStranded, Elements, OneToOne, Holders
<1>2. CASE GateNext
  <2>1. PICK r \in Requests :
          \/ AcquireNow(r) \/ RefuseBusy(r) \/ JoinQueue(r) \/ Resume(r)
          \/ TimeoutParked(r) \/ TimeoutGranted(r) \/ ReleaseLease(r)
    BY <1>2 DEF GateNext
  <2> QED
    BY <2>1, AcquireNowInv, RefuseBusyInv, JoinQueueInv, ResumeInv,
       TimeoutParkedInv, TimeoutGrantedInv, ReleaseLeaseInv
<1> QED
  BY <1>1, <1>2

\* The invariant holds in every state of the gate.
THEOREM GateInvariant == GateSafety => []IInv
BY InitInv, StepInv, PTL DEF GateSafety

\* Every permit is free, on its way to one woken waiter, or behind one
\* unreleased lease, and the published count is the number of those leases,
\* for any number of requests and any limit.
THEOREM SlotsConserved == GateSafety => []SlotConservation
<1>1. IInv => SlotConservation
  BY DEF IInv
<1> QED
  BY <1>1, GateInvariant, PTL

\* No wakeup is lost: a permit lies free beside a parked request only while an
\* earlier waiter is about to pass it on.
THEOREM NoLostWakeup == GateSafety => []PermitNotStranded
<1>1. IInv => PermitNotStranded
  BY DEF IInv
<1> QED
  BY <1>1, GateInvariant, PTL

\* Every variable of the gate keeps to its type.
THEOREM GateTyped == GateSafety => []GateTypeOK
<1>1. IInv => GateTypeOK
  BY DEF IInv
<1> QED
  BY <1>1, GateInvariant, PTL

-----------------------------------------------------------------------------
(* First come, first served.                                               *)

\* Permits go to a prefix of the queue.
LEMMA PassOnOrder ==
    ASSUME NEW q \in Seq(Requests), OneToOne(q), NEW v \in Nat, NEW w,
           PassOn(q, v, w),
           NEW i \in 1..Len(q), NEW j \in 1..Len(q), i < j,
           q[j] \notin w, q[j] \in granted'
    PROVE  q[i] \in granted'
<1> DEFINE k == LesserOf(v, Len(q))
<1>1. k \in 0..Len(q) /\ granted' = w \cup {q[n] : n \in 1..k}
  BY DEF LesserOf, PassOn
<1> HIDE DEF k
<1>2. PICK n \in 1..k : q[j] = q[n]
  BY <1>1
<1>3. j = n
  BY <1>1, <1>2 DEF OneToOne
<1>4. i \in 1..k
  BY <1>1, <1>2, <1>3
<1> QED
  BY <1>1, <1>4

\* Taking one out leaves the others in their order.
LEMMA WithoutOrder ==
    ASSUME NEW q \in Seq(Requests), NEW p \in 1..Len(q),
           NEW i \in 1..Len(q), NEW j \in 1..Len(q), i < j, i # p, j # p
    PROVE  \E m, n \in 1..Len(Without(q, p)) :
              m < n /\ Without(q, p)[m] = q[i] /\ Without(q, p)[n] = q[j]
<1> DEFINE s == Without(q, p)
           to(l) == IF l < p THEN l ELSE l - 1
<1>1. Len(q) \in Nat /\ Len(s) = Len(q) - 1
  BY DEF Without
<1>2. to(i) \in 1..Len(s) /\ to(j) \in 1..Len(s) /\ to(i) < to(j)
  BY <1>1
<1>3. s[to(i)] = q[i]
  BY <1>1, <1>2 DEF Without
<1>4. s[to(j)] = q[j]
  BY <1>1, <1>2 DEF Without
<1> HIDE DEF s, to
<1>5. \E m, n \in 1..Len(s) : m < n /\ s[m] = q[i] /\ s[n] = q[j]
  BY <1>2, <1>3, <1>4
<1> QED
  BY <1>5 DEF s

QueueServed ==
    \A i, j \in 1..Len(waiters) :
        (i < j /\ waiters[j] \in granted') =>
            waiters[i] \in granted' \/ lease'[waiters[i]] = "refused"

NobodyOvertakes ==
    \A r \in Requests :
        (Newcomer(r) /\ lease'[r] = "held" /\ limit # 0) => waiters = <<>>

LEMMA ServedStep == IInv /\ GateNext => QueueServed
<1> SUFFICES ASSUME IInv, GateNext,
                    NEW i \in 1..Len(waiters), NEW j \in 1..Len(waiters),
                    i < j, waiters[j] \in granted'
             PROVE  waiters[i] \in granted' \/ lease'[waiters[i]] = "refused"
  BY DEF QueueServed
<1>1. GateTypeOK /\ QueueInv
  BY DEF IInv
<1>2. /\ waiters \in Seq(Requests) /\ OneToOne(waiters) /\ value \in Nat
      /\ waiters[j] \notin granted
  BY <1>1 DEF GateTypeOK, QueueInv, Elements
<1>3. ASSUME UNCHANGED granted PROVE FALSE
  BY <1>2, <1>3
<1>4. ASSUME NEW r \in Requests, AcquireNow(r) \/ RefuseBusy(r) \/ JoinQueue(r)
      PROVE  FALSE
  BY <1>3, <1>4 DEF AcquireNow, RefuseBusy, JoinQueue
<1>5. ASSUME NEW r \in Requests, Resume(r) PROVE waiters[i] \in granted'
  BY <1>2, <1>5, PassOnOrder DEF Resume
<1>6. ASSUME NEW r \in Requests, TimeoutGranted(r) PROVE waiters[i] \in granted'
  <2>1. PassOn(waiters, value + 1, granted \ {r}) /\ value + 1 \in Nat
    BY <1>2, <1>6 DEF TimeoutGranted
  <2> QED
    BY <1>2, <2>1, PassOnOrder
<1>7. ASSUME NEW r \in Requests, TimeoutParked(r)
      PROVE  waiters[i] \in granted' \/ lease'[waiters[i]] = "refused"
  <2>1. PICK p \in 1..Len(waiters) :
          /\ waiters[p] = r
          /\ PassOn(Without(waiters, p), value, granted)
          /\ Saturated(r)
    BY <1>7 DEF TimeoutParked
  <2>2. CASE i = p
    BY <1>1, <2>1, <2>2 DEF Saturated, GateTypeOK
  <2>3. CASE j = p
    <3>1. r \notin Elements(Without(waiters, p))
      BY <1>2, <2>1, WithoutFacts
    <3>2. r \in granted'
      BY <2>1, <2>3
    <3>3. granted' \subseteq granted \cup Elements(Without(waiters, p))
      <4> DEFINE q == Without(waiters, p)
      <4>1. /\ q \in Seq(Requests) /\ OneToOne(q)
            /\ Elements(q) \subseteq Elements(waiters)
        BY <1>2, WithoutFacts
      <4>2. granted \in SUBSET Requests /\ granted \cap Elements(q) = {}
        BY <1>1, <4>1 DEF GateTypeOK, QueueInv
      <4>3. PassOn(q, value, granted)
        BY <2>1
      <4> HIDE DEF q
      <4>4. granted' \cup Elements(waiters') \subseteq granted \cup Elements(q)
        BY <1>2, <4>1, <4>2, <4>3, PassOnFacts
      <4> QED
        BY <4>4 DEF q
    <3> QED
      BY <1>2, <2>1, <2>3, <3>1, <3>2, <3>3
  <2>4. CASE i # p /\ j # p
    <3> DEFINE q == Without(waiters, p)
    <3>1. PICK m \in 1..Len(q), n \in 1..Len(q) :
            m < n /\ q[m] = waiters[i] /\ q[n] = waiters[j]
      BY <1>2, <2>4, WithoutOrder
    <3>2. q \in Seq(Requests) /\ OneToOne(q)
      BY <1>2, WithoutFacts
    <3>3. PassOn(q, value, granted) /\ q[n] \notin granted /\ q[n] \in granted'
      BY <1>2, <2>1, <3>1
    <3> HIDE DEF q
    <3>4. q[m] \in granted'
      BY <1>2, <3>1, <3>2, <3>3, PassOnOrder
    <3> QED
      BY <3>1, <3>4
  <2> QED
    BY <2>2, <2>3, <2>4
<1>8. ASSUME NEW r \in Requests, ReleaseLease(r) PROVE FALSE
  <2>1. CASE WakeOne
    <3>1. waiters # <<>> => granted' = granted \cup {waiters[1]}
      BY <1>2, <2>1 DEF WakeOne
    <3>2. waiters[j] = waiters[1] /\ 1 \in 1..Len(waiters)
      BY <1>2, <3>1
    <3> QED
      BY <1>2, <3>2 DEF OneToOne
  <2>2. CASE UNCHANGED granted
    BY <1>3, <2>2
  <2> QED
    BY <1>8, <2>1, <2>2 DEF ReleaseLease, gateVars
<1> QED
  BY <1>4, <1>5, <1>6, <1>7, <1>8 DEF GateNext

LEMMA OvertakeStep == IInv /\ GateNext => NobodyOvertakes
<1> SUFFICES ASSUME IInv, GateNext,
                    NEW s \in Requests, Newcomer(s), lease'[s] = "held", limit # 0
             PROVE  waiters = <<>>
  BY DEF NobodyOvertakes
<1>1. GateTypeOK /\ QueueInv /\ lease[s] = "none" /\ s \notin granted
  BY DEF IInv, Newcomer, Parked
<1>2. ASSUME NEW r \in Requests, AcquireNow(r) PROVE waiters = <<>>
  <2>1. CASE r = s
    BY <1>2, <2>1 DEF AcquireNow, Locked
  <2>2. CASE r # s
    BY <1>1, <1>2, <2>2 DEF AcquireNow, CountIn, GateTypeOK
  <2> QED
    BY <2>1, <2>2
<1>3. ASSUME NEW r \in Requests, Resume(r) PROVE FALSE
  BY <1>1, <1>3 DEF Resume, CountIn, GateTypeOK
<1>4. ASSUME NEW r \in Requests,
             \/ RefuseBusy(r) \/ JoinQueue(r) \/ TimeoutParked(r)
             \/ TimeoutGranted(r) \/ ReleaseLease(r)
      PROVE  FALSE
  <2>1. CASE RefuseBusy(r) \/ TimeoutParked(r) \/ TimeoutGranted(r)
    <3>1. Saturated(r)
      BY <2>1 DEF RefuseBusy, TimeoutParked, TimeoutGranted
    <3> QED
      BY <1>1, <3>1 DEF Saturated, GateTypeOK
  <2>2. CASE JoinQueue(r)
    BY <1>1, <2>2 DEF JoinQueue
  <2>3. CASE ReleaseLease(r)
    BY <1>1, <2>3 DEF ReleaseLease, gateVars, GateTypeOK
  <2> QED
    BY <1>4, <2>1, <2>2, <2>3
<1> QED
  BY <1>2, <1>3, <1>4 DEF GateNext

\* The queue is served in order, through any race of release, timeout and
\* resumption, and nobody is admitted past it.
THEOREM GateIsFair == GateSafety => Fifo
<1>1. IInv /\ [GateNext]_gateVars => [QueueServed /\ NobodyOvertakes]_gateVars
  BY ServedStep, OvertakeStep
<1> QED
  BY <1>1, GateInvariant, PTL
  DEF GateSafety, Fifo, QueueServed, NobodyOvertakes

-----------------------------------------------------------------------------
(* The gate implements the lane.                                           *)

Refused == {r \in Requests : lease[r] = "refused"}
Released == {r \in Requests : lease[r] = "released"}

\* The instance's Cardinality is Cardinality.
LEMMA SameCardinality == \A S : L!Cardinality(S) = Cardinality(S)
BY Zenon DEF L!Cardinality, Cardinality

\* A request admitted with room in the lane enters it.
LEMMA AdmitEnters ==
    ASSUME GateTypeOK, NEW r \in Requests, lease[r] = "none", CountIn(r),
           limit # 0 => Cardinality(Holders) < limit
    PROVE  L!Enter(r)
<1>1. /\ Holders' = Holders \cup {r} /\ Refused' = Refused /\ Released' = Released
      /\ r \notin Holders \cup Refused \cup Released
      /\ UNCHANGED <<limit, queueing>>
  BY DEF CountIn, GateTypeOK, Holders, Refused, Released, settings
<1>2. ~L!Full
  BY Counts, SameCardinality DEF L!Full
<1> QED
  BY <1>1, <1>2 DEF L!Enter, L!Outside, Refused, Released

\* A refusal is one of the lane's: late in a queueing lane, or in a full one.
LEMMA SaturatedRefuses ==
    ASSUME GateTypeOK, NEW r \in Requests, lease[r] = "none", Saturated(r),
           limit # 0, queueing \/ Cardinality(Holders) = limit
    PROVE  L!Refuse(r)
<1>1. /\ Holders' = Holders /\ Refused' = Refused \cup {r} /\ Released' = Released
      /\ r \notin Holders \cup Refused \cup Released
      /\ UNCHANGED <<limit, queueing>>
  BY DEF Saturated, GateTypeOK, Holders, Refused, Released, settings
<1>2. queueing \/ L!Full
  BY Counts, SameCardinality DEF L!Full
<1> QED
  BY <1>1, <1>2 DEF L!Refuse, L!Outside, Refused, Released

LEMMA StepRefines == IInv /\ [GateNext]_gateVars => [L!LaneNext]_L!laneVars
<1> SUFFICES ASSUME IInv, [GateNext]_gateVars PROVE [L!LaneNext]_L!laneVars
  OBVIOUS
<1>1. GateTypeOK /\ QueueInv /\ ModeInv /\ SlotConservation
  BY DEF IInv
<1>2. CASE UNCHANGED gateVars
  BY <1>2 DEF gateVars, L!laneVars, Holders
<1>3. ASSUME NEW r \in Requests, AcquireNow(r) PROVE L!Enter(r)
  <2>1. lease[r] = "none" /\ CountIn(r)
    BY <1>3 DEF AcquireNow, Newcomer
  <2>2. limit # 0 => Cardinality(Holders) < limit
    BY <1>1, <1>3, Counts DEF AcquireNow, Locked, SlotConservation, GateTypeOK
  <2> QED
    BY <1>1, <2>1, <2>2, AdmitEnters
<1>4. ASSUME NEW r \in Requests, Resume(r) PROVE L!Enter(r)
  <2>1. lease[r] = "none" /\ CountIn(r)
    BY <1>1, <1>4 DEF Resume, QueueInv
  <2>2. Cardinality(granted) > 0
    BY <1>1, <1>4, Counts, FS_EmptySet DEF Resume
  <2>3. limit # 0 => Cardinality(Holders) < limit
    BY <1>1, <2>2, Counts DEF SlotConservation, GateTypeOK
  <2> QED
    BY <1>1, <2>1, <2>3, AdmitEnters
<1>5. ASSUME NEW r \in Requests, RefuseBusy(r) PROVE L!Refuse(r)
  <2>1. lease[r] = "none" /\ Saturated(r) /\ limit # 0
    BY <1>5 DEF RefuseBusy, Newcomer
  <2>2. value = 0 /\ Cardinality(granted) = 0
    BY <1>1, <1>5, FS_EmptySet DEF RefuseBusy, Locked, ModeInv
  <2>3. Cardinality(Holders) = limit
    BY <1>1, <2>1, <2>2, Counts DEF SlotConservation
  <2> QED
    BY <1>1, <2>1, <2>3, SaturatedRefuses
<1>6. ASSUME NEW r \in Requests, TimeoutParked(r) \/ TimeoutGranted(r)
      PROVE  L!Refuse(r)
  <2>1. Saturated(r) /\ r \in granted \cup Elements(waiters)
    BY <1>6 DEF TimeoutParked, TimeoutGranted, Elements
  <2>2. lease[r] = "none" /\ queueing /\ limit # 0
    BY <1>1, <2>1, ElementsFacts DEF QueueInv, ModeInv, GateTypeOK
  <2> QED
    BY <1>1, <2>1, <2>2, SaturatedRefuses
<1>7. ASSUME NEW r \in Requests, JoinQueue(r) PROVE UNCHANGED L!laneVars
  BY <1>7 DEF JoinQueue, L!laneVars, Holders, settings
<1>8. ASSUME NEW r \in Requests, ReleaseLease(r)
      PROVE  L!Leave(r) \/ UNCHANGED L!laneVars
  <2>1. CASE UNCHANGED gateVars
    BY <2>1 DEF gateVars, L!laneVars, Holders
  <2>2. CASE /\ lease[r] = "held"
             /\ lease' = [lease EXCEPT ![r] = "released"]
             /\ UNCHANGED settings
    <3>1. /\ r \in Holders /\ Holders' = Holders \ {r}
          /\ Refused' = Refused /\ Released' = Released \cup {r}
          /\ UNCHANGED <<limit, queueing>>
      BY <1>1, <2>2 DEF GateTypeOK, Holders, Refused, Released, settings
    <3> QED
      BY <3>1 DEF L!Leave, Refused, Released
  <2> QED
    BY <1>8, <2>1, <2>2 DEF ReleaseLease, settings
<1> QED
  BY <1>2, <1>3, <1>4, <1>5, <1>6, <1>7, <1>8 DEF GateNext, L!LaneNext

\* The gate implements the lane: never more admitted than slots, nobody
\* admitted twice, and without a queue no refusal while a slot is free.
THEOREM GateImplementsLane == GateSafety => ImplementsLane
<1>1. GateInit => L!LaneInit
  BY DEF GateInit, L!LaneInit, Holders
<1> QED
  BY <1>1, StepRefines, GateInvariant, PTL DEF GateSafety, ImplementsLane, L!LaneSpec
=============================================================================
