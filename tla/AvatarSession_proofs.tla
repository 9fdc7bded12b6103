------------------------ MODULE AvatarSession_proofs ------------------------
(***************************************************************************)
(* Proofs about AvatarSession, for every set of event ids, chunk and frame *)
(* size, jitter depth, failure limit and bound.                            *)
(***************************************************************************)
EXTENDS AvatarSession, SequenceTheorems, FiniteSetTheorems, TLAPS

\* The loop has a job only while it renders, of utterances already begun, and
\* is off exactly when the session has stopped.
LoopShape ==
    /\ tick # "rendering" => job = <<>>
    /\ stopped <=> tick = "off"
    /\ \A i \in 1..Len(job) : \A u \in job[i] : u <= utterances

Inv == AvatarTypeOK /\ TurnShape /\ BufferOwned /\ LoopShape

-----------------------------------------------------------------------------

\* Whole chunks: how many fit, and what is left over.
LEMMA ChunkDivision ==
    ASSUME NEW L \in Nat
    PROVE  /\ L \div ChunkSamples \in Nat
           /\ (L \div ChunkSamples) * ChunkSamples \in Nat
           /\ (L \div ChunkSamples) * ChunkSamples <= L
           /\ L < (L \div ChunkSamples) * ChunkSamples + ChunkSamples
    BY AudioAssumption, SMTT(60)

\* A sample of a whole chunk is one of the samples.
LEMMA ChunkIndex ==
    ASSUME NEW L \in Nat, NEW k \in Nat, k * ChunkSamples <= L,
           NEW i \in 1..k, NEW j \in 1..ChunkSamples
    PROVE  (i - 1) * ChunkSamples + j \in 1..L
    <1>1. /\ i - 1 \in Nat /\ k - i \in Nat
          /\ ChunkSamples \in Nat \ {0}
          BY AudioAssumption
    <1>2. (i - 1) * ChunkSamples \in Nat /\ (k - i) * ChunkSamples \in Nat
          BY <1>1, SMTT(60)
    <1>3. k * ChunkSamples = (i - 1) * ChunkSamples + ChunkSamples
                                + (k - i) * ChunkSamples
          BY <1>1, SMTT(60)
    <1>4. QED BY <1>1, <1>2, <1>3

\* A slice of a sequence whose elements are all e, and an extension of one.
LEMMA OwnedSlice ==
    ASSUME NEW S, NEW s \in Seq(S), NEW e,
           \A i \in 1..Len(s) : s[i] = e,
           NEW m \in Nat \ {0}, NEW n \in Nat, n <= Len(s), m <= n + 1
    PROVE  /\ SubSeq(s, m, n) \in Seq(S)
           /\ Len(SubSeq(s, m, n)) = n - m + 1
           /\ \A i \in 1..(n - m + 1) : SubSeq(s, m, n)[i] = e
    <1>1. Len(s) \in Nat /\ \A i \in m..n : i \in 1..Len(s)
          BY LenProperties
    <1>2. \A i \in m..n : s[i] \in S
          BY <1>1, ElementOfSeq
    <1>3. /\ SubSeq(s, m, n) \in Seq(S)
          /\ Len(SubSeq(s, m, n)) = IF m <= n THEN n - m + 1 ELSE 0
          /\ \A i \in 1..(n - m + 1) : SubSeq(s, m, n)[i] = s[m + i - 1]
          BY <1>2, SubSeqProperties
    <1>4. \A i \in 1..(n - m + 1) : m + i - 1 \in 1..Len(s)
          BY <1>1
    <1>5. QED BY <1>3, <1>4

LEMMA OwnedExtension ==
    ASSUME NEW S, NEW s \in Seq(S), NEW e \in S, NEW k \in Nat,
           \A i \in 1..Len(s) : s[i] = e
    PROVE  /\ s \o [i \in 1..k |-> e] \in Seq(S)
           /\ Len(s \o [i \in 1..k |-> e]) = Len(s) + k
           /\ \A j \in 1..(Len(s) + k) : (s \o [i \in 1..k |-> e])[j] = e
    <1> DEFINE r == [i \in 1..k |-> e]
    <1>1. r \in Seq(S) /\ Len(r) = k /\ \A i \in 1..k : r[i] = e
          OBVIOUS
    <1> HIDE DEF r
    <1>2. /\ s \o r \in Seq(S)
          /\ Len(s \o r) = Len(s) + Len(r)
          /\ \A i \in 1..Len(s) + Len(r) :
                (s \o r)[i] = IF i <= Len(s) THEN s[i] ELSE r[i - Len(s)]
          BY <1>1, ConcatProperties
    <1>3. Len(s) \in Nat
          BY LenProperties
    <1>4. \A i \in 1..Len(s) + k : (s \o r)[i] = e
          BY <1>1, <1>2, <1>3
    <1>5. QED BY <1>1, <1>2, <1>4 DEF r

\* push keeps the buffer well formed, keeps its owner, and adds to it.
LEMMA PushOwned ==
    ASSUME NEW whole \in Seq(SUBSET Nat), NEW rest \in Seq(Nat),
           NEW u \in Nat, NEW n \in Nat \ {0},
           Len(rest) < ChunkSamples,
           \A i \in 1..Len(whole) : whole[i] = {u},
           \A i \in 1..Len(rest) : rest[i] = u,
           Push(whole, rest, u, n)
    PROVE  /\ chunks' \in Seq(SUBSET Nat)
           /\ tail' \in Seq(Nat) /\ Len(tail') < ChunkSamples
           /\ \A i \in 1..Len(chunks') : chunks'[i] = {u}
           /\ \A i \in 1..Len(tail') : tail'[i] = u
           /\ \/ Len(chunks') > Len(whole)
              \/ Len(chunks') = Len(whole) /\ tail' # <<>>
    <1> DEFINE samples == rest \o [i \in 1..n |-> u]
               k == Len(samples) \div ChunkSamples
               Chunk(i) == {samples[(i - 1) * ChunkSamples + j] :
                                j \in 1..ChunkSamples}
    <1> /\ ChunkSamples \in Nat \ {0}
        /\ chunks' = whole \o [i \in 1..k |-> Chunk(i)]
        /\ tail' = SubSeq(samples, k * ChunkSamples + 1, Len(samples))
        BY AudioAssumption DEF Push
    <1>1. /\ samples \in Seq(Nat)
          /\ Len(samples) = Len(rest) + n
          /\ \A i \in 1..Len(samples) : samples[i] = u
          OBVIOUS
    <1> HIDE DEF samples
    <1>2. /\ k \in Nat
          /\ k * ChunkSamples \in Nat
          /\ k * ChunkSamples <= Len(samples)
          /\ Len(samples) < k * ChunkSamples + ChunkSamples
          <2>1. Len(samples) \in Nat
                BY <1>1
          <2>2. QED BY <2>1, ChunkDivision, SMTT(60)
    <1> HIDE DEF k
    <1>3. ASSUME NEW i \in 1..k PROVE Chunk(i) = {u}
          <2>1. ASSUME NEW j \in 1..ChunkSamples
                PROVE  samples[(i - 1) * ChunkSamples + j] = u
                <3>1. Len(samples) \in Nat
                      BY <1>1
                <3>2. (i - 1) * ChunkSamples + j \in 1..Len(samples)
                      BY <3>1, <1>2, ChunkIndex
                <3>3. QED BY <3>2, <1>1
          <2>2. 1 \in 1..ChunkSamples
                OBVIOUS
          <2>3. QED BY <2>1, <2>2
    <1>4. [i \in 1..k |-> Chunk(i)] = [i \in 1..k |-> {u}]
          BY <1>3
    <1> HIDE DEF Chunk
    <1>5. /\ chunks' \in Seq(SUBSET Nat)
          /\ Len(chunks') = Len(whole) + k
          /\ \A i \in 1..Len(chunks') : chunks'[i] = {u}
          <2>1. chunks' = whole \o [i \in 1..k |-> {u}]
                BY <1>4
          <2>2. {u} \in SUBSET Nat
                OBVIOUS
          <2> DEFINE e == {u}
          <2>3. e \in SUBSET Nat /\ \A i \in 1..Len(whole) : whole[i] = e
                BY <2>2
          <2>4. chunks' = whole \o [i \in 1..k |-> e]
                BY <2>1
          <2> HIDE DEF e
          <2> DEFINE ext == [i \in 1..k |-> e]
          <2>5. /\ whole \o ext \in Seq(SUBSET Nat)
                /\ Len(whole \o ext) = Len(whole) + k
                /\ \A j \in 1..(Len(whole) + k) : (whole \o ext)[j] = e
                BY <2>3, <1>2, OwnedExtension
          <2>6. chunks' = whole \o ext
                BY <2>4
          <2> HIDE DEF ext
          <2>7. QED BY <2>5, <2>6 DEF e
    <1> DEFINE m == k * ChunkSamples
    <1>6. m \in Nat /\ m <= Len(samples) /\ Len(samples) < m + ChunkSamples
          BY <1>2
    <1>7. k = 0 => m = 0
          OBVIOUS
    <1> HIDE DEF m
    <1>8. tail' = SubSeq(samples, m + 1, Len(samples))
          BY DEF m
    <1>9. /\ tail' \in Seq(Nat)
          /\ Len(tail') = Len(samples) - m
          /\ \A i \in 1..Len(tail') : tail'[i] = u
          <2> DEFINE p == m + 1
                     q == Len(samples)
          <2>1. /\ p \in Nat \ {0} /\ q \in Nat
                /\ q <= Len(samples) /\ p <= q + 1
                /\ q - p + 1 = Len(samples) - m
                BY <1>1, <1>6
          <2>2. tail' = SubSeq(samples, p, q)
                BY <1>8
          <2> HIDE DEF p, q
          <2>3. /\ SubSeq(samples, p, q) \in Seq(Nat)
                /\ Len(SubSeq(samples, p, q)) = q - p + 1
                /\ \A i \in 1..(q - p + 1) : SubSeq(samples, p, q)[i] = u
                BY <1>1, <2>1, OwnedSlice, SMTT(60)
          <2>4. QED BY <2>1, <2>2, <2>3
    <1>10. Len(tail') < ChunkSamples
          <2>1. Len(samples) \in Nat
                BY <1>1
          <2>2. QED BY <2>1, <1>6, <1>9, SMTT(60)
    <1>11. Len(chunks') > Len(whole) \/ (Len(chunks') = Len(whole) /\ tail' # <<>>)
          <2>1. CASE k = 0
                <3>1. Len(tail') > 0
                      BY <2>1, <1>1, <1>7, <1>9
                <3>2. QED BY <2>1, <3>1, <1>5
          <2>2. CASE k # 0
                BY <2>2, <1>2, <1>5
          <2>3. QED BY <2>1, <2>2
    <1>12. QED
          BY <1>5, <1>9, <1>10, <1>11

\* flush_tail turns the rest into one more chunk of the same owner.
LEMMA FlushOwned ==
    ASSUME AvatarTypeOK, BufferOwned, FlushTail
    PROVE  /\ chunks' \in Seq(SUBSET Nat) /\ tail' = <<>>
           /\ \A i \in 1..Len(chunks') : chunks'[i] = {utterances}
           /\ Len(chunks') = Len(chunks) + (IF tail = <<>> THEN 0 ELSE 1)
    <1>1. CASE tail = <<>>
          BY <1>1 DEF AvatarTypeOK, BufferOwned, FlushTail
    <1>2. CASE tail # <<>>
          <2> DEFINE last == {tail[i] : i \in 1..Len(tail)}
          <2>1. /\ Len(tail) \in Nat \ {0}
                /\ \A i \in 1..Len(tail) : tail[i] = utterances
                BY <1>2, EmptySeq DEF AvatarTypeOK, BufferOwned
          <2>2. 1 \in 1..Len(tail)
                BY <2>1
          <2>3. last = {utterances}
                BY <2>1, <2>2
          <2>4. last \in SUBSET Nat
                BY <2>3 DEF AvatarTypeOK
          <2>5. chunks' = Append(chunks, last) /\ tail' = <<>>
                BY <1>2 DEF FlushTail
          <2> HIDE DEF last
          <2>6. /\ Append(chunks, last) \in Seq(SUBSET Nat)
                /\ Len(Append(chunks, last)) = Len(chunks) + 1
                /\ \A i \in 1..Len(chunks) : Append(chunks, last)[i] = chunks[i]
                /\ Append(chunks, last)[Len(chunks) + 1] = last
                BY <2>4, AppendProperties DEF AvatarTypeOK
          <2>7. Len(chunks) \in Nat
                BY LenProperties DEF AvatarTypeOK
          <2>8. \A i \in 1..Len(chunks') : chunks'[i] = {utterances}
                BY <2>3, <2>5, <2>6, <2>7 DEF BufferOwned
          <2>9. QED BY <1>2, <2>5, <2>6, <2>8
    <1>3. QED BY <1>1, <1>2

-----------------------------------------------------------------------------
(* The invariant, one lemma per group of actions.                          *)

LEMMA InitInv == Init => Inv
    <1> SUFFICES ASSUME Init PROVE Inv
        OBVIOUS
    <1>1. Len(<<>>) = 0 /\ <<>> \in Seq(Nat) /\ <<>> \in Seq(SUBSET Nat)
        OBVIOUS
    <1>2. AvatarTypeOK
        <2>1. /\ Len(tail) < ChunkSamples /\ tail \in Seq(Nat)
              /\ Len(job) <= ChunksPerFrame /\ job \in Seq(SUBSET Nat)
              /\ chunks \in Seq(SUBSET Nat)
            BY <1>1, AudioAssumption DEF Init
        <2>2. QED BY <2>1 DEF Init, AvatarTypeOK, States
    <1>3. TurnShape /\ BufferOwned /\ LoopShape
        BY <1>1 DEF Init, TurnShape, BufferOwned, Drained, LoopShape
    <1>4. QED BY <1>2, <1>3 DEF Inv

\* A message adds its samples to the utterance they belong to: the buffer keeps
\* one owner, and something of the message is buffered.
LEMMA SpeakPushes ==
    ASSUME Inv, NEW e \in Events, NEW n \in 1..MaxSaid, Speak(e, n)
    PROVE  /\ chunks' \in Seq(SUBSET Nat)
           /\ tail' \in Seq(Nat) /\ Len(tail') < ChunkSamples
           /\ \A i \in 1..Len(chunks') : chunks'[i] = {utterances'}
           /\ \A i \in 1..Len(tail') : tail'[i] = utterances'
           /\ Len(chunks') > 0 \/ tail' # <<>>
           /\ e = active => \/ Len(chunks') > Len(chunks)
                            \/ Len(chunks') = Len(chunks) /\ tail' # <<>>
    <1> USE DEF Inv
    <1>1. utterances' \in Nat
          BY DEF Speak, AvatarTypeOK
    <1>2. n \in Nat \ {0}
          BY BoundsAssumption
    <1>3. CASE e = active
          <2>1. Push(chunks, tail, utterances', n) /\ utterances' = utterances
                BY <1>3 DEF Speak
          <2>2. /\ chunks \in Seq(SUBSET Nat)
                /\ tail \in Seq(Nat) /\ Len(tail) < ChunkSamples
                /\ \A i \in 1..Len(chunks) : chunks[i] = {utterances'}
                /\ \A i \in 1..Len(tail) : tail[i] = utterances'
                BY <2>1 DEF AvatarTypeOK, BufferOwned
          <2>3. /\ chunks' \in Seq(SUBSET Nat)
                /\ tail' \in Seq(Nat) /\ Len(tail') < ChunkSamples
                /\ \A i \in 1..Len(chunks') : chunks'[i] = {utterances'}
                /\ \A i \in 1..Len(tail') : tail'[i] = utterances'
                /\ \/ Len(chunks') > Len(chunks)
                   \/ Len(chunks') = Len(chunks) /\ tail' # <<>>
                BY <2>1, <2>2, <1>1, <1>2, PushOwned, SMTT(60)
          <2>4. Len(chunks) \in Nat
                BY <2>2, LenProperties
          <2>5. Len(chunks') > 0 \/ tail' # <<>>
                BY <2>3, <2>4
          <2>6. QED BY <2>3, <2>5
    <1>4. CASE e # active
          <2>1. Push(<<>>, <<>>, utterances', n)
                BY <1>4 DEF Speak, BufferOwned, Drained
          <2> DEFINE w == <<>>
                     r == <<>>
          <2>2. /\ w \in Seq(SUBSET Nat) /\ Len(w) = 0
                /\ r \in Seq(Nat) /\ Len(r) = 0 /\ Len(r) < ChunkSamples
                BY AudioAssumption
          <2>3. Push(w, r, utterances', n)
                BY <2>1
          <2> HIDE DEF w, r
          <2>4. /\ \A i \in 1..Len(w) : w[i] = {utterances'}
                /\ \A i \in 1..Len(r) : r[i] = utterances'
                BY <2>2
          <2>5. /\ chunks' \in Seq(SUBSET Nat)
                /\ tail' \in Seq(Nat) /\ Len(tail') < ChunkSamples
                /\ \A i \in 1..Len(chunks') : chunks'[i] = {utterances'}
                /\ \A i \in 1..Len(tail') : tail'[i] = utterances'
                /\ \/ Len(chunks') > Len(w)
                   \/ Len(chunks') = Len(w) /\ tail' # <<>>
                BY <2>2, <2>3, <2>4, <1>1, <1>2, PushOwned
          <2>6. Len(chunks') > 0 \/ tail' # <<>>
                BY <2>2, <2>5
          <2>7. QED BY <1>4, <2>5, <2>6
    <1>5. QED BY <1>3, <1>4

LEMMA SpeakInv ==
    ASSUME Inv, NEW e \in Events, NEW n \in 1..MaxSaid, Speak(e, n)
    PROVE  Inv'
    <1> USE DEF Inv
    <1>1. e # None /\ active' = e /\ state' = "speaking"
          BY EventsAssumption DEF Speak
    <1>2. utterances' \in Nat /\ utterances <= utterances' /\ utterances \in Nat
          BY DEF Speak, AvatarTypeOK
    <1>3. /\ chunks' \in Seq(SUBSET Nat)
          /\ tail' \in Seq(Nat) /\ Len(tail') < ChunkSamples
          /\ \A i \in 1..Len(chunks') : chunks'[i] = {utterances'}
          /\ \A i \in 1..Len(tail') : tail'[i] = utterances'
          BY SpeakPushes
    <1>4. AvatarTypeOK'
          BY <1>1, <1>2, <1>3 DEF Speak, AvatarTypeOK, loopVars, States
    <1>5. TurnShape'
          BY <1>1 DEF TurnShape
    <1>6. BufferOwned'
          BY <1>1, <1>3 DEF BufferOwned
    <1>7. LoopShape'
          <2>1. UNCHANGED loopVars
                BY DEF Speak
          <2>2. \A i \in 1..Len(job) : \A u \in job[i] : u \in Nat
                BY ElementOfSeq DEF AvatarTypeOK
          <2>3. QED BY <2>1, <2>2, <1>2 DEF loopVars, LoopShape
    <1>8. QED BY <1>4, <1>5, <1>6, <1>7

LEMMA SpeakEndInv ==
    ASSUME Inv, NEW e \in Events \cup {None}, SpeakEnd(e)
    PROVE  Inv'
    <1> USE DEF Inv
    <1>1. /\ chunks' \in Seq(SUBSET Nat) /\ tail' = <<>>
          /\ \A i \in 1..Len(chunks') : chunks'[i] = {utterances}
          /\ Len(chunks') = Len(chunks) + (IF tail = <<>> THEN 0 ELSE 1)
          BY FlushOwned DEF SpeakEnd
    <1>2. /\ UNCHANGED <<state, active, utterances, interrupts>>
          /\ UNCHANGED loopVars /\ UNCHANGED announced
          /\ gate' = TRUE
          /\ endPending' = (endPending \/ (e \in {None, active} /\ state = "speaking"))
          BY DEF SpeakEnd
    <1>3. AvatarTypeOK'
          BY <1>1, <1>2, AudioAssumption DEF AvatarTypeOK, loopVars
    <1>4. TurnShape'
          BY <1>2 DEF TurnShape
    <1>5. active = None => Drained'
          <2>1. ASSUME active = None PROVE Len(chunks') = 0
                BY <2>1, <1>1 DEF BufferOwned, Drained
          <2>2. QED BY <2>1, <1>1, EmptySeq DEF Drained
    <1>6. BufferOwned'
          BY <1>1, <1>2, <1>5 DEF BufferOwned
    <1>7. LoopShape'
          BY <1>2 DEF LoopShape, loopVars
    <1>8. QED BY <1>3, <1>4, <1>6, <1>7

LEMMA InterruptInv ==
    ASSUME Inv, Interrupt
    PROVE  Inv'
    <1> USE DEF Inv
    <1>1. AvatarTypeOK'
          <2>1. /\ chunks' = <<>> /\ tail' = <<>> /\ gate' = FALSE
                /\ state' = "listening" /\ active' = None /\ endPending' = FALSE
                /\ interrupts' = interrupts + 1
                /\ UNCHANGED <<utterances, announced>> /\ UNCHANGED loopVars
                BY DEF Interrupt
          <2>2. /\ chunks' \in Seq(SUBSET Nat) /\ tail' \in Seq(Nat)
                /\ Len(tail') = 0
                BY <2>1
          <2>3. /\ state' \in States /\ active' \in Events \cup {None}
                /\ endPending' \in BOOLEAN /\ gate' \in BOOLEAN
                BY <2>1 DEF States
          <2>4. /\ utterances' \in Nat /\ interrupts' \in Nat
                /\ Len(tail') < ChunkSamples
                BY <2>1, <2>2, AudioAssumption DEF AvatarTypeOK
          <2>5. QED BY <2>1, <2>2, <2>3, <2>4 DEF AvatarTypeOK, loopVars
    <1>2. TurnShape'
          BY DEF Interrupt, TurnShape
    <1>3. BufferOwned'
          BY DEF Interrupt, BufferOwned, Drained
    <1>4. LoopShape'
          BY DEF Interrupt, LoopShape, loopVars
    <1>5. QED BY <1>1, <1>2, <1>3, <1>4

LEMMA ListeningInv ==
    ASSUME Inv, StartListening \/ StopListening
    PROVE  Inv'
    <1> USE DEF Inv
    <1>1. /\ UNCHANGED <<active, endPending, utterances, interrupts>>
          /\ UNCHANGED audioVars /\ UNCHANGED loopVars /\ UNCHANGED announced
          /\ state' \in {"listening", "idle"} /\ state # "speaking"
          BY DEF StartListening, StopListening
    <1>2. AvatarTypeOK'
          BY <1>1 DEF AvatarTypeOK, States, audioVars, loopVars
    <1>3. TurnShape'
          BY <1>1 DEF TurnShape
    <1>4. BufferOwned' /\ LoopShape'
          BY <1>1 DEF BufferOwned, Drained, LoopShape, audioVars, loopVars
    <1>5. QED BY <1>2, <1>3, <1>4

\* A frame takes a prefix of the buffer, which has an owner, and no sample is
\* lost between the two.
LEMMA FrameTakes ==
    ASSUME AvatarTypeOK, BufferOwned, NextFrame
    PROVE  /\ chunks' \in Seq(SUBSET Nat)
           /\ \A i \in 1..Len(chunks') : chunks'[i] = {utterances}
           /\ job' \in Seq(SUBSET Nat) /\ Len(job') <= ChunksPerFrame
           /\ \A i \in 1..Len(job') : job'[i] = {utterances}
           /\ Len(chunks') + Len(job') = Len(chunks)
           /\ chunks = <<>> => chunks' = <<>>
           /\ gate' \in BOOLEAN
    <1> DEFINE takes == state = "speaking"
                          /\ (GateSeen \/ Len(chunks) >= JitterChunks)
    <1>1. CASE takes
          <2> DEFINE k == LesserOf(ChunksPerFrame, Len(chunks))
                     m == k + 1
                     l == Len(chunks)
                     e == {utterances}
                     one == 1
          <2>1. /\ job' = SubSeq(chunks, one, k)
                /\ chunks' = SubSeq(chunks, m, l)
                /\ gate' = ~(chunks = <<>> /\ tail = <<>>)
                BY <1>1 DEF NextFrame
          <2>2. chunks \in Seq(SUBSET Nat) /\ l \in Nat
                BY LenProperties DEF AvatarTypeOK
          <2>3. \A i \in 1..Len(chunks) : chunks[i] = e
                BY DEF BufferOwned
          <2>4. /\ k \in Nat /\ k <= l /\ k <= ChunksPerFrame
                /\ one \in Nat \ {0} /\ one <= k + 1 /\ k - one + 1 = k
                /\ m \in Nat \ {0} /\ m <= l + 1 /\ l <= Len(chunks)
                /\ k <= Len(chunks) /\ l - m + 1 = l - k
                BY <2>2, AudioAssumption DEF LesserOf
          <2>5. chunks = <<>> => l = 0
                OBVIOUS
          <2> HIDE DEF k, m, l, e, one
          <2>6. /\ SubSeq(chunks, one, k) \in Seq(SUBSET Nat)
                /\ Len(SubSeq(chunks, one, k)) = k - one + 1
                /\ \A i \in 1..(k - one + 1) : SubSeq(chunks, one, k)[i] = e
                BY <2>2, <2>3, <2>4, OwnedSlice
          <2>7. /\ SubSeq(chunks, m, l) \in Seq(SUBSET Nat)
                /\ Len(SubSeq(chunks, m, l)) = l - m + 1
                /\ \A i \in 1..(l - m + 1) : SubSeq(chunks, m, l)[i] = e
                BY <2>2, <2>3, <2>4, OwnedSlice
          <2>8. /\ job' \in Seq(SUBSET Nat) /\ Len(job') = k
                /\ \A i \in 1..k : job'[i] = e
                BY <2>1, <2>4, <2>6
          <2>9. /\ chunks' \in Seq(SUBSET Nat) /\ Len(chunks') = l - k
                /\ \A i \in 1..(l - k) : chunks'[i] = e
                BY <2>1, <2>4, <2>7
          <2>10. chunks = <<>> => chunks' = <<>>
                BY <2>2, <2>4, <2>5, <2>9, EmptySeq
          <2>11. gate' \in BOOLEAN
                BY <2>1
          <2>12. Len(chunks') + Len(job') = l
                BY <2>2, <2>4, <2>8, <2>9
          <2>13. QED BY <2>4, <2>8, <2>9, <2>10, <2>11, <2>12 DEF e, l
    <1>2. CASE ~takes
          <2>1. job' = <<>> /\ chunks' = chunks /\ gate' = GateSeen
                BY <1>2 DEF NextFrame
          <2>2. job' \in Seq(SUBSET Nat) /\ Len(job') = 0
                BY <2>1
          <2>3. gate' \in BOOLEAN
                BY <2>1 DEF GateSeen, AvatarTypeOK
          <2>4. Len(chunks) \in Nat
                BY LenProperties DEF AvatarTypeOK
          <2>5. Len(chunks') + Len(job') = Len(chunks)
                BY <2>1, <2>2, <2>4
          <2>6. QED BY <2>1, <2>2, <2>3, <2>5, AudioAssumption
                    DEF AvatarTypeOK, BufferOwned
    <1>3. QED BY <1>1, <1>2

LEMMA NextFrameInv ==
    ASSUME Inv, NextFrame
    PROVE  Inv'
    <1> USE DEF Inv
    <1>1. /\ UNCHANGED machineVars /\ UNCHANGED <<tail, failures, stopped, announced>>
          /\ tick = "between" /\ tick' = "rendering" /\ shown' = state
          BY DEF NextFrame
    <1>2. /\ chunks' \in Seq(SUBSET Nat)
          /\ \A i \in 1..Len(chunks') : chunks'[i] = {utterances}
          /\ job' \in Seq(SUBSET Nat) /\ Len(job') <= ChunksPerFrame
          /\ \A i \in 1..Len(job') : job'[i] = {utterances}
          /\ chunks = <<>> => chunks' = <<>>
          /\ gate' \in BOOLEAN
          BY FrameTakes
    <1>3. AvatarTypeOK'
          BY <1>1, <1>2 DEF AvatarTypeOK, machineVars
    <1>4. TurnShape'
          BY <1>1 DEF TurnShape, machineVars
    <1>5. BufferOwned'
          BY <1>1, <1>2 DEF BufferOwned, Drained, machineVars
    <1>6. LoopShape'
          <2>1. utterances \in Nat /\ utterances' = utterances
                BY <1>1 DEF AvatarTypeOK, machineVars
          <2>2. \A i \in 1..Len(job') : \A u \in job'[i] : u <= utterances'
                BY <2>1, <1>2
          <2>3. QED BY <1>1, <2>2 DEF LoopShape
    <1>7. QED BY <1>3, <1>4, <1>5, <1>6

LEMMA FinishTickInv ==
    ASSUME Inv, FinishTick, tick = "rendering",
           failures' \in Nat, UNCHANGED stopped
    PROVE  Inv'
    <1> USE DEF Inv
    <1>1. /\ UNCHANGED <<utterances, interrupts>> /\ UNCHANGED audioVars
          /\ UNCHANGED shown /\ tick' = "between" /\ job' = <<>>
          /\ \/ /\ endPending /\ Drained /\ state' = "idle" /\ active' = None
                /\ endPending' = FALSE
                /\ announced' = announced \cup {utterances}
             \/ UNCHANGED <<state, active, endPending, announced>>
          BY DEF FinishTick
    <1>2. job' \in Seq(SUBSET Nat) /\ Len(job') = 0
          BY <1>1
    <1>3. announced' \in SUBSET Nat
          BY <1>1 DEF AvatarTypeOK
    <1>4. AvatarTypeOK'
          <2>1. /\ state' \in States /\ active' \in Events \cup {None}
                /\ endPending' \in BOOLEAN
                BY <1>1 DEF AvatarTypeOK, States
          <2>2. Len(job') <= ChunksPerFrame /\ tick' \in {"between", "rendering", "off"}
                BY <1>1, <1>2, AudioAssumption
          <2>3. QED BY <1>1, <1>2, <1>3, <2>1, <2>2 DEF AvatarTypeOK, audioVars
    <1>5. TurnShape'
          BY <1>1 DEF TurnShape
    <1>6. BufferOwned'
          BY <1>1 DEF BufferOwned, Drained, audioVars
    <1>7. LoopShape'
          BY <1>1, <1>2 DEF LoopShape
    <1>8. QED BY <1>4, <1>5, <1>6, <1>7

LEMMA RenderReturnsInv ==
    ASSUME Inv, Rendered \/ RenderRaised
    PROVE  Inv'
    <1>1. /\ FinishTick /\ tick = "rendering" /\ UNCHANGED stopped
          /\ failures' \in Nat
          BY DEF Inv, AvatarTypeOK, Rendered, RenderRaised
    <1>2. QED BY <1>1, FinishTickInv

LEMMA QuitInv ==
    ASSUME Inv, Quit, failures' \in Nat
    PROVE  Inv'
    <1> USE DEF Inv
    <1>1. /\ UNCHANGED machineVars /\ UNCHANGED audioVars /\ UNCHANGED <<shown, announced>>
          /\ stopped' = TRUE /\ tick' = "off" /\ job' = <<>>
          BY DEF Quit
    <1>2. job' \in Seq(SUBSET Nat) /\ Len(job') = 0
          BY <1>1
    <1>3. AvatarTypeOK'
          BY <1>1, <1>2, AudioAssumption DEF AvatarTypeOK, machineVars, audioVars
    <1>4. TurnShape' /\ BufferOwned'
          BY <1>1 DEF TurnShape, BufferOwned, Drained, machineVars, audioVars
    <1>5. LoopShape'
          BY <1>1, <1>2 DEF LoopShape
    <1>6. QED BY <1>3, <1>4, <1>5

\* Every step keeps the invariant.
LEMMA NextInv == Inv /\ [Next]_vars => Inv'
    <1> SUFFICES ASSUME Inv, [Next]_vars PROVE Inv'
        OBVIOUS
    <1>1. ASSUME NEW e \in Events, NEW n \in 1..MaxSaid, Speak(e, n) PROVE Inv'
          BY <1>1, SpeakInv
    <1>2. ASSUME NEW e \in Events \cup {None}, SpeakEnd(e) PROVE Inv'
          BY <1>2, SpeakEndInv
    <1>3. CASE Interrupt
          BY <1>3, InterruptInv
    <1>4. CASE StartListening \/ StopListening
          BY <1>4, ListeningInv
    <1>5. CASE NextFrame
          BY <1>5, NextFrameInv
    <1>6. CASE Rendered \/ RenderRaised
          BY <1>6, RenderReturnsInv
    <1>7. CASE GiveUp
          <2>1. Quit /\ failures' \in Nat
                BY <1>7 DEF GiveUp, Inv, AvatarTypeOK
          <2>2. QED BY <2>1, QuitInv
    <1>8. CASE Stop
          <2>1. Quit /\ failures' \in Nat
                BY <1>8 DEF Stop, Inv, AvatarTypeOK
          <2>2. QED BY <2>1, QuitInv
    <1>9. CASE UNCHANGED vars
          BY <1>9 DEF Inv, AvatarTypeOK, TurnShape, BufferOwned, Drained,
                      LoopShape, vars, machineVars, audioVars, loopVars
    <1>10. QED BY <1>1, <1>2, <1>3, <1>4, <1>5, <1>6, <1>7, <1>8, <1>9
               DEF Next, Control, RenderReturns

\* The inductive invariant holds in every reachable state.
THEOREM AvatarInvariant == Safety => []Inv
    <1>1. QED BY InitInv, NextInv, PTL DEF Safety

\* Every variable keeps the type the code gives it; in particular the rest
\* stays shorter than a chunk and a job no longer than a frame's chunks.
THEOREM AvatarTyped == Safety => []AvatarTypeOK
    <1>1. Inv => AvatarTypeOK
          BY DEF Inv
    <1>2. QED BY AvatarInvariant, <1>1, PTL

\* The avatar speaks exactly while an utterance is active, and only an active
\* utterance waits for its end (AvatarStateMachine of state.py).
THEOREM AvatarTurnShape == Safety => []TurnShape
    <1>1. Inv => TurnShape
          BY DEF Inv
    <1>2. QED BY AvatarInvariant, <1>1, PTL

\* Whatever is buffered belongs to the active utterance: handle_control never
\* lets audio of a replaced, interrupted or ended one reach a later frame.
THEOREM NoStaleAudio == Safety => []BufferOwned
    <1>1. Inv => BufferOwned
          BY DEF Inv
    <1>2. QED BY AvatarInvariant, <1>1, PTL

-----------------------------------------------------------------------------
(* The receipt's counts.                                                   *)

\* The active utterance is the last one begun, and not announced yet.
AnnouncedShape ==
    /\ IsFiniteSet(announced)
    /\ \A u \in announced : u <= utterances
    /\ active # None => utterances \notin announced

CountInv == AnnouncedShape /\ CountsAgree

LEMMA InitCounts == Init => CountInv
    <1> SUFFICES ASSUME Init PROVE CountInv
        OBVIOUS
    <1>1. announced = {} /\ active = None /\ interrupts = 0 /\ utterances = 0
        BY DEF Init
    <1>2. IsFiniteSet(announced) /\ Cardinality(announced) = 0
        BY <1>1, FS_EmptySet
    <1>3. QED BY <1>1, <1>2 DEF CountInv, AnnouncedShape, CountsAgree

LEMMA NextCounts == Inv /\ CountInv /\ [Next]_vars => CountInv'
    <1> SUFFICES ASSUME Inv, CountInv, [Next]_vars PROVE CountInv'
        OBVIOUS
    <1> DEFINE current == IF active = None THEN 0 ELSE 1
    <1>1. /\ utterances \in Nat /\ interrupts \in Nat /\ announced \in SUBSET Nat
          /\ IsFiniteSet(announced) /\ Cardinality(announced) \in Nat
          /\ \A u \in announced : u <= utterances
          /\ active # None => utterances \notin announced
          /\ interrupts + Cardinality(announced) + current <= utterances
          BY FS_CardinalityType
             DEF Inv, AvatarTypeOK, CountInv, AnnouncedShape, CountsAgree
    <1>2. ASSUME UNCHANGED <<utterances, interrupts, announced, active>>
          PROVE  CountInv'
          BY <1>2, <1>1 DEF CountInv, AnnouncedShape, CountsAgree
    <1>3. ASSUME NEW e \in Events, NEW n \in 1..MaxSaid, Speak(e, n)
          PROVE  CountInv'
          <2>1. UNCHANGED <<interrupts, announced>> /\ active' = e /\ e # None
                BY <1>3, EventsAssumption DEF Speak
          <2>2. CASE e = active
                BY <1>2, <1>3, <2>1, <2>2 DEF Speak
          <2>3. CASE e # active
                <3>1. utterances' = utterances + 1
                      BY <1>3, <2>3 DEF Speak
                <3>2. \A u \in announced : u < utterances'
                      BY <1>1, <3>1
                <3>3. AnnouncedShape'
                      BY <1>1, <2>1, <3>1, <3>2 DEF AnnouncedShape
                <3>4. CountsAgree'
                      BY <1>1, <2>1, <3>1 DEF CountsAgree
                <3>5. QED BY <3>3, <3>4 DEF CountInv
          <2>4. QED BY <2>2, <2>3
    <1>4. CASE Interrupt
          <2>1. /\ UNCHANGED <<utterances, announced>> /\ active' = None
                /\ interrupts' = interrupts + 1 /\ active # None
                BY <1>4 DEF Interrupt, Inv, TurnShape
          <2>2. QED BY <1>1, <2>1 DEF CountInv, AnnouncedShape, CountsAgree
    <1>5. ASSUME FinishTick PROVE CountInv'
          <2>1. CASE endPending /\ Drained
                <3>1. /\ UNCHANGED <<utterances, interrupts>> /\ active' = None
                      /\ announced' = announced \cup {utterances} /\ active # None
                      BY <1>5, <2>1 DEF FinishTick, Inv, TurnShape
                <3>2. /\ IsFiniteSet(announced')
                      /\ Cardinality(announced') = Cardinality(announced) + 1
                      BY <1>1, <3>1, FS_AddElement
                <3>3. QED BY <1>1, <3>1, <3>2
                          DEF CountInv, AnnouncedShape, CountsAgree
          <2>2. CASE ~(endPending /\ Drained)
                BY <1>2, <1>5, <2>2 DEF FinishTick
          <2>3. QED BY <2>1, <2>2
    <1>6. CASE RenderReturns
          <2>1. FinishTick \/ UNCHANGED <<utterances, interrupts, announced, active>>
                BY <1>6 DEF RenderReturns, Rendered, RenderRaised, GiveUp, Quit,
                            machineVars
          <2>2. QED BY <2>1, <1>2, <1>5
    <1>7. ASSUME NEW e \in Events \cup {None}, SpeakEnd(e) PROVE CountInv'
          BY <1>2, <1>7 DEF SpeakEnd
    <1>8. CASE StartListening \/ StopListening \/ NextFrame \/ Stop \/ UNCHANGED vars
          BY <1>2, <1>8 DEF StartListening, StopListening, NextFrame, Stop, Quit,
                            vars, machineVars
    <1>9. QED BY <1>3, <1>4, <1>6, <1>7, <1>8 DEF Next, Control

\* The receipt adds up: an utterance is interrupted, announced as ended, active
\* or replaced, and never counted as two of these (session.py's summary).
THEOREM AvatarCounts == Safety => []CountsAgree
    <1>1. CountInv => CountsAgree
          BY DEF CountInv
    <1>2. QED BY AvatarInvariant, InitCounts, NextCounts, <1>1, PTL DEF Safety

-----------------------------------------------------------------------------
(* The session implements TurnCycle.                                       *)

\* What is owed is a number of chunks; the frame in the making has at most a
\* frame's worth of it.
OwedShape ==
    /\ Len(chunks) \in Nat /\ Len(job) \in Nat
    /\ InJob(utterances) \in 0..ChunksPerFrame
    /\ job = <<>> => InJob(utterances) = 0
    /\ Owed \in Nat

LEMMA OwedFacts == AvatarTypeOK => OwedShape
    <1> SUFFICES ASSUME AvatarTypeOK PROVE OwedShape
        OBVIOUS
    <1>1. Len(chunks) \in Nat /\ Len(job) \in Nat
          BY LenProperties DEF AvatarTypeOK
    <1>2. InJob(utterances) \in {0, Len(job)} /\ Len(job) <= ChunksPerFrame
          BY DEF InJob, AvatarTypeOK
    <1>3. InJob(utterances) \in 0..ChunksPerFrame
          BY <1>1, <1>2, AudioAssumption
    <1>4. job = <<>> => InJob(utterances) = 0
          BY DEF InJob
    <1>5. Owed \in Nat
          BY <1>1, <1>3, AudioAssumption DEF Owed, Spoken
    <1>6. QED BY <1>1, <1>3, <1>4, <1>5 DEF OwedShape

LEMMA OwedFactsNext == AvatarTypeOK' => OwedShape'
    BY OwedFacts, PTL

LEMMA InitRefines == Init => T!TurnInit
    BY DEF Init, Owed, T!TurnInit

\* A chunk of the active utterance says more; a first one begins.
LEMMA SpeakRefines ==
    ASSUME Inv, Inv', NEW e \in Events, NEW n \in 1..MaxSaid, Speak(e, n)
    PROVE  T!Say \/ T!Begin
    <1>1. OwedShape /\ OwedShape'
          BY OwedFacts, OwedFactsNext DEF Inv
    <1>2. /\ UNCHANGED <<announced, stopped, job>>
          /\ active' = e /\ e # None
          BY EventsAssumption DEF Speak, loopVars
    <1>3. /\ Len(chunks') > 0 \/ tail' # <<>>
          /\ e = active => \/ Len(chunks') > Len(chunks)
                           \/ Len(chunks') = Len(chunks) /\ tail' # <<>>
          BY SpeakPushes
    <1>4. CASE e = active
          <2>1. UNCHANGED <<utterances, endPending>>
                BY <1>4 DEF Speak
          <2>2. InJob(utterances)' = InJob(utterances)
                BY <1>2, <2>1 DEF InJob
          <2>3. Owed' >= Owed
                BY <1>1, <1>2, <1>3, <1>4, <2>1, <2>2 DEF Owed, Spoken, OwedShape
          <2>4. QED BY <1>1, <1>2, <1>4, <2>1, <2>3 DEF T!Say, OwedShape
    <1>5. CASE e # active
          <2>1. utterances' = utterances + 1 /\ endPending' = FALSE
                BY <1>5 DEF Speak
          <2>2. Owed' # 0
                BY <1>1, <1>2, <1>3 DEF Owed, Spoken, OwedShape
          <2>3. QED BY <1>1, <1>2, <2>1, <2>2 DEF T!Begin, OwedShape
    <1>6. QED BY <1>4, <1>5

\* The end of the active utterance closes it; another changes nothing of it,
\* and the padded chunk was owed before.
LEMMA SpeakEndRefines ==
    ASSUME Inv, NEW e \in Events \cup {None}, SpeakEnd(e)
    PROVE  T!Close \/ UNCHANGED T!turnVars
    <1>1. OwedShape
          BY OwedFacts DEF Inv
    <1>2. /\ UNCHANGED <<state, active, utterances, announced, stopped, job>>
          /\ endPending' = (endPending \/ (e \in {None, active} /\ state = "speaking"))
          BY DEF SpeakEnd, loopVars
    <1>3. tail' = <<>> /\ Len(chunks') = Len(chunks) + (IF tail = <<>> THEN 0 ELSE 1)
          BY FlushOwned DEF SpeakEnd, Inv
    <1>4. InJob(utterances)' = InJob(utterances)
          BY <1>2 DEF InJob
    <1>5. Owed' = Owed
          BY <1>1, <1>2, <1>3, <1>4 DEF Owed, Spoken, OwedShape
    <1>6. CASE endPending' = endPending
          BY <1>2, <1>5, <1>6 DEF T!turnVars
    <1>7. CASE endPending' # endPending
          <2>1. endPending' = TRUE /\ active # None
                BY <1>2, <1>7 DEF Inv, AvatarTypeOK, TurnShape
          <2>2. QED BY <1>2, <1>5, <2>1 DEF T!Close
    <1>8. QED BY <1>6, <1>7

LEMMA InterruptRefines ==
    ASSUME Inv, Interrupt
    PROVE  T!Cut
    <1>1. /\ UNCHANGED <<utterances, announced, stopped>> /\ active # None
          /\ active' = None /\ endPending' = FALSE
          BY DEF Interrupt, Inv, TurnShape, loopVars
    <1>2. Owed' = 0
          BY <1>1 DEF Owed
    <1>3. QED BY <1>1, <1>2 DEF T!Cut

\* What a frame takes from the buffer is owed until the frame is done.
LEMMA NextFrameRefines ==
    ASSUME Inv, NextFrame
    PROVE  UNCHANGED T!turnVars
    <1>1. OwedShape
          BY OwedFacts DEF Inv
    <1>2. UNCHANGED <<active, utterances, endPending, announced, stopped, tail>>
          BY DEF NextFrame, machineVars
    <1>3. InJob(utterances) = 0
          BY <1>1 DEF Inv, LoopShape, NextFrame, OwedShape
    <1>4. /\ job' \in Seq(SUBSET Nat)
          /\ \A i \in 1..Len(job') : job'[i] = {utterances}
          /\ Len(chunks') + Len(job') = Len(chunks)
          /\ chunks' \in Seq(SUBSET Nat)
          BY FrameTakes DEF Inv
    <1>5. Len(job') \in Nat /\ Len(chunks') \in Nat
          BY <1>4, LenProperties
    <1>6. InJob(utterances)' = Len(job')
          <2>1. CASE Len(job') = 0
                BY <2>1 DEF InJob
          <2>2. CASE Len(job') # 0
                <3>1. 1 \in 1..Len(job') /\ utterances' \in job'[1]
                      BY <1>2, <1>4, <1>5, <2>2
                <3>2. QED BY <3>1 DEF InJob
          <2>3. QED BY <2>1, <2>2
    <1>7. Owed' = Owed
          BY <1>1, <1>2, <1>3, <1>4, <1>5, <1>6 DEF Owed, Spoken, OwedShape
    <1>8. QED BY <1>2, <1>7 DEF T!turnVars

\* The end is announced with no more owed than the frame holds; any other
\* frame plays what it holds.
LEMMA FinishTickRefines ==
    ASSUME Inv, FinishTick, tick = "rendering", UNCHANGED stopped
    PROVE  T!Announce \/ T!Play \/ UNCHANGED T!turnVars
    <1>1. OwedShape
          BY OwedFacts DEF Inv
    <1>2. /\ UNCHANGED <<utterances, chunks, tail, stopped>>
          /\ job' = <<>> /\ ~stopped
          BY DEF FinishTick, audioVars, Inv, LoopShape, AvatarTypeOK
    <1>3. CASE endPending /\ Drained
          <2>1. /\ active # None /\ active' = None /\ endPending' = FALSE
                /\ announced' = announced \cup {utterances}
                BY <1>3 DEF FinishTick, Inv, TurnShape
          <2>2. Len(chunks) = 0 /\ tail = <<>>
                BY <1>3 DEF Drained
          <2>3. Owed <= ChunksPerFrame /\ Owed' = 0
                BY <1>1, <2>1, <2>2, AudioAssumption DEF Owed, Spoken, OwedShape
          <2>4. QED BY <1>2, <1>3, <2>1, <2>3 DEF T!Announce
    <1>4. CASE ~(endPending /\ Drained)
          <2>1. UNCHANGED <<active, endPending, announced>>
                BY <1>4 DEF FinishTick
          <2>2. InJob(utterances)' = 0
                <3>1. Len(job') = 0
                      BY <1>2
                <3>2. QED BY <3>1 DEF InJob
          <2>3. CASE active = None
                BY <1>2, <2>1, <2>3 DEF Owed, T!turnVars
          <2>4. CASE active # None
                <3>1. /\ Owed' \in Nat
                      /\ Owed - ChunksPerFrame <= Owed' /\ Owed' <= Owed
                      BY <1>1, <1>2, <2>1, <2>2, <2>4, AudioAssumption
                         DEF Owed, Spoken, OwedShape
                <3>2. QED BY <1>2, <2>1, <2>4, <3>1 DEF T!Play
          <2>5. QED BY <2>3, <2>4
    <1>5. QED BY <1>3, <1>4

LEMMA QuitRefines ==
    ASSUME Inv, Quit
    PROVE  T!GoOver
    <1>1. OwedShape
          BY OwedFacts DEF Inv
    <1>2. /\ UNCHANGED <<active, utterances, endPending, announced, chunks, tail>>
          /\ job' = <<>> /\ stopped' = TRUE
          BY DEF Quit, machineVars, audioVars
    <1>3. InJob(utterances)' = 0
          <2>1. Len(job') = 0
                BY <1>2
          <2>2. QED BY <2>1 DEF InJob
    <1>4. /\ Owed' \in Nat
          /\ Owed - ChunksPerFrame <= Owed' /\ Owed' <= Owed
          BY <1>1, <1>2, <1>3, AudioAssumption DEF Owed, Spoken, OwedShape
    <1>5. QED BY <1>2, <1>4 DEF T!GoOver

LEMMA StepRefines == Inv /\ [Next]_vars => [T!TurnNext]_T!turnVars
    <1> SUFFICES ASSUME Inv, [Next]_vars PROVE [T!TurnNext]_T!turnVars
        OBVIOUS
    <1>1. Inv'
          BY NextInv
    <1>2. ASSUME NEW e \in Events, NEW n \in 1..MaxSaid, Speak(e, n)
          PROVE  T!Say \/ T!Begin
          BY <1>1, <1>2, SpeakRefines
    <1>3. ASSUME NEW e \in Events \cup {None}, SpeakEnd(e)
          PROVE  T!Close \/ UNCHANGED T!turnVars
          BY <1>3, SpeakEndRefines
    <1>4. Interrupt => T!Cut
          BY InterruptRefines
    <1>5. ASSUME UNCHANGED <<active, utterances, endPending, announced, stopped,
                             chunks, tail, job>>
          PROVE  UNCHANGED T!turnVars
          BY <1>5 DEF T!turnVars, Owed, Spoken, InJob
    <1>6. StartListening \/ StopListening => UNCHANGED T!turnVars
          BY <1>5 DEF StartListening, StopListening, audioVars, loopVars
    <1>7. NextFrame => UNCHANGED T!turnVars
          BY NextFrameRefines
    <1>8. Rendered \/ RenderRaised => T!Announce \/ T!Play \/ UNCHANGED T!turnVars
          BY FinishTickRefines DEF Rendered, RenderRaised
    <1>9. GiveUp \/ Stop => T!GoOver
          BY QuitRefines DEF GiveUp, Stop
    <1>10. UNCHANGED vars => UNCHANGED T!turnVars
          BY <1>5 DEF vars, machineVars, audioVars, loopVars
    <1>11. QED
          BY <1>2, <1>3, <1>4, <1>6, <1>7, <1>8, <1>9, <1>10
             DEF Next, Control, RenderReturns, T!TurnNext

\* The session implements TurnCycle: agent.speak_ended comes once at most for
\* an utterance, for the active one, after the client closed it, and with all
\* that was said of it handed to the egress.
THEOREM AvatarImplementsTurnCycle == Safety => ImplementsTurnCycle
    BY InitRefines, StepRefines, AvatarInvariant, PTL
       DEF Safety, ImplementsTurnCycle, T!TurnSpec
=============================================================================
