------------------------- MODULE VideoBuffer_proofs -------------------------
(***************************************************************************)
(* Proofs about VideoBuffer, for any number of frames, any number of       *)
(* chunks and every limit of the buffer.                                   *)
(***************************************************************************)
EXTENDS VideoBuffer, FiniteSetTheorems, WellFoundedInduction, TLAPS

\* Where the chunks of a frame are, once some have come: in the buffer, all of
\* them, unless the frame was rendered or crowded out.
Accounted ==
    \A f \in FrameIds :
        /\ held[f] \subseteq arrived[f]
        /\ held[f] # ChunkIds
        /\ f \in rendered => arrived[f] = ChunkIds
        /\ arrived[f] # {} => f \in rendered \cup crowded \/ held[f] = arrived[f]

----------------------------------------------------------------------------
(* Lemmas about the operators *)

\* A set of frames that is not empty has an oldest one.
LEMMA OldestExists ==
    ASSUME NEW S \in SUBSET FrameIds, S # {}
    PROVE  Oldest(S) \in S /\ \A g \in S : Oldest(S) <= g
<1> DEFINE Below(f) == {k \in FrameIds : k < f}
           T == {Below(f) : f \in S}
<1>1. T \subseteq FiniteSubsetsOf(FrameIds) /\ T # {}
  <2>1. IsFiniteSet(FrameIds)
    BY VideoAssumption, FS_Interval DEF FrameIds
  <2>2. FiniteSubsetsOf(FrameIds) = SUBSET FrameIds
    BY <2>1, FS_FiniteSubsetsOfFinite
  <2>3. \A f \in S : Below(f) \in SUBSET FrameIds
    OBVIOUS
  <2> HIDE DEF Below
  <2>4. T \subseteq SUBSET FrameIds
    BY <2>3
  <2>5. T # {}
    <3>1. PICK f \in S : TRUE
      OBVIOUS
    <3> QED BY <3>1
  <2> QED BY <2>2, <2>4, <2>5
<1>2. PICK B \in T : \A C \in T : <<C, B>> \notin StrictSubsetOrdering(FrameIds)
  BY <1>1, FS_StrictSubsetOrderingWellFounded, WFMin
<1>3. PICK f \in S : B = Below(f)
  OBVIOUS
<1>4. ASSUME NEW g \in S PROVE f <= g
  <2>1. f \in Int /\ g \in Int
    BY VideoAssumption DEF FrameIds
  <2>2. SUFFICES ASSUME g < f PROVE FALSE
    BY <2>1
  <2>3. Below(g) \subseteq Below(f) /\ g \in Below(f) /\ g \notin Below(g)
    BY <2>1, <2>2, VideoAssumption DEF FrameIds
  <2>4. <<Below(g), Below(f)>> \in StrictSubsetOrdering(FrameIds)
    BY <2>3 DEF StrictSubsetOrdering
  <2> QED BY <1>2, <1>3, <2>4
<1> QED BY <1>4 DEF Oldest

LEMMA PendingIsFinite ==
    ASSUME NEW h
    PROVE  IsFiniteSet(Pending(h)) /\ Cardinality(Pending(h)) \in Nat
<1>1. IsFiniteSet(FrameIds)
  BY VideoAssumption, FS_Interval DEF FrameIds
<1>2. Pending(h) \in SUBSET FrameIds
  BY DEF Pending
<1>3. IsFiniteSet(Pending(h))
  BY <1>1, <1>2, FS_Subset
<1> QED BY <1>3, FS_CardinalityType

\* Only the full set of chunks is complete.
LEMMA CompleteMeansAll ==
    ASSUME NEW chunks \in SUBSET ChunkIds
    PROVE  Complete(chunks) <=> chunks = ChunkIds
<1>1. IsFiniteSet(ChunkIds) /\ Cardinality(ChunkIds) = Chunks
  BY VideoAssumption, FS_Interval DEF ChunkIds
<1> QED BY <1>1, FS_Subset DEF Complete

\* What the eviction does to a buffer with at most one frame too many: a frame
\* that loses its chunks leaves MaxPending newer ones behind.
LEMMA EvictedKeepsTheNewest ==
    ASSUME NEW h \in [FrameIds -> SUBSET ChunkIds],
           Cardinality(Pending(h)) <= MaxPending + 1
    PROVE  /\ Evicted(h) \in [FrameIds -> SUBSET ChunkIds]
           /\ Cardinality(Pending(Evicted(h))) <= MaxPending
           /\ \A f \in FrameIds :
                 \/ Evicted(h)[f] = h[f]
                 \/ Evicted(h)[f] = {} /\ Cardinality(Newer(Evicted(h), f)) >= MaxPending
<1>1. CASE Cardinality(Pending(h)) <= MaxPending
  <2>1. Evicted(h) = h
    BY <1>1, PendingIsFinite, VideoAssumption DEF Evicted
  <2> QED BY <1>1, <2>1
<1>2. CASE Cardinality(Pending(h)) > MaxPending
  <2> DEFINE o == Oldest(Pending(h))
             e == [h EXCEPT ![o] = {}]
  <2>1. Cardinality(Pending(h)) = MaxPending + 1 /\ IsFiniteSet(Pending(h))
    BY <1>2, PendingIsFinite, VideoAssumption
  <2>2. Pending(h) # {}
    BY <2>1, FS_EmptySet, VideoAssumption
  <2>3. o \in Pending(h) /\ (\A g \in Pending(h) : o <= g)
    <3>1. Pending(h) \in SUBSET FrameIds
      BY DEF Pending
    <3> QED BY <2>2, <3>1, OldestExists
  <2>4. Evicted(h) = e
    BY <1>2 DEF Evicted
  <2>5. o \in FrameIds /\ e \in [FrameIds -> SUBSET ChunkIds]
    BY <2>3 DEF Pending
  <2> HIDE DEF o
  <2>6. Pending(e) = Pending(h) \ {o}
    BY <2>5 DEF Pending
  <2>7. \A f \in FrameIds : e[f] = h[f] \/ (f = o /\ e[f] = {})
    BY <2>5
  <2> HIDE DEF e
  <2>8. Cardinality(Pending(e)) = MaxPending
    <3>1. Cardinality(Pending(h) \ {o}) = Cardinality(Pending(h)) - 1
      BY <2>1, <2>3, FS_RemoveElement
    <3> QED BY <2>1, <2>6, <3>1, VideoAssumption
  <2>9. Newer(e, o) = Pending(e)
    <3>1. \A g \in Pending(e) : g > o
      <4> TAKE g \in Pending(e)
      <4>1. g \in Pending(h) /\ g # o
        BY <2>6
      <4>2. o <= g /\ g \in FrameIds
        BY <2>3, <4>1 DEF Pending
      <4> QED BY <4>1, <4>2, <2>5, VideoAssumption DEF FrameIds
    <3> QED BY <3>1 DEF Newer
  <2>10. Cardinality(Newer(e, o)) >= MaxPending /\ Cardinality(Pending(e)) <= MaxPending
    BY <2>8, <2>9, VideoAssumption
  <2> QED BY <2>4, <2>5, <2>7, <2>10
<1> QED BY <1>1, <1>2, PendingIsFinite, VideoAssumption

\* A chunk makes at most one new entry.
LEMMA GrownByOne ==
    ASSUME NEW h \in [FrameIds -> SUBSET ChunkIds], NEW f \in FrameIds, NEW i \in ChunkIds,
           Cardinality(Pending(h)) <= MaxPending
    PROVE  /\ [h EXCEPT ![f] = @ \cup {i}] \in [FrameIds -> SUBSET ChunkIds]
           /\ Cardinality(Pending([h EXCEPT ![f] = @ \cup {i}])) <= MaxPending + 1
<1> DEFINE g == [h EXCEPT ![f] = @ \cup {i}]
<1>1. Pending(g) = Pending(h) \cup {f}
  BY DEF Pending
<1>2. IsFiniteSet(Pending(h)) /\ Cardinality(Pending(h)) \in Nat
  BY PendingIsFinite
<1>3. g \in [FrameIds -> SUBSET ChunkIds]
  OBVIOUS
<1> HIDE DEF g
<1>4. Cardinality(Pending(g)) = IF f \in Pending(h) THEN Cardinality(Pending(h))
                                ELSE Cardinality(Pending(h)) + 1
  BY <1>1, <1>2, FS_AddElement
<1>5. Cardinality(Pending(g)) <= MaxPending + 1
  BY <1>2, <1>4, VideoAssumption
<1> QED BY <1>3, <1>5 DEF g

\* What push_chunk does to the frame f it is called for and to the others.
LEMMA PushedIsTyped ==
    ASSUME TypeOK, NEW f \in FrameIds, NEW i \in ChunkIds, PushChunk(f, i)
    PROVE  /\ held' \in [FrameIds -> SUBSET ChunkIds]
           /\ Cardinality(Pending(held')) <= MaxPending
           /\ rendered' \in SUBSET FrameIds
<1> DEFINE grown == [held EXCEPT ![f] = @ \cup {i}]
<1>1. grown \in [FrameIds -> SUBSET ChunkIds] /\ Cardinality(Pending(grown)) <= MaxPending + 1
  BY GrownByOne DEF TypeOK
<1>2. CASE Complete(grown[f])
  <2>1. held' = [grown EXCEPT ![f] = {}] /\ rendered' = rendered \cup {f}
    BY <1>2 DEF PushChunk
  <2>2. Pending(held') \subseteq Pending(held)
    BY <2>1 DEF Pending, TypeOK
  <2>3. Cardinality(Pending(held')) <= Cardinality(Pending(held)) /\ Cardinality(Pending(held')) \in Nat
    BY <2>2, PendingIsFinite, FS_Subset
  <2>4. Cardinality(Pending(held')) <= MaxPending
    BY <2>3, PendingIsFinite, VideoAssumption DEF TypeOK
  <2> QED BY <1>1, <2>1, <2>4 DEF TypeOK
<1>3. CASE ~Complete(grown[f])
  <2>1. held' = Evicted(grown) /\ rendered' = rendered
    BY <1>3 DEF PushChunk
  <2> HIDE DEF grown
  <2> QED BY <1>1, <2>1, EvictedKeepsTheNewest DEF TypeOK
<1> QED BY <1>2, <1>3

----------------------------------------------------------------------------
\* Every state is well typed: above all, the buffer never holds more than
\* MaxPending frames.
THEOREM Typed == Spec => []TypeOK
<1>1. Init => TypeOK
  <2> SUFFICES ASSUME Init PROVE TypeOK
    OBVIOUS
  <2>1. Pending(held) = {}
    BY DEF Init, Pending
  <2>2. Cardinality(Pending(held)) <= MaxPending
    BY <2>1, FS_EmptySet, VideoAssumption
  <2> QED BY <2>2, VideoAssumption DEF Init, TypeOK
<1>2. TypeOK /\ [Next]_vars => TypeOK'
  <2> SUFFICES ASSUME TypeOK, [Next]_vars PROVE TypeOK'
    OBVIOUS
  <2>1. CASE SendFrame
    <3>1. next \in FrameIds /\ next + 1 \in 0 .. Frames
      BY <2>1, VideoAssumption DEF SendFrame, TypeOK, FrameIds
    <3> QED BY <2>1, <3>1 DEF SendFrame, TypeOK, Pending
  <2>2. CASE Lose
    BY <2>2 DEF Lose, TypeOK, Pending
  <2>3. CASE Receive
    <3>1. PICK c \in network :
             /\ network' = network \ {c}
             /\ PushChunk(c[1], c[2])
             /\ arrived' = [arrived EXCEPT ![c[1]] = @ \cup {c[2]}]
             /\ crowded' \subseteq crowded \cup FrameIds
             /\ next' = next
      BY <2>3 DEF Receive
    <3>2. c[1] \in FrameIds /\ c[2] \in ChunkIds
      BY DEF TypeOK
    <3>3. /\ held' \in [FrameIds -> SUBSET ChunkIds]
          /\ Cardinality(Pending(held')) <= MaxPending
          /\ rendered' \in SUBSET FrameIds
      BY <3>1, <3>2, PushedIsTyped DEF TypeOK
    <3> QED BY <3>1, <3>2, <3>3 DEF TypeOK, Pending
  <2>4. CASE UNCHANGED vars
    BY <2>4 DEF vars, TypeOK, Pending
  <2> QED BY <2>1, <2>2, <2>3, <2>4 DEF Next
<1> QED BY <1>1, <1>2, PTL DEF Spec

----------------------------------------------------------------------------
\* A chunk arrives: every frame stays accounted for.
LEMMA ReceiveKeepsAccount ==
    ASSUME TypeOK, Accounted, Receive
    PROVE  Accounted'
<1>1. PICK c \in network :
         /\ PushChunk(c[1], c[2])
         /\ arrived' = [arrived EXCEPT ![c[1]] = @ \cup {c[2]}]
         /\ crowded' = crowded \cup
               {g \in FrameIds : arrived'[g] # {} /\ g \notin rendered'
                                   /\ Cardinality(Newer(held', g)) >= MaxPending}
  BY DEF Receive
<1> DEFINE f == c[1]
           i == c[2]
           grown == [held EXCEPT ![f] = @ \cup {i}]
<1>2. f \in FrameIds /\ i \in ChunkIds
  BY DEF TypeOK
<1>3. grown \in [FrameIds -> SUBSET ChunkIds] /\ Cardinality(Pending(grown)) <= MaxPending + 1
  BY <1>2, GrownByOne DEF TypeOK
<1>4. \A g \in FrameIds :
         /\ grown[g] = IF g = f THEN held[g] \cup {i} ELSE held[g]
         /\ arrived'[g] = IF g = f THEN arrived[g] \cup {i} ELSE arrived[g]
  BY <1>1, <1>2 DEF TypeOK
<1>5. /\ Complete(grown[f]) <=> grown[f] = ChunkIds
      /\ ChunkIds # {}
  <2>1. grown[f] \in SUBSET ChunkIds
    BY <1>2, <1>3
  <2>2. 0 \in ChunkIds
    BY VideoAssumption DEF ChunkIds
  <2> HIDE DEF grown
  <2> QED BY <2>1, <2>2, CompleteMeansAll
<1>6. arrived' \in [FrameIds -> SUBSET ChunkIds]
  BY <1>1, <1>2 DEF TypeOK
<1>7. CASE Complete(grown[f])
  <2>1. held' = [grown EXCEPT ![f] = {}] /\ rendered' = rendered \cup {f}
    BY <1>1, <1>7 DEF PushChunk
  <2>2. SUFFICES ASSUME NEW g \in FrameIds
                 PROVE  /\ held'[g] \subseteq arrived'[g]
                        /\ held'[g] # ChunkIds
                        /\ g \in rendered' => arrived'[g] = ChunkIds
                        /\ \/ arrived'[g] = {}
                           \/ g \in rendered' \cup crowded'
                           \/ held'[g] = arrived'[g]
    BY DEF Accounted
  <2>3. held'[g] = IF g = f THEN {} ELSE held[g]
    BY <1>2, <1>3, <1>4, <2>1
  <2>4. /\ held[g] \subseteq arrived[g]
        /\ held[g] # ChunkIds
        /\ g \in rendered => arrived[g] = ChunkIds
        /\ arrived[g] # {} => g \in rendered \cup crowded \/ held[g] = arrived[g]
    BY DEF Accounted
  <2>5. arrived'[f] = ChunkIds
    <3> HIDE DEF grown, f, i
    <3>1. grown[f] = ChunkIds
      BY <1>5, <1>7
    <3>2. grown[f] = held[f] \cup {i} /\ arrived'[f] = arrived[f] \cup {i}
      BY <1>2, <1>4
    <3>3. held[f] \subseteq arrived[f] /\ arrived'[f] \subseteq ChunkIds
      BY <1>2, <1>6 DEF Accounted
    <3> QED BY <3>1, <3>2, <3>3
  <2> HIDE DEF f, i, grown
  <2>6. CASE g = f
    BY <1>5, <2>1, <2>3, <2>5, <2>6
  <2>7. CASE g # f
    BY <1>1, <1>4, <2>1, <2>3, <2>4, <2>7
  <2> QED BY <2>6, <2>7
<1>8. CASE ~Complete(grown[f])
  <2>1. held' = Evicted(grown) /\ rendered' = rendered
    BY <1>1, <1>8 DEF PushChunk
  <2>2. SUFFICES ASSUME NEW g \in FrameIds
                 PROVE  /\ held'[g] \subseteq arrived'[g]
                        /\ held'[g] # ChunkIds
                        /\ g \in rendered' => arrived'[g] = ChunkIds
                        /\ \/ arrived'[g] = {}
                           \/ g \in rendered' \cup crowded'
                           \/ held'[g] = arrived'[g]
    BY DEF Accounted
  <2> HIDE DEF grown
  <2>3. \/ held'[g] = grown[g]
        \/ held'[g] = {} /\ Cardinality(Newer(held', g)) >= MaxPending
    BY <1>3, <2>1, EvictedKeepsTheNewest
  <2>4. /\ held[g] \subseteq arrived[g]
        /\ held[g] # ChunkIds
        /\ g \in rendered => arrived[g] = ChunkIds
        /\ arrived[g] # {} => g \in rendered \cup crowded \/ held[g] = arrived[g]
    BY DEF Accounted
  <2>5. grown[g] \subseteq arrived'[g] /\ grown[g] # ChunkIds
    BY <1>4, <1>5, <1>8, <2>4
  <2>6. g \in rendered' => arrived'[g] = ChunkIds
    BY <1>2, <1>4, <1>6, <2>1, <2>4
  <2>7. \/ arrived'[g] = {}
        \/ g \in rendered' \cup crowded'
        \/ grown[g] = arrived'[g]
    BY <1>1, <1>4, <2>1, <2>4
  <2>8. held'[g] = {} /\ Cardinality(Newer(held', g)) >= MaxPending
          => arrived'[g] = {} \/ g \in rendered' \cup crowded'
    BY <1>1
  <2> QED BY <1>5, <2>3, <2>5, <2>6, <2>7, <2>8
<1> QED BY <1>7, <1>8

\* Every frame is accounted for: the inductive invariant.
THEOREM AlwaysAccounted == Spec => []Accounted
<1>1. Init => Accounted
  <2>1. 0 \in ChunkIds
    BY VideoAssumption DEF ChunkIds
  <2> QED BY <2>1 DEF Init, Accounted
<1>2. TypeOK /\ Accounted /\ [Next]_vars => Accounted'
  <2> SUFFICES ASSUME TypeOK, Accounted, [Next]_vars PROVE Accounted'
    OBVIOUS
  <2>1. CASE SendFrame
    BY <2>1 DEF SendFrame, Accounted
  <2>2. CASE Lose
    BY <2>2 DEF Lose, Accounted
  <2>3. CASE Receive
    BY <2>3, ReceiveKeepsAccount
  <2>4. CASE UNCHANGED vars
    BY <2>4 DEF vars, Accounted
  <2> QED BY <2>1, <2>2, <2>3, <2>4 DEF Next
<1> QED BY <1>1, <1>2, Typed, PTL DEF Spec

\* A frame is rendered when and only when its last chunk comes, unless
\* MaxPending newer frames were pending at some time in between.
THEOREM AlwaysLostOnlyWhenCrowded == Spec => []LostOnlyWhenCrowded
<1>1. Accounted => LostOnlyWhenCrowded
  <2>1. 0 \in ChunkIds
    BY VideoAssumption DEF ChunkIds
  <2> QED BY <2>1 DEF Accounted, LostOnlyWhenCrowded
<1> QED BY <1>1, AlwaysAccounted, PTL

=============================================================================
