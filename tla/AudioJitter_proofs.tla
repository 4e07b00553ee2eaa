-------------------------- MODULE AudioJitter_proofs --------------------------
(***************************************************************************)
(* Proofs about AudioJitter, for any capacity, cushion and patience of the *)
(* buffer and any stream: what the buffer holds; and, before the sequence  *)
(* numbers wrap, that playout is in order and passes nothing that waits.   *)
(***************************************************************************)
EXTENDS AudioJitter, FiniteSetTheorems, WellFoundedInduction, TLAPS

Seqs == 0 .. Modulus - 1

\* A frame's number, and a pointer that runs ahead of the last frame until the
\* buffer is stale, fit into the half of the sequence numbers the code compares.
BeforeTheWrap == Final + 1 + StaleTicks + MaxDue <= Modulus \div 2

\* What the code assumes of the buffer at the top of the playout loop.
BufferInv ==
    /\ due > 0 => jb.present
    /\ jb.present =>
         /\ WellFormed(jb)
         /\ jb.idle + due <= StaleTicks + MaxDue
         /\ due = 0 => jb.idle <= StaleTicks

\* The pointer is ahead of everything played, and not far beyond the last frame.
PointerInv ==
    /\ last # None => jb.present /\ jb.next # None /\ last < jb.next
    /\ jb.present /\ jb.next # None => jb.next <= Final + 1 + jb.idle

----------------------------------------------------------------------------
(* Sequence numbers *)

LEMMA ModIsSmall ==
    ASSUME NEW a \in Int, NEW m \in Nat, m > 0
    PROVE  a % m \in 0 .. m - 1
BY SMT

LEMMA ModOfSmall ==
    ASSUME NEW m \in Nat, NEW a \in 0 .. m - 1
    PROVE  a % m = a
BY SMT

LEMMA ModOfSmallNegative ==
    ASSUME NEW m \in Nat, NEW a \in Int, -m <= a, a < 0
    PROVE  a % m = a + m
BY SMT

LEMMA KeyIsSeq ==
    ASSUME NEW n \in Int
    PROVE  Key(n) \in Seqs
BY ModIsSmall, JitterAssumption DEF Key, Seqs

LEMMA FramesAreNat == \A n \in Frames : n \in Nat
BY StreamAssumption DEF Frames

LEMMA SetsAreFinite ==
    ASSUME NEW S \in SUBSET Frames
    PROVE  IsFiniteSet(S) /\ Cardinality(S) \in Nat
<1>1. IsFiniteSet(Frames)
  BY FS_Interval, StreamAssumption DEF Frames
<1>2. IsFiniteSet(S)
  BY <1>1, FS_Subset
<1> QED BY <1>2, FS_CardinalityType

----------------------------------------------------------------------------
(* The operators on a buffer *)

\* A buffer with frames has a smallest key.
LEMMA EarliestExists ==
    ASSUME NEW S \in SUBSET Frames, S # {}
    PROVE  Earliest(S) \in S /\ \A m \in S : Key(Earliest(S)) <= Key(m)
<1> DEFINE Below(k) == {j \in Seqs : j < k}
           T == {Below(Key(n)) : n \in S}
<1>1. T \subseteq FiniteSubsetsOf(Seqs) /\ T # {}
  <2>1. IsFiniteSet(Seqs)
    BY FS_Interval, JitterAssumption DEF Seqs
  <2>2. FiniteSubsetsOf(Seqs) = SUBSET Seqs
    BY <2>1, FS_FiniteSubsetsOfFinite
  <2>3. \A n \in S : Below(Key(n)) \in SUBSET Seqs
    OBVIOUS
  <2> HIDE DEF Below
  <2>4. T \subseteq SUBSET Seqs
    BY <2>3
  <2>5. T # {}
    <3>1. PICK n \in S : TRUE
      OBVIOUS
    <3> QED BY <3>1
  <2> QED BY <2>2, <2>4, <2>5
<1>2. PICK B \in T : \A C \in T : <<C, B>> \notin StrictSubsetOrdering(Seqs)
  BY <1>1, FS_StrictSubsetOrderingWellFounded, WFMin
<1>3. PICK n \in S : B = Below(Key(n))
  OBVIOUS
<1>4. ASSUME NEW m \in S PROVE Key(n) <= Key(m)
  <2>1. Key(n) \in Seqs /\ Key(m) \in Seqs
    BY FramesAreNat, KeyIsSeq
  <2>2. SUFFICES ASSUME Key(m) < Key(n) PROVE FALSE
    BY <2>1 DEF Seqs
  <2>3. /\ Below(Key(m)) \subseteq Below(Key(n))
        /\ Key(m) \in Below(Key(n)) /\ Key(m) \notin Below(Key(m))
    BY <2>1, <2>2, JitterAssumption DEF Seqs
  <2>4. <<Below(Key(m)), Below(Key(n))>> \in StrictSubsetOrdering(Seqs)
    BY <2>3 DEF StrictSubsetOrdering
  <2> QED BY <1>2, <1>3, <2>4
<1> QED BY <1>4 DEF Earliest

\* The bound on the idle pulls is that of the idle pulls there are.
LEMMA OfIdleBound ==
    ASSUME NEW F, NEW i, NEW b \in Buffers(F, i), NEW j, b.idle \in 0 .. j
    PROVE  b \in Buffers(F, j)
BY Zenon DEF Buffers

\* An insertion keeps the capacity, and one frame per sequence number.
LEMMA InsertKeepsWellFormed ==
    ASSUME NEW S \in SUBSET Frames, NEW n \in Frames,
           Cardinality(S) <= MaxFrames,
           \A k, m \in S : Key(k) = Key(m) => k = m
    PROVE  /\ Insert(S, n) \in SUBSET Frames
           /\ Cardinality(Insert(S, n)) <= MaxFrames
           /\ \A k, m \in Insert(S, n) : Key(k) = Key(m) => k = m
<1> DEFINE kept == IF Cardinality(S) >= MaxFrames THEN S \ {Earliest(S)} ELSE S
           rest == {m \in kept : Key(m) # Key(n)}
<1>1. Insert(S, n) = rest \cup {n}
  BY DEF Insert
<1>2. kept \in SUBSET S /\ rest \in SUBSET kept
  OBVIOUS
<1>3. IsFiniteSet(S) /\ Cardinality(S) \in Nat
  BY SetsAreFinite
<1>4. Cardinality(kept) <= MaxFrames - 1 /\ Cardinality(kept) \in Nat /\ IsFiniteSet(kept)
  <2>1. CASE Cardinality(S) >= MaxFrames
    <3>1. S # {}
      BY <2>1, FS_EmptySet, JitterAssumption
    <3>2. Cardinality(S \ {Earliest(S)}) = Cardinality(S) - 1 /\ IsFiniteSet(S \ {Earliest(S)})
      BY <1>3, <3>1, EarliestExists, FS_RemoveElement
    <3>3. Cardinality(S \ {Earliest(S)}) \in Nat
      BY <3>2, FS_CardinalityType
    <3> QED BY <1>3, <2>1, <3>2, <3>3, JitterAssumption
  <2>2. CASE ~(Cardinality(S) >= MaxFrames)
    BY <1>3, <2>2, JitterAssumption
  <2> QED BY <2>1, <2>2
<1> HIDE DEF kept
<1>5. IsFiniteSet(rest) /\ Cardinality(rest) <= Cardinality(kept) /\ Cardinality(rest) \in Nat
  BY <1>2, <1>4, FS_Subset, FS_CardinalityType
<1>6. n \notin rest
  OBVIOUS
<1>7. Cardinality(rest \cup {n}) = Cardinality(rest) + 1
  BY <1>5, <1>6, FS_AddElement
<1>8. \A k, m \in rest \cup {n} : Key(k) = Key(m) => k = m
  BY <1>2
<1> HIDE DEF rest
<1>9. Cardinality(rest \cup {n}) <= MaxFrames
  BY <1>4, <1>5, <1>7, JitterAssumption
<1> QED BY <1>1, <1>2, <1>8, <1>9

\* What a pull plays: the expected frame, or the earliest if that is ahead.
LEMMA PlayoutSeqIsSeq ==
    ASSUME NEW b \in Buffers(Frames, StaleTicks + MaxDue), b.frames # {}
    PROVE  /\ PlayoutSeq(b) \in Seqs
           /\ PlayoutSeq(b) = Key(Earliest(b.frames)) \/ PlayoutSeq(b) = b.next
           /\ b.next # None /\ ~b.buffering /\ ~Ahead(Key(Earliest(b.frames)), b.next)
                => PlayoutSeq(b) = b.next
           /\ Earliest(b.frames) \in b.frames
           /\ \A m \in b.frames : Key(Earliest(b.frames)) <= Key(m)
<1>1. b.frames \in SUBSET Frames /\ b.next \in {None} \cup Seqs
  BY DEF Buffers, Seqs
<1>2. /\ Earliest(b.frames) \in b.frames
      /\ \A m \in b.frames : Key(Earliest(b.frames)) <= Key(m)
  BY <1>1, EarliestExists
<1>3. Key(Earliest(b.frames)) \in Seqs
  <2>1. Earliest(b.frames) \in Frames
    BY <1>1, <1>2
  <2>2. Earliest(b.frames) \in Int
    BY <2>1, FramesAreNat
  <2> QED BY <2>2, KeyIsSeq
<1> QED BY <1>1, <1>2, <1>3 DEF PlayoutSeq

\* What a pull makes of a well-formed buffer.
LEMMA PullIsTyped ==
    ASSUME NEW i \in Nat, NEW b \in Buffers(Frames, i), WellFormed(b),
           i <= StaleTicks + MaxDue
    PROVE  /\ Pull(b) \in Buffers(Frames, i + 1)
           /\ WellFormed(Pull(b))
           /\ Pull(b).idle <= b.idle + 1
           /\ Pull(b).frames \in SUBSET b.frames
           /\ Delivered(b) \in SUBSET b.frames
<1>1. /\ b.frames \in SUBSET Frames /\ b.idle \in 0 .. i /\ b.next \in {None} \cup Seqs
      /\ b.present = TRUE
      /\ Cardinality(b.frames) <= MaxFrames
      /\ \A m, n \in b.frames : Key(m) = Key(n) => m = n
      /\ b.buffering => b.next = None
  BY DEF Buffers, WellFormed, Seqs
<1>2. Delivered(b) \in SUBSET b.frames
  BY DEF Delivered
<1>3. CASE b.frames = {}
  <2>1. Pull(b) = [b EXCEPT !.idle = @ + 1, !.buffering = TRUE, !.next = None]
    BY <1>3 DEF Pull
  <2>2. Pull(b) \in Buffers(Frames, i + 1)
    <3>1. Pull(b) = [b EXCEPT !.buffering = TRUE, !.next = None, !.frames = b.frames,
                              !.idle = b.idle + 1]
      BY <2>1 DEF Buffers
    <3>2. b.idle + 1 \in 0 .. i + 1
      BY <1>1
    <3>3. TRUE \in BOOLEAN /\ None \in {None} \cup 0 .. Modulus - 1
      OBVIOUS
    <3> QED BY <1>1, <3>1, <3>2, <3>3, Zenon DEF Buffers
  <2>3. /\ Pull(b).frames = b.frames /\ Pull(b).idle = b.idle + 1
        /\ Pull(b).next = None
    BY <2>1 DEF Buffers
  <2> QED BY <1>1, <1>2, <2>2, <2>3 DEF WellFormed
<1>4. CASE b.frames # {} /\ b.buffering /\ Cardinality(b.frames) < MinDepth
  <2>1. Pull(b) = b
    BY <1>4 DEF Pull
  <2>2. Pull(b) \in Buffers(Frames, i + 1)
    <3>1. b.idle \in 0 .. i + 1
      BY <1>1
    <3> QED BY <2>1, <3>1, OfIdleBound
  <2> QED BY <1>1, <1>2, <2>1, <2>2
<1>5. CASE b.frames # {} /\ ~(b.buffering /\ Cardinality(b.frames) < MinDepth)
  <2> DEFINE nx == (PlayoutSeq(b) + 1) % Modulus
             fr == b.frames \ Delivered(b)
             id == IF Delivered(b) = {} THEN b.idle + 1 ELSE 0
  <2>1. Pull(b) = [b EXCEPT !.buffering = FALSE, !.next = nx, !.frames = fr, !.idle = id]
    BY <1>5 DEF Pull
  <2>2. nx \in Seqs
    <3>1. b \in Buffers(Frames, StaleTicks + MaxDue)
      <4>1. b.idle \in 0 .. StaleTicks + MaxDue
        BY <1>1, StreamAssumption, JitterAssumption
      <4> QED BY <4>1, OfIdleBound
    <3>2. PlayoutSeq(b) \in Seqs
      BY <1>5, <3>1, PlayoutSeqIsSeq
    <3> HIDE DEF nx
    <3> QED BY <3>2, ModIsSmall, JitterAssumption DEF Seqs, nx
  <2>3. id \in 0 .. i + 1 /\ id <= b.idle + 1
    BY <1>1
  <2>4. fr \in SUBSET b.frames /\ Cardinality(fr) <= MaxFrames
    <3>1. fr \in SUBSET b.frames
      OBVIOUS
    <3> HIDE DEF fr
    <3>2. Cardinality(fr) <= Cardinality(b.frames) /\ Cardinality(fr) \in Nat
          /\ Cardinality(b.frames) \in Nat
      BY <1>1, <3>1, SetsAreFinite, FS_Subset
    <3> QED BY <1>1, <3>1, <3>2, JitterAssumption
  <2> HIDE DEF nx, fr, id
  <2>5. /\ Pull(b).frames = fr /\ Pull(b).idle = id
        /\ Pull(b).buffering = FALSE
    BY <2>1 DEF Buffers
  <2>6. Pull(b) \in Buffers(Frames, i + 1)
    <3>1. nx \in {None} \cup 0 .. Modulus - 1 /\ fr \in SUBSET Frames
      BY <1>1, <2>2, <2>4 DEF Seqs
    <3>2. FALSE \in BOOLEAN
      OBVIOUS
    <3> QED BY <2>1, <2>3, <3>1, <3>2, Zenon DEF Buffers
  <2> QED BY <1>1, <1>2, <2>3, <2>4, <2>5, <2>6 DEF WellFormed
<1> QED BY <1>3, <1>4, <1>5

----------------------------------------------------------------------------
(* Types and the buffer *)

MostIdle == StaleTicks + MaxDue

LEMMA JbIsBuffer ==
    ASSUME TypeOK, jb.present
    PROVE  jb \in Buffers(Frames, MostIdle) /\ jb.frames \in SUBSET Frames /\ jb.idle \in Nat
<1>1. jb # Absent
  BY DEF Absent
<1>2. jb \in Buffers(Frames, MostIdle)
  BY <1>1, Zenon DEF TypeOK, MostIdle
<1>3. jb.frames \in SUBSET Frames /\ jb.idle \in 0 .. MostIdle
  BY <1>2 DEF Buffers
<1> QED BY <1>2, <1>3

LEMMA PushKeeps ==
    ASSUME TypeOK, BufferInv, NEW n \in Frames, Push(n)
    PROVE  TypeOK' /\ BufferInv'
<1> DEFINE b == IF jb.present THEN jb ELSE NewBuffer
           S == Insert(b.frames, n)
<1>1. /\ b \in Buffers(Frames, MostIdle) /\ WellFormed(b)
      /\ b.frames \in SUBSET Frames /\ b.idle \in 0 .. StaleTicks
  <2>1. CASE jb.present
    BY <2>1, JbIsBuffer, JitterAssumption DEF Push, BufferInv
  <2>2. CASE ~jb.present
    <3>1. b = NewBuffer
      BY <2>2
    <3>2. 0 \in 0 .. MostIdle /\ {} \in SUBSET Frames /\ 0 \in 0 .. StaleTicks
      BY JitterAssumption, StreamAssumption DEF MostIdle
    <3>3. NewBuffer \in Buffers(Frames, MostIdle)
      BY <3>2, Zenon DEF NewBuffer, Buffers
    <3>4. Cardinality({}) <= MaxFrames
      BY FS_EmptySet, JitterAssumption
    <3>5. WellFormed(NewBuffer)
      BY <3>4 DEF NewBuffer, WellFormed
    <3>6. NewBuffer.frames = {} /\ NewBuffer.idle = 0
      BY DEF NewBuffer
    <3> HIDE DEF b
    <3> QED BY <3>1, <3>2, <3>3, <3>5, <3>6
  <2> QED BY <2>1, <2>2
<1>2. jb' = [b EXCEPT !.frames = S]
  BY DEF Push
<1> HIDE DEF b
<1>3. /\ S \in SUBSET Frames /\ Cardinality(S) <= MaxFrames
      /\ \A k, m \in S : Key(k) = Key(m) => k = m
  BY <1>1, InsertKeepsWellFormed DEF WellFormed
<1> HIDE DEF S
<1>4. jb' \in Buffers(Frames, MostIdle)
  BY <1>1, <1>2, <1>3, Zenon DEF Buffers
<1>5. /\ jb'.present = TRUE /\ jb'.frames = S /\ jb'.next = b.next
      /\ jb'.buffering = b.buffering /\ jb'.idle = b.idle
  BY <1>1, <1>2 DEF Buffers
<1>6. WellFormed(jb')
  BY <1>1, <1>3, <1>5 DEF WellFormed
<1>7. TypeOK'
  BY <1>4 DEF TypeOK, Push, MostIdle
<1>8. due' = 0 /\ jb'.idle \in 0 .. StaleTicks
  BY <1>1, <1>5 DEF Push
<1>9. BufferInv'
  BY <1>6, <1>8, JitterAssumption, StreamAssumption DEF BufferInv
<1> QED BY <1>7, <1>9

LEMMA PullOneKeeps ==
    ASSUME TypeOK, BufferInv, PullOne
    PROVE  TypeOK' /\ BufferInv'
<1> DEFINE b == Pull(jb)
<1>1. /\ jb \in Buffers(Frames, MostIdle) /\ WellFormed(jb) /\ jb.idle \in Nat
      /\ jb.frames \in SUBSET Frames
      /\ jb.idle + due <= MostIdle /\ due \in 1 .. MaxDue /\ MostIdle \in Nat
  BY JbIsBuffer, StreamAssumption, JitterAssumption DEF PullOne, BufferInv, TypeOK, MostIdle
<1>2. /\ b \in Buffers(Frames, MostIdle + 1) /\ WellFormed(b) /\ b.idle <= jb.idle + 1
      /\ Delivered(jb) \in SUBSET jb.frames
  <2>1. MostIdle <= StaleTicks + MaxDue
    BY <1>1 DEF MostIdle
  <2> QED BY <1>1, <2>1, PullIsTyped, Zenon
<1>3. /\ due' = due - 1 /\ out' = Delivered(jb)
      /\ jb' = IF due' = 0 /\ Stale(b) THEN Absent ELSE b
  BY DEF PullOne
<1> HIDE DEF b
<1>4. b.idle \in Nat /\ b.present = TRUE
  <2>1. b.idle \in 0 .. MostIdle + 1 /\ b.present = TRUE
    BY <1>2 DEF Buffers
  <2> QED BY <1>1, <2>1
<1>5. b.idle + due' <= MostIdle /\ due' \in 0 .. MaxDue
  BY <1>1, <1>2, <1>3, <1>4, StreamAssumption
<1>6. b \in Buffers(Frames, MostIdle)
  <2>1. b.idle \in 0 .. MostIdle
    BY <1>1, <1>4, <1>5
  <2> QED BY <1>2, <2>1, OfIdleBound
<1>7. out' \in SUBSET Frames
  BY <1>1, <1>2, <1>3
<1>8. last' \in {None} \cup Frames
  <2>1. last' \in {None, last} \cup out'
    BY DEF PullOne
  <2> QED BY <1>7, <2>1 DEF TypeOK
<1>9. TypeOK'
  BY <1>3, <1>5, <1>6, <1>7, <1>8 DEF TypeOK, PullOne, MostIdle
<1>10. BufferInv'
  <2>1. CASE due' = 0 /\ Stale(b)
    <3>1. jb'.present = FALSE
      BY <1>3, <2>1 DEF Absent
    <3>2. ~(due' > 0)
      BY <2>1
    <3> QED BY <3>1, <3>2 DEF BufferInv
  <2>2. CASE ~(due' = 0 /\ Stale(b))
    <3>1. jb' = b /\ (due' = 0 => b.idle <= StaleTicks)
      BY <1>3, <1>4, <2>2, JitterAssumption DEF Stale
    <3> QED BY <1>2, <1>4, <1>5, <3>1 DEF BufferInv, MostIdle
  <2> QED BY <2>1, <2>2
<1> QED BY <1>9, <1>10

LEMMA InvInitially == Init => TypeOK /\ BufferInv
<1> SUFFICES ASSUME Init PROVE TypeOK /\ BufferInv
  OBVIOUS
<1>1. TypeOK
  BY StreamAssumption DEF Init, TypeOK, Frames
<1>2. jb.present = FALSE /\ due = 0
  BY DEF Init, Absent
<1> QED BY <1>1, <1>2 DEF BufferInv

LEMMA InvByEveryStep == TypeOK /\ BufferInv /\ [Next]_vars => TypeOK' /\ BufferInv'
<1> SUFFICES ASSUME TypeOK, BufferInv, [Next]_vars PROVE TypeOK' /\ BufferInv'
  OBVIOUS
<1>1. CASE Send
  <2>1. sent \in Frames /\ sent' \in First .. Final + 1
    BY <1>1, StreamAssumption DEF Send, TypeOK, Frames
  <2> QED BY <1>1, <2>1 DEF Send, TypeOK, BufferInv, WellFormed
<1>2. ASSUME NEW n \in Frames, Lose(n) PROVE TypeOK' /\ BufferInv'
  BY <1>2 DEF Lose, TypeOK, BufferInv, WellFormed
<1>3. ASSUME NEW n \in Frames, Push(n) PROVE TypeOK' /\ BufferInv'
  BY <1>3, PushKeeps
<1>4. CASE Wake
  <2>1. due' \in 1 .. MaxDue /\ jb' = jb /\ jb.present /\ jb.idle \in Nat /\ jb.idle <= StaleTicks
    BY <1>4, JbIsBuffer DEF Wake, BufferInv
  <2>2. TypeOK'
    BY <1>4, <2>1 DEF Wake, TypeOK
  <2>3. BufferInv'
    BY <2>1, StreamAssumption, JitterAssumption DEF BufferInv, WellFormed
  <2> QED BY <2>2, <2>3
<1>5. CASE PullOne
  BY <1>5, PullOneKeeps
<1>6. CASE UNCHANGED vars
  BY <1>6 DEF vars, TypeOK, BufferInv, WellFormed
<1> QED BY <1>1, <1>2, <1>3, <1>4, <1>5, <1>6 DEF Next

\* Every state is well typed: no pull counts more idle ticks than the buffer may
\* have before it is discarded and the wakeup may still add.
THEOREM Typed == Spec => []TypeOK
<1> QED BY InvInitially, InvByEveryStep, PTL DEF Spec

\* The buffer is well formed at all times, in the middle of a wakeup, too.
THEOREM AlwaysBuffer == Spec => []BufferInv
<1> QED BY InvInitially, InvByEveryStep, PTL DEF Spec

\* The buffer never holds more than MaxFrames frames or two of one number, and
\* has no playout pointer while it waits for its cushion.
THEOREM BufferAlwaysWellFormed == Spec => []BufferWellFormed
<1>1. BufferInv => BufferWellFormed
  BY DEF BufferInv, BufferWellFormed
<1> QED BY <1>1, AlwaysBuffer, PTL

----------------------------------------------------------------------------
(* Playout *)

\* A pull that plays: the buffer gives up what it delivers, and the pointer is
\* one beyond what it tried to play.
LEMMA PlayingPull ==
    ASSUME NEW b \in Buffers(Frames, MostIdle), b.frames # {},
           ~(b.buffering /\ Cardinality(b.frames) < MinDepth)
    PROVE  /\ Pull(b).next = (PlayoutSeq(b) + 1) % Modulus
           /\ Pull(b).frames = b.frames \ Delivered(b)
           /\ Pull(b).idle = (IF Delivered(b) = {} THEN b.idle + 1 ELSE 0)
           /\ Delivered(b) = {n \in b.frames : Key(n) = PlayoutSeq(b)}
BY DEF Pull, Delivered, Buffers

LEMMA WhatPullOneDoes ==
    ASSUME TypeOK, BufferInv, PullOne
    PROVE  /\ jb.present
           /\ jb \in Buffers(Frames, MostIdle)
           /\ jb.frames \in SUBSET Frames
           /\ jb.next \in {None} \cup Seqs
           /\ jb.idle \in Nat /\ jb.idle + due <= MostIdle /\ due \in Nat \ {0}
           /\ jb.buffering => jb.next = None
           /\ \A m, n \in jb.frames : Key(m) = Key(n) => m = n
           /\ jb'.present => jb' = Pull(jb)
<1>1. jb.present /\ jb \in Buffers(Frames, MostIdle) /\ jb.frames \in SUBSET Frames
  BY JbIsBuffer DEF BufferInv, PullOne
<1>2. jb.next \in {None} \cup Seqs
  BY <1>1 DEF Buffers, Seqs
<1>3. jb.idle \in Nat /\ jb.idle + due <= MostIdle /\ due \in Nat \ {0}
  BY <1>1, JbIsBuffer, StreamAssumption DEF BufferInv, PullOne, TypeOK, MostIdle
<1>4. /\ jb.buffering => jb.next = None
      /\ \A m, n \in jb.frames : Key(m) = Key(n) => m = n
  BY <1>1 DEF BufferInv, WellFormed
<1>5. ASSUME jb'.present PROVE jb' = Pull(jb)
  <2>1. jb' = Absent \/ jb' = Pull(jb)
    BY DEF PullOne
  <2>2. jb' # Absent
    BY <1>5 DEF Absent
  <2> QED BY <2>1, <2>2
<1> QED BY <1>1, <1>2, <1>3, <1>4, <1>5

\* No key that is at least the pointer is less than the next one: what that says of
\* the frames depends on how their keys compare, see ToComeIsNotLess.
LEMMA NothingPassed ==
    ASSUME TypeOK, BufferInv, PullOne, jb.next # None, jb'.present,
           NEW n \in jb'.frames, Key(n) >= jb.next
    PROVE  Key(n) >= jb'.next
<1> DEFINE s == PlayoutSeq(jb)
<1>1. /\ jb \in Buffers(Frames, MostIdle) /\ jb.frames \in SUBSET Frames
      /\ jb.next \in Seqs /\ jb' = Pull(jb) /\ ~jb.buffering
      /\ \A k, m \in jb.frames : Key(k) = Key(m) => k = m
  BY WhatPullOneDoes
<1>2. jb.frames # {}
  <2>1. CASE jb.frames = {}
    <3>1. Pull(jb).frames = jb.frames
      BY <1>1, <2>1 DEF Pull, Buffers
    <3> QED BY <1>1, <2>1, <3>1
  <2> QED BY <2>1
<1>3. /\ jb'.next = (s + 1) % Modulus
      /\ n \in jb.frames /\ Key(n) # s
  BY <1>1, <1>2, PlayingPull
<1>4. /\ s \in Seqs
      /\ s = Key(Earliest(jb.frames)) \/ s = jb.next
      /\ \A m \in jb.frames : Key(Earliest(jb.frames)) <= Key(m)
  BY <1>1, <1>2, PlayoutSeqIsSeq DEF MostIdle
<1> HIDE DEF s
<1>5. Key(n) \in Seqs
  <2>1. n \in Frames
    BY <1>1, <1>3
  <2>2. n \in Int
    BY <2>1, FramesAreNat
  <2> QED BY <2>2, KeyIsSeq
<1>6. Key(n) >= s + 1
  <2>1. Key(n) >= s
    <3>1. CASE s = jb.next
      BY <3>1
    <3>2. CASE s = Key(Earliest(jb.frames))
      BY <1>3, <1>4, <1>5, <3>2 DEF Seqs
    <3> QED BY <1>4, <3>1, <3>2
  <2> QED BY <1>3, <1>4, <1>5, <2>1 DEF Seqs
<1>7. s + 1 \in 0 .. Modulus - 1
  BY <1>4, <1>5, <1>6, JitterAssumption DEF Seqs
<1>8. (s + 1) % Modulus = s + 1
  BY <1>7, ModOfSmall, JitterAssumption
<1> QED BY <1>3, <1>6, <1>8

\* Before the wrap a frame's key is its number.
LEMMA KeyIsNumber ==
    ASSUME BeforeTheWrap, NEW n \in Frames
    PROVE  Key(n) = n /\ n \in 0 .. Final /\ n \in 0 .. Modulus - 1
<1>1. n \in 0 .. Final
  BY StreamAssumption DEF Frames
<1>2. Modulus \div 2 <= Modulus - 1 /\ Modulus \div 2 \in Int
  BY JitterAssumption
<1>3. n \in 0 .. Modulus - 1
  BY <1>1, <1>2, StreamAssumption, JitterAssumption DEF BeforeTheWrap
<1> QED BY <1>1, <1>3, ModOfSmall, JitterAssumption DEF Key

\* Before the wrap the comparison of the code is that of the numbers.
LEMMA AheadIsGreater ==
    ASSUME BeforeTheWrap, NEW e \in 0 .. Final, NEW x \in Nat,
           x <= Final + 1 + MostIdle, Ahead(e, x)
    PROVE  e > x
<1> SUFFICES ASSUME e <= x PROVE FALSE
  OBVIOUS
<1> DEFINE h == Modulus \div 2
<1>1. h \in Nat /\ 2 * h <= Modulus /\ h < Modulus /\ x - e <= h
  BY JitterAssumption, StreamAssumption DEF BeforeTheWrap, MostIdle
<1>2. Diff(e, x) > 0 /\ Diff(e, x) < h
  BY DEF Ahead
<1> HIDE DEF h
<1>3. CASE e = x
  <2>1. Diff(e, x) = 0
    BY <1>3, ModOfSmall, JitterAssumption DEF Diff
  <2> QED BY <1>2, <2>1
<1>4. CASE e < x
  <2>1. e - x \in Int /\ -Modulus <= e - x /\ e - x < 0
    BY <1>1, <1>4, StreamAssumption, JitterAssumption
  <2>2. Diff(e, x) = e - x + Modulus
    BY <2>1, ModOfSmallNegative, JitterAssumption DEF Diff
  <2> QED BY <1>1, <1>2, <2>2, StreamAssumption, JitterAssumption
<1> QED BY <1>3, <1>4, StreamAssumption

\* Before the wrap the frames to come are those with a key at or above the pointer.
LEMMA ToComeIsNotLess ==
    ASSUME BeforeTheWrap, NEW n \in Frames, NEW p \in Nat, p <= Final + 1 + MostIdle
    PROVE  ToCome(n, p) <=> Key(n) >= p
<1> DEFINE h == Modulus \div 2
<1>1. h \in Nat /\ 2 * h <= Modulus /\ h < Modulus /\ p <= h
  BY JitterAssumption, StreamAssumption DEF BeforeTheWrap, MostIdle
<1>2. n \in Nat /\ n < h /\ Key(n) = n
  BY KeyIsNumber, JitterAssumption, StreamAssumption DEF BeforeTheWrap
<1>3. ToCome(n, p) <=> Diff(n, p) < h
  BY <1>2 DEF ToCome
<1> HIDE DEF h
<1>4. CASE n >= p
  <2>1. n - p \in 0 .. Modulus - 1 /\ n - p < h
    BY <1>1, <1>2, <1>4, JitterAssumption
  <2>2. Diff(n, p) = n - p
    BY <2>1, ModOfSmall, JitterAssumption DEF Diff
  <2> QED BY <1>2, <1>3, <1>4, <2>1, <2>2
<1>5. CASE n < p
  <2>1. n - p \in Int /\ -Modulus <= n - p /\ n - p < 0
    BY <1>1, <1>2, <1>5, JitterAssumption
  <2>2. Diff(n, p) = n - p + Modulus
    BY <2>1, ModOfSmallNegative, JitterAssumption DEF Diff
  <2>3. ~(Diff(n, p) < h)
    BY <1>1, <1>2, <2>2, JitterAssumption
  <2> QED BY <1>2, <1>3, <1>5, <2>3
<1> QED BY <1>2, <1>4, <1>5

\* What a pull before the wrap does to the pointer and to the history.
LEMMA PulledInSequence ==
    ASSUME BeforeTheWrap, TypeOK, BufferInv, PointerInv, PullOne
    PROVE  PointerInv' /\ \A n \in out' : n > last \/ last = None
<1> DEFINE b == Pull(jb)
           s == PlayoutSeq(jb)
<1>1. /\ jb.present /\ jb \in Buffers(Frames, MostIdle) /\ jb.frames \in SUBSET Frames
      /\ jb.next \in {None} \cup Seqs
      /\ jb.idle \in Nat /\ jb.idle + due <= MostIdle /\ due \in Nat \ {0}
      /\ jb.buffering => jb.next = None
      /\ jb'.present => jb' = b
  BY WhatPullOneDoes
<1>2. /\ out' = Delivered(jb)
      /\ last' = IF ~jb'.present \/ b.next = None THEN None
                 ELSE IF out' # {} THEN CHOOSE n \in out' : TRUE ELSE last
  BY DEF PullOne
<1>3. /\ last # None => jb.next # None /\ last < jb.next
      /\ jb.next # None => jb.next <= Final + 1 + jb.idle
  BY <1>1 DEF PointerInv
<1>4. last \in {None} \cup Frames /\ None \notin Nat
  BY DEF TypeOK, None
<1>5. CASE jb.frames = {} \/ (jb.buffering /\ Cardinality(jb.frames) < MinDepth)
  <2>1. out' = {} /\ b.next = None
    <3>1. CASE jb.frames = {}
      BY <1>1, <1>2, <3>1 DEF Pull, Delivered, Buffers
    <3>2. CASE jb.frames # {} /\ jb.buffering /\ Cardinality(jb.frames) < MinDepth
      BY <1>1, <1>2, <3>2 DEF Pull, Delivered
    <3> QED BY <1>5, <3>1, <3>2
  <2> HIDE DEF b
  <2>2. last' = None /\ (jb'.present => jb'.next = None)
    BY <1>1, <1>2, <2>1
  <2> QED BY <2>1, <2>2 DEF PointerInv
<1>6. CASE jb.frames # {} /\ ~(jb.buffering /\ Cardinality(jb.frames) < MinDepth)
  <2> DEFINE e == Earliest(jb.frames)
  <2>1. /\ b.next = (s + 1) % Modulus
        /\ b.idle = (IF out' = {} THEN jb.idle + 1 ELSE 0)
        /\ out' = {n \in jb.frames : Key(n) = s}
    BY <1>1, <1>2, <1>6, PlayingPull
  <2>2. /\ s \in Seqs /\ (s = Key(e) \/ s = jb.next)
        /\ jb.next # None /\ ~jb.buffering /\ ~Ahead(Key(e), jb.next) => s = jb.next
        /\ e \in jb.frames
    BY <1>1, <1>6, PlayoutSeqIsSeq DEF MostIdle
  <2> HIDE DEF b, s, e
  <2>3. e \in Frames /\ Key(e) = e /\ e \in 0 .. Final
    BY <1>1, <2>2, KeyIsNumber
  <2>4. s \in Nat /\ s <= Final + MostIdle
    <3>1. MostIdle \in Nat /\ Final \in Nat
      BY StreamAssumption, JitterAssumption DEF MostIdle
    <3>2. s \in Nat
      BY <2>2 DEF Seqs
    <3>3. CASE s = Key(e)
      BY <2>3, <3>1, <3>3
    <3>4. CASE s = jb.next
      <4>1. s # None
        BY <3>2 DEF None
      <4> QED BY <1>1, <1>3, <3>1, <3>2, <3>4, <4>1
    <3> QED BY <2>2, <3>2, <3>3, <3>4
  <2>5. s + 1 \in 0 .. Modulus - 1
    <3>1. Modulus \div 2 <= Modulus - 1 /\ Modulus \div 2 \in Int
      BY JitterAssumption
    <3> QED BY <2>4, <3>1, StreamAssumption, JitterAssumption DEF BeforeTheWrap, MostIdle
  <2>6. b.next = s + 1 /\ b.next # None
    <3>1. b.next = s + 1
      BY <2>1, <2>5, ModOfSmall, JitterAssumption
    <3> QED BY <2>4, <3>1 DEF None
  <2>7. last # None => last < s
    <3> SUFFICES ASSUME last # None PROVE last < s
      OBVIOUS
    <3>1. jb.next \in Nat /\ jb.next <= Final + 1 + MostIdle /\ last < jb.next
      BY <1>1, <1>3, StreamAssumption, JitterAssumption DEF Seqs, MostIdle
    <3>2. jb.next # None /\ ~jb.buffering
      BY <1>1, <1>3
    <3>3. CASE s = jb.next
      BY <3>1, <3>3
    <3>4. CASE s # jb.next
      <4>1. Ahead(e, jb.next) /\ s = e
        BY <2>2, <2>3, <3>2, <3>4
      <4>2. e > jb.next
        BY <2>3, <3>1, <4>1, AheadIsGreater
      <4>3. last \in Nat
        BY <1>4, FramesAreNat
      <4> QED BY <2>3, <3>1, <4>1, <4>2, <4>3
    <3> QED BY <3>3, <3>4
  <2>8. \A n \in out' : n = s /\ n \in Frames /\ n \in 0 .. Final
    <3> TAKE n \in out'
    <3>1. n \in Frames /\ Key(n) = s
      BY <1>1, <2>1
    <3> QED BY <3>1, KeyIsNumber
  <2>9. \A n \in out' : n > last \/ last = None
    <3> TAKE n \in out'
    <3>1. last = None \/ last \in Nat
      BY <1>4, FramesAreNat
    <3> QED BY <2>4, <2>7, <2>8, <3>1
  <2>10. ASSUME jb'.present
         PROVE  /\ last' # None => last' < jb'.next
                /\ jb'.next # None /\ jb'.next <= Final + 1 + jb'.idle
    <3>1. jb' = b
      BY <1>1, <2>10
    <3>2. CASE out' # {}
      <4>1. last' = s /\ s \in 0 .. Final
        BY <1>2, <2>6, <2>8, <2>10, <3>2
      <4> QED BY <2>1, <2>6, <3>1, <3>2, <4>1, StreamAssumption
    <3>3. CASE out' = {}
      <4>1. last' = last /\ b.idle = jb.idle + 1
        BY <1>2, <2>1, <2>6, <2>10, <3>3
      <4>2. s = jb.next /\ jb.next # None
        <5>1. s # e
          BY <2>1, <2>2, <2>3, <3>3
        <5>2. s = jb.next
          BY <2>2, <2>3, <5>1
        <5> QED BY <2>4, <5>2 DEF None
      <4>3. last = None \/ last \in Nat
        BY <1>4, FramesAreNat
      <4>4. s + 1 <= Final + 1 + (jb.idle + 1)
        BY <1>1, <1>3, <2>4, <4>2, StreamAssumption
      <4> QED BY <2>4, <2>6, <2>7, <3>1, <4>1, <4>3, <4>4
    <3> QED BY <3>2, <3>3
  <2>11. ~jb'.present => last' = None
    BY <1>2
  <2> QED BY <2>9, <2>10, <2>11 DEF PointerInv
<1> QED BY <1>5, <1>6

LEMMA SequenceByEveryStep ==
    ASSUME BeforeTheWrap, TypeOK, BufferInv, PointerInv, [Next]_vars
    PROVE  PointerInv' /\ [\A n \in out' : n > last \/ last = None]_vars
<1>1. CASE Send
  BY <1>1 DEF Send, PointerInv
<1>2. ASSUME NEW n \in Frames, Lose(n)
      PROVE  PointerInv' /\ out' = {}
  BY <1>2 DEF Lose, PointerInv
<1>3. ASSUME NEW n \in Frames, Push(n)
      PROVE  PointerInv' /\ out' = {}
  <2>1. CASE jb.present
    <3>1. jb' = [jb EXCEPT !.frames = Insert(@, n)] /\ last' = last /\ out' = {}
      BY <1>3, <2>1 DEF Push
    <3>2. jb'.present = jb.present /\ jb'.next = jb.next /\ jb'.idle = jb.idle
      BY <2>1, <3>1, JbIsBuffer DEF Buffers
    <3> QED BY <2>1, <3>1, <3>2 DEF PointerInv
  <2>2. CASE ~jb.present
    <3>1. jb' = [NewBuffer EXCEPT !.frames = Insert(@, n)] /\ last' = last /\ out' = {}
      BY <1>3, <2>2 DEF Push
    <3>2. jb'.next = None
      BY <3>1 DEF NewBuffer
    <3>3. last' = None
      BY <2>2, <3>1 DEF PointerInv
    <3> QED BY <3>1, <3>2, <3>3 DEF PointerInv
  <2> QED BY <2>1, <2>2
<1>4. CASE Wake
  BY <1>4 DEF Wake, PointerInv
<1>5. CASE PullOne
  BY <1>5, PulledInSequence
<1>6. CASE UNCHANGED vars
  BY <1>6 DEF vars, PointerInv
<1>7. CASE Send \/ Wake
  <2>1. out' = {}
    BY <1>7 DEF Send, Wake
  <2> QED BY <1>1, <1>4, <1>7, <2>1
<1> QED BY <1>1, <1>2, <1>3, <1>4, <1>5, <1>6, <1>7 DEF Next

\* At first there is no pointer.
LEMMA PointerInitially == Init => PointerInv
<1> SUFFICES ASSUME Init PROVE PointerInv
  OBVIOUS
<1>1. last = None /\ jb.present = FALSE
  BY DEF Init, Absent
<1> QED BY <1>1 DEF PointerInv

\* Frames are played in sequence order, in whatever order they come and whatever
\* is lost, as long as no number of the stream wraps (see BeforeTheWrap).
THEOREM AlwaysInSequence == BeforeTheWrap => (Spec => DeliversInSequence)
<1> SUFFICES ASSUME BeforeTheWrap PROVE Spec => DeliversInSequence
  OBVIOUS
<1>1. TypeOK /\ BufferInv /\ PointerInv /\ [Next]_vars =>
        PointerInv' /\ [\A n \in out' : n > last \/ last = None]_vars
  BY SequenceByEveryStep
<1> QED BY PointerInitially, <1>1, Typed, AlwaysBuffer, PTL DEF Spec, DeliversInSequence

\* A pull before the wrap leaves every frame to come that it does not play.
LEMMA NothingToComeIsPassed ==
    ASSUME BeforeTheWrap, TypeOK, BufferInv, PointerInv, PullOne, jb.next # None, jb'.present,
           NEW n \in jb'.frames, ToCome(n, jb.next)
    PROVE  ToCome(n, jb'.next)
<1>1. /\ jb.present /\ jb \in Buffers(Frames, MostIdle) /\ jb.next \in Seqs
      /\ jb' = Pull(jb) /\ jb.idle <= MostIdle /\ jb.idle \in Nat
  BY WhatPullOneDoes, StreamAssumption, JitterAssumption DEF MostIdle
<1>2. TypeOK' /\ BufferInv' /\ PointerInv'
  BY InvByEveryStep, PulledInSequence DEF Next
<1>3. /\ jb' \in Buffers(Frames, MostIdle) /\ n \in Frames
      /\ jb'.idle \in Nat /\ jb'.idle <= MostIdle /\ jb'.next \in {None} \cup Seqs
  <2>1. jb' \in {Absent} \cup Buffers(Frames, MostIdle)
    BY <1>2 DEF TypeOK, MostIdle
  <2>2. jb' # Absent
    BY DEF Absent
  <2>3. jb' \in Buffers(Frames, MostIdle)
    BY <2>1, <2>2
  <2>4. MostIdle \in Nat
    BY StreamAssumption, JitterAssumption DEF MostIdle
  <2>5. /\ jb'.frames \in SUBSET Frames /\ jb'.idle \in 0 .. MostIdle
        /\ jb'.next \in {None} \cup Seqs
    BY <2>3 DEF Buffers, Seqs
  <2> QED BY <2>3, <2>4, <2>5
<1>4. jb'.next # None
  <2>1. jb.frames # {}
    BY <1>1, <1>3 DEF Pull, Buffers
  <2>2. ~jb.buffering
    BY <1>1 DEF BufferInv, WellFormed
  <2>3. jb'.next = (PlayoutSeq(jb) + 1) % Modulus
    BY <1>1, <2>1, <2>2, PlayingPull
  <2>4. PlayoutSeq(jb) \in Seqs
    BY <1>1, <2>1, PlayoutSeqIsSeq DEF MostIdle
  <2>5. (PlayoutSeq(jb) + 1) % Modulus \in 0 .. Modulus - 1
    BY <2>4, ModIsSmall, JitterAssumption DEF Seqs
  <2> QED BY <2>3, <2>5 DEF None
<1>5. /\ jb.next \in Nat /\ jb.next <= Final + 1 + MostIdle
      /\ jb'.next \in Nat /\ jb'.next <= Final + 1 + MostIdle
  BY <1>1, <1>2, <1>3, <1>4, StreamAssumption, JitterAssumption DEF PointerInv, Seqs, MostIdle
<1>6. Key(n) >= jb.next
  BY <1>3, <1>5, ToComeIsNotLess
<1>7. Key(n) >= jb'.next
  BY <1>6, NothingPassed
<1> QED BY <1>3, <1>5, <1>7, ToComeIsNotLess

\* Skipping forward loses nothing that has arrived and waits to be played, as long
\* as no number of the stream wraps.
THEOREM NeverPassesBuffered == BeforeTheWrap => (Spec => PassesNothingBuffered)
<1> SUFFICES ASSUME BeforeTheWrap PROVE Spec => PassesNothingBuffered
  OBVIOUS
<1>1. TypeOK /\ BufferInv /\ PointerInv /\ [Next]_vars =>
        PointerInv' /\ [PullOne /\ jb.next # None /\ jb'.present =>
           \A n \in jb'.frames : ToCome(n, jb.next) => ToCome(n, jb'.next)]_vars
  BY SequenceByEveryStep, NothingToComeIsPassed
<1> QED BY PointerInitially, <1>1, Typed, AlwaysBuffer, PTL DEF Spec, PassesNothingBuffered

----------------------------------------------------------------------------
(* Silence *)

\* A buffer that is not waiting for its cushion goes, or gives up a frame, or has
\* been idle for one pull more, and does not begin to wait for its cushion.
RunsDown ==
    \/ ~jb'.present
    \/ /\ jb'.present /\ ~HalfFilled(jb)'
       /\ \/ jb'.frames \in SUBSET jb.frames /\ jb'.frames # jb.frames
          \/ jb'.frames = jb.frames /\ jb'.idle = jb.idle + 1

LEMMA PullRunsDown ==
    ASSUME TypeOK, BufferInv, PullOne, ~HalfFilled(jb)
    PROVE  RunsDown
<1> SUFFICES ASSUME jb'.present PROVE RunsDown
  BY DEF RunsDown
<1>1. /\ jb.present /\ jb \in Buffers(Frames, MostIdle) /\ jb' = Pull(jb)
  BY WhatPullOneDoes
<1>2. CASE jb.frames = {}
  <2>1. jb'.frames = jb.frames /\ jb'.idle = jb.idle + 1
    BY <1>1, <1>2 DEF Pull, Buffers
  <2> QED BY <1>2, <2>1 DEF RunsDown, HalfFilled
<1>3. CASE jb.frames # {}
  <2>1. ~(jb.buffering /\ Cardinality(jb.frames) < MinDepth)
    BY <1>1, <1>3 DEF HalfFilled
  <2>2. /\ jb'.frames = jb.frames \ Delivered(jb)
        /\ jb'.idle = (IF Delivered(jb) = {} THEN jb.idle + 1 ELSE 0)
        /\ Delivered(jb) \in SUBSET jb.frames
    BY <1>1, <1>3, <2>1, PlayingPull
  <2>3. jb'.buffering = FALSE
    BY <1>1, <1>3, <2>1 DEF Pull, Buffers
  <2>4. CASE Delivered(jb) = {}
    BY <2>2, <2>3, <2>4 DEF RunsDown, HalfFilled
  <2>5. CASE Delivered(jb) # {}
    BY <2>2, <2>3, <2>5 DEF RunsDown, HalfFilled
  <2> QED BY <2>4, <2>5
<1> QED BY <1>2, <1>3

\* The buffer of a sender that has gone, unless it waits for its cushion, changes
\* only by pulls, and every pull brings it nearer to its end: it has a frame less,
\* or as many and one idle pull more, of which BufferInv allows only so many.
THEOREM SilenceRunsDown ==
    Spec => [][Silent /\ ~HalfFilled(jb) => (PullOne /\ RunsDown) \/ jb' = jb]_vars
<1>1. ASSUME TypeOK, BufferInv, Next, Silent, ~HalfFilled(jb)
      PROVE  (PullOne /\ RunsDown) \/ jb' = jb
  <2>1. CASE Send
    BY <2>1 DEF Send
  <2>2. ASSUME NEW n \in Frames, Lose(n) \/ Push(n) PROVE FALSE
    BY <1>1, <2>2 DEF Lose, Push, Silent
  <2>3. CASE Wake
    BY <2>3 DEF Wake
  <2>4. CASE PullOne
    BY <1>1, <2>4, PullRunsDown
  <2> QED BY <1>1, <2>1, <2>2, <2>3, <2>4 DEF Next
<1>2. TypeOK /\ BufferInv /\ [Next]_vars =>
        [Silent /\ ~HalfFilled(jb) => (PullOne /\ RunsDown) \/ jb' = jb]_vars
  BY <1>1
<1> QED BY <1>2, Typed, AlwaysBuffer, PTL DEF Spec

=============================================================================
