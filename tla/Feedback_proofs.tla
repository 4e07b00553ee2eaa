-------------------------- MODULE Feedback_proofs --------------------------
(***************************************************************************)
(* Proofs about the two ends of the feedback loop.  The receiver's end,    *)
(* ReceiverReports: for any peers, cushion, patience and period, what a    *)
(* disturbance leaves behind in the buffers and the counters is over after *)
(* Settled pulls.  The sender's end, BitrateAdapt: for every range of      *)
(* bitrates, every step and every capacity of the channel.                 *)
(***************************************************************************)
EXTENDS ReceiverReports, BitrateAdapt, FiniteSetTheorems, WellFoundedInduction, TLAPS

Frames   == 0 .. Horizon
Patience == MinDepth + StaleTicks

\* A buffer of a peer whose next frame is n: the frames in it have been sent and
\* none of them is behind the playout pointer.
Healthy(b, n) ==
    /\ b \in Buffers(Frames, StaleTicks + 1)
    /\ b.idle <= StaleTicks
    /\ \A m \in b.frames : m < n
    /\ ~b.buffering => b.next \in 0 .. n /\ \A m \in b.frames : b.next <= m

Pushed(b, n) == [b EXCEPT !.frames = Insert(@, n)]

----------------------------------------------------------------------------
(* A buffer on a steady path *)

LEMMA Bounds ==
    /\ Horizon \in Nat /\ Modulus \in Nat /\ Horizon < Modulus \div 2 /\ Horizon < Modulus
    /\ MinDepth \in Nat /\ MinDepth > 0 /\ MaxFrames \in Nat /\ MinDepth <= MaxFrames
    /\ StaleTicks \in Nat
BY JitterAssumption, ReportsAssumption

LEMMA ModOfSmall ==
    ASSUME NEW m \in Nat, NEW a \in 0 .. m - 1
    PROVE  a % m = a
BY SMT

\* Within the horizon a frame is its sequence number.
LEMMA KeyOfFrame ==
    ASSUME NEW n \in Frames
    PROVE  Key(n) = n
<1>1. n \in 0 .. Modulus - 1
  BY Bounds DEF Frames
<1> QED BY <1>1, ModOfSmall, Bounds DEF Key

LEMMA FrameSets ==
    ASSUME NEW S \in SUBSET Frames
    PROVE  /\ IsFiniteSet(S) /\ Cardinality(S) \in Nat
           /\ S = {} <=> Cardinality(S) = 0
           /\ \A n \in S : n \in Nat /\ Key(n) = n
<1>1. IsFiniteSet(Frames)
  BY FS_Interval, Bounds DEF Frames
<1>2. IsFiniteSet(S)
  BY <1>1, FS_Subset
<1>3. \A n \in S : n \in Frames /\ n \in Nat
  BY DEF Frames
<1> QED BY <1>2, <1>3, FS_CardinalityType, FS_EmptySet, KeyOfFrame

LEMMA BufferParts ==
    ASSUME NEW b \in Buffers(Frames, StaleTicks + 1)
    PROVE  /\ b.present = TRUE /\ b.buffering \in BOOLEAN
           /\ b.frames \in SUBSET Frames /\ b.idle \in 0 .. StaleTicks + 1 /\ b.idle \in Nat
<1>1. /\ b.present = TRUE /\ b.buffering \in BOOLEAN
      /\ b.frames \in SUBSET Frames /\ b.idle \in 0 .. StaleTicks + 1
  BY DEF Buffers
<1> QED BY <1>1

\* A buffer with frames has an earliest one.
LEMMA EarliestExists ==
    ASSUME NEW S \in SUBSET Frames, S # {}
    PROVE  Earliest(S) \in S /\ \A m \in S : Earliest(S) <= m
<1> DEFINE Before(n) == {j \in Frames : j < n}
           T == {Before(n) : n \in S}
<1>1. T \subseteq FiniteSubsetsOf(Frames) /\ T # {}
  <2>1. IsFiniteSet(Frames)
    BY FS_Interval, Bounds DEF Frames
  <2>2. FiniteSubsetsOf(Frames) = SUBSET Frames
    BY <2>1, FS_FiniteSubsetsOfFinite
  <2>3. \A n \in S : Before(n) \in SUBSET Frames
    OBVIOUS
  <2> HIDE DEF Before
  <2>4. T \subseteq SUBSET Frames
    BY <2>3
  <2>5. PICK n \in S : TRUE
    OBVIOUS
  <2> QED BY <2>2, <2>4, <2>5
<1>2. PICK B \in T : \A C \in T : <<C, B>> \notin StrictSubsetOrdering(Frames)
  BY <1>1, FS_StrictSubsetOrderingWellFounded, WFMin
<1>3. PICK n \in S : B = Before(n)
  OBVIOUS
<1>4. ASSUME NEW m \in S PROVE n <= m
  <2>1. n \in Frames /\ m \in Frames /\ n \in Nat /\ m \in Nat
    BY FrameSets
  <2>2. SUFFICES ASSUME m < n PROVE FALSE
    BY <2>1
  <2>3. Before(m) \subseteq Before(n) /\ m \in Before(n) /\ m \notin Before(m)
    BY <2>1, <2>2 DEF Frames
  <2>4. <<Before(m), Before(n)>> \in StrictSubsetOrdering(Frames)
    BY <2>3 DEF StrictSubsetOrdering
  <2> QED BY <1>2, <1>3, <2>4
<1>5. \A m \in S : Key(n) <= Key(m)
  BY <1>4, FrameSets
<1>6. Earliest(S) \in S /\ \A m \in S : Key(Earliest(S)) <= Key(m)
  BY <1>5 DEF Earliest
<1> QED BY <1>6, FrameSets

LEMMA NewIsHealthy ==
    ASSUME NEW n \in Frames
    PROVE  /\ Healthy(NewBuffer, n) /\ NewBuffer.frames = {} /\ NewBuffer.buffering
           /\ NewBuffer.idle = 0
<1>1. 0 \in 0 .. StaleTicks + 1 /\ {} \in SUBSET Frames /\ 0 <= StaleTicks
  BY Bounds
<1>2. NewBuffer \in Buffers(Frames, StaleTicks + 1)
  BY <1>1, Zenon DEF NewBuffer, Buffers
<1> QED BY <1>1, <1>2 DEF Healthy, NewBuffer

\* With less than a cushion in it a buffer has room, and the next frame is new.
LEMMA PushIsHealthy ==
    ASSUME NEW n \in Frames, n < Horizon, NEW b, Healthy(b, n),
           Cardinality(b.frames) < MinDepth,
           NEW c, c = Pushed(b, n)
    PROVE  /\ Healthy(c, n + 1)
           /\ c.present /\ c.buffering = b.buffering /\ c.idle = b.idle
           /\ c.frames # {}
           /\ Cardinality(c.frames) = Cardinality(b.frames) + 1
<1>1. /\ b \in Buffers(Frames, StaleTicks + 1) /\ b.present = TRUE
      /\ b.frames \in SUBSET Frames /\ b.idle \in 0 .. StaleTicks + 1 /\ b.idle <= StaleTicks
      /\ \A m \in b.frames : m < n
      /\ ~b.buffering => b.next \in 0 .. n /\ \A m \in b.frames : b.next <= m
  BY DEF Healthy, Buffers
<1>2. n \in Nat /\ n + 1 \in Frames /\ n \notin b.frames /\ Key(n) = n
  BY <1>1, KeyOfFrame, Bounds DEF Frames
<1>3. /\ IsFiniteSet(b.frames) /\ Cardinality(b.frames) \in Nat
      /\ \A m \in b.frames : m \in Nat /\ Key(m) = m
  BY <1>1, FrameSets
<1>4. Insert(b.frames, n) = b.frames \cup {n}
  <2>1. ~(Cardinality(b.frames) >= MaxFrames)
    BY <1>3, Bounds
  <2>2. {m \in b.frames : Key(m) # Key(n)} = b.frames
    BY <1>1, <1>2, <1>3
  <2> QED BY <2>1, <2>2 DEF Insert
<1> DEFINE S == b.frames \cup {n}
<1>5. c = [b EXCEPT !.frames = S]
  BY <1>4 DEF Pushed
<1>6. S \in SUBSET Frames /\ S # {} /\ \A m \in S : m < n + 1
  <2>1. \A m \in b.frames : m < n + 1
    BY <1>1, <1>2, <1>3
  <2> QED BY <1>1, <1>2, <2>1
<1>7. Cardinality(S) = Cardinality(b.frames) + 1
  BY <1>2, <1>3, FS_AddElement
<1>8. ~b.buffering => b.next \in 0 .. n + 1 /\ \A m \in S : b.next <= m
  BY <1>1, <1>2
<1> HIDE DEF S
<1>9. c \in Buffers(Frames, StaleTicks + 1)
  BY <1>1, <1>5, <1>6, Zenon DEF Buffers
<1>10. /\ c.present = TRUE /\ c.frames = S /\ c.next = b.next
       /\ c.buffering = b.buffering /\ c.idle = b.idle
  BY <1>1, <1>5 DEF Buffers
<1>11. Healthy(c, n + 1)
  BY <1>1, <1>6, <1>8, <1>9, <1>10 DEF Healthy
<1> QED BY <1>6, <1>7, <1>10, <1>11

\* A pull plays the earliest frame; the exceptions are an empty buffer and one
\* that waits for its cushion.
LEMMA PullOfHealthy ==
    ASSUME NEW n \in Frames, NEW b, Healthy(b, n), Cardinality(b.frames) <= MinDepth
    PROVE  /\ Pull(b) \in Buffers(Frames, StaleTicks + 1) /\ Pull(b).present
           /\ ~Stale(Pull(b)) => Healthy(Pull(b), n)
           /\ Cardinality(Pull(b).frames) < MinDepth
           /\ b.frames = {} =>
                /\ Delivered(b) = {} /\ Pull(b).frames = {} /\ Pull(b).buffering
                /\ Pull(b).idle = b.idle + 1
           /\ HalfFilled(b) => Delivered(b) = {} /\ Pull(b) = b
           /\ b.frames # {} /\ ~HalfFilled(b) =>
                /\ Delivered(b) # {} /\ ~Pull(b).buffering /\ ~Stale(Pull(b))
                /\ Cardinality(Pull(b).frames) = Cardinality(b.frames) - 1
<1>1. /\ b \in Buffers(Frames, StaleTicks + 1) /\ b.present = TRUE
      /\ b.frames \in SUBSET Frames /\ b.idle \in 0 .. StaleTicks + 1 /\ b.idle <= StaleTicks
      /\ b.idle \in Nat /\ b.buffering \in BOOLEAN
      /\ \A m \in b.frames : m < n
      /\ ~b.buffering => b.next \in 0 .. n /\ \A m \in b.frames : b.next <= m
  <2>1. b \in Buffers(Frames, StaleTicks + 1)
    BY DEF Healthy
  <2> QED BY <2>1, BufferParts DEF Healthy
<1>2. /\ IsFiniteSet(b.frames) /\ Cardinality(b.frames) \in Nat
      /\ b.frames = {} <=> Cardinality(b.frames) = 0
      /\ \A m \in b.frames : m \in Nat /\ Key(m) = m
  BY <1>1, FrameSets
<1>3. CASE b.frames = {}
  <2>1. Pull(b) = [b EXCEPT !.idle = @ + 1, !.buffering = TRUE, !.next = None]
        /\ Delivered(b) = {}
    BY <1>3 DEF Pull, Delivered
  <2>2. b.idle + 1 \in 0 .. StaleTicks + 1 /\ None \in {None} \cup 0 .. Modulus - 1
    BY <1>1, Bounds
  <2>3. Pull(b) \in Buffers(Frames, StaleTicks + 1)
    BY <1>1, <2>1, <2>2, Zenon DEF Buffers
  <2>4. /\ Pull(b).present = TRUE /\ Pull(b).frames = {} /\ Pull(b).buffering = TRUE
        /\ Pull(b).idle = b.idle + 1
    BY <1>1, <1>3, <2>1 DEF Buffers
  <2>5. ~Stale(Pull(b)) => Healthy(Pull(b), n)
    BY <1>1, <2>2, <2>3, <2>4, Bounds DEF Stale, Healthy
  <2> QED BY <1>2, <1>3, <2>1, <2>3, <2>4, <2>5, Bounds DEF HalfFilled
<1>4. CASE HalfFilled(b)
  <2>1. Pull(b) = b /\ Delivered(b) = {}
    BY <1>4 DEF HalfFilled, Pull, Delivered
  <2> QED BY <1>1, <1>4, <2>1 DEF HalfFilled
<1>5. CASE b.frames # {} /\ ~HalfFilled(b)
  <2> DEFINE e == Earliest(b.frames)
             S == b.frames \ {e}
  <2>1. e \in b.frames /\ e \in Nat /\ e < n /\ Key(e) = e /\ \A m \in b.frames : e <= m
    BY <1>1, <1>2, <1>5, EarliestExists
  <2>2. PlayoutSeq(b) = e
    <3>1. CASE b.buffering
      BY <2>1, <3>1 DEF PlayoutSeq
    <3>2. CASE ~b.buffering
      <4>1. b.next \in 0 .. n /\ b.next <= e
        BY <1>1, <2>1, <3>2
      <4>2. e - b.next \in 0 .. Modulus - 1 /\ e - b.next < Modulus \div 2
        BY <2>1, <4>1, Bounds DEF Frames
      <4>3. Diff(e, b.next) = e - b.next
        BY <4>2, ModOfSmall, Bounds DEF Diff
      <4>4. e = b.next \/ Ahead(e, b.next)
        BY <2>1, <4>1, <4>2, <4>3 DEF Ahead
      <4> QED BY <2>1, <4>4 DEF PlayoutSeq
    <3> QED BY <3>1, <3>2
  <2>3. Delivered(b) = {e}
    <3>1. Delivered(b) = {m \in b.frames : Key(m) = PlayoutSeq(b)}
      BY <1>1, <1>5 DEF Delivered, HalfFilled
    <3> QED BY <1>2, <2>1, <2>2, <3>1
  <2>4. Pull(b) = [b EXCEPT !.buffering = FALSE, !.next = (PlayoutSeq(b) + 1) % Modulus,
                            !.frames = @ \ Delivered(b),
                            !.idle = IF Delivered(b) = {} THEN @ + 1 ELSE 0]
    BY <1>1, <1>5 DEF Pull, HalfFilled
  <2>5. e + 1 \in 0 .. Modulus - 1 /\ e + 1 \in 0 .. n /\ (e + 1) % Modulus = e + 1
    <3>1. e + 1 \in 0 .. Modulus - 1 /\ e + 1 \in 0 .. n
      BY <2>1, Bounds DEF Frames
    <3> HIDE DEF e
    <3> QED BY <3>1, ModOfSmall, Bounds
  <2> HIDE DEF e
  <2>6. Pull(b) = [b EXCEPT !.buffering = FALSE, !.next = e + 1, !.frames = S, !.idle = 0]
    BY <2>2, <2>3, <2>4, <2>5
  <2>7. S \in SUBSET Frames /\ Cardinality(S) = Cardinality(b.frames) - 1
    BY <1>1, <1>2, <2>1, FS_RemoveElement
  <2>8. \A m \in S : m < n /\ e + 1 <= m
    BY <1>1, <1>2, <2>1
  <2> HIDE DEF S
  <2>9. Pull(b) \in Buffers(Frames, StaleTicks + 1)
    <3>1. 0 \in 0 .. StaleTicks + 1 /\ e + 1 \in {None} \cup 0 .. Modulus - 1 /\ FALSE \in BOOLEAN
      BY <2>5, Bounds
    <3> QED BY <1>1, <2>6, <2>7, <3>1, Zenon DEF Buffers
  <2>10. /\ Pull(b).present = TRUE /\ Pull(b).frames = S /\ Pull(b).buffering = FALSE
         /\ Pull(b).next = e + 1 /\ Pull(b).idle = 0
    BY <1>1, <2>6 DEF Buffers
  <2>11. ~Stale(Pull(b))
    BY <2>10, Bounds DEF Stale
  <2>12. Healthy(Pull(b), n)
    BY <2>5, <2>8, <2>9, <2>10, Bounds DEF Healthy
  <2>13. Cardinality(Pull(b).frames) = Cardinality(b.frames) - 1
         /\ Cardinality(Pull(b).frames) < MinDepth
    BY <1>2, <2>7, <2>10, Bounds
  <2>14. Delivered(b) # {}
    BY <2>3
  <2> QED BY <1>5, <2>9, <2>10, <2>11, <2>12, <2>13, <2>14
<1> QED BY <1>3, <1>4, <1>5

----------------------------------------------------------------------------
(* The reports *)

\* The buffer of one peer between two pulls.
BufferOK(s) ==
    /\ state[s] = "out" => jb[s] = Absent
    /\ jb[s].present => Healthy(jb[s], next[s]) /\ Cardinality(jb[s].frames) < MinDepth

\* What a calm spell has brought about: the cushion of a peer that talks grows
\* until playout starts, the buffer of one that has gone drains and is idle.
CalmOK(s) ==
    /\ state[s] = "talking" /\ calm > 0 =>
         jb[s].present /\ (jb[s].buffering => calm <= Cardinality(jb[s].frames))
    /\ state[s] = "gone" /\ jb[s].present =>
         /\ ~jb[s].buffering => Cardinality(jb[s].frames) + calm < MinDepth
         /\ jb[s].buffering /\ jb[s].frames = {} => calm < MinDepth + jb[s].idle

PeersInv == \A s \in Senders : BufferOK(s) /\ CalmOK(s)

Abandoned(s) == state[s] = "gone" /\ HalfFilled(jb[s])

\* A pull finds nothing only in the first Patience pulls of a calm spell, and no
\* pull counts for longer than a period.
CountInv ==
    /\ decoded + missed <= pulled * Cardinality(Senders)
    /\ \A s \in report.to : jb[s].present
    /\ (\A s \in Senders : ~Abandoned(s)) =>
         /\ missed > 0 => calm < Patience + pulled
         /\ report.missed > 0 => calm < Settled

ReportsInv == TypeOK /\ PeersInv /\ CountInv

Arrived(L) == Filled({s \in Senders : state[s] = "talking"} \ L)

LEMMA PeerTypes ==
    ASSUME TypeOK, NEW s \in Senders
    PROVE  /\ state[s] \in {"out", "talking", "gone"} /\ next[s] \in Frames
           /\ ~Absent.present
           /\ jb[s] = Absent \/ (jb[s] \in Buffers(Frames, StaleTicks + 1) /\ jb[s].present)
<1>1. jb[s] \in {Absent} \cup Buffers(Frames, StaleTicks + 1)
  BY Zenon DEF TypeOK, Frames
<1>2. \A b \in Buffers(Frames, StaleTicks + 1) : b.present
  BY DEF Buffers
<1>3. state[s] \in {"out", "talking", "gone"} /\ next[s] \in Frames
  BY DEF TypeOK, Frames
<1>4. ~Absent.present
  BY DEF Absent
<1> HIDE DEF Absent
<1> QED BY <1>1, <1>2, <1>3, <1>4

\* A calm spell grows by one pull at a time and ends with a loss.
LEMMA CalmGrows ==
    ASSUME TypeOK, NEW L \in SUBSET Senders, Tick(L)
    PROVE  /\ calm \in Nat /\ calm' \in 0 .. Settled /\ calm' \in Nat
           /\ calm' <= calm + 1 /\ (L # {} => calm' = 0)
           /\ Patience \in Nat /\ Settled = Patience + Period /\ Settled \in Nat
<1>1. Patience \in Nat /\ Settled = Patience + Period /\ Settled \in Nat
  BY Bounds, ReportsAssumption DEF Patience, Settled
<1> QED BY <1>1 DEF TypeOK, Tick

\* What a buffer holds when it is pulled.
LEMMA ArrivedIsHealthy ==
    ASSUME TypeOK, NEW s \in Senders, BufferOK(s), NEW L \in SUBSET Senders, Tick(L),
           NEW c, c = Arrived(L)[s]
    PROVE  /\ next'[s] \in Frames
           /\ c.present => Healthy(c, next'[s]) /\ Cardinality(c.frames) <= MinDepth
           /\ c.present \/ c = Absent
           /\ state[s] # "talking" \/ s \in L => c = jb[s]
           /\ state[s] = "talking" /\ s \notin L =>
                /\ c.present /\ c.frames # {}
                /\ CalmOK(s) /\ c.buffering => calm' <= Cardinality(c.frames)
<1>1. /\ state[s] \in {"out", "talking", "gone"} /\ next[s] \in Frames /\ next[s] \in Nat
      /\ ~Absent.present
      /\ jb[s] = Absent \/ (jb[s] \in Buffers(Frames, StaleTicks + 1) /\ jb[s].present)
  BY PeerTypes DEF Frames
<1>2. jb[s].present => /\ Healthy(jb[s], next[s]) /\ Cardinality(jb[s].frames) < MinDepth
                       /\ Cardinality(jb[s].frames) \in Nat
  BY <1>1, FrameSets DEF BufferOK, Buffers
<1>3. CASE state[s] # "talking"
  <2>1. next'[s] = next[s] /\ c = jb[s]
    BY <1>3 DEF Tick, Arrived, Filled
  <2> QED BY <1>1, <1>2, <1>3, <2>1, Bounds
<1>4. CASE state[s] = "talking"
  <2>1. next'[s] = next[s] + 1 /\ next[s] < Horizon
    BY <1>4 DEF Tick
  <2>2. next'[s] \in Frames /\ next'[s] \in Nat
    BY <1>1, <2>1, Bounds DEF Frames
  <2>3. CASE s \in L
    <3>1. c = jb[s]
      BY <2>3 DEF Arrived, Filled
    <3>2. ASSUME c.present PROVE Healthy(c, next'[s])
      <4>1. c \in Buffers(Frames, StaleTicks + 1) /\ Healthy(c, next[s])
        BY <1>1, <1>2, <3>1, <3>2
      <4>2. c.frames \in SUBSET Frames
        BY <4>1 DEF Buffers
      <4>3. \A m \in c.frames : m \in Nat
        BY <4>2, FrameSets
      <4>4. \A m \in c.frames : m < next'[s]
        BY <1>1, <2>1, <4>1, <4>3 DEF Healthy
      <4>5. ~c.buffering => c.next \in 0 .. next'[s]
        BY <1>1, <2>1, <4>1 DEF Healthy
      <4> QED BY <4>1, <4>4, <4>5 DEF Healthy
    <3> QED BY <1>1, <1>2, <1>4, <2>2, <2>3, <3>1, <3>2, Bounds
  <2>4. CASE s \notin L
    <3> DEFINE b == IF jb[s].present THEN jb[s] ELSE NewBuffer
    <3>1. c = Pushed(b, next[s])
      BY <1>4, <2>4 DEF Arrived, Filled, Pushed
    <3>2. Healthy(b, next[s]) /\ Cardinality(b.frames) < MinDepth /\ Cardinality(b.frames) \in Nat
      <4>1. CASE jb[s].present
        BY <1>2, <4>1
      <4>2. CASE ~jb[s].present
        <5>1. b = NewBuffer
          BY <4>2
        <5>2. Healthy(NewBuffer, next[s]) /\ NewBuffer.frames = {}
          BY <1>1, NewIsHealthy
        <5> HIDE DEF b
        <5> QED BY <5>1, <5>2, FS_EmptySet, Bounds
      <4> QED BY <4>1, <4>2
    <3>3. jb[s].present => b = jb[s]
      OBVIOUS
    <3> HIDE DEF b
    <3>4. /\ Healthy(c, next'[s]) /\ c.present /\ c.buffering = b.buffering
          /\ c.frames # {}
          /\ Cardinality(c.frames) = Cardinality(b.frames) + 1
      BY <1>1, <2>1, <3>1, <3>2, PushIsHealthy
    <3>5. CalmOK(s) /\ c.buffering => calm' <= Cardinality(c.frames)
      <4>1. SUFFICES ASSUME CalmOK(s), c.buffering PROVE calm' <= Cardinality(c.frames)
        OBVIOUS
      <4>2. calm \in Nat /\ calm' \in Nat /\ calm' <= calm + 1
        BY CalmGrows
      <4>3. CASE calm = 0
        BY <3>2, <3>4, <4>2, <4>3
      <4>4. CASE calm > 0
        <5>1. jb[s].present /\ (jb[s].buffering => calm <= Cardinality(jb[s].frames))
          BY <1>4, <4>1, <4>4 DEF CalmOK
        <5>2. jb[s].buffering /\ b = jb[s]
          BY <3>3, <3>4, <4>1, <5>1, Zenon
        <5> QED BY <3>2, <3>4, <4>2, <5>1, <5>2
      <4> QED BY <4>2, <4>3, <4>4
    <3> QED BY <1>4, <2>2, <2>4, <3>2, <3>4, <3>5, Bounds
  <2> QED BY <2>3, <2>4
<1> QED BY <1>3, <1>4

\* What one pull does to the buffer of one peer and what it counts.
LEMMA PeerTick ==
    ASSUME TypeOK, NEW s \in Senders, BufferOK(s), CalmOK(s),
           NEW L \in SUBSET Senders, Tick(L)
    PROVE  /\ next'[s] \in Frames
           /\ jb'[s] \in {Absent} \cup Buffers(Frames, StaleTicks + 1)
           /\ BufferOK(s)' /\ CalmOK(s)'
           /\ s \in Unheard(Arrived(L)) /\ ~Abandoned(s) => calm' <= Patience
           /\ Abandoned(s) => Abandoned(s)'
<1> DEFINE c == Arrived(L)[s]
<1>1. /\ next'[s] \in Frames
      /\ c.present => Healthy(c, next'[s]) /\ Cardinality(c.frames) <= MinDepth
      /\ c.present \/ c = Absent
      /\ state[s] # "talking" \/ s \in L => c = jb[s]
      /\ state[s] = "talking" /\ s \notin L =>
           /\ c.present /\ c.frames # {}
           /\ c.buffering => calm' <= Cardinality(c.frames)
  BY ArrivedIsHealthy
<1>2. /\ state[s] \in {"out", "talking", "gone"} /\ state'[s] = state[s]
      /\ ~Absent.present
  BY PeerTypes DEF Tick
<1>3. jb'[s] = IF ~c.present THEN Absent ELSE IF Stale(Pull(c)) THEN Absent ELSE Pull(c)
  BY DEF Tick, Arrived, Pulled
<1>4. s \in Unheard(Arrived(L)) <=> c.present /\ Delivered(c) = {}
  BY DEF Unheard
<1>5. /\ calm \in Nat /\ calm' \in Nat /\ calm' <= calm + 1
      /\ s \in L => calm' = 0
      /\ Patience = MinDepth + StaleTicks
  BY CalmGrows DEF Patience
<1>6. Abandoned(s) => HalfFilled(c) /\ c = jb[s]
  BY <1>1 DEF Abandoned
<1> HIDE DEF c
<1>7. CASE ~c.present
  <2>1. c = Absent /\ jb'[s] = Absent
    BY <1>1, <1>3, <1>7
  <2>2. state[s] = "talking" => calm' = 0
    BY <1>1, <1>5, <1>7
  <2>3. ~Abandoned(s)
    BY <1>6, <1>7 DEF HalfFilled
  <2> HIDE DEF Absent
  <2> QED BY <1>1, <1>2, <1>4, <1>5, <1>7, <2>1, <2>2, <2>3 DEF BufferOK, CalmOK
<1>8. CASE c.present
  <2> DEFINE p == Pull(c)
  <2>1. /\ p \in Buffers(Frames, StaleTicks + 1) /\ p.present
        /\ ~Stale(p) => Healthy(p, next'[s])
        /\ Cardinality(p.frames) < MinDepth
        /\ c.frames = {} => Delivered(c) = {} /\ p.frames = {} /\ p.buffering /\ p.idle = c.idle + 1
        /\ HalfFilled(c) => Delivered(c) = {} /\ p = c
        /\ c.frames # {} /\ ~HalfFilled(c) =>
             /\ Delivered(c) # {} /\ ~p.buffering /\ ~Stale(p)
             /\ Cardinality(p.frames) = Cardinality(c.frames) - 1
    BY <1>1, <1>8, PullOfHealthy
  <2>2. /\ Cardinality(c.frames) \in Nat /\ c.idle \in Nat /\ c.idle <= StaleTicks
        /\ c.frames \in SUBSET Frames
    <3>1. c \in Buffers(Frames, StaleTicks + 1) /\ c.idle <= StaleTicks
      BY <1>1, <1>8 DEF Healthy
    <3> QED BY <3>1, BufferParts, FrameSets
  <2> HIDE DEF p
  <2>3. jb'[s] = Absent \/ (jb'[s] = p /\ ~Stale(p))
    BY <1>3, <1>8 DEF p
  <2>4. HalfFilled(c) => jb'[s] = c
    <3>1. HalfFilled(c) => ~Stale(c)
      BY <2>2, Bounds DEF Stale
    <3> QED BY <1>3, <1>8, <2>1, <3>1 DEF p
  <2>5. state[s] # "out"
    BY <1>1, <1>2, <1>8 DEF BufferOK
  <2>6. BufferOK(s)'
    BY <1>2, <2>1, <2>3, <2>5 DEF BufferOK
  <2>7. jb'[s] \in {Absent} \cup Buffers(Frames, StaleTicks + 1)
    BY <2>1, <2>3
  <2>8. CASE state[s] = "talking" /\ s \in L
    <3>1. ~Abandoned(s)
      BY <2>8 DEF Abandoned
    <3>2. CalmOK(s)'
      BY <1>2, <1>5, <2>8 DEF CalmOK
    <3> QED BY <1>1, <1>5, <2>6, <2>7, <2>8, <3>1, <3>2, Bounds
  <2>9. CASE state[s] = "talking" /\ s \notin L
    <3>1. c.frames # {} /\ (c.buffering => calm' <= Cardinality(c.frames))
      BY <1>1, <2>9
    <3>2. CASE HalfFilled(c)
      <4>1. calm' <= Cardinality(c.frames) /\ Cardinality(c.frames) < MinDepth
        BY <3>1, <3>2 DEF HalfFilled
      <4>2. calm' <= Patience
        BY <1>5, <2>2, <4>1, Bounds
      <4>3. CalmOK(s)'
        BY <1>2, <1>8, <2>4, <2>9, <3>2, <4>1 DEF CalmOK
      <4> QED BY <1>1, <2>6, <2>7, <2>9, <4>2, <4>3 DEF Abandoned
    <3>3. CASE ~HalfFilled(c)
      <4>1. jb'[s] = p /\ ~p.buffering /\ p.present /\ Delivered(c) # {}
        BY <1>3, <1>8, <2>1, <3>1, <3>3 DEF p
      <4>2. CalmOK(s)'
        BY <1>2, <2>9, <4>1 DEF CalmOK
      <4> QED BY <1>1, <1>4, <2>6, <2>7, <2>9, <4>1, <4>2 DEF Abandoned
    <3> QED BY <3>2, <3>3
  <2>10. CASE state[s] = "gone"
    <3>1. /\ c = jb[s]
          /\ ~c.buffering => Cardinality(c.frames) + calm < MinDepth
          /\ c.buffering /\ c.frames = {} => calm < MinDepth + c.idle
          /\ Cardinality(c.frames) < MinDepth
      BY <1>1, <1>8, <2>10 DEF CalmOK, BufferOK
    <3>2. CASE c.frames = {}
      <4>1. calm < MinDepth + c.idle
        BY <1>5, <2>2, <3>1, <3>2, FS_EmptySet, Bounds
      <4>2. calm' <= Patience
        BY <1>5, <2>2, <4>1, Bounds
      <4>3. jb'[s].present => jb'[s].buffering /\ calm' < MinDepth + jb'[s].idle
        BY <1>2, <1>5, <2>1, <2>2, <2>3, <3>2, <4>1, Bounds
      <4>4. CalmOK(s)'
        BY <1>2, <2>10, <4>3 DEF CalmOK
      <4>5. ~Abandoned(s)
        BY <1>6, <3>2 DEF HalfFilled
      <4> QED BY <1>1, <2>6, <2>7, <4>2, <4>4, <4>5
    <3>3. CASE HalfFilled(c)
      <4>1. jb'[s] = c /\ Abandoned(s) /\ Abandoned(s)'
        BY <1>2, <2>4, <2>10, <3>1, <3>3 DEF Abandoned
      <4>2. CalmOK(s)'
        BY <1>2, <2>10, <3>3, <4>1 DEF CalmOK, HalfFilled
      <4> QED BY <1>1, <2>6, <2>7, <4>1, <4>2
    <3>4. CASE c.frames # {} /\ ~HalfFilled(c)
      <4>1. ~c.buffering
        BY <1>8, <3>1, <3>4 DEF HalfFilled
      <4>2. /\ jb'[s] = p /\ ~p.buffering /\ Delivered(c) # {}
            /\ Cardinality(p.frames) = Cardinality(c.frames) - 1
        BY <1>3, <1>8, <2>1, <3>4 DEF p
      <4>3. Cardinality(p.frames) + calm' < MinDepth
        BY <1>5, <2>2, <3>1, <4>1, <4>2, Bounds
      <4>4. CalmOK(s)'
        BY <1>2, <2>10, <4>2, <4>3 DEF CalmOK
      <4>5. ~Abandoned(s)
        BY <1>6, <3>4
      <4> QED BY <1>1, <1>4, <2>6, <2>7, <4>2, <4>4, <4>5
    <3> QED BY <3>2, <3>3, <3>4
  <2> QED BY <1>2, <2>5, <2>8, <2>9, <2>10
<1> QED BY <1>7, <1>8

LEMMA OneMorePull ==
    ASSUME NEW p \in Nat, NEW c \in Nat
    PROVE  p * c \in Nat /\ (p + 1) * c = p * c + c
BY SMT

LEMMA FewerPulls ==
    ASSUME NEW p \in Nat, NEW q \in Nat, p <= q, NEW c \in Nat
    PROVE  p * c <= q * c
<1>1. PICK d \in Nat : q = p + d
  <2>1. q - p \in Nat /\ q = p + (q - p)
    OBVIOUS
  <2> QED BY <2>1
<1>2. q * c = p * c + d * c /\ d * c \in Nat /\ p * c \in Nat
  BY <1>1, SMT
<1> QED BY <1>2

\* A pull counts every buffer at most once.
LEMMA PullCounts ==
    ASSUME NEW b
    PROVE  /\ Cardinality(Heard(b)) \in Nat /\ Cardinality(Unheard(b)) \in Nat
           /\ Cardinality(Senders) \in Nat
           /\ Cardinality(Heard(b)) + Cardinality(Unheard(b)) <= Cardinality(Senders)
           /\ Cardinality(Unheard(b)) > 0 => Unheard(b) # {}
<1> DEFINE H == Heard(b)
           U == Unheard(b)
<1>1. H \in SUBSET Senders /\ U \in SUBSET Senders /\ H \cap U = {}
  BY DEF Heard, Unheard
<1> HIDE DEF H, U
<1>2. IsFiniteSet(H) /\ IsFiniteSet(U) /\ IsFiniteSet(Senders)
  BY <1>1, FS_Subset, ReportsAssumption
<1>3. Cardinality(H) \in Nat /\ Cardinality(U) \in Nat /\ Cardinality(Senders) \in Nat
  BY <1>2, FS_CardinalityType
<1>4. Cardinality(H \cup U) = Cardinality(H) + Cardinality(U)
  <2>1. Cardinality(H \cap U) = 0
    BY <1>1, FS_EmptySet
  <2>2. Cardinality(H \cup U) = Cardinality(H) + Cardinality(U) - Cardinality(H \cap U)
    BY <1>2, FS_Union
  <2> QED BY <1>3, <2>1, <2>2
<1>5. Cardinality(H \cup U) <= Cardinality(Senders)
  BY <1>1, <1>2, FS_Subset
<1>6. Cardinality(U) > 0 => U # {}
  BY FS_EmptySet
<1>7. Cardinality(H) + Cardinality(U) <= Cardinality(Senders)
  BY <1>3, <1>4, <1>5
<1> QED BY <1>3, <1>6, <1>7 DEF H, U

\* The counters and the report after a pull.
LEMMA CountersTick ==
    ASSUME ReportsInv, NEW L \in SUBSET Senders, Tick(L)
    PROVE  /\ decoded' \in 0 .. MostPulls /\ missed' \in 0 .. MostPulls
           /\ pulled' \in 0 .. Period - 1
           /\ report'.to \in SUBSET Senders /\ \A s \in report'.to : jb'[s].present
           /\ report'.missed \in 0 .. report'.total /\ report'.total \in 0 .. MostPulls
           /\ decoded' + missed' <= pulled' * Cardinality(Senders)
           /\ missed' > 0 => \/ missed > 0 /\ pulled' = pulled + 1
                             \/ Unheard(Arrived(L)) # {} /\ pulled' > 0
           /\ report'.missed > 0 => missed > 0 \/ Unheard(Arrived(L)) # {}
<1> DEFINE b == Arrived(L)
           h == Cardinality(Heard(b))
           u == Cardinality(Unheard(b))
           C == Cardinality(Senders)
           d == decoded + h
           m == missed + u
<1>1. h \in Nat /\ u \in Nat /\ C \in Nat /\ h + u <= C /\ (u > 0 => Unheard(b) # {})
  BY PullCounts
<1>2. /\ decoded \in Nat /\ missed \in Nat /\ pulled \in Nat /\ pulled <= Period - 1
      /\ decoded + missed <= pulled * C
      /\ Period \in Nat /\ Period > 0
  BY ReportsAssumption, PullCounts DEF ReportsInv, TypeOK, CountInv
<1>3. pulled * C \in Nat /\ (pulled + 1) * C = pulled * C + C
  BY <1>1, <1>2, OneMorePull
<1>4. (pulled + 1) * C <= Period * C /\ Period * C \in Nat
  BY <1>1, <1>2, FewerPulls, OneMorePull
<1>5. IF pulled + 1 < Period THEN Count(b) ELSE SendReports(b)
  BY DEF Tick, Arrived
<1> HIDE DEF h, u, C, b
<1>6. d \in Nat /\ m \in Nat /\ d + m <= (pulled + 1) * C /\ d + m <= Period * C
  BY <1>1, <1>2, <1>3, <1>4
<1>7. MostPulls = Period * C
  BY DEF MostPulls, C
<1>8. /\ NoReport.to = {} /\ NoReport.missed = 0 /\ NoReport.total = 0
  BY DEF NoReport
<1>9. CASE pulled + 1 < Period
  <2>1. decoded' = d /\ missed' = m /\ pulled' = pulled + 1 /\ report' = NoReport
    BY <1>5, <1>9 DEF Count, h, u
  <2>2. missed' > 0 => (missed > 0 \/ u > 0) /\ pulled' > 0
    BY <1>1, <1>2, <2>1
  <2>3. report'.to \in SUBSET Senders /\ \A s \in report'.to : jb'[s].present
    BY <1>8, <2>1
  <2>4. /\ decoded' \in 0 .. MostPulls /\ missed' \in 0 .. MostPulls
        /\ pulled' \in 0 .. Period - 1
        /\ report'.missed \in 0 .. report'.total /\ report'.total \in 0 .. MostPulls
        /\ ~(report'.missed > 0)
    BY <1>2, <1>4, <1>6, <1>7, <1>8, <1>9, <2>1
  <2>5. decoded' + missed' <= pulled' * C
    BY <1>6, <2>1
  <2> QED BY <1>1, <2>1, <2>2, <2>3, <2>4, <2>5 DEF C, b
<1>10. CASE ~(pulled + 1 < Period)
  <2> DEFINE R == {s \in Senders : jb'[s].present}
  <2>1. /\ report' = IF m + d = 0 THEN NoReport ELSE [to |-> R, missed |-> m, total |-> m + d]
        /\ decoded' = 0 /\ missed' = 0 /\ pulled' = 0
    BY <1>5, <1>10 DEF SendReports, h, u
  <2>2. R \in SUBSET Senders /\ \A s \in R : jb'[s].present
    OBVIOUS
  <2> HIDE DEF R
  <2>3. /\ report'.to = {} \/ report'.to = R
        /\ \/ report'.missed = 0 /\ report'.total = 0
           \/ report'.missed = m /\ report'.total = m + d
    BY <1>8, <2>1
  <2>4. /\ report'.missed \in 0 .. report'.total /\ report'.total \in 0 .. MostPulls
        /\ report'.missed > 0 => missed > 0 \/ u > 0
    BY <1>1, <1>2, <1>4, <1>6, <1>7, <2>3
  <2>5. /\ decoded' \in 0 .. MostPulls /\ missed' \in 0 .. MostPulls
        /\ pulled' \in 0 .. Period - 1 /\ ~(missed' > 0)
    BY <1>2, <1>4, <1>7, <2>1
  <2>6. decoded' + missed' <= pulled' * C
    BY <1>1, <2>1
  <2> QED BY <1>1, <2>2, <2>3, <2>4, <2>5, <2>6 DEF C, b
<1> QED BY <1>9, <1>10

LEMMA ReportsInit == Init => ReportsInv
<1> SUFFICES ASSUME Init PROVE ReportsInv
  OBVIOUS
<1>1. Cardinality(Senders) \in Nat
  BY FS_CardinalityType, ReportsAssumption
<1>2. MostPulls \in Nat /\ Settled \in Nat /\ Period > 0 /\ Period \in Nat
  BY <1>1, Bounds, ReportsAssumption, OneMorePull DEF MostPulls, Settled
<1>3. /\ NoReport.to = {} /\ NoReport.missed = 0 /\ NoReport.total = 0 /\ ~Absent.present
  BY DEF NoReport, Absent
<1>4. TypeOK
  <2>1. jb \in [Senders -> {Absent} \cup Buffers(0 .. Horizon, StaleTicks + 1)]
    BY Zenon DEF Init
  <2>2. /\ state \in [Senders -> {"out", "talking", "gone"}]
        /\ next \in [Senders -> 0 .. Horizon]
    BY Bounds DEF Init
  <2> HIDE DEF Absent
  <2> QED BY <1>2, <1>3, <2>1, <2>2, ReportsAssumption DEF Init, TypeOK
<1>5. PeersInv
  BY <1>3 DEF Init, PeersInv, BufferOK, CalmOK
<1>6. CountInv
  BY <1>1, <1>3 DEF Init, CountInv
<1> QED BY <1>4, <1>5, <1>6 DEF ReportsInv

\* Coming and going touches no buffer and no counter.
LEMMA ChangesKeep ==
    ASSUME ReportsInv, NEW s \in Senders, Come(s) \/ Go(s)
    PROVE  ReportsInv'
<1>1. /\ state' = [state EXCEPT ![s] = IF state[s] = "out" THEN "talking" ELSE "gone"]
      /\ state[s] \in {"out", "talking"}
      /\ calm' = 0 /\ report' = NoReport
      /\ UNCHANGED <<next, jb, decoded, missed, pulled, lost>>
  BY DEF Come, Go, Changes
<1>2. /\ NoReport.to = {} /\ NoReport.missed = 0 /\ NoReport.total = 0 /\ ~Absent.present
  BY DEF NoReport, Absent
<1>3. /\ Settled \in Nat /\ Patience \in Nat /\ Patience > 0 /\ MostPulls \in Nat
      /\ pulled \in Nat
  <2>1. Cardinality(Senders) \in Nat
    BY FS_CardinalityType, ReportsAssumption
  <2> QED BY <2>1, Bounds, ReportsAssumption, OneMorePull
          DEF Settled, Patience, MostPulls, ReportsInv, TypeOK
<1>4. TypeOK'
  BY <1>1, <1>2, <1>3 DEF ReportsInv, TypeOK
<1>5. ASSUME NEW r \in Senders PROVE BufferOK(r)' /\ CalmOK(r)'
  <2>1. BufferOK(r) /\ jb'[r] = jb[r] /\ next'[r] = next[r]
    BY <1>1 DEF ReportsInv, PeersInv
  <2>2. state'[r] = "out" => state[r] = "out"
    BY <1>1 DEF ReportsInv, TypeOK
  <2>3. state'[r] = "gone" /\ jb[r].present =>
          /\ Cardinality(jb[r].frames) \in Nat /\ jb[r].idle \in Nat
          /\ Cardinality(jb[r].frames) < MinDepth
    <3>1. jb[r].present => jb[r] \in Buffers(Frames, StaleTicks + 1)
      BY PeerTypes DEF ReportsInv
    <3>2. jb[r].present => jb[r].frames \in SUBSET Frames /\ jb[r].idle \in Nat
      BY <3>1, BufferParts
    <3> QED BY <2>1, <3>2, FrameSets DEF BufferOK
  <2>4. BufferOK(r)'
    BY <2>1, <2>2 DEF BufferOK
  <2>5. CalmOK(r)'
    BY <1>1, <2>1, <2>3, Bounds DEF CalmOK
  <2> QED BY <2>4, <2>5
<1>6. CountInv'
  BY <1>1, <1>2, <1>3 DEF ReportsInv, CountInv
<1> QED BY <1>4, <1>5, <1>6 DEF ReportsInv, PeersInv

LEMMA TickKeeps ==
    ASSUME ReportsInv, NEW L \in SUBSET Senders, Tick(L)
    PROVE  ReportsInv'
<1>1. TypeOK /\ PeersInv /\ CountInv
  BY DEF ReportsInv
<1>2. \A s \in Senders :
        /\ next'[s] \in Frames
        /\ jb'[s] \in {Absent} \cup Buffers(Frames, StaleTicks + 1)
        /\ BufferOK(s)' /\ CalmOK(s)'
        /\ s \in Unheard(Arrived(L)) /\ ~Abandoned(s) => calm' <= Patience
        /\ Abandoned(s) => Abandoned(s)'
  BY <1>1, PeerTick DEF PeersInv
<1>3. /\ decoded' \in 0 .. MostPulls /\ missed' \in 0 .. MostPulls
      /\ pulled' \in 0 .. Period - 1
      /\ report'.to \in SUBSET Senders /\ \A s \in report'.to : jb'[s].present
      /\ report'.missed \in 0 .. report'.total /\ report'.total \in 0 .. MostPulls
      /\ decoded' + missed' <= pulled' * Cardinality(Senders)
      /\ missed' > 0 => \/ missed > 0 /\ pulled' = pulled + 1
                        \/ Unheard(Arrived(L)) # {} /\ pulled' > 0
      /\ report'.missed > 0 => missed > 0 \/ Unheard(Arrived(L)) # {}
  BY CountersTick
<1>4. /\ calm \in Nat /\ calm' \in 0 .. Settled /\ calm' \in Nat /\ calm' <= calm + 1
      /\ Patience \in Nat /\ Settled = Patience + Period /\ Settled \in Nat
      /\ pulled \in 0 .. Period - 1 /\ Period \in Nat /\ Period > 0
  BY <1>1, CalmGrows, ReportsAssumption DEF TypeOK
<1>5. TypeOK'
  <2>1. next' \in [Senders -> 0 .. Horizon]
    BY <1>2 DEF Tick, Frames
  <2>2. jb' \in [Senders -> {Absent} \cup Buffers(0 .. Horizon, StaleTicks + 1)]
    <3>1. jb' = [s \in Senders |-> jb'[s]]
      BY DEF Tick, Pulled
    <3> QED BY <1>2, <3>1, Zenon DEF Frames
  <2>3. lost' \in 0 .. MaxLost
    <3>1. Cardinality(L) \in Nat
      BY FS_Subset, FS_CardinalityType, ReportsAssumption
    <3> QED BY <1>1, <3>1, ReportsAssumption DEF Tick, TypeOK
  <2>4. state' \in [Senders -> {"out", "talking", "gone"}]
    BY <1>1 DEF Tick, TypeOK
  <2> QED BY <1>3, <1>4, <2>1, <2>2, <2>3, <2>4 DEF TypeOK
<1>6. PeersInv'
  BY <1>2 DEF PeersInv
<1>7. CountInv'
  <2> SUFFICES ASSUME \A s \in Senders : ~Abandoned(s)'
               PROVE  /\ missed' > 0 => calm' < Patience + pulled'
                      /\ report'.missed > 0 => calm' < Settled
    BY <1>3 DEF CountInv
  <2>1. missed > 0 => calm < Patience + pulled
    BY <1>1, <1>2 DEF CountInv
  <2>2. Unheard(Arrived(L)) # {} => calm' <= Patience
    BY <1>2 DEF Unheard
  <2> QED BY <1>3, <1>4, <2>1, <2>2
<1> QED BY <1>5, <1>6, <1>7 DEF ReportsInv

THEOREM ReportsInvariant == Spec => []ReportsInv
<1>1. ReportsInv /\ [Next]_vars => ReportsInv'
  <2> SUFFICES ASSUME ReportsInv, [Next]_vars PROVE ReportsInv'
    OBVIOUS
  <2>1. ASSUME NEW s \in Senders, Come(s) \/ Go(s) PROVE ReportsInv'
    BY <2>1, ChangesKeep
  <2>2. ASSUME NEW L \in SUBSET Senders, Tick(L) PROVE ReportsInv'
    BY <2>2, TickKeeps
  <2>3. CASE UNCHANGED vars
    BY <2>3 DEF vars, code, history, ReportsInv, TypeOK, PeersInv, BufferOK, CalmOK,
                CountInv, Abandoned
  <2> QED BY <2>1, <2>2, <2>3 DEF Next
<1> QED BY <1>1, ReportsInit, PTL DEF Spec

\* The counters, the reports and every buffer are well typed.
THEOREM ReportsTyped == Spec => []TypeOK
<1>1. ReportsInv => TypeOK
  BY DEF ReportsInv
<1> QED BY <1>1, ReportsInvariant, PTL

\* Once a calm spell has lasted as long as a buffer waits and a period together,
\* every report says that nothing was lost, unless a buffer was left half filled.
THEOREM LossAlwaysFadesOut == Spec => []LossFadesOut
<1>1. ReportsInv => LossFadesOut
  <2> SUFFICES ASSUME ReportsInv, calm = Settled,
                      \A s \in Senders : state[s] = "gone" => ~HalfFilled(jb[s])
               PROVE  report.missed = 0
    BY DEF LossFadesOut
  <2>1. ~(report.missed > 0)
    BY Bounds, ReportsAssumption DEF ReportsInv, CountInv, Abandoned, Settled
  <2>2. report.missed \in Nat
    BY DEF ReportsInv, TypeOK
  <2> QED BY <2>1, <2>2
<1> QED BY <1>1, ReportsInvariant, PTL

\* By then no report is addressed to a peer that has gone, unless its buffer was
\* left half filled.
THEOREM DepartedAreForgotten == Spec => []NoReportToTheDeparted
<1>1. ReportsInv => NoReportToTheDeparted
  <2> SUFFICES ASSUME ReportsInv, calm = Settled, NEW s \in report.to, state[s] # "talking",
                      ~HalfFilled(jb[s])
               PROVE  FALSE
    BY DEF NoReportToTheDeparted
  <2>1. s \in Senders /\ jb[s].present /\ BufferOK(s) /\ CalmOK(s)
    BY DEF ReportsInv, CountInv, PeersInv, TypeOK
  <2>2. state[s] = "gone"
    BY <2>1, PeerTypes DEF ReportsInv, BufferOK
  <2>3. Cardinality(jb[s].frames) \in Nat /\ jb[s].idle \in Nat /\ jb[s].idle <= StaleTicks
    <3>1. jb[s] \in Buffers(Frames, StaleTicks + 1) /\ jb[s].idle <= StaleTicks
      BY <2>1 DEF BufferOK, Healthy
    <3>2. jb[s].frames \in SUBSET Frames /\ jb[s].idle \in Nat
      BY <3>1, BufferParts
    <3> QED BY <3>1, <3>2, FrameSets
  <2>4. Settled \in Nat /\ Settled >= MinDepth + StaleTicks
    BY Bounds, ReportsAssumption DEF Settled
  <2>5. jb[s].buffering /\ jb[s].frames = {}
    <3>1. jb[s].buffering
      BY <2>1, <2>2, <2>3, <2>4, Bounds DEF CalmOK
    <3>2. ~(jb[s].frames # {})
      BY <2>1, <3>1 DEF HalfFilled, BufferOK
    <3> QED BY <3>1, <3>2
  <2>6. calm < MinDepth + jb[s].idle
    BY <2>1, <2>2, <2>5 DEF CalmOK
  <2> QED BY <2>3, <2>4, <2>6, Bounds
<1> QED BY <1>1, ReportsInvariant, PTL

\* The exception is for good: a buffer that its peer left half filled is never
\* played nor discarded.
THEOREM AbandonedForEver == Spec => [][\A s \in Senders : Abandoned(s) => Abandoned(s)']_vars
<1>1. ReportsInv /\ [Next]_vars => [\A s \in Senders : Abandoned(s) => Abandoned(s)']_vars
  <2> SUFFICES ASSUME ReportsInv, Next, NEW s \in Senders, Abandoned(s) PROVE Abandoned(s)'
    OBVIOUS
  <2>1. ASSUME NEW r \in Senders, Come(r) \/ Go(r) PROVE Abandoned(s)'
    BY <2>1 DEF Come, Go, Changes, Abandoned, ReportsInv, TypeOK
  <2>2. ASSUME NEW L \in SUBSET Senders, Tick(L) PROVE Abandoned(s)'
    BY <2>2, PeerTick DEF ReportsInv, PeersInv
  <2> QED BY <2>1, <2>2 DEF Next
<1> QED BY <1>1, ReportsInvariant, PTL DEF Spec

----------------------------------------------------------------------------
(* The bitrate *)

\* The report the next tick will go by, and what the channel is for: it is the
\* newest one, unless that did not fit.
Effective == IF reports = <<>> THEN latest ELSE reports[Len(reports)]

NewestIsEffective == ~dropped => Effective = newest

----------------------------------------------------------------------------
LEMMA ClampedInRange ==
    ASSUME NEW rate \in Int
    PROVE  Clamped(rate) \in Bitrates
BY BitrateAssumption DEF Clamped, Bitrates

LEMMA DecidedIsInteger ==
    ASSUME NEW current \in Bitrates, NEW loss
    PROVE  Decided(current, loss) \in Int
BY BitrateAssumption DEF Decided, Bitrates

\* Every state is well typed: above all, the target and the encoder stay within
\* the limits.
THEOREM RateTyped == RateSpec => []RateTypeOK
<1>1. RateInit => RateTypeOK
  <2> SUFFICES ASSUME RateInit PROVE RateTypeOK
    OBVIOUS
  <2>1. <<>> \in Seq(Levels) /\ Len(<<>>) <= Capacity
    BY BitrateAssumption
  <2>2. DefaultBitrate \in Bitrates
    BY BitrateAssumption DEF Bitrates
  <2>3. "good" \in Levels
    BY DEF Levels
  <2> QED BY <2>1, <2>2, <2>3 DEF RateInit, RateTypeOK
<1>2. RateTypeOK /\ [RateNext]_rateVars => RateTypeOK'
  <2> SUFFICES ASSUME RateTypeOK, [RateNext]_rateVars PROVE RateTypeOK'
    OBVIOUS
  <2>1. ASSUME NEW loss \in Levels, OnReceiverReport(loss) PROVE RateTypeOK'
    <3>1. Append(reports, loss) \in Seq(Levels) /\ Len(Append(reports, loss)) = Len(reports) + 1
      BY DEF RateTypeOK
    <3>2. reports' \in Seq(Levels) /\ Len(reports') <= Capacity
      BY <2>1, <3>1, BitrateAssumption DEF RateTypeOK, OnReceiverReport
    <3> QED BY <2>1, <3>2 DEF RateTypeOK, OnReceiverReport
  <2>2. CASE RttChanges
    BY <2>2 DEF RateTypeOK, RttChanges
  <2>3. CASE Adapt
    <3>1. latest' \in Levels \cup {NoneYet}
      BY <2>3 DEF RateTypeOK, Adapt
    <3>2. target' \in Bitrates
      BY <2>3, ClampedInRange, DecidedIsInteger DEF RateTypeOK, Adapt
    <3>3. reports' \in Seq(Levels) /\ Len(reports') <= Capacity
      BY <2>3, BitrateAssumption DEF Adapt
    <3> QED BY <2>3, <3>1, <3>2, <3>3 DEF RateTypeOK, Adapt
  <2>4. CASE NextFrame
    BY <2>4 DEF RateTypeOK, NextFrame
  <2>5. CASE UNCHANGED rateVars
    BY <2>5 DEF RateTypeOK, rateVars, rateCode
  <2> QED BY <2>1, <2>2, <2>3, <2>4, <2>5 DEF RateNext
<1> QED BY <1>1, <1>2, PTL DEF RateSpec

----------------------------------------------------------------------------
\* The channel keeps what it is for: the next tick goes by the newest report
\* that had room, however many came before it.
THEOREM NewestAlwaysEffective == RateSpec => []NewestIsEffective
<1>1. RateInit => NewestIsEffective
  BY DEF RateInit, NewestIsEffective, Effective
<1>2. RateTypeOK /\ NewestIsEffective /\ [RateNext]_rateVars => NewestIsEffective'
  <2> SUFFICES ASSUME RateTypeOK, NewestIsEffective, [RateNext]_rateVars PROVE NewestIsEffective'
    OBVIOUS
  <2>1. ASSUME NEW loss \in Levels, OnReceiverReport(loss) PROVE NewestIsEffective'
    <3> SUFFICES ASSUME ~dropped' PROVE Effective' = newest'
      BY DEF NewestIsEffective
    <3>1. reports' = Append(reports, loss)
      <4>1. Len(reports) # Capacity
        BY <2>1 DEF OnReceiverReport
      <4>2. Len(reports) \in Nat /\ Len(reports) <= Capacity /\ Capacity \in Nat
        BY BitrateAssumption DEF RateTypeOK
      <4>3. Len(reports) < Capacity
        BY <4>1, <4>2
      <4> QED BY <2>1, <4>3 DEF OnReceiverReport
    <3>2. reports' # <<>> /\ reports'[Len(reports')] = loss
      BY <3>1 DEF RateTypeOK
    <3> QED BY <2>1, <3>2 DEF Effective, OnReceiverReport
  <2>2. CASE RttChanges
    BY <2>2 DEF NewestIsEffective, Effective, RttChanges
  <2>3. CASE Adapt
    BY <2>3 DEF NewestIsEffective, Effective, Adapt
  <2>4. CASE NextFrame
    BY <2>4 DEF NewestIsEffective, Effective, NextFrame
  <2>5. CASE UNCHANGED rateVars
    BY <2>5 DEF NewestIsEffective, Effective, rateVars, rateCode
  <2> QED BY <2>1, <2>2, <2>3, <2>4, <2>5 DEF RateNext
<1> QED BY <1>1, <1>2, RateTyped, PTL DEF RateSpec

\* A decision that raises the bitrate: rtt and loss are both good.
LEMMA RaisedMeansGood ==
    ASSUME NEW current \in Bitrates, NEW loss, Clamped(Decided(current, loss)) > current
    PROVE  rtt = "good" /\ loss \in {"good", NoneYet}
<1>1. CASE rtt = "bad" \/ loss = "bad"
  <2>1. Decided(current, loss) = current \div 2
    BY <1>1 DEF Decided
  <2>2. current \div 2 <= current
    BY BitrateAssumption DEF Bitrates
  <2> QED BY <2>1, <2>2, BitrateAssumption DEF Clamped, Bitrates
<1>2. CASE ~(rtt = "bad" \/ loss = "bad") /\ ~(rtt = "good" /\ loss \in {"good", NoneYet})
  <2>1. Decided(current, loss) = current
    BY <1>2 DEF Decided
  <2> QED BY <2>1, BitrateAssumption DEF Clamped, Bitrates
<1> QED BY <1>1, <1>2

\* The bitrate is raised only when neither the path nor the newest report
\* speaks against it, unless the channel had no room for that report.
THEOREM AlwaysRaisedOnGoodNews == RateSpec => RaisedOnlyOnGoodNews
<1>1. RateTypeOK /\ NewestIsEffective /\ [RateNext]_rateVars =>
        [target' > target => rtt = "good" /\ (newest \in {"good", NoneYet} \/ dropped)]_rateVars
  <2> SUFFICES ASSUME RateTypeOK, NewestIsEffective, RateNext, target' > target
               PROVE  rtt = "good" /\ (newest \in {"good", NoneYet} \/ dropped)
    OBVIOUS
  <2>1. CASE Adapt
    <3>1. target' = Clamped(Decided(target, Effective))
      BY <2>1 DEF Adapt, Effective
    <3>2. rtt = "good" /\ Effective \in {"good", NoneYet}
      BY <3>1, RaisedMeansGood DEF RateTypeOK
    <3> QED BY <3>2 DEF NewestIsEffective
  <2>2. CASE ~Adapt
    <3>1. target' = target
      BY <2>2 DEF RateNext, OnReceiverReport, RttChanges, NextFrame
    <3> QED BY <3>1, BitrateAssumption DEF RateTypeOK, Bitrates
  <2> QED BY <2>1, <2>2
<1> QED BY <1>1, RateTyped, NewestAlwaysEffective, PTL DEF RateSpec, RaisedOnlyOnGoodNews

\* A decision in good conditions raises the bitrate, one in bad conditions lowers
\* it, unless it is at its limit already.
LEMMA DecisionsApproach ==
    ASSUME NEW current \in Bitrates, NEW loss
    PROVE  /\ rtt = "good" /\ loss \in {"good", NoneYet} =>
                \/ current = MaxBitrate /\ Clamped(Decided(current, loss)) = MaxBitrate
                \/ Clamped(Decided(current, loss)) > current
           /\ rtt = "bad" =>
                \/ current = MinBitrate /\ Clamped(Decided(current, loss)) = MinBitrate
                \/ Clamped(Decided(current, loss)) < current
<1>1. ASSUME rtt = "good", loss \in {"good", NoneYet}
      PROVE  \/ current = MaxBitrate /\ Clamped(Decided(current, loss)) = MaxBitrate
             \/ Clamped(Decided(current, loss)) > current
  <2>1. Decided(current, loss) = current + IncreaseStep
    BY <1>1 DEF Decided, NoneYet
  <2> QED BY <2>1, BitrateAssumption DEF Clamped, Bitrates
<1>2. ASSUME rtt = "bad"
      PROVE  \/ current = MinBitrate /\ Clamped(Decided(current, loss)) = MinBitrate
             \/ Clamped(Decided(current, loss)) < current
  <2>1. Decided(current, loss) = current \div 2
    BY <1>2 DEF Decided
  <2>2. current \in Nat /\ (current > 0 => current \div 2 < current) /\ current \div 2 <= current
    BY BitrateAssumption DEF Bitrates
  <2> QED BY <2>1, <2>2, BitrateAssumption DEF Clamped, Bitrates
<1> QED BY <1>1, <1>2

\* As long as conditions are good every tick brings the bitrate nearer to the
\* highest, and as long as the path is bad nearer to the lowest; nothing else moves
\* it, in any conditions.
Approaches ==
    /\ ~Adapt => target' = target
    /\ Adapt /\ Good => target' > target \/ (target = MaxBitrate /\ target' = target)
    /\ Adapt /\ Bad  => target' < target \/ (target = MinBitrate /\ target' = target)

THEOREM ApproachesTheLimit == RateSpec => [][Approaches]_rateVars
<1>1. ASSUME RateTypeOK, NewestIsEffective, RateNext PROVE Approaches
  <2>1. CASE Adapt
    <3>1. target' = Clamped(Decided(target, Effective)) /\ target \in Bitrates
      BY <1>1, <2>1 DEF Adapt, Effective, RateTypeOK
    <3>2. ASSUME Good PROVE target' > target \/ (target = MaxBitrate /\ target' = target)
      <4>1. rtt = "good" /\ Effective \in {"good", NoneYet}
        BY <1>1, <3>2 DEF Good, NewestIsEffective
      <4> QED BY <3>1, <4>1, DecisionsApproach
    <3>3. ASSUME Bad PROVE target' < target \/ (target = MinBitrate /\ target' = target)
      BY <3>1, <3>3, DecisionsApproach DEF Bad
    <3> QED BY <2>1, <3>2, <3>3 DEF Approaches
  <2>2. CASE ~Adapt
    <3>1. target' = target
      BY <1>1, <2>2 DEF RateNext, OnReceiverReport, RttChanges, NextFrame
    <3> QED BY <2>2, <3>1 DEF Approaches
  <2> QED BY <2>1, <2>2
<1>2. RateTypeOK /\ NewestIsEffective /\ [RateNext]_rateVars => [Approaches]_rateVars
  BY <1>1
<1> QED BY <1>2, RateTyped, NewestAlwaysEffective, PTL DEF RateSpec

=============================================================================
