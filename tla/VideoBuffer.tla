---------------------------- MODULE VideoBuffer ----------------------------
(***************************************************************************)
(* The video frames of one sender on their way to one receiver: cut into   *)
(* chunks, sent as datagrams that are lost or overtake each other, and put *)
(* together again by VideoJitterBuffer (adapters/media/video.rs).          *)
(*                                                                         *)
(* The buffer of each (peer, ssrc) is an object of its own.  Payloads are  *)
(* left out: a chunk is its place in the frame.                            *)
(***************************************************************************)
EXTENDS Integers, FiniteSets

CONSTANTS
    Frames,         \* bound: frames sent
    Chunks,         \* chunks of a frame
    MaxPending      \* max_pending_frames: 10

ASSUME VideoAssumption ==
    /\ Frames \in Nat
    /\ Chunks \in Nat \ {0}
    /\ MaxPending \in Nat \ {0}

FrameIds == 0 .. Frames - 1
ChunkIds == 0 .. Chunks - 1

VARIABLES
    next,       \* id of the next frame
    network,    \* chunks under way
    held,       \* chunks of each frame in the buffer; {}: it has no entry
    rendered,   \* frames handed to the decoder
    arrived,    \* history: all chunks of a frame that have come
    crowded     \* history: frames that had MaxPending newer ones pending beside them

vars == <<next, network, held, rendered, arrived, crowded>>

Pending(h) == {f \in FrameIds : h[f] # {}}
Newer(h, f) == {g \in Pending(h) : g > f}

TypeOK ==
    /\ next \in 0 .. Frames
    /\ network \in SUBSET (FrameIds \X ChunkIds)
    /\ held \in [FrameIds -> SUBSET ChunkIds]
    /\ Cardinality(Pending(held)) <= MaxPending
    /\ rendered \in SUBSET FrameIds
    /\ arrived \in [FrameIds -> SUBSET ChunkIds]
    /\ crowded \in SUBSET FrameIds

Init ==
    /\ next = 0
    /\ network = {}
    /\ held = [f \in FrameIds |-> {}]
    /\ rendered = {}
    /\ arrived = [f \in FrameIds |-> {}]
    /\ crowded = {}

----------------------------------------------------------------------------
\* chunk_frame, and one datagram for each chunk.
SendFrame ==
    /\ next < Frames
    /\ network' = network \cup ({next} \X ChunkIds)
    /\ next' = next + 1
    /\ UNCHANGED <<held, rendered, arrived, crowded>>

Lose ==
    \E c \in network :
        /\ network' = network \ {c}
        /\ UNCHANGED <<next, held, rendered, arrived, crowded>>

(* A faulty variant, to see the properties fail: one chunk too few is enough. *)
Complete_OneTooFew(chunks) == Cardinality(chunks) >= Chunks - 1

Complete(chunks) == Cardinality(chunks) = Chunks

\* The smallest key of the BTreeMap.
Oldest(S) == CHOOSE f \in S : \A g \in S : f <= g

(* Faulty variants, to see the properties fail: the newest frame goes; the
   buffer evicts when it is only full. *)
Evicted_Newest(h) ==
    IF Cardinality(Pending(h)) > MaxPending
    THEN [h EXCEPT ![CHOOSE f \in Pending(h) : \A g \in Pending(h) : f >= g] = {}]
    ELSE h

Evicted_TooLate(h) ==
    IF Cardinality(Pending(h)) > MaxPending + 1
    THEN [h EXCEPT ![Oldest(Pending(h))] = {}]
    ELSE h

\* Entries are added one at a time, so the loop removes at most one.
Evicted(h) ==
    IF Cardinality(Pending(h)) > MaxPending
    THEN [h EXCEPT ![Oldest(Pending(h))] = {}]
    ELSE h

\* push_chunk: a late chunk of a frame that was evicted makes a new entry.
PushChunk(f, i) ==
    LET grown == [held EXCEPT ![f] = @ \cup {i}]
    IN  IF Complete(grown[f])
        THEN /\ held' = [grown EXCEPT ![f] = {}]
             /\ rendered' = rendered \cup {f}
        ELSE /\ held' = Evicted(grown)
             /\ rendered' = rendered

\* A chunk arrives, in any order.
Receive ==
    \E c \in network :
        LET f == c[1]
            i == c[2]
        IN  /\ network' = network \ {c}
            /\ PushChunk(f, i)
            /\ arrived' = [arrived EXCEPT ![f] = @ \cup {i}]
            /\ crowded' = crowded \cup
                  {g \in FrameIds : arrived'[g] # {} /\ g \notin rendered'
                                      /\ Cardinality(Newer(held', g)) >= MaxPending}
            /\ next' = next

Next == SendFrame \/ Lose \/ Receive

Spec == Init /\ [][Next]_vars

----------------------------------------------------------------------------
(* Properties *)

\* A frame is rendered when and only when its last chunk comes, in whatever
\* order its chunks and those of the other frames arrive, unless MaxPending
\* newer frames were pending at some time in between.
LostOnlyWhenCrowded ==
    \A f \in FrameIds :
        /\ f \in rendered => arrived[f] = ChunkIds
        /\ arrived[f] = ChunkIds => f \in rendered \cup crowded

=============================================================================
