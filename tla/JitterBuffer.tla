---------------------------- MODULE JitterBuffer ----------------------------
(***************************************************************************)
(* AudioJitterBuffer (adapters/media/audio.rs) as operators: what inserting *)
(* a frame and pulling one do to a buffer.                                 *)
(*                                                                         *)
(* Frame n is the n-th frame of a sender; on the wire it carries the       *)
(* sequence number Key(n), a u16 in the code.  The BTreeMap of the buffer  *)
(* is the set of the frames in it, which have different keys; its order is *)
(* the order of the keys.                                                  *)
(***************************************************************************)
EXTENDS Integers, FiniteSets

CONSTANTS
    Modulus,    \* sequence numbers: 2^16
    MaxFrames,  \* capacity of the buffer: 10
    MinDepth,   \* frames needed to start playout: 3
    StaleTicks  \* idle pulls after which the buffer is discarded: 250

ASSUME JitterAssumption ==
    /\ Modulus \in Nat /\ Modulus > 1
    /\ MaxFrames \in Nat \ {0}
    /\ MinDepth \in Nat \ {0}
    /\ StaleTicks \in Nat

Key(n) == n % Modulus
None   == -1
Absent == [present |-> FALSE]

\* Buffers over a set F of frames with at most i idle pulls.
Buffers(F, i) ==
    [present : {TRUE}, frames : SUBSET F, next : {None} \cup 0 .. Modulus - 1,
     buffering : BOOLEAN, idle : 0 .. i]

NewBuffer ==
    [present |-> TRUE, frames |-> {}, next |-> None, buffering |-> TRUE, idle |-> 0]

\* The smallest key of the BTreeMap.
Earliest(S) == CHOOSE n \in S : \A m \in S : Key(n) <= Key(m)

(* A faulty variant, to see the properties fail: an insertion makes room too late. *)
Insert_OffByOne(S, n) ==
    LET kept == IF Cardinality(S) > MaxFrames THEN S \ {Earliest(S)} ELSE S
    IN  {m \in kept : Key(m) # Key(n)} \cup {n}

\* AudioJitterBuffer::insert: a full buffer first gives up its smallest key.
Insert(S, n) ==
    LET kept == IF Cardinality(S) >= MaxFrames THEN S \ {Earliest(S)} ELSE S
    IN  {m \in kept : Key(m) # Key(n)} \cup {n}

\* wrapping_sub on sequence numbers, and "ahead by less than half the range".
Diff(a, b)  == (a - b) % Modulus
Ahead(a, b) == 0 < Diff(a, b) /\ Diff(a, b) < Modulus \div 2

(* A faulty variant, to see the properties fail: no pointer, the smallest key always
   comes next. *)
PlayoutSeq_NoPointer(b) == Key(Earliest(b.frames))

(* A faulty variant, to see the properties fail: catching up jumps to the newest frame. *)
PlayoutSeq_JumpsToNewest(b) ==
    CHOOSE k \in {Key(n) : n \in b.frames} : \A n \in b.frames : Key(n) <= k

\* The sequence number a pull tries to play.
PlayoutSeq(b) ==
    LET earliest == Key(Earliest(b.frames))
    IN  IF b.buffering \/ b.next = None \/ Ahead(earliest, b.next)
        THEN earliest ELSE b.next

\* AudioJitterBuffer::pull and what it delivers.
Delivered(b) ==
    IF b.frames = {} \/ (b.buffering /\ Cardinality(b.frames) < MinDepth)
    THEN {}
    ELSE {n \in b.frames : Key(n) = PlayoutSeq(b)}

(* A faulty variant, to see the properties fail: an empty buffer is not idle. *)
Pull_EmptyIsNotIdle(b) ==
    IF b.frames = {}
    THEN [b EXCEPT !.buffering = TRUE, !.next = None]
    ELSE IF b.buffering /\ Cardinality(b.frames) < MinDepth
    THEN b
    ELSE [b EXCEPT !.buffering = FALSE,
                   !.next = (PlayoutSeq(b) + 1) % Modulus,
                   !.frames = @ \ Delivered(b),
                   !.idle = IF Delivered(b) = {} THEN @ + 1 ELSE 0]

Pull(b) ==
    IF b.frames = {}
    THEN [b EXCEPT !.idle = @ + 1, !.buffering = TRUE, !.next = None]
    ELSE IF b.buffering /\ Cardinality(b.frames) < MinDepth
    THEN b
    ELSE [b EXCEPT !.buffering = FALSE,
                   !.next = (PlayoutSeq(b) + 1) % Modulus,
                   !.frames = @ \ Delivered(b),
                   !.idle = IF Delivered(b) = {} THEN @ + 1 ELSE 0]

(* A faulty variant, to see the properties fail: nothing is ever stale. *)
Stale_Never(b) == FALSE

Stale(b) == b.idle > StaleTicks

----------------------------------------------------------------------------
\* The buffer is what the code takes it for: at most MaxFrames frames, one per
\* sequence number, and no playout pointer while it waits for its cushion.
WellFormed(b) ==
    /\ Cardinality(b.frames) <= MaxFrames
    /\ \A m, n \in b.frames : Key(m) = Key(n) => m = n
    /\ b.buffering => b.next = None

\* It waits for its cushion and has some of the frames, but not all.
HalfFilled(b) ==
    b.present /\ b.buffering /\ b.frames # {} /\ Cardinality(b.frames) < MinDepth

=============================================================================
