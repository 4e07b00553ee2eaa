---------------------------- MODULE AudioJitter ----------------------------
(***************************************************************************)
(* One audio stream at the receiver: a JitterBuffer, filled by push_audio  *)
(* and emptied by playout_loop (adapters/media/audio.rs), behind a datagram *)
(* path that delays, reorders and loses frames.                            *)
(***************************************************************************)
EXTENDS JitterBuffer

CONSTANTS
    MaxDue,     \* bound: pulls owed at one wakeup
    First,      \* first frame sent after the receiver joined
    Final,      \* bound: last frame the sender sends
    Reorder     \* bound: how many older frames a frame may overtake

ASSUME StreamAssumption ==
    /\ MaxDue \in Nat \ {0} /\ Reorder \in Nat
    /\ First \in Nat /\ Final \in Nat /\ First <= Final

VARIABLES
    sent,       \* frames the sender has produced
    air,        \* frames on their way
    jb,         \* the jitter buffer, or Absent
    due,        \* pulls left in the playout loop's critical section
    out,        \* what the last pull delivered: one frame or none
    last        \* newest frame delivered since the pointer was last unset

vars == <<sent, air, jb, due, out, last>>

Frames == First .. Final

TypeOK ==
    /\ sent \in First .. Final + 1
    /\ air \in SUBSET Frames
    /\ jb \in {Absent} \cup Buffers(Frames, StaleTicks + MaxDue)
    /\ due \in 0 .. MaxDue
    /\ out \in SUBSET Frames
    /\ last \in {None} \cup Frames

Init ==
    /\ sent = First
    /\ air = {}
    /\ jb = Absent
    /\ due = 0
    /\ out = {}
    /\ last = None

----------------------------------------------------------------------------
(* The network, external to the code *)

Send ==
    /\ sent <= Final
    /\ air' = air \cup {sent}
    /\ sent' = sent + 1
    /\ out' = {}
    /\ UNCHANGED <<jb, due, last>>

Lose(n) ==
    /\ n \in air
    /\ air' = air \ {n}
    /\ out' = {}
    /\ UNCHANGED <<sent, jb, due, last>>

\* push_audio: find or create the buffer and insert, while the playout loop
\* does not hold the lock.
Push(n) ==
    /\ n \in air
    /\ Cardinality({m \in air : m < n}) <= Reorder
    /\ due = 0
    /\ air' = air \ {n}
    /\ jb' = LET b == IF jb.present THEN jb ELSE NewBuffer
             IN  [b EXCEPT !.frames = Insert(@, n)]
    /\ out' = {}
    /\ UNCHANGED <<sent, due, last>>

\* playout_loop: a wakeup that finds frames due takes the lock of the buffers.
Wake ==
    /\ due = 0
    /\ jb.present
    /\ due' \in 1 .. MaxDue
    /\ out' = {}
    /\ UNCHANGED <<sent, air, jb, last>>

\* One pull per frame due; after the last one stale buffers are evicted.
PullOne ==
    /\ due > 0
    /\ due' = due - 1
    /\ jb' = LET b == Pull(jb) IN IF due' = 0 /\ Stale(b) THEN Absent ELSE b
    /\ out' = Delivered(jb)
    /\ last' = IF ~jb'.present \/ Pull(jb).next = None THEN None
               ELSE IF out' # {} THEN CHOOSE n \in out' : TRUE ELSE last
    /\ UNCHANGED <<sent, air>>

Next == Send \/ (\E n \in Frames : Lose(n) \/ Push(n)) \/ Wake \/ PullOne

Spec == Init /\ [][Next]_vars

\* A network that loses nothing; with Reorder = 0 it delivers in order, too.
LosslessNext == Send \/ (\E n \in Frames : Push(n)) \/ Wake \/ PullOne

LosslessSpec == Init /\ [][LosslessNext]_vars

\* The interval timer keeps firing and a loop that holds the lock goes on; a
\* datagram arrives or is lost.  The sender may stop at any frame.
FairSpec ==
    /\ Spec
    /\ WF_vars(Wake) /\ WF_vars(PullOne)
    /\ WF_vars(\E n \in Frames : Lose(n) \/ Push(n))

----------------------------------------------------------------------------
(* Properties *)

\* "Deliver frames in sequence order": between two resynchronisations every
\* frame that is played is newer than the ones before, although it may arrive
\* in any order, after others were given up, or never.
DeliversInSequence == [][\A n \in out' : n > last \/ last = None]_vars

\* Frame n is still to come when the pointer is p: not behind it, as the code
\* compares sequence numbers.
ToCome(n, p) == Diff(Key(n), p) < Modulus \div 2

\* The pointer never passes a frame that is waiting in the buffer to be played:
\* skipping forward loses nothing that has arrived.
PassesNothingBuffered ==
    [][PullOne /\ jb.next # None /\ jb'.present =>
         \A n \in jb'.frames : ToCome(n, jb.next) => ToCome(n, jb'.next)]_vars

\* The buffer is what the code takes it for: at most MaxFrames frames, one per
\* sequence number, and no playout pointer while it waits for its cushion.
BufferWellFormed == jb.present => WellFormed(jb)

Silent == sent > Final /\ air = {}

\* When the sender has gone its buffer is discarded, unless the frames left in
\* it are too few to start playout: such a buffer never counts as idle.
SilentStreamIsDiscardedUnlessHalfFilled == Silent /\ ~HalfFilled(jb) ~> ~jb.present

=============================================================================
