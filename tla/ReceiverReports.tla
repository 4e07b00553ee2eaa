-------------------------- MODULE ReceiverReports --------------------------
(***************************************************************************)
(* The receiver's playout loop over the streams of all peers, and the      *)
(* ReceiverReports it derives from its two counters of frames decoded and  *)
(* missed (adapters/media/audio.rs, playout_loop).                         *)
(*                                                                         *)
(* The path is steady: between two pulls exactly one frame of every peer   *)
(* that talks is due, and it arrives unless it is lost.  Delay and         *)
(* reordering are the subject of AudioJitter.  Every frame that is pulled  *)
(* decodes: it was authenticated when it was decrypted.  (One that did not *)
(* would be in neither counter, and make a report's total smaller.)        *)
(***************************************************************************)
EXTENDS JitterBuffer

CONSTANTS
    Senders,    \* the other peers
    Period,     \* pulls between two reports: 250
    Horizon,    \* bound: frames a peer sends
    MaxLost     \* bound: frames lost

\* The capacity holds the cushion (10 and 3 frames), and the sequence numbers do
\* not come round within the horizon.
ASSUME ReportsAssumption ==
    /\ IsFiniteSet(Senders)
    /\ Period \in Nat \ {0} /\ MaxLost \in Nat
    /\ MinDepth <= MaxFrames
    /\ Horizon \in Nat /\ Horizon < Modulus \div 2

VARIABLES
    state,      \* of each peer: "out", "talking" or "gone"
    next,       \* the next frame each peer sends
    jb,         \* the jitter buffers
    decoded, missed,    \* the counters of this period
    pulled,     \* pulls in this period
    report,     \* the reports sent at the last pull: the loss, and to whom
    lost,       \* history: frames lost
    calm        \* history: pulls since a peer came or went or a frame was lost

code    == <<state, next, jb, decoded, missed, pulled, report>>
history == <<lost, calm>>
vars    == <<code, history>>

NoReport  == [to |-> {}, missed |-> 0, total |-> 0]
MostPulls == Period * Cardinality(Senders)

\* From here on nothing a disturbance left behind is counted any more.
Settled == MinDepth + StaleTicks + Period

TypeOK ==
    /\ state \in [Senders -> {"out", "talking", "gone"}]
    /\ next \in [Senders -> 0 .. Horizon]
    /\ jb \in [Senders -> {Absent} \cup Buffers(0 .. Horizon, StaleTicks + 1)]
    /\ decoded \in 0 .. MostPulls /\ missed \in 0 .. MostPulls
    /\ pulled \in 0 .. Period - 1
    /\ report.to \in SUBSET Senders
    /\ report.missed \in 0 .. report.total /\ report.total \in 0 .. MostPulls
    /\ lost \in 0 .. MaxLost
    /\ calm \in 0 .. Settled

Init ==
    /\ state = [s \in Senders |-> "out"]
    /\ next = [s \in Senders |-> 0]
    /\ jb = [s \in Senders |-> Absent]
    /\ decoded = 0 /\ missed = 0 /\ pulled = 0
    /\ report = NoReport
    /\ lost = 0
    /\ calm = 0

----------------------------------------------------------------------------
\* A peer begins to send, or stops for good.
Changes(s, from, to) ==
    /\ state[s] = from
    /\ state' = [state EXCEPT ![s] = to]
    /\ calm' = 0
    /\ report' = NoReport
    /\ UNCHANGED <<next, jb, decoded, missed, pulled, lost>>

Come(s) == Changes(s, "out", "talking")
Go(s)   == Changes(s, "talking", "gone")

\* push_audio for the frames of the peers in A, which arrive.
Filled(A) ==
    [s \in Senders |->
        IF s \notin A THEN jb[s]
        ELSE LET b == IF jb[s].present THEN jb[s] ELSE NewBuffer
             IN  [b EXCEPT !.frames = Insert(@, next[s])]]

\* One pull from every buffer, then the stale ones are evicted.
Pulled(b) ==
    [s \in Senders |->
        IF ~b[s].present THEN Absent
        ELSE IF Stale(Pull(b[s])) THEN Absent ELSE Pull(b[s])]

Heard(b)   == {s \in Senders : b[s].present /\ Delivered(b[s]) # {}}
Unheard(b) == {s \in Senders : b[s].present /\ Delivered(b[s]) = {}}

Count(b) ==
    /\ decoded' = decoded + Cardinality(Heard(b))
    /\ missed' = missed + Cardinality(Unheard(b))
    /\ pulled' = pulled + 1
    /\ report' = NoReport

(* A faulty variant, to see the properties fail: the count of missed frames survives
   the report. *)
SendReports_KeepsCounting(b) ==
    LET m == missed + Cardinality(Unheard(b))
        d == decoded + Cardinality(Heard(b))
    IN  /\ report' = IF m + d = 0 THEN NoReport
                     ELSE [to |-> {s \in Senders : jb'[s].present}, missed |-> m, total |-> m + d]
        /\ decoded' = 0 /\ missed' = m /\ pulled' = 0

\* After Period pulls: one report for every peer that still has a buffer, with
\* the loss over all of them; the counters start again.
SendReports(b) ==
    LET m == missed + Cardinality(Unheard(b))
        d == decoded + Cardinality(Heard(b))
    IN  /\ report' = IF m + d = 0 THEN NoReport
                     ELSE [to |-> {s \in Senders : jb'[s].present}, missed |-> m, total |-> m + d]
        /\ decoded' = 0 /\ missed' = 0 /\ pulled' = 0

\* 20 ms: the frames of the peers that talk are due, those of L are lost; the
\* playout loop pulls once from every buffer.
Tick(L) ==
    LET talking == {s \in Senders : state[s] = "talking"}
        b       == Filled(talking \ L)
    IN  /\ L \subseteq talking
        /\ \A s \in talking : next[s] < Horizon
        /\ lost + Cardinality(L) <= MaxLost
        /\ lost' = lost + Cardinality(L)
        /\ next' = [s \in Senders |-> IF s \in talking THEN next[s] + 1 ELSE next[s]]
        /\ jb' = Pulled(b)
        /\ IF pulled + 1 < Period THEN Count(b) ELSE SendReports(b)
        /\ calm' = IF L # {} THEN 0 ELSE IF calm < Settled THEN calm + 1 ELSE calm
        /\ UNCHANGED state

Next ==
    \/ \E s \in Senders : Come(s) \/ Go(s)
    \/ \E L \in SUBSET Senders : Tick(L)

Spec == Init /\ [][Next]_vars

----------------------------------------------------------------------------
(* Properties *)

\* What a peer that came, left or lost frames does to the reports is over
\* after its buffer was filled or was found idle and discarded: from then on
\* every report says that nothing was lost.  The exception is a buffer that
\* was left half filled, which is missed for ever.
LossFadesOut ==
    /\ calm = Settled
    /\ \A s \in Senders : state[s] = "gone" => ~HalfFilled(jb[s])
    => report.missed = 0

\* A peer that has gone is forgotten: no report is addressed to it for longer
\* than it takes its buffer to be found idle.
NoReportToTheDeparted ==
    calm = Settled => \A s \in report.to : state[s] = "talking" \/ HalfFilled(jb[s])

=============================================================================
