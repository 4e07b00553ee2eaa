# Verification of ballsack

ballsack is an end-to-end encrypted group call: desktop clients (Tauri, React)
talk to a selective forwarding unit (SFU) over QUIC. A control stream per
connection carries membership and key messages; media frames travel as
datagrams that the SFU forwards without being able to read them. This directory
holds TLA+ modules translated from the source, TLC configurations that check
them on small instances, and TLAPS proofs of the properties that matter most.

All paths below are relative to `src/crates/`; `core` stands for
`ballsack-core/src`, `desktop` for `ballsack-desktop/src`, `ui` for
`ballsack-desktop/ui/src`.

## 1. The system

| Component | Source | State | Operations |
|---|---|---|---|
| SFU room control | `core/adapters/quic/server.rs` | `rooms`: map of rooms behind a read-write lock, in each room `peers` behind another one; a task per connection | handshake, `add_peer_to_room`, broadcasts, key relay, `remove_peer_from_room` |
| SFU datagram forwarding | same file, `forward_datagrams` | none of its own, reads the two locks | forward each datagram to everybody else |
| Joining, control messages | `core/application/join_room.rs`, `handle_control.rs`, `adapters/room_state.rs` | `RoomState` | read the `PeerList`, then one handler per message |
| Key distribution | `core/application/key_distribute.rs` | `shared_key`, written once | seal the key for every known peer, on joining and on every `PeerJoined` |
| Key rotation | `core/application/key_rotation.rs` | none | none that runs: nothing constructs it |
| Key store | `core/adapters/crypto/e2ee.rs` | keys by peer and id, at most five per peer (a session only ever has one) | generate, store, look up, encrypt, decrypt |
| Media sending and receiving | `core/application/send_media.rs`, `receive_media.rs`, `adapters/playback.rs` | sequence numbers | number and encrypt a frame; look the key up, decrypt, hand over |
| Audio jitter buffer, playout, receiver reports | `core/adapters/media/audio.rs` | a `BTreeMap<u16, frame>` per sender, playout pointer, idle ticks; two loss counters | `push_audio`, `pull`, eviction, `ReceiverReport` |
| Video chunking, reassembly | `core/adapters/media/video.rs` | chunks per frame and sender | `chunk_frame`, `push_chunk`, eviction |
| Bitrate adaptation | `core/application/bitrate_adapt.rs`, `handle_control.rs`, `audio.rs` (`next_frame`) | channel of reports, last report, target, encoder bitrate | report arrives, tick, next frame |
| Call life cycle | `desktop/state.rs`, `commands.rs`, `ui/components/CallControls.tsx` | `AppState.session`, the background loops, the buttons | `start_call`, `end_call`, `set_muted`, clicks and answers |
| Peer list, stats panel | `ui/components/PeerList.tsx`, `StatsPanel.tsx` | React state | snapshot and events |
| Wire format, QUIC client, stats reporter, playout clock, entry points | `core/domain`, `codec.rs`, `client.rs`, `stats.rs`, `clock.rs`, `main.rs` | little or none | conversions and wiring |

**How they interact.** The client connects, sends `Auth` and `JoinRoom`, and
waits for a `PeerList`. The server task of that connection inserts the peer
under both write locks, writes the list, broadcasts `PeerJoined`, and relays key
messages until the stream ends, then removes the peer and broadcasts `PeerLeft`.
Clients answer a `PeerList` and each `PeerJoined` with a `KeyDistribute`. Media
frames name sender and key id; the receiver looks up the key and pushes into the
jitter buffer, from which the playout loop pulls every 20 ms. The playout loop
counts losses and sends reports, which drive the sender's bitrate.

**What is hard.** Handshakes and departures of different connections overlap,
and their broadcasts and lists are written outside the critical section that
changes the room. Two nested fair locks are taken in several orders, once
recursively, with awaits on slow peers in between; reports share the control
streams with keys and membership, and a client reads nothing while it waits to
write a key. Control messages race each other. Frames are lost, late and reordered
and their `u16` number wraps. Set-up of a call may fail half way, after loops
have been spawned that nothing stops. Commands from the interface overlap.
PROJECT.json lists each such place with its line and the property that watches
it.

**What makes each part correct.** Room: whoever is in the call is known to at
least one side of each pair, holds the keys it needs once things calm down, and
no entry or name outlives its session except by the paths named below. Locks:
atomic access, and no wait without an end except by the recursive read, as far as
writes end. Streams: writes fail to end in known ways only. Playout: in order,
nothing skipped that has arrived, nothing kept for ever. Reports and bitrate: losses fade out of
the reports, the rate follows lasting conditions and rises on good news only.
Call: interface, session and microphone agree; a call that was left comes to
rest.

## 2. The modules

| Module | Models | Correspondence |
|---|---|---|
| `SfuRoom` | server tasks of one room and their clients | `task[p]` is the program counter of `handle_connection`; `members` is `Room.peers`, `existing` the snapshot returned by `add_peer_to_room`, `readers`/`todo` the broadcasts under way, `up`/`down` the control stream, `phase`/`known`/`keys` the client with its RoomState and key store |
| `RoomAccess` | abstract: what the locks promise | `Join`, `Leave`, `BeginRead`, `EndRead` |
| `FairRwLock` | `tokio::sync::RwLock`, external | one FIFO queue of requests, read and write guards |
| `RoomsLock` | both locks as the server takes them, the datagram forwarders | `pc[t]` is the await a task is at, a forwarder belongs to the connection `Owner[f]`, `buffered` is what an ended connection leaves to it; implements `RoomAccess` |
| `RoomFlow` | `RoomsLock` with the control streams: keys, membership messages, `ReceiverReport`s and `StatsReport`s, and who waits for credit with which guards | `client[c]` is where the control loop of a client is, `current`/`todo` the recipients of the broadcast a task is in; implements `RoomsLock` |
| `JitterBuffer` | `AudioJitterBuffer` as operators | `Insert`, `Pull`, `Delivered`, `Stale` |
| `AudioJitter` | one stream: network, `push_audio`, playout loop | `air` are the datagrams under way, `due` the pulls of one wakeup |
| `ReceiverReports` | all streams: the two counters, the reports | built on the same `JitterBuffer`; `Settled` is the number of pulls after which a disturbance has left the counters: the cushion, the idle ticks up to the eviction, one report period |
| `BitrateAdapt` | channel, AIMD decision, encoder | `reports`, `latest`, `target`, `encoder`; `Adapt` is one tick; the names say `Rate` where `ReceiverReports` has the same, so that one module can be about both |
| `VideoBuffer` | chunks under way, reassembly, eviction | `held[f]` is the entry of frame `f`, `{}` when there is none |
| `CallSession` | buttons, commands, `build_call_session`, loops | `step[c]` is where `start_call` is, `loops[c]` the tasks it has spawned; `ControlFails` ends the control loop alone |
| `UiPeerList` | the participant list and the control loops that feed it | `known[c]` is a call's RoomState, `doing[c]` the handler that has emitted but not stored or the reverse, `hears` the listeners registered, `answer` the snapshot of `get_peers`, `peers` the React state |

`SfuRoom` uses the guards `RoomAccess` states (nobody is added or removed during
a broadcast, nobody is added while a departure is announced); `RoomsLock` shows
that the two real locks provide them, as a refinement (`RefinesRoomAccess`). That
`SfuRoom` in turn asks no more of them than that is the theorem `UsesRoomAccess`.
So the message protocol and the locking protocol are checked apart, each in its
own detail, and the abstract module between them is what they meet in.
`SfuRoom` serves a reader of its locks at once and leaves reports out. Both only let
it do more than the program does, which waits behind a queued writer and for
streams that are fuller: safety carries over. What the waiting can lead to is
the question of `RoomsLock`, which has the queues, and of `RoomFlow`, which has the
queues and the streams; nothing is concluded about it from `SfuRoom`.
`AudioJitter` and `ReceiverReports` share the buffer. `UiPeerList`
starts where `SfuRoom` ends: its control loops are told of joins and departures in
the order of the control stream, whatever that order is.

The `MC...` modules instantiate these for TLC. An operator whose name is that of
another one followed by an underscore and a phrase (`OnPeerLeft_Ignored`,
`Evicted_Newest`) is a faulty variant: putting it in the place of the
original must break the property PROJECT.json pairs it with, which shows that the
property is not vacuous.

**Abstractions.** A session is one QUIC connection with its `PeerId`; ids are
never reused, so somebody who calls again is another session. A key message is
the set of peers it is sealed for; what a peer cannot open it ignores. RTT and
loss are the side of the two thresholds they are on. A frame is its number.
Steps of one task that touch nothing shared are merged with the next one; the
comments at `Add`, `RelayKeyDistribute` and `BroadcastTo` (whose last write and
the dropping of the guards are one step) say why that loses no interleaving.
Datagram bodies, fingerprints, AEAD, Opus, resampling, logging are left out.

## 3. The runs

| Run | Configuration | Bounds and why they are enough |
|---|---|---|
| `room` | 3 sessions, one unread message per stream; any number may end while changes come one at a time, one once changes overlap (`MaxOver`) | three sessions are the fewest where one joins while another is told of a third; a window of one message makes every writer wait as early as possible |
| `room_missing` (violation) | 2 sessions | two overlapping handshakes |
| `locks` | 3 connections, the forwarder of one, one datagram left when it ends, fairness | leaver, joiner and a broadcaster at each lock; the forwarder outlives its connection with and without something to forward |
| `locks_stall` (violation) | 2 connections and a forwarder, fairness | leaver and joiner |
| `flow` | 3 connections of which one may end, streams of one message, one report, no forwarder; not a report and an end both (`OneDisturbance`) | every stream is full as soon as anything waits in it; one report is enough to fill the stream of a client that must answer a `PeerJoined`; three handshakes or two and a departure overlap. The forwarders, any window and any number of reports and ends are in the proof (`FullSpec`) |
| `jitter` | 7 frames, buffer of 3, cushion of 2, a frame may overtake two | capacity, cushion, eviction and two pulls per wakeup are all reached; numbers do not wrap |
| `jitter_wrap` (violation) | 16 sequence numbers, lossless and in order | playout begins shortly before the wrap |
| `reports` | 2 peers, report every 3 pulls, 2 losses, 13 frames | a peer can come, lose frames and go, and its traces can leave the counters (`Settled`) before the horizon |
| `bitrate` | bitrates 2 to 8, step 1, channel of 2, fairness | both limits, halving down to the floor, a full channel |
| `video` | 4 frames of 3 chunks, 2 pending | two frames beyond the limit, any loss and any order |
| `session` | 2 calls, 2 `end_call` under way, fairness | a session replaced or ended by a late `end_call`, a control loop that fails at any time |
| `peer_list` | 2 calls, 2 peers | the loop of a call that was left or failed feeds the list of the next one; each peer joins and leaves at most once per call |

What each shows:

* **room.** `OneKnowsTheOther`: however handshakes and departures overlap, of two
  sessions in a call at least one knows the other.
  `KnownPeersCanDecrypt`: when everything sent has been processed, a session one
  knows has one's key, although a key that arrives before the `PeerList` is
  dropped. `GhostsComeFromPeerList` and `LeftoversAreUnannounced` delimit the two
  ways a departed session stays behind: in a RoomState that read its name in a
  `PeerList` after its `PeerLeft` was dropped, and in the server's room if its
  connection died between insertion and list. `MembershipInv` is the invariant of
  the proof. The history `overlapped` records whether a handshake or a departure
  ever began while another was under way. As long as none did, room, RoomStates
  and key stores agree (`RoomAgrees`), and a key never precedes the `PeerJoined` of
  its sender (`KeyAfterPeerJoined`). `TypeOK` includes that no session is listed as
  a peer of its own.
* **locks.** Refinement of `RoomAccess`. As far as the locks are concerned the
  server stands still only by the recursive read (`StuckOnlyByRecursiveRead`).
  Whether a broadcast comes to its end is not up to the server: it is written to
  clients that may not read. So the liveness properties have the premise that
  every broadcast under way is written at last (`WritesEnd`): then every operation
  completes, unless the recursive read happens (`OperationsCompleteUnlessStuck`),
  and a datagram forwarder, which nobody stops, comes to its end when its
  connection has ended (`ForwarderEndsWithConnection`), in whatever state of the
  departure that finds it.
* **flow.** What stands behind that premise. `StuckForTwoReasonsOnly`: a room in
  which something is under way and nobody can go on is stuck by the recursive
  read, or clients and tasks wait for each other (`WaitForEachOther`): every task
  that writes with the guards held writes to a client that is about to answer a
  `PeerJoined` and finds its own stream full, because its task is writing too, or
  waits for a lock, perhaps behind a join that the fair lock lets nobody pass.
  Such standstills are reachable in the run, by three handshakes that overlap; a
  report counts because it takes the room of a key in the stream of a client, and
  keeps its task busy. How much a stream holds is QUIC's window, which the code
  leaves at quinn's default. Clients that are joining, that send their first key,
  or that are gone never block anybody for good.
* **jitter.** `DeliversInSequence`, `PassesNothingBuffered`, the buffer is well
  formed, and the buffer of a sender that has gone is discarded unless it was
  left with fewer frames than its cushion.
* **reports.** A disturbance leaves the loss counters after a bounded number of
  pulls (`LossFadesOut`) and departed peers get no more reports, but for buffers
  left half filled.
* **bitrate.** The rate is raised only when path and newest report allow it
  (`RaisedOnlyOnGoodNews`), and follows lasting conditions to one of its limits.
* **video.** A frame whose chunks all come is rendered unless as many newer
  frames as the buffer holds were pending beside it.
* **session.** For a user who waits for answers the interface tells the truth
  and one microphone is on the air. For any user a call that is left comes to
  rest and only a call whose set-up failed leaves its playout loop running, also
  when the control loop ended on an error and the others had to go on without it.
  (That a third call replaces a session is beyond the bound; the theorem covers
  it for `OnlyFailedCallsLeakPlayout`.)
* **peer_list.** Snapshot, registration of the listeners and events run
  concurrently, so the list may be wrong. `ListIsRight` says where: only in peers
  whose last event did not come from the shown call, or came before the list had
  both listeners and had applied its snapshot. The next event of the call about
  such a peer sets it right. Everywhere else the list shows the RoomState once
  the events on their way have been handled.

`CHECK_DEADLOCK FALSE` is given in every configuration since all these systems
may stop: all sessions over, all frames sent, all calls left. Where standing
still would be a fault a property says so (`StuckOnlyByRecursiveRead`,
`StuckForTwoReasonsOnly`). These are about steps that are possible, and say so by
the guards of the actions (`CanProceed`, `CanGoOn`, `CanFollow`) where one would
write `ENABLED`, because a proof cannot use that. TLC finds `CanProceed(t) <=> ENABLED
Proceed(t)` in every state of the run `locks`, and in every state of the run `flow`
that `CanGoOn(c)` is the `ENABLED` of the actions of `c`'s server task, `CanFollow(c)`
that of the actions of its client's control loop.

**Fairness.** Only what the runtime schedules is fair. Tokio polls a task whose
lock was granted, and `read_datagram` of a closed connection returns what it had
received and then the error, without waiting (`RoomsLock!Fairness`). A write to a
control stream is not scheduling but credit that a client grants by reading, so
`RoomsLock` assumes nothing of it: `EndCast`, `EndBye` and `ListSent` are not fair, and
that they happen is the stated premise `WritesEnd` of the two properties that need
it. Interval timers fire (`Wake`, `Adapt`); commands that were
invoked are carried out and loops whose connection is closed or token cancelled
end (`CallSession`, where the send loop also needs a microphone that delivers
frames, see `audio.rs` 318-323). Nobody is obliged to join, to leave, to click
or to send, and the network may lose every frame: `WF` is on "arrives or is
lost".

## 4. Where code and comments disagree

* `room_missing`: a peer is in the room before it has read its `PeerList`, and
  whatever reaches it before is dropped (`join_room.rs` 84). Of two overlapping
  handshakes one client never learns of the other and never seals its key for it,
  against "so the new peer can decrypt media that is already being sent"
  (`handle_control.rs` 72).
* `locks_stall`: `remove_peer_from_room` reads `rooms` twice (`server.rs` 305, 324).
  A join in between queues for the write guard, and since the lock is fair the
  second read waits for it. "Notify others" never happens, nor anything else.
* `jitter_wrap`: the smallest `u16` is taken for the oldest frame. After the wrap
  (22 minutes of audio) frames are played out of order or given up, against
  "deliver frames in sequence order" (`audio.rs` 435). A pull there may also jump past
  frames that wait from before the wrap, so `PassesNothingBuffered` is checked
  and proved for streams that do not wrap.

One disagreement is not a run, because the code that would be modelled does not
run: the README of the repository promises that sender keys are rotated
(`src/README.md` 18, 30, 36, 163: periodically and on membership changes).
`KeyRotationUseCase` is constructed nowhere, `shared_key` is written once
(`desktop/state.rs` 111), and the handler of `PeerLeft` has a TODO in its place
(`handle_control.rs` 88). A peer that has left can decrypt what the others send
for the rest of the call. Eviction from the key store and the lookup of older
keys, which exist for rotation, never come into play either.

Met on the way, and stated by a property that says how far it goes: departed
peers that stay in a RoomState (`GhostsComeFromPeerList`); broadcasts that wait for
stream credit with both locks held, and clients that read nothing while they wait
for theirs (`StuckForTwoReasonsOnly`); an entry left in the
room when the connection dies before the `PeerList` is written, because `?` leaves
`handle_connection` before the cleanup (`LeftoversAreUnannounced`); audio buffers
left half filled that are never evicted and count as missed for ever
(`SilentStreamIsDiscardedUnlessHalfFilled`, `LossFadesOut`); the playout loop of a
call whose microphone cannot be opened (`OnlyFailedCallsLeakPlayout`); a participant
list whose snapshot is older than the events it overwrites, or that hears the loop
of a call that is over (`ListIsRight`); a full channel that drops the newest report
(`RaisedOnlyOnGoodNews`); the bitrate loop, which nothing ends
(`LeftCallComesToRest`).

## 5. The proofs

Each proof module extends the module it is about and is checked by `tlapm`. All
results hold for every value of the constants under the assumptions of that
module, in particular for any number of peers, frames and calls. The bounds
in the modules (`MaxOver`, `MaxReports`, `Frames`, ...) are constants too, so a
theorem holds for each of them.

| Module | Theorems | Argument |
|---|---|---|
| `SfuRoom_proofs` | `Membership`, `LaterKnowsEarlierAlways`, `OneKnowsTheOtherAlways` | `MembershipInv`. `LaterKnowsEarlier` alone is not inductive: the list that will be read must be the snapshot, and a `PeerLeft` that will be read must name a peer that is out and stays out (`ToldTheTruth`). That needs that a task announces a departure only after the removal (`DepartingIsOut`) and that sessions not yet added are unheard of (`FreshIsUnheardOf`). Of two members one was in the snapshot of the other (`SnapshotsAreOrdered`), which gives `OneKnowsTheOther` |
| | `Typed`, `Views`, `LeftoversAlwaysUnannounced`, `GhostsAlwaysComeFromPeerList`, `KnownPeersCanAlwaysDecrypt` | `ViewInv`, on top of the first: what only its own handshake can have told is still unheard of (`UnheardIsUnknown`); a known peer that is out is followed by its `PeerLeft`, on the stream or about to be broadcast, or was read in a list (`DepartureFollows`); the key for a peer one knows is in its store, on its stream behind what makes it acceptable, with the server, or about to be sealed (`KeyReaches`). `Typed` follows from it: the snapshot of a session that is only now added cannot name it |
| | `Serially`, `KeyAlwaysAfterPeerJoined`, `RoomAlwaysAgrees` | `SerialInv`: as long as nothing overlapped a session that joins is alone in that (`AloneWhileJoining`) and is told of the room as it is (`JoiningSeeTheRoom`), so no broadcast finds its reader still waiting for a list: whoever came later is known or being announced, whoever left is (`NewcomersAreAnnounced`, `DepartedAreAnnounced`), and its key is behind its `PeerJoined` (`KeysFollow`) |
| | `UsesRoomAccess` | each step is a step of `RoomAccess` or leaves it alone; an insertion finds no departure half announced since `RoomsReaders` counts those tasks |
| `RoomsLock_proofs` | `Typed`, `Refinement` | the position of a task determines the guards it holds (`GuardsMatch`), and the lock's guards exclude each other (`Exclusive`); so whoever inserts or removes holds the room alone, and a step of `RoomsLock` is a step of `RoomAccess` or changes nothing of it |
| | `QueuesAlwaysMatch`, `StuckForOneReasonOnly` | `QueuesMatch`: a task is in the queue of exactly the lock its position waits for, once and in the right mode. If nobody can go on, every waiting task is in a queue; the head of the queue of the room finds no guard in its way, because whoever held one could go on; so all wait for `rooms`, and its head is kept out by guards of tasks that wait behind it, which only a departing task does |
| `RoomFlow_proofs` | `RefinesRoomsLock`, `FlowTyped`, `StuckForNoOtherReason` | each step of `RoomFlow` is a step of `RoomsLock` that says whom it writes to, or leaves the locks alone; so the lock invariant of `RoomsLock_proofs` holds. `ClientsFit` relates where a client is to where its task is and what its streams hold. In a standstill, without the recursive read, some task holds a guard others wait for and is writing (by the argument of `StuckForOneReasonOnly`); its recipient has a full stream it does not read, so it is about to answer a `PeerJoined` with its own stream full, and its task, which does not read that one, is writing or waits for a lock. This holds from a window of one message up (`WindowAssumption`) |
| `AudioJitter_proofs` | `Typed`, `AlwaysBuffer`, `BufferAlwaysWellFormed`, `NeverPassesBuffered`, `AlwaysInSequence`, `SilenceRunsDown` | `Insert` and `Pull` keep the buffer well formed whatever the sequence numbers do. That playout is in sequence and passes no frame that is to come, by the code's own wrapping comparison, is proved under `BeforeTheWrap` (the stream and its pointer stay within half of the numbers), with the invariant that playout is behind its pointer, and the pointer not far beyond the last frame; `jitter_wrap` shows that the assumption is needed. `SilenceRunsDown`: in silence every pull takes a frame or adds an idle tick, which `BufferInv` bounds |
| `CallSession_proofs` | `OnlyFailedCallsEverLeakPlayout` | ownership: a playout loop that was not cancelled belongs to the session or to a call at a step between `capture` and `store`, or failed; the session is a call that was stored |
| | `Typed`, `InterfaceAlwaysTellsTheTruth`, `OneMicrophoneAlways` | `PatientInv`: with a user who waits for answers, what the interface shows determines which command is under way and which call is the session |
| `Feedback_proofs` (both ends of the loss feedback) | `ReportsInvariant`, `ReportsTyped`, `LossAlwaysFadesOut`, `DepartedAreForgotten`, `AbandonedForEver` | `PeersInv`: every buffer holds fewer frames than the cushion and none behind the playout pointer (`BufferOK`); in a calm spell the buffer of a peer that talks fills by a frame per pull until it plays, and that of one that has gone drains, then idles, at the same pace (`CalmOK`). `CountInv`: where no buffer is abandoned a pull finds nothing only early in a calm spell, and what it counts stays in the counters for one period. `Settled`, the sum of these spans, is the least that holds. A half-filled buffer of a peer that is gone stays one for ever, which `AbandonedForEver` states as an action property |
| | `RateTyped`, `NewestAlwaysEffective`, `AlwaysRaisedOnGoodNews`, `ApproachesTheLimit` | `NewestIsEffective`: the report the next tick will go by, in the channel or remembered, is the newest one unless that found no room; so a tick raises the target on good news only and, while conditions last, moves it toward its limit |
| `VideoBuffer_proofs` | `Typed`, `AlwaysAccounted`, `AlwaysLostOnlyWhenCrowded` | `Accounted`: all chunks of a frame that came are in its entry, unless it was rendered or crowded out. An eviction takes the oldest of `MaxPending + 1` entries and so leaves `MaxPending` newer ones. That a set of frames has an oldest follows from the well-foundedness of the strict subset order |
| `UiPeerList_proofs` | `Typed`, `ListAlwaysFits`, `ListIsAlwaysRight` | `ListInv`: for a peer that is not `unsure` the last event waiting to be applied, or the list if none waits, agrees with what the loop of the shown call has told, up to the handler under way |

Every invariant and every action property of the passing runs is stated by a
theorem. Only model-checked are the liveness properties
(`OperationsCompleteUnlessStuck`, `ForwarderEndsWithConnection`,
`SilentStreamIsDiscardedUnlessHalfFilled`, `LeftCallComesToRest`,
`FollowsLastingConditions`): fairness is defined by
`ENABLED`, which the prover does not handle. Of two of them the part that is a
safety property is proved: `SilenceRunsDown` and `ApproachesTheLimit` say that in
the situation the property is about every step of the loop concerned brings the
end nearer and no other step moves away from it. What is said of streams of every
length rests on lemmas about `Append` and `Tail`, not on induction.

The theorems about reports assume (`ReportsAssumption`) that the cushion fits into
the buffer, 3 frames and 10 in the code, and that the bound on the frames a peer
sends stays below half the sequence numbers, so before the wrap of `jitter_wrap`.

## 6. What is not modelled

* Codecs, resampling, mixing, cryptographic primitives, TLS set-up, CBOR framing,
  logging, device enumeration: computations without a state the properties tell
  apart, or wiring.
* `clock.rs`: nothing uses it. The stats reporter sends constants for loss and
  jitter; it occurs as one of the loops of a call.
* Key rotation is never started (section 4), and a `KeyRotate` message is handled but
  sent by no code. What the key store does with several keys of one sender
  therefore never runs.
* `ReceiverReport` and `StatsReport` are in `RoomFlow` for the room they take up in the
  streams and the locks their relay takes, and the former in `ReceiverReports` and
  `BitrateAdapt` for what they say; `SfuRoom` leaves them out, see section 2.
* `MaxPending`, `Capacity` and the other limits are constants of the
  modules; only the runs make them small. Sequence numbers keep their modulus;
  frame ids (`u32`) are not wrapped, that takes years.
* Several rooms: a connection's task only touches its own room, rooms share the
  outer lock alone, and `RoomsLock` has every order of taking that with one room.
* The stats panel shows the last event it got and keeps nothing else.
* The playout loop sends its reports with the lock of the transport held; a
  server that stops reading the control stream stops playout with it. How long
  is up to QUIC's flow control; the idle time-out the server sets (`server.rs` 402)
  does not run while datagrams keep coming in. (That it makes playout wait changes no state of `RoomFlow`, where such a report is
  simply not sent yet.)
* A frame that cannot be decoded, which neither counter of the playout loop counts:
  frames are authenticated, so what arrives is what an encoder made.
* Rooms are never removed from the map, nor video buffers from theirs: growth
  without a bound, which a finite model cannot tell from correct behaviour.

## 7. Plan

Done, in this order: `SfuRoom` with its proofs, the locks and their refinement,
the audio buffer, the call life cycle, the reports, the bitrate, the video buffer,
the datagram forwarders, the control loop that fails, the participant list; then
the proofs of the refinement, of the audio buffer, of views and key delivery, of
the room without overlaps, of the participant list, of the reports, of the
absence of standstills in the locks; then `RoomFlow`, which has the streams and
the reports under the fair locks, with its proofs.

Left:

1. More rooms than one in `RoomsLock`.
2. From which window on, for a given number of peers and reports, the waits of
   `WaitForEachOther` cannot close: a bound that the code could be configured by.
3. The datagrams that bring the audio buffer of a departed sender back to life,
   across `RoomsLock` and `AudioJitter`.
