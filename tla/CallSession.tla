---------------------------- MODULE CallSession ----------------------------
(***************************************************************************)
(* The life of a call on the desktop: the buttons of CallControls.tsx, the *)
(* Tauri commands (commands.rs) that run concurrently behind one mutex, and *)
(* build_call_session (state.rs), which connects, joins and then spawns    *)
(* one background loop after the other.                                    *)
(*                                                                         *)
(* Calls numbers the invocations of start_call.  The loops are             *)
(* "control" (HandleControl), "bitrate", "playout", "receive", "stats" and *)
(* "send" (which owns the microphone).  A loop holds the transport, and a  *)
(* connection whose handles are all dropped is closed, but the bitrate     *)
(* loop is never left: after it was spawned only transport.close or a      *)
(* failing network ends the connection.                                    *)
(***************************************************************************)
EXTENDS Naturals, FiniteSets

CONSTANTS
    Calls,      \* invocations of start_call, by number
    None,       \* no session
    MaxEnds     \* bound: end_call invocations under way at a time

ASSUME CallSessionAssumption == Calls \subseteq Nat /\ None \notin Calls /\ MaxEnds \in Nat \ {0}

VARIABLES
    step,       \* where start_call is
    loops,      \* background loops that run
    closed,     \* calls whose connection is closed
    cancelled,  \* calls whose playout was told to stop
    session,    \* AppState.session
    muteFlag,   \* the flag shared with the capture, per call
    inCall, loading, muted,     \* what the user interface shows
    ending, ended,  \* end_call: invoked, and done but not answered
    toggling,       \* set_muted: Idle, or the value sent, or the one answered
    hasty           \* history: the user has clicked without waiting for an answer

backend == <<step, loops, closed, cancelled, session, muteFlag>>
ui      == <<inCall, loading, muted, ending, ended, toggling>>
vars    == <<backend, ui, hasty>>

Steps == {"idle", "connect", "playback", "capture", "store", "answer", "done", "failed", "gaveUp"}
Loops == {"control", "bitrate", "playout", "receive", "stats", "send"}

Idle          == [at |-> "idle"]
Toggling(at)  == [at : {at}, value : BOOLEAN]

\* start_call has stored the session of this call.
Stored(c) == step[c] \in {"answer", "done"}

\* Only a session that was stored is in place or has been told to stop, and one
\* that was told to stop is no longer in place.
TypeOK ==
    /\ step \in [Calls -> Steps]
    /\ loops \in [Calls -> SUBSET Loops]
    /\ closed \in SUBSET Calls
    /\ cancelled \in SUBSET Calls
    /\ session \in Calls \cup {None}
    /\ muteFlag \in [Calls -> BOOLEAN]
    /\ inCall \in BOOLEAN /\ loading \in BOOLEAN /\ muted \in BOOLEAN
    /\ ending \in 0 .. MaxEnds /\ ended \in 0 .. MaxEnds
    /\ toggling \in {Idle} \cup Toggling("sent") \cup Toggling("answered")
    /\ hasty \in BOOLEAN
    /\ \A c \in cancelled \cup ({session} \ {None}) : Stored(c)
    /\ session \notin cancelled

Init ==
    /\ step = [c \in Calls |-> "idle"]
    /\ loops = [c \in Calls |-> {}]
    /\ closed = {}
    /\ cancelled = {}
    /\ session = None
    /\ muteFlag = [c \in Calls |-> FALSE]
    /\ inCall = FALSE /\ loading = FALSE /\ muted = FALSE
    /\ ending = 0 /\ ended = 0
    /\ toggling = Idle
    /\ hasty = FALSE

Goto(c, from, to)  == step[c] = from /\ step' = [step EXCEPT ![c] = to]
Spawn(c, L)        == loops' = [loops EXCEPT ![c] = @ \cup L]

----------------------------------------------------------------------------
(* The user interface *)

\* handleJoin: the form is there while not in a call, its button is disabled
\* while loading.
ClickJoin(c) ==
    /\ ~inCall /\ ~loading
    /\ \A d \in Calls : d < c => step[d] # "idle"
    /\ Goto(c, "idle", "connect")
    /\ loading' = TRUE
    /\ UNCHANGED <<loops, closed, cancelled, session, muteFlag,
                   inCall, muted, ending, ended, toggling>>

\* startCall has resolved, or was rejected.
JoinAnswered(c) ==
    /\ \/ Goto(c, "answer", "done") /\ inCall' = TRUE
       \/ Goto(c, "failed", "gaveUp") /\ UNCHANGED inCall
    /\ loading' = FALSE
    /\ UNCHANGED <<loops, closed, cancelled, session, muteFlag,
                   muted, ending, ended, toggling>>

\* handleLeave: the button stays until the answer is there.
ClickLeave ==
    /\ inCall
    /\ ending + ended < MaxEnds
    /\ ending' = ending + 1
    /\ UNCHANGED <<backend, inCall, loading, muted, ended, toggling>>

(* A faulty variant, to see the properties fail: the next call starts with the mute
   button of this one. *)
LeaveAnswered_KeepsMuted ==
    /\ ended > 0
    /\ ended' = ended - 1
    /\ inCall' = FALSE
    /\ UNCHANGED <<backend, loading, muted, ending, toggling>>

LeaveAnswered ==
    /\ ended > 0
    /\ ended' = ended - 1
    /\ inCall' = FALSE
    /\ muted' = FALSE
    /\ UNCHANGED <<backend, loading, ending, toggling>>

\* handleToggleMute.  Bound: one set_muted under way at a time.
ClickMute ==
    /\ inCall
    /\ toggling = Idle
    /\ toggling' = [at |-> "sent", value |-> ~muted]
    /\ UNCHANGED <<backend, inCall, loading, muted, ending, ended>>

MuteAnswered ==
    /\ toggling \in Toggling("answered")
    /\ muted' = toggling.value
    /\ toggling' = Idle
    /\ UNCHANGED <<backend, inCall, loading, ending, ended>>

----------------------------------------------------------------------------
(* build_call_session and start_call *)

\* Connected, joined, key distributed; the control handler and the bitrate
\* adaptation are spawned.
Connected(c) ==
    /\ Goto(c, "connect", "playback")
    /\ Spawn(c, {"control", "bitrate"})
    /\ UNCHANGED <<closed, cancelled, session, muteFlag, ui>>

\* The playback device is open; playout, receiver and stats loops are spawned.
PlaybackOpened(c) ==
    /\ Goto(c, "playback", "capture")
    /\ Spawn(c, {"playout", "receive", "stats"})
    /\ UNCHANGED <<closed, cancelled, session, muteFlag, ui>>

\* The microphone is open (unmuted); the send loop is spawned.
CaptureOpened(c) ==
    /\ Goto(c, "capture", "store")
    /\ Spawn(c, {"send"})
    /\ muteFlag' = [muteFlag EXCEPT ![c] = FALSE]
    /\ UNCHANGED <<closed, cancelled, session, ui>>

\* Any of the three stages fails: `?` returns, what was spawned runs on.
BuildFails(c) ==
    /\ step[c] \in {"connect", "playback", "capture"}
    /\ step' = [step EXCEPT ![c] = "failed"]
    /\ UNCHANGED <<loops, closed, cancelled, session, muteFlag, ui>>

\* start_call stores the session; a session it replaces is dropped, which
\* stops its playout and nothing else.
Store(c) ==
    /\ Goto(c, "store", "answer")
    /\ session' = c
    /\ cancelled' = cancelled \cup ({session} \ {None})
    /\ UNCHANGED <<loops, closed, muteFlag, ui>>

----------------------------------------------------------------------------
(* The other commands *)

(* A faulty variant, to see the properties fail: the session is dropped without
   closing its connection. *)
EndCall_DoesNotClose ==
    /\ ending > 0
    /\ ending' = ending - 1
    /\ ended' = ended + 1
    /\ cancelled' = cancelled \cup ({session} \ {None})
    /\ session' = None
    /\ UNCHANGED <<step, loops, closed, muteFlag, inCall, loading, muted, toggling>>

(* A faulty variant, to see the properties fail: dropping the session does not stop
   its playout. *)
EndCall_DropDoesNothing ==
    /\ ending > 0
    /\ ending' = ending - 1
    /\ ended' = ended + 1
    /\ closed' = closed \cup ({session} \ {None})
    /\ session' = None
    /\ UNCHANGED <<step, loops, cancelled, muteFlag, inCall, loading, muted, toggling>>

(* A faulty variant, to see the properties fail: the session is stopped and closed but
   left in place. *)
EndCall_LeavesSession ==
    /\ ending > 0
    /\ ending' = ending - 1
    /\ ended' = ended + 1
    /\ closed' = closed \cup ({session} \ {None})
    /\ cancelled' = cancelled \cup ({session} \ {None})
    /\ UNCHANGED <<step, loops, session, muteFlag, inCall, loading, muted, toggling>>

\* end_call closes the connection and drops the session.
EndCall ==
    /\ ending > 0
    /\ ending' = ending - 1
    /\ ended' = ended + 1
    /\ closed' = closed \cup ({session} \ {None})
    /\ cancelled' = cancelled \cup ({session} \ {None})
    /\ session' = None
    /\ UNCHANGED <<step, loops, muteFlag, inCall, loading, muted, toggling>>

\* set_muted; without a session it is an error, which the UI ignores.
SetMuted ==
    /\ toggling \in Toggling("sent")
    /\ IF session = None
       THEN /\ toggling' = Idle
            /\ UNCHANGED muteFlag
       ELSE /\ toggling' = [toggling EXCEPT !.at = "answered"]
            /\ muteFlag' = [muteFlag EXCEPT ![session] = toggling.value]
    /\ UNCHANGED <<step, loops, closed, cancelled, session,
                   inCall, loading, muted, ending, ended>>

----------------------------------------------------------------------------
(* The background loops *)

\* The server goes away or the path dies.
ConnectionLost(c) ==
    /\ loops[c] # {}
    /\ c \notin closed
    /\ closed' = closed \cup {c}
    /\ UNCHANGED <<step, loops, cancelled, session, muteFlag, ui>>

\* A control message that cannot be decoded ends the control loop; the
\* connection, the other loops and the session live on, and nobody is told.
ControlFails(c) ==
    /\ "control" \in loops[c]
    /\ loops' = [loops EXCEPT ![c] = @ \ {"control"}]
    /\ UNCHANGED <<step, closed, cancelled, session, muteFlag, ui>>

(* A faulty variant, to see the properties fail: the playout loop never looks at its
   token. *)
LoopEnds_PlayoutGoesOn(c) ==
    /\ \E l \in loops[c] :
         /\ l \in {"control", "receive", "stats", "send"} /\ c \in closed
         /\ loops' = [loops EXCEPT ![c] = @ \ {l}]
    /\ UNCHANGED <<step, closed, cancelled, session, muteFlag, ui>>

\* A loop that uses the closed connection fails; the playout loop only ends
\* when it is cancelled; the bitrate loop never does.
LoopEnds(c) ==
    /\ \E l \in loops[c] :
         /\ \/ l \in {"control", "receive", "stats", "send"} /\ c \in closed
            \/ l = "playout" /\ c \in cancelled
         /\ loops' = [loops EXCEPT ![c] = @ \ {l}]
    /\ UNCHANGED <<step, closed, cancelled, session, muteFlag, ui>>

----------------------------------------------------------------------------
Click == ClickLeave \/ ClickMute \/ (\E c \in Calls : ClickJoin(c))

Progress ==
    \/ LeaveAnswered \/ MuteAnswered \/ EndCall \/ SetMuted
    \/ \E c \in Calls :
         \/ Connected(c) \/ PlaybackOpened(c) \/ CaptureOpened(c) \/ BuildFails(c)
         \/ Store(c) \/ JoinAnswered(c) \/ LoopEnds(c)

\* No answer to a click is outstanding.
Answered == ~loading /\ ending = 0 /\ ended = 0 /\ toggling = Idle

Next ==
    \/ Click /\ hasty' = (hasty \/ ~Answered)
    \/ Progress /\ UNCHANGED hasty
    \/ (\E c \in Calls : ConnectionLost(c) \/ ControlFails(c)) /\ UNCHANGED hasty

Spec == Init /\ [][Next]_vars

\* A command that was invoked is carried out, a loop that can end does (the
\* microphone keeps delivering frames).  Nobody is obliged to click.
FairSpec ==
    /\ Spec
    /\ WF_vars(EndCall /\ UNCHANGED hasty)
    /\ \A c \in Calls : WF_vars(LoopEnds(c) /\ UNCHANGED hasty)

----------------------------------------------------------------------------
(* Properties *)

\* For a user who waits for answers, what the interface shows is what the
\* backend is doing: in a call exactly while there is a session, and the mute
\* button tells whether the microphone of that session is muted.
InterfaceTellsTheTruth ==
    Answered /\ ~hasty =>
                /\ inCall <=> session # None
                /\ inCall => muted = muteFlag[session]

\* ... and at most one microphone is ever on the air, that of the session or
\* of the call being set up.
OnAir(c) == "send" \in loops[c] /\ c \notin closed

OneMicrophone ==
    ~hasty => \A c \in Calls : OnAir(c) => c = session \/ step[c] = "store"

\* However the clicks overlap, a call that is left comes to rest: every loop
\* ends except the bitrate adaptation, the microphone is released.
LeftCallComesToRest ==
    \A c \in Calls : c \in closed /\ c \in cancelled ~> loops[c] \subseteq {"bitrate"}

\* "Stop the playout loop so it doesn't leak across sessions": whatever the
\* clicks, a playout loop that nobody has told to stop belongs to the session,
\* to a call being set up, or to one whose set-up failed; the last kind runs
\* on for good.
OnlyFailedCallsLeakPlayout ==
    \A c \in Calls :
        "playout" \in loops[c] /\ c \notin cancelled =>
            session = c \/ step[c] \in {"capture", "store", "failed", "gaveUp"}

=============================================================================
