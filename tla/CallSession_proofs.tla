------------------------- MODULE CallSession_proofs -------------------------
(***************************************************************************)
(* Proofs about CallSession, for any number of calls and of overlapping    *)
(* end_call invocations.  The runs never see a session replaced by another *)
(* one, which takes three calls; these proofs do.                          *)
(***************************************************************************)
EXTENDS CallSession, TLAPS

\* A call that was stored is the session or has been dropped, and no playout
\* runs before it was spawned: together with the types this is inductive.
StoredIsOwned ==
    \A c \in Calls : step[c] \in {"answer", "done"} => session = c \/ c \in cancelled

PlayoutAfterPlayback ==
    \A c \in Calls : "playout" \in loops[c] => step[c] \notin {"idle", "connect", "playback"}

\* The part of TypeOK the argument needs.
StepsAndLoops == step \in [Calls -> Steps] /\ loops \in [Calls -> SUBSET Loops]

OwnershipInv == StepsAndLoops /\ StoredIsOwned /\ PlayoutAfterPlayback

----------------------------------------------------------------------------
LEMMA OwnedInitially == Init => OwnershipInv
BY DEF Init, OwnershipInv, StepsAndLoops, StoredIsOwned, PlayoutAfterPlayback, Steps

LEMMA OwnedByEveryStep == OwnershipInv /\ [Next]_vars => OwnershipInv'
<1> SUFFICES ASSUME OwnershipInv, [Next]_vars PROVE OwnershipInv'
  OBVIOUS
<1> USE DEF OwnershipInv, StepsAndLoops, StoredIsOwned, PlayoutAfterPlayback
<1>1. ASSUME NEW c \in Calls, ClickJoin(c) PROVE OwnershipInv'
  BY <1>1 DEF ClickJoin, Goto, Steps
<1>2. ASSUME NEW c \in Calls, JoinAnswered(c) PROVE OwnershipInv'
  BY <1>2 DEF JoinAnswered, Goto, Steps
<1>3. ASSUME NEW c \in Calls, Connected(c) PROVE OwnershipInv'
  BY <1>3 DEF Connected, Goto, Spawn, Steps, Loops
<1>4. ASSUME NEW c \in Calls, PlaybackOpened(c) PROVE OwnershipInv'
  BY <1>4 DEF PlaybackOpened, Goto, Spawn, Steps, Loops
<1>5. ASSUME NEW c \in Calls, CaptureOpened(c) PROVE OwnershipInv'
  BY <1>5 DEF CaptureOpened, Goto, Spawn, Steps, Loops
<1>6. ASSUME NEW c \in Calls, BuildFails(c) PROVE OwnershipInv'
  BY <1>6 DEF BuildFails, Steps
<1>7. ASSUME NEW c \in Calls, Store(c) PROVE OwnershipInv'
  BY <1>7, CallSessionAssumption DEF Store, Goto, Steps
<1>8. CASE EndCall
  BY <1>8, CallSessionAssumption DEF EndCall
<1>9. CASE SetMuted
  BY <1>9 DEF SetMuted
<1>10. ASSUME NEW c \in Calls, LoopEnds(c) PROVE OwnershipInv'
  BY <1>10 DEF LoopEnds
<1>11. ASSUME NEW c \in Calls, ConnectionLost(c) PROVE OwnershipInv'
  BY <1>11 DEF ConnectionLost
<1>14. ASSUME NEW c \in Calls, ControlFails(c) PROVE OwnershipInv'
  BY <1>14 DEF ControlFails
<1>12. CASE ClickLeave \/ ClickMute \/ LeaveAnswered \/ MuteAnswered
  BY <1>12 DEF ClickLeave, ClickMute, LeaveAnswered, MuteAnswered, backend
<1>13. CASE UNCHANGED vars
  BY <1>13 DEF vars, backend
<1> QED BY <1>1, <1>2, <1>3, <1>4, <1>5, <1>6, <1>7, <1>8, <1>9, <1>10, <1>11, <1>12, <1>13,
        <1>14
        DEF Next, Click, Progress

\* Whatever the clicks, only a call whose set-up failed leaves a playout loop
\* behind that nobody can stop.
THEOREM OnlyFailedCallsEverLeakPlayout == Spec => []OnlyFailedCallsLeakPlayout
<1>1. OwnershipInv => OnlyFailedCallsLeakPlayout
  BY DEF OwnershipInv, StepsAndLoops, StoredIsOwned, PlayoutAfterPlayback,
         OnlyFailedCallsLeakPlayout, Steps
<1> QED BY <1>1, OwnedInitially, OwnedByEveryStep, PTL DEF Spec

----------------------------------------------------------------------------
(* Type correctness, in three parts: the provers treat Booleans apart *)

\* end_call invocations are counted once, under way or answered.
PlainTypes ==
    /\ step \in [Calls -> Steps]
    /\ loops \in [Calls -> SUBSET Loops]
    /\ closed \in SUBSET Calls
    /\ cancelled \in SUBSET Calls
    /\ session \in Calls \cup {None}
    /\ \A c \in cancelled \cup ({session} \ {None}) : Stored(c)
    /\ session \notin cancelled
    /\ ending \in 0 .. MaxEnds /\ ended \in 0 .. MaxEnds
    /\ ending + ended <= MaxEnds

FlagTypes ==
    inCall \in BOOLEAN /\ loading \in BOOLEAN /\ muted \in BOOLEAN /\ hasty \in BOOLEAN

MuteTypes ==
    /\ muteFlag \in [Calls -> BOOLEAN]
    /\ toggling \in {Idle} \cup Toggling("sent") \cup Toggling("answered")

TypeInv == PlainTypes /\ FlagTypes /\ MuteTypes

\* Nothing runs, nothing has been clicked.
LEMMA TypesInitially == Init => TypeInv
<1>1. Init => PlainTypes
  BY CallSessionAssumption DEF Init, PlainTypes, Stored, Steps
<1>2. Init => FlagTypes
  BY Zenon DEF Init, FlagTypes
<1>3. Init => MuteTypes
  BY DEF Init, MuteTypes
<1>4. QED
  BY <1>1, <1>2, <1>3 DEF TypeInv

\* Control state, sets and counters keep their types.
LEMMA PlainTypesByEveryStep == TypeInv /\ [Next]_vars => PlainTypes'
<1> SUFFICES ASSUME TypeInv, [Next]_vars PROVE PlainTypes'
  OBVIOUS
<1> USE CallSessionAssumption DEF TypeInv, PlainTypes, Stored, Steps, Loops
<1>1. ASSUME NEW c \in Calls, ClickJoin(c) PROVE PlainTypes'
  BY <1>1 DEF ClickJoin, Goto
<1>2. ASSUME NEW c \in Calls, JoinAnswered(c) PROVE PlainTypes'
  BY <1>2 DEF JoinAnswered, Goto
<1>3. ASSUME NEW c \in Calls, Connected(c) PROVE PlainTypes'
  BY <1>3 DEF Connected, Goto, Spawn, ui
<1>4. ASSUME NEW c \in Calls, PlaybackOpened(c) PROVE PlainTypes'
  BY <1>4 DEF PlaybackOpened, Goto, Spawn, ui
<1>5. ASSUME NEW c \in Calls, CaptureOpened(c) PROVE PlainTypes'
  BY <1>5 DEF CaptureOpened, Goto, Spawn, ui
<1>6. ASSUME NEW c \in Calls, BuildFails(c) PROVE PlainTypes'
  BY <1>6 DEF BuildFails, ui
<1>7. ASSUME NEW c \in Calls, Store(c) PROVE PlainTypes'
  <2>1. session' \in Calls \cup {None} /\ cancelled' \in SUBSET Calls
    BY <1>7 DEF Store
  <2>2. \A d \in cancelled' \cup ({session'} \ {None}) : Stored(d)'
    BY <1>7 DEF Store, Goto
  <2>3. session' \notin cancelled'
    BY <1>7 DEF Store, Goto
  <2>4. QED
    BY <1>7, <2>1, <2>2, <2>3 DEF Store, Goto, ui
<1>8. ASSUME NEW c \in Calls, LoopEnds(c) PROVE PlainTypes'
  BY <1>8 DEF LoopEnds, ui
<1>9. ASSUME NEW c \in Calls, ConnectionLost(c) PROVE PlainTypes'
  BY <1>9 DEF ConnectionLost, ui
<1>10. ASSUME NEW c \in Calls, ControlFails(c) PROVE PlainTypes'
  BY <1>10 DEF ControlFails, ui
<1>11. ASSUME ClickLeave PROVE PlainTypes'
  BY <1>11 DEF ClickLeave, backend
<1>12. ASSUME LeaveAnswered PROVE PlainTypes'
  BY <1>12 DEF LeaveAnswered, backend
<1>13. ASSUME ClickMute PROVE PlainTypes'
  BY <1>13 DEF ClickMute, backend
<1>14. ASSUME MuteAnswered PROVE PlainTypes'
  BY <1>14 DEF MuteAnswered, backend
<1>15. ASSUME EndCall PROVE PlainTypes'
  <2>1. closed' \in SUBSET Calls /\ cancelled' \in SUBSET Calls /\ session' = None
    BY <1>15 DEF EndCall
  <2>2. ending' \in 0 .. MaxEnds /\ ended' \in 0 .. MaxEnds /\ ending' + ended' <= MaxEnds
    BY <1>15 DEF EndCall
  <2>3. QED
    BY <1>15, <2>1, <2>2 DEF EndCall
<1>16. ASSUME SetMuted PROVE PlainTypes'
  BY <1>16 DEF SetMuted
<1>17. CASE UNCHANGED vars
  BY <1>17 DEF vars, backend, ui
<1>18. QED
  BY <1>1, <1>2, <1>3, <1>4, <1>5, <1>6, <1>7, <1>8, <1>9,
     <1>10, <1>11, <1>12, <1>13, <1>14, <1>15, <1>16, <1>17
     DEF Next, Click, Progress

\* What the interface shows is a truth value.
LEMMA FlagTypesByEveryStep == TypeInv /\ [Next]_vars => FlagTypes'
<1> SUFFICES ASSUME TypeInv, [Next]_vars PROVE FlagTypes'
  OBVIOUS
<1> DEFINE Shown == inCall \in BOOLEAN /\ loading \in BOOLEAN /\ muted \in BOOLEAN
<1> USE DEF TypeInv, FlagTypes, MuteTypes, Toggling
<1>1. ASSUME NEW c \in Calls, ClickJoin(c) PROVE Shown'
  BY <1>1, Zenon DEF ClickJoin, Goto
<1>2. ASSUME NEW c \in Calls, JoinAnswered(c) PROVE Shown'
  BY <1>2, Zenon DEF JoinAnswered, Goto
<1>3. ASSUME NEW c \in Calls, Connected(c) PROVE Shown'
  BY <1>3, Zenon DEF Connected, Goto, Spawn, ui
<1>4. ASSUME NEW c \in Calls, PlaybackOpened(c) PROVE Shown'
  BY <1>4, Zenon DEF PlaybackOpened, Goto, Spawn, ui
<1>5. ASSUME NEW c \in Calls, CaptureOpened(c) PROVE Shown'
  BY <1>5, Zenon DEF CaptureOpened, Goto, Spawn, ui
<1>6. ASSUME NEW c \in Calls, BuildFails(c) PROVE Shown'
  BY <1>6, Zenon DEF BuildFails, ui
<1>7. ASSUME NEW c \in Calls, Store(c) PROVE Shown'
  BY <1>7, Zenon DEF Store, Goto, ui
<1>8. ASSUME NEW c \in Calls, LoopEnds(c) PROVE Shown'
  BY <1>8, Zenon DEF LoopEnds, ui
<1>9. ASSUME NEW c \in Calls, ConnectionLost(c) PROVE Shown'
  BY <1>9, Zenon DEF ConnectionLost, ui
<1>10. ASSUME NEW c \in Calls, ControlFails(c) PROVE Shown'
  BY <1>10, Zenon DEF ControlFails, ui
<1>11. ASSUME ClickLeave PROVE Shown'
  BY <1>11, Zenon DEF ClickLeave, backend
<1>12. ASSUME LeaveAnswered PROVE Shown'
  BY <1>12, Zenon DEF LeaveAnswered, backend
<1>13. ASSUME ClickMute PROVE Shown'
  BY <1>13, Zenon DEF ClickMute, backend
<1>14. ASSUME MuteAnswered PROVE Shown'
  BY <1>14, Zenon DEF MuteAnswered, backend
<1>15. ASSUME EndCall PROVE Shown'
  BY <1>15, Zenon DEF EndCall
<1>16. ASSUME SetMuted PROVE Shown'
  BY <1>16, Zenon DEF SetMuted
<1>17. ASSUME UNCHANGED vars PROVE Shown'
  BY <1>17, Zenon DEF vars, backend, ui
<1>18. hasty' \in BOOLEAN
  <2>1. CASE hasty' = (hasty \/ ~Answered)
    BY <2>1, Zenon
  <2>2. CASE hasty' = hasty
    BY <2>2, Zenon
  <2>3. QED
    BY <2>1, <2>2, Zenon DEF Next, vars
<1>19. QED
  BY <1>1, <1>2, <1>3, <1>4, <1>5, <1>6, <1>7, <1>8, <1>9,
     <1>10, <1>11, <1>12, <1>13, <1>14, <1>15, <1>16, <1>17, <1>18, Zenon
     DEF Next, Click, Progress

\* The mute flags and the request under way.
LEMMA MuteTypesByEveryStep == TypeInv /\ [Next]_vars => MuteTypes'
<1> SUFFICES ASSUME TypeInv, [Next]_vars PROVE MuteTypes'
  OBVIOUS
<1> USE DEF TypeInv, MuteTypes, PlainTypes, FlagTypes, Toggling
<1>1. ASSUME NEW c \in Calls, ClickJoin(c) PROVE MuteTypes'
  BY <1>1 DEF ClickJoin, Goto
<1>2. ASSUME NEW c \in Calls, JoinAnswered(c) PROVE MuteTypes'
  BY <1>2 DEF JoinAnswered, Goto
<1>3. ASSUME NEW c \in Calls, Connected(c) PROVE MuteTypes'
  BY <1>3 DEF Connected, Goto, Spawn, ui
<1>4. ASSUME NEW c \in Calls, PlaybackOpened(c) PROVE MuteTypes'
  BY <1>4 DEF PlaybackOpened, Goto, Spawn, ui
<1>5. ASSUME NEW c \in Calls, CaptureOpened(c) PROVE MuteTypes'
  BY <1>5 DEF CaptureOpened, Goto, Spawn, ui
<1>6. ASSUME NEW c \in Calls, BuildFails(c) PROVE MuteTypes'
  BY <1>6 DEF BuildFails, ui
<1>7. ASSUME NEW c \in Calls, Store(c) PROVE MuteTypes'
  BY <1>7 DEF Store, Goto, ui
<1>8. ASSUME NEW c \in Calls, LoopEnds(c) PROVE MuteTypes'
  BY <1>8 DEF LoopEnds, ui
<1>9. ASSUME NEW c \in Calls, ConnectionLost(c) PROVE MuteTypes'
  BY <1>9 DEF ConnectionLost, ui
<1>10. ASSUME NEW c \in Calls, ControlFails(c) PROVE MuteTypes'
  BY <1>10 DEF ControlFails, ui
<1>11. ASSUME ClickLeave PROVE MuteTypes'
  BY <1>11 DEF ClickLeave, backend
<1>12. ASSUME LeaveAnswered PROVE MuteTypes'
  BY <1>12 DEF LeaveAnswered, backend
<1>13. ASSUME ClickMute PROVE MuteTypes'
  BY <1>13 DEF ClickMute, backend
<1>14. ASSUME MuteAnswered PROVE MuteTypes'
  BY <1>14 DEF MuteAnswered, backend
<1>15. ASSUME EndCall PROVE MuteTypes'
  BY <1>15 DEF EndCall
<1>16. ASSUME SetMuted PROVE MuteTypes'
  BY <1>16 DEF SetMuted
<1>17. CASE UNCHANGED vars
  BY <1>17 DEF vars, backend, ui
<1>18. QED
  BY <1>1, <1>2, <1>3, <1>4, <1>5, <1>6, <1>7, <1>8, <1>9,
     <1>10, <1>11, <1>12, <1>13, <1>14, <1>15, <1>16, <1>17
     DEF Next, Click, Progress

\* Together the three parts are inductive.
LEMMA TypesByEveryStep == TypeInv /\ [Next]_vars => TypeInv'
BY PlainTypesByEveryStep, FlagTypesByEveryStep, MuteTypesByEveryStep DEF TypeInv

\* Every reachable state of any number of calls is type-correct, and a session that
\* was told to stop is not in place any more.
THEOREM Typed == Spec => []TypeOK
<1>1. TypeInv /\ [Next]_vars => TypeInv'
  BY TypesByEveryStep
<1>2. TypeInv => TypeOK
  BY DEF TypeInv, PlainTypes, FlagTypes, MuteTypes, TypeOK
<1>3. QED
  BY TypesInitially, <1>1, <1>2, PTL DEF Spec

----------------------------------------------------------------------------
(* A user who waits for answers *)

\* start_call is working on c or has not been answered yet.
Underway(c) == step[c] \in {"connect", "playback", "capture", "store", "answer", "failed"}

\* The user has clicked at most once and awaits the answer.
OneAtATime ==
    /\ \A c, d \in Calls : Underway(c) /\ Underway(d) => c = d
    /\ \A c \in Calls : Underway(c) => loading
    /\ loading => ~inCall
    /\ ~inCall => ending = 0 /\ ended = 0 /\ toggling = Idle /\ ~muted
    /\ ending + ended <= 1
    /\ ending + ended = 1 => toggling = Idle

\* The session is the call the interface shows, or is about to show.
SessionIsTheCall ==
    /\ session # None => step[session] \in {"answer", "done"}
    /\ \A c \in Calls : step[c] = "answer" => session = c
    /\ inCall => (session = None <=> ended = 1)
    /\ ~inCall /\ session # None => step[session] = "answer"

\* The button shows the session's mute flag, or will when set_muted has answered;
\* a microphone starts unmuted, as the button does.
MuteIsKnown ==
    /\ session # None =>
         muteFlag[session] = IF toggling \in Toggling("answered") THEN toggling.value ELSE muted
    /\ \A c \in Calls : step[c] = "store" => ~muteFlag[c]

\* A send loop belongs to a call about to be stored, to the session, or to a
\* call whose connection is closed.
MicrophoneIsOwned ==
    \A c \in Calls : "send" \in loops[c] =>
        \/ step[c] = "store"
        \/ step[c] \in {"answer", "done"} /\ (session = c \/ c \in closed)

PatientInv == ~hasty => OneAtATime /\ SessionIsTheCall /\ MuteIsKnown /\ MicrophoneIsOwned

\* Nothing has been clicked.
LEMMA PatientInitially == Init => PatientInv
BY CallSessionAssumption DEF Init, PatientInv, OneAtATime, SessionIsTheCall, MuteIsKnown,
   MicrophoneIsOwned, Underway, Idle, Toggling

\* With one answer outstanding at a time every step keeps the views together.
LEMMA PatientByEveryStep == TypeInv /\ PatientInv /\ [Next]_vars => PatientInv'
<1> SUFFICES ASSUME TypeInv, PatientInv, [Next]_vars, ~hasty'
             PROVE  OneAtATime' /\ SessionIsTheCall' /\ MuteIsKnown' /\ MicrophoneIsOwned'
  BY DEF PatientInv
<1> DEFINE Goal == OneAtATime /\ SessionIsTheCall /\ MuteIsKnown /\ MicrophoneIsOwned
<1>0. /\ ~hasty
      /\ \/ Click /\ Answered
         \/ Progress
         \/ \E c \in Calls : ConnectionLost(c) \/ ControlFails(c)
         \/ UNCHANGED vars
  <2>1. CASE Click /\ hasty' = (hasty \/ ~Answered)
    <3>1. hasty' <=> (hasty \/ ~Answered)
      BY <2>1, Zenon
    <3>2. QED
      BY <2>1, <3>1, Zenon
  <2>2. CASE UNCHANGED hasty /\ (Progress \/ \E c \in Calls : ConnectionLost(c) \/ ControlFails(c))
    BY <2>2, Zenon
  <2>3. CASE UNCHANGED vars
    BY <2>3, Zenon DEF vars
  <2>4. QED
    BY <2>1, <2>2, <2>3, Zenon DEF Next
<1>a. OneAtATime /\ SessionIsTheCall /\ MuteIsKnown /\ MicrophoneIsOwned
  BY <1>0 DEF PatientInv
<1> USE CallSessionAssumption, <1>a DEF TypeInv, PlainTypes
<1>1. ASSUME NEW c \in Calls, ClickJoin(c), Answered PROVE Goal'
  <2> USE <1>1 DEF ClickJoin, Goto, Answered
  <2>1. OneAtATime'
    BY DEF OneAtATime, Underway, SessionIsTheCall, Idle, Toggling
  <2>2. SessionIsTheCall'
    BY DEF SessionIsTheCall, OneAtATime, Underway
  <2>3. MuteIsKnown'
    BY DEF MuteIsKnown, MuteTypes, FlagTypes, OneAtATime, SessionIsTheCall, Underway,
       Idle, Toggling
  <2>4. MicrophoneIsOwned'
    BY DEF MicrophoneIsOwned, OneAtATime, SessionIsTheCall, Underway, Loops
  <2>5. QED
    BY <2>1, <2>2, <2>3, <2>4
<1>2. ASSUME NEW c \in Calls, JoinAnswered(c) PROVE Goal'
  <2> USE <1>2 DEF JoinAnswered, Goto
  <2>1. OneAtATime'
    BY DEF OneAtATime, Underway, SessionIsTheCall, Idle, Toggling
  <2>2. SessionIsTheCall'
    BY DEF SessionIsTheCall, OneAtATime, Underway
  <2>3. MuteIsKnown'
    BY DEF MuteIsKnown, MuteTypes, FlagTypes, OneAtATime, SessionIsTheCall, Underway,
       Idle, Toggling
  <2>4. MicrophoneIsOwned'
    BY DEF MicrophoneIsOwned, OneAtATime, SessionIsTheCall, Underway, Loops
  <2>5. QED
    BY <2>1, <2>2, <2>3, <2>4
<1>3. ASSUME NEW c \in Calls, Connected(c) PROVE Goal'
  <2> USE <1>3 DEF Connected, Goto, Spawn, ui
  <2>1. OneAtATime'
    BY DEF OneAtATime, Underway, SessionIsTheCall, Idle, Toggling
  <2>2. SessionIsTheCall'
    BY DEF SessionIsTheCall, OneAtATime, Underway
  <2>3. MuteIsKnown'
    BY DEF MuteIsKnown, MuteTypes, FlagTypes, OneAtATime, SessionIsTheCall, Underway,
       Idle, Toggling
  <2>4. MicrophoneIsOwned'
    BY DEF MicrophoneIsOwned, OneAtATime, SessionIsTheCall, Underway, Loops
  <2>5. QED
    BY <2>1, <2>2, <2>3, <2>4
<1>4. ASSUME NEW c \in Calls, PlaybackOpened(c) PROVE Goal'
  <2> USE <1>4 DEF PlaybackOpened, Goto, Spawn, ui
  <2>1. OneAtATime'
    BY DEF OneAtATime, Underway, SessionIsTheCall, Idle, Toggling
  <2>2. SessionIsTheCall'
    BY DEF SessionIsTheCall, OneAtATime, Underway
  <2>3. MuteIsKnown'
    BY DEF MuteIsKnown, MuteTypes, FlagTypes, OneAtATime, SessionIsTheCall, Underway,
       Idle, Toggling
  <2>4. MicrophoneIsOwned'
    BY DEF MicrophoneIsOwned, OneAtATime, SessionIsTheCall, Underway, Loops
  <2>5. QED
    BY <2>1, <2>2, <2>3, <2>4
<1>5. ASSUME NEW c \in Calls, CaptureOpened(c) PROVE Goal'
  <2> USE <1>5 DEF CaptureOpened, Goto, Spawn, ui
  <2>1. OneAtATime'
    BY DEF OneAtATime, Underway, SessionIsTheCall, Idle, Toggling
  <2>2. SessionIsTheCall'
    BY DEF SessionIsTheCall, OneAtATime, Underway
  <2>3. MuteIsKnown'
    BY DEF MuteIsKnown, MuteTypes, FlagTypes, OneAtATime, SessionIsTheCall, Underway,
       Idle, Toggling
  <2>4. MicrophoneIsOwned'
    BY DEF MicrophoneIsOwned, OneAtATime, SessionIsTheCall, Underway, Loops
  <2>5. QED
    BY <2>1, <2>2, <2>3, <2>4
<1>6. ASSUME NEW c \in Calls, BuildFails(c) PROVE Goal'
  <2> USE <1>6 DEF BuildFails, ui
  <2>1. OneAtATime'
    BY DEF OneAtATime, Underway, SessionIsTheCall, Idle, Toggling
  <2>2. SessionIsTheCall'
    BY DEF SessionIsTheCall, OneAtATime, Underway
  <2>3. MuteIsKnown'
    BY DEF MuteIsKnown, MuteTypes, FlagTypes, OneAtATime, SessionIsTheCall, Underway,
       Idle, Toggling
  <2>4. MicrophoneIsOwned'
    BY DEF MicrophoneIsOwned, OneAtATime, SessionIsTheCall, Underway, Loops
  <2>5. QED
    BY <2>1, <2>2, <2>3, <2>4
<1>7. ASSUME NEW c \in Calls, Store(c) PROVE Goal'
  <2> USE <1>7 DEF Store, Goto, ui
  <2>1. OneAtATime'
    BY DEF OneAtATime, Underway, SessionIsTheCall, Idle, Toggling
  <2>2. SessionIsTheCall'
    BY DEF SessionIsTheCall, OneAtATime, Underway
  <2>3. MuteIsKnown'
    BY DEF MuteIsKnown, MuteTypes, FlagTypes, OneAtATime, SessionIsTheCall, Underway,
       Idle, Toggling
  <2>4. MicrophoneIsOwned'
    BY DEF MicrophoneIsOwned, OneAtATime, SessionIsTheCall, Underway, Loops
  <2>5. QED
    BY <2>1, <2>2, <2>3, <2>4
<1>8. ASSUME NEW c \in Calls, LoopEnds(c) PROVE Goal'
  <2> USE <1>8 DEF LoopEnds, ui
  <2>1. OneAtATime'
    BY DEF OneAtATime, Underway, SessionIsTheCall, Idle, Toggling
  <2>2. SessionIsTheCall'
    BY DEF SessionIsTheCall, OneAtATime, Underway
  <2>3. MuteIsKnown'
    BY DEF MuteIsKnown, MuteTypes, FlagTypes, OneAtATime, SessionIsTheCall, Underway,
       Idle, Toggling
  <2>4. MicrophoneIsOwned'
    BY DEF MicrophoneIsOwned, OneAtATime, SessionIsTheCall, Underway, Loops
  <2>5. QED
    BY <2>1, <2>2, <2>3, <2>4
<1>9. ASSUME NEW c \in Calls, ConnectionLost(c) PROVE Goal'
  <2> USE <1>9 DEF ConnectionLost, ui
  <2>1. OneAtATime'
    BY DEF OneAtATime, Underway, SessionIsTheCall, Idle, Toggling
  <2>2. SessionIsTheCall'
    BY DEF SessionIsTheCall, OneAtATime, Underway
  <2>3. MuteIsKnown'
    BY DEF MuteIsKnown, MuteTypes, FlagTypes, OneAtATime, SessionIsTheCall, Underway,
       Idle, Toggling
  <2>4. MicrophoneIsOwned'
    BY DEF MicrophoneIsOwned, OneAtATime, SessionIsTheCall, Underway, Loops
  <2>5. QED
    BY <2>1, <2>2, <2>3, <2>4
<1>10. ASSUME NEW c \in Calls, ControlFails(c) PROVE Goal'
  <2> USE <1>10 DEF ControlFails, ui
  <2>1. OneAtATime'
    BY DEF OneAtATime, Underway, SessionIsTheCall, Idle, Toggling
  <2>2. SessionIsTheCall'
    BY DEF SessionIsTheCall, OneAtATime, Underway
  <2>3. MuteIsKnown'
    BY DEF MuteIsKnown, MuteTypes, FlagTypes, OneAtATime, SessionIsTheCall, Underway,
       Idle, Toggling
  <2>4. MicrophoneIsOwned'
    BY DEF MicrophoneIsOwned, OneAtATime, SessionIsTheCall, Underway, Loops
  <2>5. QED
    BY <2>1, <2>2, <2>3, <2>4
<1>11. ASSUME ClickLeave, Answered PROVE Goal'
  <2> USE <1>11 DEF ClickLeave, backend, Answered
  <2>1. OneAtATime'
    BY DEF OneAtATime, Underway, SessionIsTheCall, Idle, Toggling
  <2>2. SessionIsTheCall'
    BY DEF SessionIsTheCall, OneAtATime, Underway
  <2>3. MuteIsKnown'
    BY DEF MuteIsKnown, MuteTypes, FlagTypes, OneAtATime, SessionIsTheCall, Underway,
       Idle, Toggling
  <2>4. MicrophoneIsOwned'
    BY DEF MicrophoneIsOwned, OneAtATime, SessionIsTheCall, Underway, Loops
  <2>5. QED
    BY <2>1, <2>2, <2>3, <2>4
<1>12. ASSUME LeaveAnswered PROVE Goal'
  <2> USE <1>12 DEF LeaveAnswered, backend
  <2>1. OneAtATime'
    BY DEF OneAtATime, Underway, SessionIsTheCall, Idle, Toggling
  <2>2. SessionIsTheCall'
    BY DEF SessionIsTheCall, OneAtATime, Underway
  <2>3. MuteIsKnown'
    BY DEF MuteIsKnown, MuteTypes, FlagTypes, OneAtATime, SessionIsTheCall, Underway,
       Idle, Toggling
  <2>4. MicrophoneIsOwned'
    BY DEF MicrophoneIsOwned, OneAtATime, SessionIsTheCall, Underway, Loops
  <2>5. QED
    BY <2>1, <2>2, <2>3, <2>4
<1>13. ASSUME ClickMute, Answered PROVE Goal'
  <2> USE <1>13 DEF ClickMute, backend, Answered
  <2>1. OneAtATime'
    BY DEF OneAtATime, Underway, SessionIsTheCall, Idle, Toggling
  <2>2. SessionIsTheCall'
    BY DEF SessionIsTheCall, OneAtATime, Underway
  <2>3. MuteIsKnown'
    BY DEF MuteIsKnown, MuteTypes, FlagTypes, OneAtATime, SessionIsTheCall, Underway,
       Idle, Toggling
  <2>4. MicrophoneIsOwned'
    BY DEF MicrophoneIsOwned, OneAtATime, SessionIsTheCall, Underway, Loops
  <2>5. QED
    BY <2>1, <2>2, <2>3, <2>4
<1>14. ASSUME MuteAnswered PROVE Goal'
  <2> USE <1>14 DEF MuteAnswered, backend
  <2>1. OneAtATime'
    BY DEF OneAtATime, Underway, SessionIsTheCall, Idle, Toggling
  <2>2. SessionIsTheCall'
    BY DEF SessionIsTheCall, OneAtATime, Underway
  <2>3. MuteIsKnown'
    BY DEF MuteIsKnown, MuteTypes, FlagTypes, OneAtATime, SessionIsTheCall, Underway,
       Idle, Toggling
  <2>4. MicrophoneIsOwned'
    BY DEF MicrophoneIsOwned, OneAtATime, SessionIsTheCall, Underway, Loops
  <2>5. QED
    BY <2>1, <2>2, <2>3, <2>4
<1>15. ASSUME EndCall PROVE Goal'
  <2> USE <1>15 DEF EndCall
  <2>1. OneAtATime'
    BY DEF OneAtATime, Underway, SessionIsTheCall, Idle, Toggling
  <2>2. SessionIsTheCall'
    BY DEF SessionIsTheCall, OneAtATime, Underway
  <2>3. MuteIsKnown'
    BY DEF MuteIsKnown, MuteTypes, FlagTypes, OneAtATime, SessionIsTheCall, Underway,
       Idle, Toggling
  <2>4. MicrophoneIsOwned'
    BY DEF MicrophoneIsOwned, OneAtATime, SessionIsTheCall, Underway, Loops
  <2>5. QED
    BY <2>1, <2>2, <2>3, <2>4
<1>16. ASSUME SetMuted PROVE Goal'
  <2> USE <1>16 DEF SetMuted
  <2>1. OneAtATime'
    BY DEF OneAtATime, Underway, SessionIsTheCall, Idle, Toggling
  <2>2. SessionIsTheCall'
    BY DEF SessionIsTheCall, OneAtATime, Underway
  <2>3. MuteIsKnown'
    BY DEF MuteIsKnown, MuteTypes, FlagTypes, OneAtATime, SessionIsTheCall, Underway,
       Idle, Toggling
  <2>4. MicrophoneIsOwned'
    BY DEF MicrophoneIsOwned, OneAtATime, SessionIsTheCall, Underway, Loops
  <2>5. QED
    BY <2>1, <2>2, <2>3, <2>4
<1>17. CASE UNCHANGED vars
  BY <1>17 DEF vars, backend, ui, OneAtATime, SessionIsTheCall, MuteIsKnown,
     MicrophoneIsOwned, Underway
<1>18. QED
  BY <1>0, <1>1, <1>2, <1>3, <1>4, <1>5, <1>6, <1>7, <1>8, <1>9,
     <1>10, <1>11, <1>12, <1>13, <1>14, <1>15, <1>16, <1>17
     DEF Click, Progress


\* What holds for a patient user holds in every reachable state.
LEMMA Patient == Spec => [](TypeInv /\ PatientInv)
BY TypesInitially, TypesByEveryStep, PatientInitially, PatientByEveryStep, PTL DEF Spec

\* While the user waits for answers, button and mute state tell the truth.
THEOREM InterfaceAlwaysTellsTheTruth == Spec => []InterfaceTellsTheTruth
<1>1. TypeInv /\ PatientInv => InterfaceTellsTheTruth
  <2> SUFFICES ASSUME TypeInv, PatientInv, Answered, ~hasty
               PROVE  /\ inCall <=> session # None
                      /\ inCall => muted = muteFlag[session]
    BY DEF InterfaceTellsTheTruth
  <2>1. inCall <=> session # None
    BY DEF TypeInv, PlainTypes, PatientInv, OneAtATime, SessionIsTheCall, Answered, Underway
  <2>2. session # None => muteFlag[session] = muted
    BY DEF PatientInv, MuteIsKnown, Answered, Idle, Toggling
  <2>3. QED
    BY <2>1, <2>2, Zenon
<1>2. QED
  BY <1>1, Patient, PTL

\* ... and one microphone at most is on the air.
THEOREM OneMicrophoneAlways == Spec => []OneMicrophone
<1>1. PatientInv => OneMicrophone
  BY DEF PatientInv, MicrophoneIsOwned, OneMicrophone, OnAir
<1>2. QED
  BY <1>1, Patient, PTL

=============================================================================
