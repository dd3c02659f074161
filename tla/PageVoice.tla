----------------------------- MODULE PageVoice -----------------------------
(***************************************************************************)
(* What the page does with the microphone: the store's voice fields and    *)
(* the microphone gate (src/src/store/appStore.ts, lib/micGate.ts), the    *)
(* asynchronous start of audio in MumbleClient (lib/mumbleClient.ts), the  *)
(* push-to-talk key (hooks/useKeyboardShortcuts.ts) and the controls of    *)
(* the voice panel, dock and settings.                                     *)
(*                                                                         *)
(* startAudio and setInputDevice wait for getUserMedia, startAudio also    *)
(* for the offer; whatever happens to the connection meanwhile, they go    *)
(* on with what the client then is.  The connection itself is WebClient's: *)
(* here it only comes, drops, ends and is left.                            *)
(***************************************************************************)
EXTENDS Naturals

CONSTANT MaxTasks   \* bound: asynchronous calls under way at once

ASSUME MaxTasksAssumption == MaxTasks \in Nat \ {0}

VARIABLES
  phase,   \* of the connection, as the store shows it
  voice,   \* the store's voice fields
  rtc,     \* MumbleClient: gate, microphone stream, peer connections
  tasks,   \* pending getUserMedia calls: of startAudio, of setInputDevice, and
           \* those whose client was disposed of meanwhile
  keys     \* useKeyboardShortcuts: key held, listeners' mode, mounted

voiceVars == <<phase, voice, rtc, tasks, keys>>

NoVoice == [micReady |-> FALSE, pttMode |-> "open", transmitting |-> FALSE,
            selfMuted |-> FALSE, selfDeafened |-> FALSE, vadActive |-> FALSE,
            continuous |-> FALSE, selfTalking |-> FALSE, vadTimer |-> FALSE]

\* A microphone is off, on, or on although its client was disposed of before
\* the browser handed it over ("leaked").  The stray ones are live streams and
\* peer connections that the client no longer points to.
NoRtc == [micEnabled |-> FALSE, mic |-> "off", strayMic |-> FALSE,
          pc |-> "none", strayPc |-> FALSE, strayOffers |-> 0]

\* loadSettings: whether continuous transmission was on, all that is kept of these.
Persisted == BOOLEAN

VoiceInit ==
  /\ phase = "off" /\ rtc = NoRtc
  /\ \E on \in Persisted : voice = [NoVoice EXCEPT !.continuous = on]
  /\ tasks = [start |-> 0, switch |-> 0, lateStart |-> 0, lateSwitch |-> 0, overlap |-> FALSE]
  /\ keys = [held |-> FALSE, mode |-> "open", mounted |-> FALSE]

------------------------------------------------------------------------------
(* The gate *)

computeMicGate(v) ==
  /\ IF v.pttMode = "open" THEN v.continuous \/ v.vadActive ELSE v.transmitting
  /\ ~v.selfMuted /\ ~v.selfDeafened /\ v.micReady

\* ensureVadLoop: the poll runs when its result is needed, and stops with its
\* verdict withdrawn.
NeedsVad(v) == v.pttMode = "open" /\ v.micReady /\ ~v.continuous

VadLooped(v) ==
  [v EXCEPT !.vadTimer = NeedsVad(v), !.vadActive = @ /\ (NeedsVad(v) \/ ~v.vadTimer)]

\* applyMicGate: gate and own talking indicator follow the state v.
Applied(v) == VadLooped([v EXCEPT !.selfTalking = computeMicGate(v)])

Apply(v, r) ==
  /\ voice' = Applied(v)
  /\ rtc' = [r EXCEPT !.micEnabled = computeMicGate(v)]

------------------------------------------------------------------------------
(* MumbleClient *)

\* The second half of startAudio: a new peer connection replaces the client's,
\* and makes its offer.
StartedPeer(r) ==
  [r EXCEPT !.pc = "offering",
            !.strayPc = @ \/ r.pc # "none",
            !.strayOffers = @ + (IF r.pc = "offering" THEN 1 ELSE 0)]

\* A stream from getUserMedia becomes the client's.
Attached(r, late) ==
  [r EXCEPT !.mic = IF late THEN "leaked" ELSE "on",
            !.strayMic = @ \/ r.mic # "off"]

\* setInputDevice stops the stream it replaces.
Switched(r, late) == [r EXCEPT !.mic = IF late THEN "leaked" ELSE "on"]

\* closeRtc keeps the microphone for the reconnect.
ClosedRtc(r) == [r EXCEPT !.pc = "none"]

\* dispose that leaves the microphone to the next login, as closeRtc does.
DisposedOfRtcOnly(r) == ClosedRtc(r)

\* dispose
Disposed(r) == [ClosedRtc(r) EXCEPT !.mic = "off"]

\* dispose as if the pending calls were also to be made again.
NowTwice(t) == [t EXCEPT !.lateStart = @ + t.start, !.lateSwitch = @ + t.switch]

\* dispose leaves the pending calls to their late answers.
NowLate(t) ==
  [t EXCEPT !.start = 0, !.switch = 0, !.lateStart = @ + t.start, !.lateSwitch = @ + t.switch]

Pending ==
  tasks.start + tasks.switch + tasks.lateStart + tasks.lateSwitch + rtc.strayOffers

\* startAudio up to its first await.
StartAudio(r) ==
  IF r.mic # "off"
  THEN /\ Pending < MaxTasks
       /\ rtc' = StartedPeer(r) /\ UNCHANGED tasks
  ELSE /\ Pending < MaxTasks
       /\ tasks' = [tasks EXCEPT !.start = @ + 1, !.overlap = @ \/ Pending > 0]
       /\ rtc' = r

\* getUserMedia answers startAudio: granted, it goes on; refused, it reports.
StartAnswered ==
  \E late \in BOOLEAN :
    /\ IF late THEN tasks.lateStart > 0 ELSE tasks.start > 0
    /\ tasks' = IF late THEN [tasks EXCEPT !.lateStart = @ - 1]
                ELSE [tasks EXCEPT !.start = @ - 1]
    /\ rtc' \in {rtc, StartedPeer(Attached(rtc, late))}
    /\ UNCHANGED <<phase, voice, keys>>

\* onMicReady that does not apply the gate.
OfferMadeQuietly ==
  /\ rtc.pc = "offering"
  /\ voice' = [voice EXCEPT !.micReady = TRUE] /\ rtc' = [rtc EXCEPT !.pc = "open"]
  /\ UNCHANGED <<phase, tasks, keys>>

\* The offer of the client's peer connection, or of a stray one, is made:
\* onMicReady.
OfferMade ==
  /\ \/ rtc.pc = "offering" /\ Apply([voice EXCEPT !.micReady = TRUE], [rtc EXCEPT !.pc = "open"])
     \/ /\ rtc.strayOffers > 0
        /\ Apply([voice EXCEPT !.micReady = TRUE],
                 [rtc EXCEPT !.strayOffers = @ - 1])
  /\ UNCHANGED <<phase, tasks, keys>>

\* setInputDevice up to its await; without a peer connection it does nothing.
SetInputDevice ==
  IF rtc.pc = "none" THEN UNCHANGED tasks
  ELSE /\ Pending < MaxTasks
       /\ tasks' = [tasks EXCEPT !.switch = @ + 1, !.overlap = @ \/ Pending > 0]

SwitchAnswered ==
  /\ \E late \in BOOLEAN :
       /\ IF late THEN tasks.lateSwitch > 0 ELSE tasks.switch > 0
       /\ tasks' = IF late THEN [tasks EXCEPT !.lateSwitch = @ - 1]
                   ELSE [tasks EXCEPT !.switch = @ - 1]
       /\ \/ UNCHANGED <<voice, rtc>>
          \/ Apply([voice EXCEPT !.micReady = TRUE], Switched(rtc, late))
  /\ UNCHANGED <<phase, keys>>

\* The device disappears or the permission is withdrawn.
MicDies ==
  /\ rtc.mic # "off"
  /\ rtc' = [rtc EXCEPT !.mic = "off"]
  /\ UNCHANGED <<phase, voice, tasks, keys>>

------------------------------------------------------------------------------
(* The connection *)

LoggedIn ==
  /\ phase \in {"off", "reconnecting"} /\ phase' = "syncing"
  /\ StartAudio(rtc)
  /\ UNCHANGED <<voice, keys>>

SyncDone == phase = "syncing" /\ phase' = "ready" /\ UNCHANGED <<voice, rtc, tasks, keys>>

\* The user envelope about oneself: the store believes it, the gate is not asked.
SelfEnvelope(mute, deaf) ==
  /\ phase \in {"syncing", "ready"}
  /\ voice' = [voice EXCEPT !.selfMuted = mute, !.selfDeafened = deaf]
  /\ UNCHANGED <<phase, rtc, tasks, keys>>

\* beginReconnect
PeerDropped ==
  /\ phase \in {"syncing", "ready"} /\ phase' = "reconnecting"
  /\ rtc' = ClosedRtc(rtc)
  /\ voice' = [voice EXCEPT !.selfTalking = FALSE]
  /\ UNCHANGED <<tasks, keys>>

\* endSession: the fields are reset, the gate is not applied.
Silenced(v) ==
  [v EXCEPT !.selfTalking = FALSE, !.transmitting = FALSE, !.vadActive = FALSE,
            !.selfMuted = FALSE, !.selfDeafened = FALSE, !.micReady = FALSE]

EndSession ==
  /\ phase \in {"syncing", "ready", "reconnecting"} /\ phase' = "ended"
  /\ voice' = Silenced(voice)
  /\ rtc' = Disposed(rtc) /\ tasks' = NowLate(tasks)
  /\ UNCHANGED keys

\* retryAfterEnd, from the end page: the main layout is gone.
RetryAfterEnd ==
  /\ phase = "ended" /\ ~keys.mounted /\ phase' = "off"
  /\ voice' = [voice EXCEPT !.selfTalking = FALSE, !.transmitting = FALSE, !.vadActive = FALSE]
  /\ UNCHANGED <<rtc, tasks, keys>>

\* disconnect
Disconnect ==
  /\ phase \in {"ready", "reconnecting", "ended"} /\ phase' = "off"
  /\ keys.mounted = (phase # "ended")
  /\ Apply(Silenced(voice), Disposed(rtc)) /\ tasks' = NowLate(tasks)
  /\ UNCHANGED keys

------------------------------------------------------------------------------
(* The user *)

SetSelfMute(v, mute) == [v EXCEPT !.selfMuted = mute]
SetSelfDeaf(v, deaf) == [v EXCEPT !.selfDeafened = deaf, !.selfMuted = @ \/ deaf]
SetPttMode(v, mode)  == [v EXCEPT !.pttMode = mode, !.vadActive = FALSE]

\* What the dock and the panel say of the microphone.
useVoiceStatus ==
  CASE ~voice.micReady                                  -> "initializing"
    [] voice.micReady /\ voice.selfTalking              -> "talking"
    [] voice.micReady /\ ~voice.selfTalking /\ voice.selfMuted -> "muted"
    [] OTHER                                            -> "silent"

InLayout == keys.mounted /\ phase \in {"ready", "reconnecting"}

\* The mute and deafen buttons, of which a phone shows the dock's; the shortcuts
\* do the same.
MuteButtons ==
  Apply(SetSelfMute(voice, ~voice.selfMuted), rtc) \/ Apply(SetSelfDeaf(voice, ~voice.selfDeafened), rtc)

VoicePanel == InLayout /\ MuteButtons /\ UNCHANGED <<phase, tasks, keys>>
VoiceDock  == VoicePanel

\* The voice tab: mode, and in free speech continuous transmission. The gate's
\* threshold decides what VadTick leaves open.
VoiceTab ==
  /\ InLayout
  /\ \/ \E mode \in {"ptt", "open"} : Apply(SetPttMode(voice, mode), rtc)
     \/ voice.pttMode = "open" /\ Apply([voice EXCEPT !.continuous = ~@], rtc)
  /\ UNCHANGED <<phase, tasks, keys>>

\* The audio tab: another microphone.
AudioTab == InLayout /\ SetInputDevice /\ UNCHANGED <<phase, voice, rtc, keys>>

\* The settings' reset: the system's microphone, free speech, the noise gate.
ResetSettings ==
  /\ InLayout /\ SetInputDevice
  /\ Apply(SetPttMode([voice EXCEPT !.continuous = FALSE], "open"), rtc)
  /\ UNCHANGED <<phase, keys>>

\* One tick of the noise gate's poll changes its verdict.  Without a microphone
\* the level is nought.
VadTick ==
  /\ voice.vadTimer /\ (voice.vadActive \/ rtc.mic # "off")
  /\ Apply([voice EXCEPT !.vadActive = ~@], rtc)
  /\ UNCHANGED <<phase, tasks, keys>>

\* The push-to-talk key goes down while no dialog is open (PageShell); the
\* listeners know the mode they were bound with.
KeyDown ==
  /\ keys.mounted /\ keys.mode = "ptt" /\ ~keys.held
  /\ keys' = [keys EXCEPT !.held = TRUE]
  /\ Apply([voice EXCEPT !.transmitting = TRUE], rtc)
  /\ UNCHANGED <<phase, tasks>>

\* release: key up, blur, or the cleanup of the listeners.
Release(k) ==
  IF keys.held
  THEN /\ keys' = [k EXCEPT !.held = FALSE]
       /\ Apply([voice EXCEPT !.transmitting = FALSE], rtc)
  ELSE keys' = k /\ UNCHANGED <<voice, rtc>>

KeyUp == keys.mounted /\ keys.held /\ Release(keys) /\ UNCHANGED <<phase, tasks>>

\* React mounts the listeners with the main layout, binds them anew when the
\* mode changes, and cleans them up when the layout goes.
LayoutShown == phase \in {"ready", "reconnecting"}
Rebound == [keys EXCEPT !.mode = voice.pttMode, !.mounted = LayoutShown]

\* The effect as if its cleanup removed the listeners and no more.
BindForgetting == keys # Rebound /\ keys' = [Rebound EXCEPT !.held = FALSE]
                  /\ UNCHANGED <<phase, voice, rtc, tasks>>

Bind == keys # Rebound /\ Release(Rebound) /\ UNCHANGED <<phase, tasks>>

------------------------------------------------------------------------------
VoiceNext ==
  \/ StartAnswered \/ OfferMade \/ SwitchAnswered \/ MicDies
  \/ LoggedIn \/ SyncDone \/ PeerDropped \/ EndSession \/ RetryAfterEnd \/ Disconnect
  \/ \E m, d \in BOOLEAN : (d => m) /\ SelfEnvelope(m, d)
  \/ VoicePanel \/ VoiceDock \/ VoiceTab \/ AudioTab \/ ResetSettings
  \/ VadTick \/ KeyDown \/ KeyUp \/ Bind

VoiceSpec == VoiceInit /\ [][VoiceNext]_voiceVars

------------------------------------------------------------------------------
(* Properties *)

\* Types of the page's voice state.
VoiceTypeOK ==
  /\ phase \in {"off", "syncing", "ready", "reconnecting", "ended"}
  /\ voice \in [micReady : BOOLEAN, pttMode : {"ptt", "open"}, transmitting : BOOLEAN,
                selfMuted : BOOLEAN, selfDeafened : BOOLEAN, vadActive : BOOLEAN,
                continuous : BOOLEAN, selfTalking : BOOLEAN, vadTimer : BOOLEAN]
  /\ rtc.mic \in {"off", "on", "leaked"} /\ rtc.pc \in {"none", "offering", "open"}
  /\ Pending \in 0..MaxTasks + 1

\* A session's microphone is open only as the user expects: in push-to-talk while
\* the key is held, and in every mode while the page says that one is talking;
\* whatever dialog, blur, mode change, late echo, reconnect or remount came
\* between key down and key up.
SendsAsShown ==
  phase = "ready" /\ rtc.pc = "open" /\ rtc.mic # "off" /\ rtc.micEnabled =>
    /\ useVoiceStatus = "talking"
    /\ voice.pttMode = "ptt" => voice.transmitting /\ keys.held

\* Whenever free speech depends on the noise gate, its poll is running: a
\* microphone is never left shut for good by a lost timer.
NoiseGateIsPolled == NeedsVad(voice) => voice.vadTimer

\* A page without a session holds a microphone only when startAudio or
\* setInputDevice outlived the client's dispose (mumbleClient.ts:144), and a
\* stream that nothing can stop any more exists only where two calls of
\* getUserMedia overlapped: the second to be answered is kept, and a switch of
\* devices stops what it replaces.
MicIsReleased ==
  /\ phase \in {"off", "ended"} => rtc.mic # "on"
  /\ rtc.strayMic => tasks.overlap
=============================================================================
