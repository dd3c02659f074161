---------------------------- MODULE VoiceProofs ----------------------------
(***************************************************************************)
(* Voice: what the page does with the microphone, for any number of calls  *)
(* under way at once (PageVoice), and the voice of one login, for any set  *)
(* of speakers and any size of queue (VoiceBridge).                        *)
(*                                                                         *)
(* PageVoice keeps its types, NoiseGateIsPolled, MicIsReleased and         *)
(* SendsAsShown.  None of the last two is inductive.  An answer of         *)
(* getUserMedia turns the microphone on in whatever phase it comes, so the *)
(* invariant says which calls may be pending when; and the indicator is    *)
(* set in another step than the fields it is computed from, so the         *)
(* invariant says what it still stands for while gate, fields and          *)
(* connection move on their own.                                           *)
(*                                                                         *)
(* VoiceBridge keeps its types, SpeechEnds and VoiceIsNegotiated.  The     *)
(* page's map lags behind the proxy's by what is in the queue, so the      *)
(* invariant of SpeechEnds speaks of what the page will show once the      *)
(* queue is empty: what the last envelope about a speaker says, or,        *)
(* without one, what the page shows already.  VoiceIsNegotiated is about   *)
(* the signalling at rest: its invariant says where each end's offer is on *)
(* its way there and back, and who still owes the page the tracks of the   *)
(* proxy's description.                                                    *)
(***************************************************************************)
EXTENDS PageVoice, VoiceBridge, SequenceTheorems, TLAPS

------------------------------------------------------------------------------
(* The microphone: PageVoice *)

\* The records of PageVoice: the store's fields,
Voice == [micReady : BOOLEAN, pttMode : {"ptt", "open"}, transmitting : BOOLEAN,
          selfMuted : BOOLEAN, selfDeafened : BOOLEAN, vadActive : BOOLEAN,
          continuous : BOOLEAN, selfTalking : BOOLEAN, vadTimer : BOOLEAN]

\* the client's,
Rtc == [micEnabled : BOOLEAN, mic : {"off", "on", "leaked"}, strayMic : BOOLEAN,
        pc : {"none", "offering", "open"}, strayPc : BOOLEAN, strayOffers : Nat]

\* the calls under way,
Tasks == [start : Nat, switch : Nat, lateStart : Nat, lateSwitch : Nat, overlap : BOOLEAN]

\* and the push-to-talk key.
Keys == [held : BOOLEAN, mode : {"ptt", "open"}, mounted : BOOLEAN]

\* How many calls are under way.
Calls(t) == t.start + t.switch + t.lateStart + t.lateSwitch

\* Types strong enough for the invariant.
Typed ==
  /\ phase \in {"off", "syncing", "ready", "reconnecting", "ended"}
  /\ voice \in Voice /\ rtc \in Rtc /\ tasks \in Tasks /\ keys \in Keys
  /\ Calls(tasks) + rtc.strayOffers <= MaxTasks

\* dispose has made every call of the session late that it left pending.
NothingAwaited ==
  phase \in {"off", "ended"} => tasks.start = 0 /\ tasks.switch = 0 /\ rtc.mic # "on"

\* Where no two calls were pending together, a call of startAudio finds the
\* client as it left it: without a stream.
OneAtATime ==
  ~tasks.overlap =>
    /\ Calls(tasks) <= 1 /\ ~rtc.strayMic
    /\ tasks.start + tasks.lateStart > 0 => rtc.mic = "off"

\* What the own talking indicator stands for, and what push-to-talk does.
TalkingIsMeant ==
  /\ voice.selfTalking => voice.micReady
  /\ voice.selfTalking /\ voice.pttMode = "ptt" => voice.transmitting
  /\ voice.transmitting => keys.held

\* Over a connection that is up, the gate and the indicator were set together.
ShownAsSet ==
  phase \in {"syncing", "ready"} /\ rtc.pc = "open" /\ rtc.mic # "off" =>
    rtc.micEnabled = voice.selfTalking

\* The inductive invariant.
IInv ==
  Typed /\ NoiseGateIsPolled /\ NothingAwaited /\ OneAtATime /\ TalkingIsMeant /\ ShownAsSet

\* What is said of the store's fields, the gate and the key.
VoiceInv == voice \in Voice /\ NoiseGateIsPolled /\ TalkingIsMeant /\ ShownAsSet

\* What is said of the client and its pending calls.
CallsInv ==
  /\ phase \in {"off", "syncing", "ready", "reconnecting", "ended"}
  /\ rtc \in Rtc /\ tasks \in Tasks /\ keys \in Keys
  /\ Calls(tasks) + rtc.strayOffers <= MaxTasks
  /\ NothingAwaited /\ OneAtATime

------------------------------------------------------------------------------
\* The gate is a truth value, and open only with a microphone, in push-to-talk
\* only while the key transmits.
LEMMA GateOf ==
  ASSUME NEW v \in Voice
  PROVE  /\ computeMicGate(v) \in BOOLEAN
         /\ computeMicGate(v) => v.micReady /\ (v.pttMode = "ptt" => v.transmitting)
         /\ NeedsVad(v) \in BOOLEAN
BY DEF computeMicGate, NeedsVad, Voice

\* applyMicGate: the indicator and the gate say the same, the poll runs when it
\* is needed, and nothing else is touched.
LEMMA AppliedGate ==
  ASSUME NEW v \in Voice, NEW r \in Rtc, Apply(v, r)
  PROVE  /\ voice' \in Voice /\ rtc' \in Rtc
         /\ rtc'.micEnabled = voice'.selfTalking
         /\ voice'.selfTalking => v.micReady /\ (v.pttMode = "ptt" => v.transmitting)
         /\ NeedsVad(voice') => voice'.vadTimer
         /\ voice'.micReady = v.micReady /\ voice'.pttMode = v.pttMode
         /\ voice'.transmitting = v.transmitting
         /\ rtc'.mic = r.mic /\ rtc'.strayMic = r.strayMic /\ rtc'.pc = r.pc
         /\ rtc'.strayOffers = r.strayOffers
<1>1. PICK g \in BOOLEAN : g = computeMicGate(v)
  BY GateOf
<1>2. PICK w \in Voice : w = [v EXCEPT !.selfTalking = g]
  BY DEF Voice
<1>3. PICK n \in BOOLEAN : n = NeedsVad(w)
  BY GateOf
<1>4. PICK a \in BOOLEAN : a = (w.vadActive /\ (NeedsVad(w) \/ ~w.vadTimer))
  OBVIOUS
<1>5. /\ voice' = [w EXCEPT !.vadTimer = n, !.vadActive = a]
      /\ rtc' = [r EXCEPT !.micEnabled = g]
  BY <1>1, <1>2, <1>3, <1>4 DEF Apply, Applied, VadLooped
<1>6. g => v.micReady /\ (v.pttMode = "ptt" => v.transmitting)
  BY <1>1, GateOf
<1>7. NeedsVad(voice') => voice'.vadTimer
  BY <1>3, <1>5 DEF NeedsVad, Voice
<1>8. /\ voice' \in Voice /\ voice'.selfTalking = g
      /\ voice'.micReady = v.micReady /\ voice'.pttMode = v.pttMode
      /\ voice'.transmitting = v.transmitting
  <2>1. /\ w.selfTalking = g /\ w.micReady = v.micReady /\ w.pttMode = v.pttMode
        /\ w.transmitting = v.transmitting
    BY <1>2 DEF Voice
  <2> QED
    BY <1>5, <2>1 DEF Voice
<1>9. /\ rtc' \in Rtc /\ rtc'.micEnabled = g
      /\ rtc'.mic = r.mic /\ rtc'.strayMic = r.strayMic /\ rtc'.pc = r.pc
      /\ rtc'.strayOffers = r.strayOffers
  BY <1>5 DEF Rtc
<1> QED
  BY <1>6, <1>7, <1>8, <1>9

\* A step that ends in applyMicGate, and transmits only with the key held.
LEMMA ApplyKeepsVoice ==
  ASSUME NEW v \in Voice, NEW r \in Rtc, Apply(v, r), v.transmitting => keys'.held
  PROVE  VoiceInv'
BY AppliedGate DEF VoiceInv, NoiseGateIsPolled, TalkingIsMeant, ShownAsSet

\* A step that leaves the calls under way alone, whatever it does to the gate.
LEMMA SameCalls ==
  ASSUME CallsInv, UNCHANGED <<phase, tasks>>, rtc' \in Rtc, keys' \in Keys,
         UNCHANGED <<rtc.mic, rtc.strayMic>>, rtc'.strayOffers <= rtc.strayOffers
  PROVE  CallsInv'
<1>1. Calls(tasks) \in Nat /\ Calls(tasks)' = Calls(tasks)
  BY DEF CallsInv, Tasks, Calls
<1>2. (Calls(tasks) + rtc.strayOffers <= MaxTasks)'
  BY <1>1, MaxTasksAssumption DEF CallsInv, Rtc
<1>3. NothingAwaited' /\ OneAtATime'
  BY <1>1 DEF CallsInv, NothingAwaited, OneAtATime
<1> QED
  BY <1>2, <1>3 DEF CallsInv

\* A step that applies the gate and leaves the calls and the client's
\* microphone alone.
LEMMA ApplyKeepsInv ==
  ASSUME CallsInv, NEW v \in Voice, NEW r \in Rtc, Apply(v, r),
         v.transmitting => keys'.held, UNCHANGED <<phase, tasks>>, keys' \in Keys,
         r.mic = rtc.mic, r.strayMic = rtc.strayMic, r.strayOffers <= rtc.strayOffers
  PROVE  VoiceInv' /\ CallsInv'
<1>1. VoiceInv'
  BY ApplyKeepsVoice
<1>2. CallsInv'
  BY AppliedGate, SameCalls
<1> QED
  BY <1>1, <1>2

------------------------------------------------------------------------------
(* The calls of getUserMedia *)

\* A call is answered: of startAudio, whose stream is the client's only one
\* where no calls overlapped, or of setInputDevice, which stops the other.
LEMMA AnswersKeepInv ==
  ASSUME VoiceInv, CallsInv, StartAnswered \/ SwitchAnswered
  PROVE  VoiceInv' /\ CallsInv'
<1> USE DEF Tasks, Calls
<1>1. /\ tasks \in Tasks /\ rtc \in Rtc /\ keys \in Keys /\ voice \in Voice
      /\ Calls(tasks) + rtc.strayOffers <= MaxTasks /\ MaxTasks \in Nat
  BY MaxTasksAssumption DEF CallsInv, VoiceInv
<1>2. CASE StartAnswered
  <2>1. PICK late \in BOOLEAN :
          /\ IF late THEN tasks.lateStart > 0 ELSE tasks.start > 0
          /\ tasks' = IF late THEN [tasks EXCEPT !.lateStart = @ - 1]
                      ELSE [tasks EXCEPT !.start = @ - 1]
          /\ rtc' \in {rtc, StartedPeer(Attached(rtc, late))}
          /\ UNCHANGED <<phase, voice, keys>>
    BY <1>2 DEF StartAnswered
  <2>2. /\ tasks' \in Tasks /\ Calls(tasks') = Calls(tasks) - 1
        /\ tasks'.switch = tasks.switch /\ tasks'.overlap = tasks.overlap
        /\ tasks.start + tasks.lateStart > 0
        /\ tasks'.start + tasks'.lateStart = tasks.start + tasks.lateStart - 1
        /\ IF late THEN tasks'.start = tasks.start ELSE tasks.start > 0 /\ tasks'.start = tasks.start - 1
    BY <1>1, <2>1
  <2>3. /\ rtc' \in Rtc /\ rtc'.strayOffers <= rtc.strayOffers + 1
        /\ rtc'.strayMic => rtc.strayMic \/ rtc.mic # "off"
        /\ rtc'.mic = "on" => rtc.mic = "on" \/ ~late
        /\ rtc' = rtc \/ rtc'.pc = "offering"
    <3>1. CASE rtc' = rtc
      BY <1>1, <3>1 DEF Rtc
    <3>2. CASE rtc' = StartedPeer(Attached(rtc, late))
      <4>1. PICK a \in Rtc : /\ a = Attached(rtc, late)
                             /\ a.strayMic = (rtc.strayMic \/ rtc.mic # "off")
                             /\ a.mic = IF late THEN "leaked" ELSE "on"
                             /\ a.strayOffers = rtc.strayOffers
        <5>1. PICK b \in BOOLEAN : b = (rtc.strayMic \/ rtc.mic # "off")
          OBVIOUS
        <5>2. Attached(rtc, late) =
                [rtc EXCEPT !.mic = IF late THEN "leaked" ELSE "on", !.strayMic = b]
          BY <5>1 DEF Attached
        <5> QED
          BY <1>1, <5>1, <5>2 DEF Rtc
      <4>2. /\ rtc' \in Rtc /\ rtc'.strayOffers <= a.strayOffers + 1
            /\ rtc'.strayMic = a.strayMic /\ rtc'.mic = a.mic /\ rtc'.pc = "offering"
        <5>1. PICK b \in BOOLEAN : b = (a.strayPc \/ a.pc # "none")
          OBVIOUS
        <5>2. PICK n \in {0, 1} : n = IF a.pc = "offering" THEN 1 ELSE 0
          OBVIOUS
        <5>3. rtc' = [a EXCEPT !.pc = "offering", !.strayPc = b,
                               !.strayOffers = a.strayOffers + n]
          BY <3>2, <4>1, <5>1, <5>2 DEF StartedPeer
        <5>4. a.strayOffers + n \in Nat /\ a.strayOffers + n <= a.strayOffers + 1
          BY <5>2 DEF Rtc
        <5> QED
          BY <5>3, <5>4 DEF Rtc
      <4> QED
        BY <4>1, <4>2
    <3> QED
      BY <2>1, <3>1, <3>2
  <2>4. VoiceInv'
    BY <2>1, <2>3 DEF VoiceInv, NoiseGateIsPolled, NeedsVad, TalkingIsMeant, ShownAsSet
  <2>5. NothingAwaited'
    BY <1>1, <2>1, <2>2, <2>3 DEF CallsInv, NothingAwaited
  <2>6. OneAtATime'
    BY <1>1, <2>2, <2>3 DEF CallsInv, OneAtATime
  <2>7. Calls(tasks') + rtc'.strayOffers <= MaxTasks
    BY <1>1, <2>2, <2>3 DEF Rtc
  <2> QED
    BY <1>1, <2>1, <2>2, <2>3, <2>4, <2>5, <2>6, <2>7 DEF CallsInv
<1>3. CASE SwitchAnswered
  <2>1. PICK late \in BOOLEAN :
          /\ IF late THEN tasks.lateSwitch > 0 ELSE tasks.switch > 0
          /\ tasks' = IF late THEN [tasks EXCEPT !.lateSwitch = @ - 1]
                      ELSE [tasks EXCEPT !.switch = @ - 1]
          /\ \/ UNCHANGED <<voice, rtc>>
             \/ Apply([voice EXCEPT !.micReady = TRUE], Switched(rtc, late))
          /\ UNCHANGED <<phase, keys>>
    BY <1>3 DEF SwitchAnswered
  <2>2. /\ tasks' \in Tasks /\ Calls(tasks') = Calls(tasks) - 1
        /\ tasks'.start = tasks.start /\ tasks'.overlap = tasks.overlap
        /\ tasks'.start + tasks'.lateStart = tasks.start + tasks.lateStart
        /\ tasks.start + tasks.lateStart < Calls(tasks)
        /\ IF late THEN tasks'.switch = tasks.switch
           ELSE tasks.switch > 0 /\ tasks'.switch = tasks.switch - 1
    BY <1>1, <2>1
  <2>3. /\ rtc' \in Rtc /\ rtc'.strayOffers = rtc.strayOffers
        /\ rtc'.strayMic = rtc.strayMic
        /\ rtc'.mic = "on" => rtc.mic = "on" \/ ~late
        /\ VoiceInv'
    <3>1. CASE UNCHANGED <<voice, rtc>>
      BY <1>1, <2>1, <3>1 DEF Rtc, VoiceInv, NoiseGateIsPolled, NeedsVad, TalkingIsMeant, ShownAsSet
    <3>2. CASE Apply([voice EXCEPT !.micReady = TRUE], Switched(rtc, late))
      <4>1. PICK v \in Voice : /\ v = [voice EXCEPT !.micReady = TRUE]
                               /\ v.transmitting = voice.transmitting
        <5>1. /\ [voice EXCEPT !.micReady = TRUE] \in Voice
              /\ [voice EXCEPT !.micReady = TRUE].transmitting = voice.transmitting
          BY <1>1 DEF Voice
        <5> QED
          BY <5>1
      <4>2. PICK r \in Rtc : /\ r = Switched(rtc, late)
                             /\ r.strayMic = rtc.strayMic /\ r.strayOffers = rtc.strayOffers
                             /\ r.mic = IF late THEN "leaked" ELSE "on"
        <5>1. PICK m \in {"leaked", "on"} : m = IF late THEN "leaked" ELSE "on"
          OBVIOUS
        <5>2. Switched(rtc, late) = [rtc EXCEPT !.mic = m]
          BY <5>1 DEF Switched
        <5> QED
          BY <1>1, <5>1, <5>2 DEF Rtc
      <4>3. Apply(v, r) /\ (v.transmitting => keys'.held)
        BY <2>1, <3>2, <4>1, <4>2 DEF VoiceInv, TalkingIsMeant
      <4>4. VoiceInv'
        BY <4>3, ApplyKeepsVoice
      <4> QED
        BY <4>2, <4>3, <4>4, AppliedGate
    <3> QED
      BY <2>1, <3>1, <3>2
  <2>4. NothingAwaited'
    BY <1>1, <2>1, <2>2, <2>3 DEF CallsInv, NothingAwaited
  <2>5. OneAtATime'
    BY <1>1, <2>2, <2>3 DEF CallsInv, OneAtATime
  <2>6. Calls(tasks') + rtc'.strayOffers <= MaxTasks
    BY <1>1, <2>2, <2>3 DEF Rtc
  <2> QED
    BY <1>1, <2>1, <2>2, <2>3, <2>4, <2>5, <2>6 DEF CallsInv
<1> QED
  BY <1>2, <1>3

\* The microphone dies, or an offer is made: the client's or a stray one's.
LEMMA OffersKeepInv ==
  ASSUME VoiceInv, CallsInv, MicDies \/ OfferMade
  PROVE  VoiceInv' /\ CallsInv'
<1>1. rtc \in Rtc /\ keys \in Keys /\ voice \in Voice /\ tasks \in Tasks
  BY DEF CallsInv, VoiceInv
<1>2. CASE MicDies
  <2>1. /\ rtc' = [rtc EXCEPT !.mic = "off"] /\ rtc' \in Rtc
        /\ UNCHANGED <<phase, voice, tasks, keys>>
    BY <1>1, <1>2 DEF MicDies, Rtc
  <2>2. VoiceInv'
    BY <1>1, <2>1 DEF VoiceInv, NoiseGateIsPolled, NeedsVad, TalkingIsMeant, ShownAsSet, Rtc
  <2>3. CallsInv'
    BY <1>1, <2>1 DEF CallsInv, Calls, NothingAwaited, OneAtATime, Rtc
  <2> QED
    BY <2>2, <2>3
<1>3. CASE OfferMade
  <2>1. /\ [voice EXCEPT !.micReady = TRUE] \in Voice
        /\ [voice EXCEPT !.micReady = TRUE].transmitting => keys.held
    BY <1>1 DEF Voice, VoiceInv, TalkingIsMeant
  <2>2. PICK v \in Voice : v = [voice EXCEPT !.micReady = TRUE] /\ (v.transmitting => keys.held)
    BY <2>1
  <2>3. UNCHANGED <<phase, tasks, keys>>
    BY <1>3 DEF OfferMade
  <2>4. CASE Apply(v, [rtc EXCEPT !.pc = "open"])
    <3> DEFINE r == [rtc EXCEPT !.pc = "open"]
    <3>1. /\ r \in Rtc /\ r.mic = rtc.mic
          /\ r.strayMic = rtc.strayMic /\ r.strayOffers = rtc.strayOffers
      BY <1>1 DEF Rtc
    <3>2. r.strayOffers <= rtc.strayOffers
      BY <1>1, <3>1 DEF Rtc
    <3> QED
      BY <1>1, <2>2, <2>3, <2>4, <3>1, <3>2, ApplyKeepsInv
  <2>5. CASE rtc.strayOffers > 0 /\ Apply(v, [rtc EXCEPT !.strayOffers = @ - 1])
    <3>1. rtc.strayOffers - 1 \in Nat
      BY <1>1, <2>5 DEF Rtc
    <3> DEFINE r == [rtc EXCEPT !.strayOffers = @ - 1]
    <3>2. /\ r \in Rtc /\ r.mic = rtc.mic
          /\ r.strayMic = rtc.strayMic /\ r.strayOffers = rtc.strayOffers - 1
      BY <1>1, <3>1 DEF Rtc
    <3>3. r.strayOffers <= rtc.strayOffers
      BY <1>1, <3>2 DEF Rtc
    <3> QED
      BY <1>1, <2>2, <2>3, <2>5, <3>2, <3>3, ApplyKeepsInv
  <2> QED
    BY <1>3, <2>2, <2>4, <2>5 DEF OfferMade
<1> QED
  BY <1>2, <1>3

\* startAudio asks for a microphone only when the client has none, and makes
\* its offer over a new peer connection when it has one.
LEMMA StartAsks ==
  ASSUME CallsInv, StartAudio(rtc)
  PROVE  /\ rtc' \in Rtc /\ tasks' \in Tasks /\ OneAtATime'
         /\ Calls(tasks') + rtc'.strayOffers <= MaxTasks
         /\ rtc.mic # "off" => rtc'.pc = "offering"
         /\ rtc'.mic = rtc.mic
<1>1. /\ tasks \in Tasks /\ rtc \in Rtc /\ MaxTasks \in Nat
      /\ Pending = Calls(tasks) + rtc.strayOffers
  BY MaxTasksAssumption DEF CallsInv, Pending, Calls
<1>2. CASE rtc.mic # "off"
  <2>1. PICK b \in BOOLEAN : b = (rtc.strayPc \/ rtc.pc # "none")
    OBVIOUS
  <2>2. PICK n \in {0, 1} : n = IF rtc.pc = "offering" THEN 1 ELSE 0
    OBVIOUS
  <2>3. /\ rtc' = [rtc EXCEPT !.pc = "offering", !.strayPc = b,
                              !.strayOffers = rtc.strayOffers + n]
        /\ UNCHANGED tasks /\ Pending < MaxTasks
    BY <1>2, <2>1, <2>2 DEF StartAudio, StartedPeer
  <2>4. rtc.strayOffers + n \in Nat
    BY <1>1, <2>2 DEF Rtc
  <2>5. /\ rtc' \in Rtc /\ rtc'.mic = rtc.mic /\ rtc'.pc = "offering"
        /\ rtc'.strayMic = rtc.strayMic /\ rtc'.strayOffers = rtc.strayOffers + n
    BY <1>1, <2>3, <2>4 DEF Rtc
  <2>6. Calls(tasks') + rtc'.strayOffers <= MaxTasks
    BY <1>1, <2>2, <2>3, <2>5 DEF Rtc, Tasks, Calls
  <2>7. OneAtATime'
    BY <1>1, <2>3, <2>5 DEF CallsInv, OneAtATime, Calls
  <2> QED
    BY <1>1, <2>3, <2>5, <2>6, <2>7
<1>3. CASE rtc.mic = "off"
  <2>1. PICK b \in BOOLEAN : b = (tasks.overlap \/ Pending > 0)
    OBVIOUS
  <2>2. /\ tasks' = [tasks EXCEPT !.start = tasks.start + 1, !.overlap = b]
        /\ rtc' = rtc /\ Pending < MaxTasks
    BY <1>3, <2>1 DEF StartAudio
  <2>3. /\ tasks' \in Tasks /\ Calls(tasks') = Calls(tasks) + 1 /\ tasks'.overlap = b
    <3>1. tasks.start + 1 \in Nat /\ tasks.switch + 1 \in Nat
      BY <1>1 DEF Tasks
    <3>2. tasks' \in Tasks
      BY <1>1, <2>2, <3>1 DEF Tasks
    <3> QED
      BY <1>1, <2>2, <3>1, <3>2 DEF Tasks, Calls
  <2>4. Calls(tasks') + rtc'.strayOffers <= MaxTasks
    BY <1>1, <2>2, <2>3 DEF Rtc, Tasks, Calls
  <2>5. ~b => ~tasks.overlap /\ Calls(tasks) = 0
    <3>1. Calls(tasks) \in Nat /\ rtc.strayOffers \in Nat /\ tasks.overlap \in BOOLEAN
      BY <1>1 DEF Rtc, Tasks, Calls
    <3>2. ~(Pending > 0) => Calls(tasks) = 0
      BY <1>1, <3>1
    <3>3. ~b => ~tasks.overlap /\ ~(Pending > 0)
      BY <2>1, Zenon
    <3> QED
      BY <3>2, <3>3
  <2>6. OneAtATime'
    BY <1>1, <1>3, <2>2, <2>3, <2>5 DEF CallsInv, OneAtATime
  <2> QED
    BY <1>1, <1>3, <2>2, <2>3, <2>4, <2>6
<1> QED
  BY <1>2, <1>3

\* setInputDevice asks for a microphone while the client has a peer connection.
LEMMA SwitchAsks ==
  ASSUME CallsInv, SetInputDevice, UNCHANGED phase,
         phase \notin {"off", "ended"}, rtc' \in Rtc,
         UNCHANGED <<rtc.mic, rtc.strayMic, rtc.strayOffers, keys>>
  PROVE  CallsInv'
<1>1. /\ tasks \in Tasks /\ rtc \in Rtc /\ MaxTasks \in Nat /\ keys \in Keys
      /\ Pending = Calls(tasks) + rtc.strayOffers
  BY MaxTasksAssumption DEF CallsInv, Pending, Calls
<1>2. CASE UNCHANGED tasks
  <2>1. rtc'.strayOffers <= rtc.strayOffers
    BY <1>1 DEF Rtc
  <2> QED
    BY <1>1, <1>2, <2>1, SameCalls
<1>3. CASE rtc.pc # "none"
  <2>1. PICK b \in BOOLEAN : b = (tasks.overlap \/ Pending > 0)
    OBVIOUS
  <2>2. /\ tasks' = [tasks EXCEPT !.switch = tasks.switch + 1, !.overlap = b]
        /\ Pending < MaxTasks
    BY <1>3, <2>1 DEF SetInputDevice
  <2>3. /\ tasks' \in Tasks /\ Calls(tasks') = Calls(tasks) + 1 /\ tasks'.overlap = b
        /\ tasks'.start = tasks.start /\ tasks'.lateStart = tasks.lateStart
    <3>1. tasks.start + 1 \in Nat /\ tasks.switch + 1 \in Nat
      BY <1>1 DEF Tasks
    <3>2. tasks' \in Tasks
      BY <1>1, <2>2, <3>1 DEF Tasks
    <3> QED
      BY <1>1, <2>2, <3>1, <3>2 DEF Tasks, Calls
  <2>4. Calls(tasks') + rtc'.strayOffers <= MaxTasks
    BY <1>1, <2>2, <2>3 DEF Rtc, Tasks, Calls
  <2>5. ~b => ~tasks.overlap /\ Calls(tasks) = 0
    <3>1. Calls(tasks) \in Nat /\ rtc.strayOffers \in Nat /\ tasks.overlap \in BOOLEAN
      BY <1>1 DEF Rtc, Tasks, Calls
    <3>2. ~(Pending > 0) => Calls(tasks) = 0
      BY <1>1, <3>1
    <3>3. ~b => ~tasks.overlap /\ ~(Pending > 0)
      BY <2>1, Zenon
    <3> QED
      BY <3>2, <3>3
  <2>6. OneAtATime' /\ NothingAwaited'
    BY <1>1, <2>2, <2>3, <2>5 DEF CallsInv, OneAtATime, NothingAwaited
  <2> QED
    BY <1>1, <2>3, <2>4, <2>6 DEF CallsInv
<1> QED
  BY <1>2, <1>3 DEF SetInputDevice

------------------------------------------------------------------------------
(* The connection *)

\* A login, its sync, a drop and the envelope about oneself.
LEMMA SessionKeepsInv ==
  ASSUME VoiceInv, CallsInv,
         \/ LoggedIn \/ SyncDone \/ PeerDropped
         \/ \E m, d \in BOOLEAN : SelfEnvelope(m, d)
  PROVE  VoiceInv' /\ CallsInv'
<1> USE DEF NoiseGateIsPolled, NeedsVad, TalkingIsMeant, ShownAsSet
<1>1. rtc \in Rtc /\ keys \in Keys /\ voice \in Voice /\ tasks \in Tasks
  BY DEF CallsInv, VoiceInv
<1>2. CASE LoggedIn
  <2>1. /\ phase' = "syncing" /\ StartAudio(rtc) /\ UNCHANGED <<voice, keys>>
    BY <1>2 DEF LoggedIn
  <2>2. VoiceInv'
    BY <1>1, <2>1, StartAsks DEF VoiceInv
  <2>3. CallsInv'
    BY <1>1, <2>1, StartAsks DEF CallsInv, NothingAwaited
  <2> QED
    BY <2>2, <2>3
<1>3. CASE SyncDone
  <2>1. phase = "syncing" /\ phase' = "ready" /\ UNCHANGED <<voice, rtc, tasks, keys>>
    BY <1>3 DEF SyncDone
  <2> QED
    BY <1>1, <2>1 DEF VoiceInv, CallsInv, NothingAwaited, OneAtATime, Calls
<1>4. CASE PeerDropped
  <2>1. /\ phase' = "reconnecting" /\ rtc' = [rtc EXCEPT !.pc = "none"]
        /\ voice' = [voice EXCEPT !.selfTalking = FALSE] /\ UNCHANGED <<tasks, keys>>
    BY <1>4 DEF PeerDropped, ClosedRtc
  <2>2. VoiceInv'
    BY <1>1, <2>1 DEF VoiceInv, Voice
  <2>3. /\ rtc' \in Rtc /\ rtc'.strayOffers = rtc.strayOffers
        /\ rtc'.mic = rtc.mic /\ rtc'.strayMic = rtc.strayMic
    BY <1>1, <2>1 DEF Rtc
  <2>4. CallsInv'
    BY <1>1, <2>1, <2>3 DEF CallsInv, NothingAwaited, OneAtATime, Calls
  <2> QED
    BY <2>2, <2>4
<1>5. ASSUME NEW m \in BOOLEAN, NEW d \in BOOLEAN, SelfEnvelope(m, d)
      PROVE  VoiceInv' /\ CallsInv'
  <2>1. /\ voice' = [voice EXCEPT !.selfMuted = m, !.selfDeafened = d]
        /\ UNCHANGED <<phase, rtc, tasks, keys>>
    BY <1>5 DEF SelfEnvelope
  <2>2. VoiceInv'
    BY <1>1, <2>1 DEF VoiceInv, Voice
  <2>3. CallsInv'
    BY <1>1, <2>1 DEF CallsInv, NothingAwaited, OneAtATime, Calls
  <2> QED
    BY <2>2, <2>3
<1> QED
  BY <1>2, <1>3, <1>4, <1>5

\* dispose leaves the pending calls as many as they were, all of them late.
LEMMA DisposedCalls ==
  ASSUME CallsInv, tasks' = NowLate(tasks), rtc' \in Rtc, rtc'.mic = "off",
         rtc'.strayMic = rtc.strayMic, rtc'.strayOffers = rtc.strayOffers,
         UNCHANGED keys, phase' \in {"off", "ended"}
  PROVE  CallsInv'
<1>1. rtc \in Rtc /\ keys \in Keys /\ tasks \in Tasks /\ MaxTasks \in Nat
  BY MaxTasksAssumption DEF CallsInv
<1> DEFINE t == [tasks EXCEPT !.start = 0, !.switch = 0]
           ls == tasks.lateStart + tasks.start
           lw == tasks.lateSwitch + tasks.switch
<1>2. ls \in Nat /\ lw \in Nat
  BY <1>1 DEF Tasks
<1>3. t \in Tasks /\ t.start = 0 /\ t.switch = 0 /\ t.overlap = tasks.overlap
  BY <1>1 DEF Tasks
<1>4. tasks' = [t EXCEPT !.lateStart = ls, !.lateSwitch = lw]
  <2>1. NowLate(tasks) = [tasks EXCEPT !.start = 0, !.switch = 0, !.lateStart = ls, !.lateSwitch = lw]
    BY DEF NowLate
  <2> QED
    BY <1>1, <2>1 DEF Tasks
<1> HIDE DEF t
<1>5. /\ tasks' \in Tasks /\ tasks'.start = 0 /\ tasks'.switch = 0
      /\ tasks'.lateStart = ls /\ tasks'.lateSwitch = lw /\ tasks'.overlap = tasks.overlap
  BY <1>2, <1>3, <1>4 DEF Tasks
<1>6. Calls(tasks') = Calls(tasks)
  BY <1>1, <1>5 DEF Tasks, Calls
<1>7. (Calls(tasks) + rtc.strayOffers <= MaxTasks)'
  BY <1>6 DEF CallsInv
<1>8. OneAtATime' /\ NothingAwaited'
  BY <1>1, <1>5, <1>6 DEF CallsInv, OneAtATime, NothingAwaited
<1> QED
  BY <1>1, <1>5, <1>7, <1>8 DEF CallsInv

\* The session's end, the way back from it, and a disconnect.
LEMMA EndsKeepInv ==
  ASSUME VoiceInv, CallsInv, EndSession \/ RetryAfterEnd \/ Disconnect
  PROVE  VoiceInv' /\ CallsInv'
<1>1. rtc \in Rtc /\ keys \in Keys /\ voice \in Voice /\ tasks \in Tasks
  BY DEF CallsInv, VoiceInv
<1>2. PICK r \in Rtc : /\ r = Disposed(rtc) /\ r.mic = "off" /\ r.pc = "none"
                       /\ r.strayMic = rtc.strayMic /\ r.strayOffers = rtc.strayOffers
  <2>1. Disposed(rtc) = [rtc EXCEPT !.pc = "none", !.mic = "off"]
    BY DEF Disposed, ClosedRtc
  <2>2. /\ Disposed(rtc) \in Rtc /\ Disposed(rtc).mic = "off" /\ Disposed(rtc).pc = "none"
        /\ Disposed(rtc).strayMic = rtc.strayMic
        /\ Disposed(rtc).strayOffers = rtc.strayOffers
    BY <1>1, <2>1 DEF Rtc
  <2> QED
    BY <2>2
<1>3. PICK v \in Voice : /\ v = Silenced(voice) /\ ~v.selfTalking /\ ~v.transmitting /\ ~v.micReady
  <2>1. PICK w \in Voice : w = [voice EXCEPT !.selfTalking = FALSE, !.transmitting = FALSE,
                                             !.vadActive = FALSE]
    BY <1>1 DEF Voice
  <2>2. Silenced(voice) = [w EXCEPT !.selfMuted = FALSE, !.selfDeafened = FALSE,
                                    !.micReady = FALSE]
    BY <1>1, <2>1 DEF Silenced, Voice
  <2>3. w.selfTalking = FALSE /\ w.transmitting = FALSE
    BY <1>1, <2>1 DEF Voice
  <2>4. /\ Silenced(voice) \in Voice /\ ~Silenced(voice).selfTalking
        /\ ~Silenced(voice).transmitting /\ ~Silenced(voice).micReady
    BY <2>2, <2>3 DEF Voice
  <2> QED
    BY <2>4
<1>4. CASE EndSession
  <2>1. /\ phase' = "ended" /\ voice' = v /\ rtc' = r /\ tasks' = NowLate(tasks)
        /\ UNCHANGED keys
    BY <1>2, <1>3, <1>4 DEF EndSession
  <2>2. VoiceInv'
    BY <1>3, <2>1 DEF VoiceInv, NoiseGateIsPolled, NeedsVad, TalkingIsMeant, ShownAsSet
  <2>3. CallsInv'
    BY <1>2, <2>1, DisposedCalls
  <2> QED
    BY <2>2, <2>3
<1>5. CASE RetryAfterEnd
  <2>1. /\ phase = "ended" /\ phase' = "off"
        /\ voice' = [voice EXCEPT !.selfTalking = FALSE, !.transmitting = FALSE,
                                  !.vadActive = FALSE]
        /\ UNCHANGED <<rtc, tasks, keys>>
    BY <1>5 DEF RetryAfterEnd
  <2>2. VoiceInv'
    BY <1>1, <2>1 DEF VoiceInv, Voice, NoiseGateIsPolled, NeedsVad, TalkingIsMeant, ShownAsSet
  <2>3. CallsInv'
    BY <1>1, <2>1 DEF CallsInv, NothingAwaited, OneAtATime, Calls
  <2> QED
    BY <2>2, <2>3
<1>6. CASE Disconnect
  <2>1. /\ phase' = "off" /\ Apply(v, r) /\ tasks' = NowLate(tasks) /\ UNCHANGED keys
    BY <1>2, <1>3, <1>6 DEF Disconnect
  <2>2. VoiceInv'
    BY <1>3, <2>1, ApplyKeepsVoice
  <2>3. CallsInv'
    BY <1>2, <2>1, AppliedGate, DisposedCalls
  <2> QED
    BY <2>2, <2>3
<1> QED
  BY <1>4, <1>5, <1>6

------------------------------------------------------------------------------
(* The user *)

\* A control that changes the fields to v, which transmits only with the key
\* held, and applies the gate.
LEMMA ControlKeepsInv ==
  ASSUME VoiceInv, CallsInv, NEW v \in Voice, Apply(v, rtc),
         v.transmitting => keys'.held, UNCHANGED <<phase, tasks>>, keys' \in Keys
  PROVE  VoiceInv' /\ CallsInv'
<1>1. rtc \in Rtc /\ rtc.strayOffers <= rtc.strayOffers
  BY DEF CallsInv, Rtc
<1> QED
  BY <1>1, ApplyKeepsInv

\* Mute and deafen, mode, continuous transmission, and the noise gate's tick.
LEMMA ButtonsKeepInv ==
  ASSUME VoiceInv, CallsInv, VoicePanel \/ VoiceDock \/ VoiceTab \/ VadTick
  PROVE  VoiceInv' /\ CallsInv'
<1>1. keys \in Keys /\ voice \in Voice /\ (voice.transmitting => keys.held)
  BY DEF CallsInv, VoiceInv, TalkingIsMeant
<1>2. \E v \in Voice : Apply(v, rtc) /\ v.transmitting = voice.transmitting
  <2>1. CASE VoicePanel \/ VoiceDock
    <3>1. PICK b \in BOOLEAN : b = ~voice.selfMuted
      OBVIOUS
    <3>2. PICK d \in BOOLEAN : d = ~voice.selfDeafened
      OBVIOUS
    <3>3. PICK n \in BOOLEAN : n = (voice.selfMuted \/ d)
      OBVIOUS
    <3> DEFINE v == [voice EXCEPT !.selfMuted = b]
               w == [voice EXCEPT !.selfDeafened = d, !.selfMuted = n]
    <3>4. v \in Voice /\ v.transmitting = voice.transmitting
      BY <1>1 DEF Voice
    <3>5. w \in Voice /\ w.transmitting = voice.transmitting
      BY <1>1 DEF Voice
    <3>6. Apply(v, rtc) \/ Apply(w, rtc)
      BY <2>1, <3>1, <3>2, <3>3 DEF VoicePanel, VoiceDock, MuteButtons, SetSelfMute, SetSelfDeaf
    <3> QED
      BY <3>4, <3>5, <3>6
  <2>2. CASE VoiceTab
    <3>1. ASSUME NEW mode \in {"ptt", "open"}, Apply(SetPttMode(voice, mode), rtc)
          PROVE  \E v \in Voice : Apply(v, rtc) /\ v.transmitting = voice.transmitting
      <4>1. /\ SetPttMode(voice, mode) \in Voice
            /\ SetPttMode(voice, mode).transmitting = voice.transmitting
        BY <1>1 DEF SetPttMode, Voice
      <4> QED
        BY <3>1, <4>1
    <3>2. ASSUME Apply([voice EXCEPT !.continuous = ~@], rtc)
          PROVE  \E v \in Voice : Apply(v, rtc) /\ v.transmitting = voice.transmitting
      <4>1. /\ [voice EXCEPT !.continuous = ~@] \in Voice
            /\ [voice EXCEPT !.continuous = ~@].transmitting = voice.transmitting
        <5>1. PICK b \in BOOLEAN : b = ~voice.continuous
          OBVIOUS
        <5>2. [voice EXCEPT !.continuous = ~@] = [voice EXCEPT !.continuous = b]
          BY <5>1
        <5> QED
          BY <1>1, <5>2 DEF Voice
      <4> QED
        BY <3>2, <4>1
    <3> QED
      BY <2>2, <3>1, <3>2 DEF VoiceTab
  <2>3. CASE VadTick
    <3>1. PICK b \in BOOLEAN : b = ~voice.vadActive
      OBVIOUS
    <3> DEFINE v == [voice EXCEPT !.vadActive = b]
    <3>2. v \in Voice /\ v.transmitting = voice.transmitting
      BY <1>1 DEF Voice
    <3>3. Apply(v, rtc)
      BY <2>3, <3>1 DEF VadTick
    <3> QED
      BY <3>2, <3>3
  <2> QED
    BY <2>1, <2>2, <2>3
<1>3. UNCHANGED <<phase, tasks, keys>>
  BY DEF VoicePanel, VoiceDock, VoiceTab, VadTick
<1> QED
  BY <1>1, <1>2, <1>3, ControlKeepsInv

\* Another microphone, and the settings' reset.
LEMMA DevicesKeepInv ==
  ASSUME VoiceInv, CallsInv, AudioTab \/ ResetSettings
  PROVE  VoiceInv' /\ CallsInv'
<1>1. rtc \in Rtc /\ keys \in Keys /\ voice \in Voice /\ tasks \in Tasks
  BY DEF CallsInv, VoiceInv
<1>2. /\ SetInputDevice /\ UNCHANGED <<phase, keys>> /\ phase \notin {"off", "ended"}
  BY DEF AudioTab, ResetSettings, InLayout
<1>3. CASE AudioTab
  <2>1. UNCHANGED <<voice, rtc>>
    BY <1>3 DEF AudioTab
  <2>2. VoiceInv'
    BY <1>1, <1>2, <2>1 DEF VoiceInv, NoiseGateIsPolled, NeedsVad, TalkingIsMeant, ShownAsSet
  <2>3. CallsInv'
    BY <1>1, <1>2, <2>1, SwitchAsks
  <2> QED
    BY <2>2, <2>3
<1>4. CASE ResetSettings
  <2> DEFINE w == [voice EXCEPT !.continuous = FALSE]
             v == [w EXCEPT !.pttMode = "open", !.vadActive = FALSE]
  <2>1. w \in Voice /\ w.transmitting = voice.transmitting
    BY <1>1 DEF Voice
  <2>2. Apply(v, rtc)
    BY <1>4 DEF ResetSettings, SetPttMode
  <2>3. v \in Voice /\ v.transmitting = voice.transmitting
    <3> HIDE DEF w
    <3> QED
      BY <2>1 DEF Voice
  <2> HIDE DEF v
  <2>4. v.transmitting => keys'.held
    BY <1>2, <2>3 DEF VoiceInv, TalkingIsMeant
  <2>5. VoiceInv'
    BY <1>1, <2>2, <2>3, <2>4, ApplyKeepsVoice
  <2>6. CallsInv'
    BY <1>1, <1>2, <2>2, <2>3, AppliedGate, SwitchAsks
  <2> QED
    BY <2>5, <2>6
<1> QED
  BY <1>3, <1>4

\* release, with whatever it is that becomes of the listeners otherwise.
LEMMA ReleaseKeepsInv ==
  ASSUME VoiceInv, CallsInv, NEW k \in Keys, k.held = keys.held, Release(k),
         UNCHANGED <<phase, tasks>>
  PROVE  VoiceInv' /\ CallsInv'
<1>1. rtc \in Rtc /\ keys \in Keys /\ voice \in Voice /\ tasks \in Tasks
  BY DEF CallsInv, VoiceInv
<1>2. CASE keys.held
  <2> DEFINE v == [voice EXCEPT !.transmitting = FALSE]
  <2>1. v \in Voice /\ v.transmitting = FALSE
    BY <1>1 DEF Voice
  <2>2. Apply(v, rtc) /\ keys' = [k EXCEPT !.held = FALSE]
    BY <1>2 DEF Release
  <2>3. keys' \in Keys
    BY <2>2 DEF Keys
  <2> HIDE DEF v
  <2> QED
    BY <2>1, <2>2, <2>3, ControlKeepsInv
<1>3. CASE ~keys.held
  <2>1. keys' = k /\ UNCHANGED <<voice, rtc>>
    BY <1>3 DEF Release
  <2>2. VoiceInv'
    BY <1>1, <2>1 DEF VoiceInv, NoiseGateIsPolled, NeedsVad, TalkingIsMeant, ShownAsSet
  <2>3. CallsInv'
    BY <1>1, <2>1 DEF CallsInv, NothingAwaited, OneAtATime, Calls
  <2> QED
    BY <2>2, <2>3
<1> QED
  BY <1>2, <1>3

\* The push-to-talk key, and the listeners that are bound anew.
LEMMA KeysKeepInv ==
  ASSUME VoiceInv, CallsInv, KeyDown \/ KeyUp \/ Bind
  PROVE  VoiceInv' /\ CallsInv'
<1>1. keys \in Keys /\ voice \in Voice
  BY DEF CallsInv, VoiceInv
<1>2. CASE KeyDown
  <2> DEFINE v == [voice EXCEPT !.transmitting = TRUE]
  <2>1. v \in Voice
    BY <1>1 DEF Voice
  <2>2. Apply(v, rtc) /\ keys' = [keys EXCEPT !.held = TRUE] /\ UNCHANGED <<phase, tasks>>
    BY <1>2 DEF KeyDown
  <2>3. keys' \in Keys /\ keys'.held
    BY <1>1, <2>2 DEF Keys
  <2> HIDE DEF v
  <2> QED
    BY <2>1, <2>2, <2>3, ControlKeepsInv
<1>3. CASE KeyUp
  BY <1>1, <1>3, ReleaseKeepsInv DEF KeyUp
<1>4. CASE Bind
  <2>1. PICK b \in BOOLEAN : b = LayoutShown
    <3>1. LayoutShown \in BOOLEAN
      BY DEF LayoutShown
    <3> QED
      BY <3>1
  <2>2. Rebound = [keys EXCEPT !.mode = voice.pttMode, !.mounted = b]
    BY <2>1 DEF Rebound
  <2>3. Rebound \in Keys /\ Rebound.held = keys.held
    BY <1>1, <2>2 DEF Keys, Voice
  <2> QED
    BY <1>4, <2>3, ReleaseKeepsInv DEF Bind
<1> QED
  BY <1>2, <1>3, <1>4

------------------------------------------------------------------------------
\* The page starts without a session, a microphone or a call under way.
LEMMA InvInit == VoiceInit => IInv
<1> SUFFICES ASSUME VoiceInit PROVE IInv
  OBVIOUS
<1>1. PICK on \in BOOLEAN : voice = [NoVoice EXCEPT !.continuous = on]
  BY DEF VoiceInit, Persisted
<1>2. /\ voice \in Voice /\ ~voice.micReady /\ ~voice.selfTalking /\ ~voice.transmitting
  BY <1>1 DEF NoVoice, Voice
<1>3. /\ rtc \in Rtc /\ tasks \in Tasks /\ keys \in Keys /\ Calls(tasks) + rtc.strayOffers = 0
      /\ MaxTasks \in Nat
  BY MaxTasksAssumption DEF VoiceInit, NoRtc, Rtc, Tasks, Keys, Calls
<1>4. Typed
  BY <1>2, <1>3 DEF VoiceInit, Typed
<1>5. NoiseGateIsPolled /\ TalkingIsMeant /\ ShownAsSet
  BY <1>2 DEF VoiceInit, NoiseGateIsPolled, NeedsVad, TalkingIsMeant, ShownAsSet
<1>6. NothingAwaited /\ OneAtATime
  BY DEF VoiceInit, NoRtc, NothingAwaited, OneAtATime, Calls
<1> QED
  BY <1>4, <1>5, <1>6 DEF IInv

\* The two halves of the invariant.
LEMMA Halves == IInv <=> VoiceInv /\ CallsInv
BY DEF IInv, VoiceInv, CallsInv, Typed

\* Every step of the page keeps the invariant.
LEMMA InvKept == IInv /\ [VoiceNext]_voiceVars => IInv'
<1> SUFFICES ASSUME IInv, [VoiceNext]_voiceVars
             PROVE  VoiceInv' /\ CallsInv'
  BY DEF IInv, VoiceInv, CallsInv, Typed
<1>1. VoiceInv /\ CallsInv
  BY Halves
<1>2. CASE StartAnswered \/ SwitchAnswered
  BY <1>1, <1>2, AnswersKeepInv
<1>3. CASE OfferMade \/ MicDies
  BY <1>1, <1>3, OffersKeepInv
<1>4. CASE \/ LoggedIn \/ SyncDone \/ PeerDropped
           \/ \E m, d \in BOOLEAN : (d => m) /\ SelfEnvelope(m, d)
  BY <1>1, <1>4, SessionKeepsInv
<1>5. CASE EndSession \/ RetryAfterEnd \/ Disconnect
  BY <1>1, <1>5, EndsKeepInv
<1>6. CASE VoicePanel \/ VoiceDock \/ VoiceTab \/ VadTick
  BY <1>1, <1>6, ButtonsKeepInv
<1>7. CASE AudioTab \/ ResetSettings
  BY <1>1, <1>7, DevicesKeepInv
<1>8. CASE KeyDown \/ KeyUp \/ Bind
  BY <1>1, <1>8, KeysKeepInv
<1>9. CASE UNCHANGED voiceVars
  <2>1. UNCHANGED <<phase, voice, rtc, tasks, keys>>
    BY <1>9 DEF voiceVars
  <2>2. VoiceInv'
    BY <1>1, <2>1 DEF VoiceInv, NoiseGateIsPolled, NeedsVad, TalkingIsMeant, ShownAsSet
  <2>3. CallsInv'
    BY <1>1, <2>1 DEF CallsInv, NothingAwaited, OneAtATime, Calls
  <2> QED
    BY <2>2, <2>3
<1> QED
  BY <1>2, <1>3, <1>4, <1>5, <1>6, <1>7, <1>8, <1>9 DEF VoiceNext

\* The invariant holds in every state the page's voice can be in.
LEMMA Invariance == VoiceSpec => []IInv
BY InvInit, InvKept, PTL DEF VoiceSpec

------------------------------------------------------------------------------
\* The types, and that no more calls are under way than MaxTasks.
THEOREM VoiceTypeCorrect == VoiceSpec => []VoiceTypeOK
<1>1. IInv => VoiceTypeOK
  <2> SUFFICES ASSUME IInv PROVE VoiceTypeOK
    OBVIOUS
  <2>1. rtc \in Rtc /\ tasks \in Tasks /\ MaxTasks \in Nat
    BY MaxTasksAssumption DEF IInv, Typed
  <2>2. Pending \in Nat /\ Pending <= MaxTasks
    BY <2>1 DEF IInv, Typed, Pending, Calls, Tasks, Rtc
  <2>3. Pending \in 0 .. MaxTasks + 1
    BY <2>1, <2>2
  <2> QED
    BY <2>1, <2>3 DEF IInv, Typed, VoiceTypeOK, Voice, Rtc
<1> QED
  BY <1>1, Invariance, PTL

\* Free speech that depends on the noise gate has its poll running
\* (ensureVadLoop, appStore.ts), however the two came about.
THEOREM GateIsPolled == VoiceSpec => []NoiseGateIsPolled
<1>1. IInv => NoiseGateIsPolled
  BY DEF IInv
<1> QED
  BY <1>1, Invariance, PTL

\* A page without a session holds a microphone only if it was asked for before
\* the session went, and a stream is lost only where two calls of getUserMedia
\* overlapped (startAudio, setInputDevice, dispose: mumbleClient.ts).
THEOREM MicrophoneIsReleased == VoiceSpec => []MicIsReleased
<1>1. IInv => MicIsReleased
  BY DEF IInv, NothingAwaited, OneAtATime, MicIsReleased
<1> QED
  BY <1>1, Invariance, PTL

\* A session's microphone is open only while the page says that one is talking,
\* in push-to-talk only with the key held (applyMicGate, appStore.ts, and
\* useKeyboardShortcuts.ts).
THEOREM OpenOnlyAsShown == VoiceSpec => []SendsAsShown
<1>1. IInv => SendsAsShown
  <2> SUFFICES ASSUME IInv, phase = "ready", rtc.pc = "open", rtc.mic # "off", rtc.micEnabled
               PROVE  /\ useVoiceStatus = "talking"
                      /\ voice.pttMode = "ptt" => voice.transmitting /\ keys.held
    BY DEF SendsAsShown
  <2>1. voice.selfTalking
    BY DEF IInv, ShownAsSet
  <2>2. voice.micReady /\ (voice.pttMode = "ptt" => voice.transmitting /\ keys.held)
    BY <2>1 DEF IInv, TalkingIsMeant
  <2>3. useVoiceStatus = "talking"
    BY <2>1, <2>2 DEF useVoiceStatus
  <2> QED
    BY <2>2, <2>3
<1> QED
  BY <1>1, Invariance, PTL

------------------------------------------------------------------------------
(* The voice of one login: VoiceBridge *)

\* What the proxy may send.
Envelope ==
  [type : {"rtcOffer", "rtcAnswer"}, tracks : SUBSET Speakers]
    \cup [type : {"talking"}, session : Speakers, talking : BOOLEAN]
    \cup [type : {"userRemove"}, session : Speakers]

\* An envelope about a speaker, and whether it says that he talks.
About(e, u) == e.type \in {"talking", "userRemove"} /\ e.session = u
Says(e) == e.type = "talking" /\ e.talking

\* Once the queue q is handled, a page that shows l talking shows u so iff b.
EndsUp(q, l, u, b) ==
  \/ \E i \in 1 .. Len(q) :
       /\ About(q[i], u) /\ (Says(q[i]) <=> b)
       /\ \A j \in 1 .. Len(q) : j > i => ~About(q[j], u)
  \/ /\ \A i \in 1 .. Len(q) : ~About(q[i], u)
     /\ u \in l <=> b

\* A present speaker whom the proxy has marked as talking.
IsTalking(u) == talkers[u].talking /\ talkers[u].at # "gone"

\* What the proxy knows of a speaker.
Talker == [at : {"here", "gone", "kicked"}, recent : BOOLEAN, talking : BOOLEAN]

\* Types strong enough for the invariant.
DownlinkTypes ==
  /\ peer \in [state : {"stable", "haveLocal"}, tracks : SUBSET Speakers,
               described : SUBSET Speakers, answering : BOOLEAN]
  /\ toPage \in Seq(Envelope)
  /\ talkers \in [Speakers -> Talker]

\* Whoever was heard lately is marked.
RecentIsMarked == \A u \in Speakers : talkers[u].recent => talkers[u].talking

\* Where nothing was dropped the page will show whom the proxy has marked.
PageEndsUpTrue ==
  "dropped" \notin mishaps => \A u \in Speakers : EndsUp(toPage, lit, u, IsTalking(u))

\* A track is of a speaker who is there.
TracksOfPresent == \A u \in peer.tracks : talkers[u].at # "gone"

\* The inductive invariant of the downlink,
DownlinkInv ==
  DownlinkTypes /\ RecentIsMarked /\ PageEndsUpTrue /\ TracksOfPresent

\* and of the uplink: at most one packet comes late, and only it can reopen the
\* speech.
UplinkInv ==
  /\ uplink \in [presses : Seq(BOOLEAN), active : BOOLEAN, releasing : BOOLEAN,
                 passed : BOOLEAN, late : Nat, unended : BOOLEAN]
  /\ uplink.active => uplink.late = 0 /\ ~uplink.releasing
  /\ uplink.passed => uplink.late = 0
  /\ uplink.late <= 1
  /\ ~uplink.active /\ ~uplink.releasing /\ uplink.unended => uplink.late = 1

\* Signalling on its way to the page: some of a type, at most one, and one that
\* brings the tracks d.
Has(q, type) == \E i \in 1 .. Len(q) : q[i].type = type
Once(q, type) ==
  \A i, j \in 1 .. Len(q) : q[i].type = type /\ q[j].type = type => i = j
Brings(q, type, d) == \E i \in 1 .. Len(q) : q[i].type = type /\ d \subseteq q[i].tracks

\* What can be on its way to the proxy: the page offers once, and answers one
\* offer at a time.
ToProxy == {<<>>, <<"rtcOffer">>, <<"rtcAnswer">>, <<"rtcOffer", "rtcAnswer">>}
Offered == toProxy \in {<<"rtcOffer">>, <<"rtcOffer", "rtcAnswer">>}
Answered == toProxy \in {<<"rtcAnswer">>, <<"rtcOffer", "rtcAnswer">>}

\* While the proxy waits for an answer, its offer is on its way, with the page,
\* or its answer is on its way back; otherwise it is nowhere.
ProxysOffer ==
  /\ peer.state = "stable" =>
       ~Has(toPage, "rtcOffer") /\ browser.pc # "answering" /\ ~Answered
  /\ peer.state = "haveLocal" =>
       Has(toPage, "rtcOffer") \/ browser.pc = "answering" \/ Answered
  /\ Has(toPage, "rtcOffer") => browser.pc # "answering" /\ ~Answered
  /\ browser.pc = "answering" => ~Answered
  /\ Once(toPage, "rtcOffer")

\* The page's offer is on its way, with the proxy, or its answer is on its way
\* back; a page that waits for none of them is about to take the proxy's.
PagesOffer ==
  /\ toProxy \in ToProxy
  /\ browser.pc \in {"waiting", "refused", "creating"} =>
       toProxy = <<>> /\ ~peer.answering /\ ~Has(toPage, "rtcAnswer")
  /\ browser.pc = "offered" =>
       /\ ~Answered
       /\ Offered \/ peer.answering \/ Has(toPage, "rtcAnswer") \/ Has(toPage, "rtcOffer")
  /\ Offered =>
       /\ ~peer.answering /\ ~Has(toPage, "rtcAnswer")
       /\ peer.state = "stable" => browser.pc = "offered"
  /\ peer.answering => ~Has(toPage, "rtcAnswer")
  /\ Once(toPage, "rtcAnswer")

\* The page has the tracks of the proxy's description, or gets them with the
\* proxy's offer, or with the answer to its own, which it still takes.
TracksGetThere ==
  \/ peer.described \subseteq browser.streams
  \/ Brings(toPage, "rtcOffer", peer.described)
  \/ /\ peer.state = "stable" /\ browser.pc = "offered"
     /\ peer.answering \/ Brings(toPage, "rtcAnswer", peer.described)

\* Where no offer came early and nothing was dropped, the signalling is whole.
Signalling == ProxysOffer /\ PagesOffer /\ TracksGetThere

\* Types of the page's end.
BrowserTypes ==
  /\ browser \in [pc : {"waiting", "refused", "creating", "offered", "answering", "stable"},
                  ready : BOOLEAN, streams : SUBSET Speakers]
  /\ lit \subseteq Speakers

\* A page that has its peer connection has its microphone, unless the proxy's
\* offer crossed its own.
ReadyWithOffer ==
  browser.pc \in {"offered", "answering", "stable"} => browser.ready \/ "crossed" \in mishaps

\* The inductive invariant of the signalling.
SignallingInv ==
  /\ BrowserTypes /\ ReadyWithOffer
  /\ mishaps \cap {"early", "dropped"} = {} => Signalling

------------------------------------------------------------------------------
\* An envelope about u decides what the page ends up with.
LEMMA AppendDecides ==
  ASSUME NEW q \in Seq(Envelope), NEW e \in Envelope, NEW l, NEW u,
         NEW b \in BOOLEAN, About(e, u), Says(e) <=> b
  PROVE  EndsUp(Append(q, e), l, u, b)
<1> DEFINE n == Len(q) + 1
<1>1. /\ Len(Append(q, e)) = n /\ n \in Nat
      /\ Append(q, e)[n] = e
  OBVIOUS
<1>2. n \in 1 .. Len(Append(q, e))
  BY <1>1
<1>3. \A j \in 1 .. Len(Append(q, e)) : ~(j > n)
  BY <1>1
<1> QED
  BY <1>1, <1>2, <1>3 DEF EndsUp

\* An envelope that is not about u changes nothing for u.
LEMMA AppendKeeps ==
  ASSUME NEW q \in Seq(Envelope), NEW e \in Envelope, NEW l, NEW u,
         NEW b \in BOOLEAN, ~About(e, u), EndsUp(q, l, u, b)
  PROVE  EndsUp(Append(q, e), l, u, b)
<1> DEFINE p == Append(q, e)
<1>1. /\ Len(p) = Len(q) + 1 /\ Len(q) \in Nat
      /\ \A i \in 1 .. Len(q) : p[i] = q[i]
      /\ p[Len(p)] = e
  OBVIOUS
<1> HIDE DEF p
<1>2. CASE \E i \in 1 .. Len(q) :
             /\ About(q[i], u) /\ (Says(q[i]) <=> b)
             /\ \A j \in 1 .. Len(q) : j > i => ~About(q[j], u)
  <2>1. PICK i \in 1 .. Len(q) :
             /\ About(q[i], u) /\ (Says(q[i]) <=> b)
             /\ \A j \in 1 .. Len(q) : j > i => ~About(q[j], u)
    BY <1>2
  <2>2. i \in 1 .. Len(p) /\ p[i] = q[i]
    BY <1>1
  <2>3. \A j \in 1 .. Len(p) : j > i => ~About(p[j], u)
    BY <1>1, <2>1
  <2> QED
    BY <2>1, <2>2, <2>3 DEF EndsUp, p
<1>3. CASE (\A i \in 1 .. Len(q) : ~About(q[i], u)) /\ (u \in l <=> b)
  <2>1. \A i \in 1 .. Len(p) : ~About(p[i], u)
    BY <1>1, <1>3
  <2> QED
    BY <1>3, <2>1 DEF EndsUp, p
<1> QED
  BY <1>2, <1>3 DEF EndsUp

\* Handling the first envelope moves what it says into what the page shows.
LEMMA TailKeeps ==
  ASSUME NEW q \in Seq(Envelope), q # <<>>, NEW l, NEW m, NEW u,
         NEW b \in BOOLEAN, EndsUp(q, l, u, b),
         About(Head(q), u) => (u \in m <=> Says(Head(q))),
         ~About(Head(q), u) => (u \in m <=> u \in l)
  PROVE  EndsUp(Tail(q), m, u, b)
<1> DEFINE p == Tail(q)
<1>1. /\ Len(p) = Len(q) - 1 /\ Len(p) \in Nat /\ Len(q) \in Nat
      /\ \A i \in 1 .. Len(p) : p[i] = q[i + 1]
      /\ Head(q) = q[1]
  OBVIOUS
<1> HIDE DEF p
<1>2. ASSUME NEW i \in 1 .. Len(q), i # 1,
             About(q[i], u), Says(q[i]) <=> b,
             \A j \in 1 .. Len(q) : j > i => ~About(q[j], u)
      PROVE  EndsUp(p, m, u, b)
  <2>1. i - 1 \in 1 .. Len(p) /\ p[i - 1] = q[i]
    BY <1>1, <1>2
  <2>2. \A j \in 1 .. Len(p) : j > i - 1 => ~About(p[j], u)
    BY <1>1, <1>2
  <2> QED
    BY <1>2, <2>1, <2>2 DEF EndsUp
<1>3. ASSUME About(q[1], u), Says(q[1]) <=> b,
             \A j \in 1 .. Len(q) : j > 1 => ~About(q[j], u)
      PROVE  EndsUp(p, m, u, b)
  <2>1. \A j \in 1 .. Len(p) : ~About(p[j], u)
    BY <1>1, <1>3
  <2>2. u \in m <=> b
    BY <1>1, <1>3
  <2> QED
    BY <2>1, <2>2 DEF EndsUp
<1>4. ASSUME \A i \in 1 .. Len(q) : ~About(q[i], u), u \in l <=> b
      PROVE  EndsUp(p, m, u, b)
  <2>1. 1 \in 1 .. Len(q)
    BY <1>1
  <2>2. \A j \in 1 .. Len(p) : ~About(p[j], u)
    BY <1>1, <1>4
  <2>3. u \in m <=> b
    BY <1>1, <1>4, <2>1
  <2> QED
    BY <2>2, <2>3 DEF EndsUp
<1> QED
  BY <1>2, <1>3, <1>4 DEF EndsUp, p

------------------------------------------------------------------------------
\* What push leaves of the queue: all of it and the envelope, or a mishap.
LEMMA Pushed ==
  ASSUME DownlinkTypes, NEW e \in Envelope, PushToPage(e)
  PROVE  /\ toPage' \in Seq(Envelope)
         /\ "dropped" \notin mishaps' =>
              "dropped" \notin mishaps /\ toPage' = Append(toPage, e)
BY DEF DownlinkTypes, PushToPage

\* A step that pushes e, which is about nobody, and marks nobody.
LEMMA PushedAside ==
  ASSUME DownlinkInv, NEW e \in Envelope, \A u \in Speakers : ~About(e, u),
         PushToPage(e), UNCHANGED <<talkers, lit>>
  PROVE  toPage' \in Seq(Envelope) /\ PageEndsUpTrue'
<1>1. \A u \in Speakers : IsTalking(u)' = IsTalking(u) /\ IsTalking(u) \in BOOLEAN
  BY DEF DownlinkInv, DownlinkTypes, Talker, IsTalking
<1>2. /\ toPage' \in Seq(Envelope)
      /\ "dropped" \notin mishaps' =>
           "dropped" \notin mishaps /\ toPage' = Append(toPage, e)
  BY Pushed DEF DownlinkInv
<1>3. ASSUME "dropped" \notin mishaps', NEW u \in Speakers
      PROVE  EndsUp(toPage', lit', u, IsTalking(u)')
  <2>1. EndsUp(toPage, lit, u, IsTalking(u))
    BY <1>2, <1>3 DEF DownlinkInv, PageEndsUpTrue
  <2>2. EndsUp(Append(toPage, e), lit, u, IsTalking(u))
    BY <1>1, <2>1, AppendKeeps DEF DownlinkInv, DownlinkTypes
  <2> QED
    BY <1>1, <1>2, <1>3, <2>2
<1> QED
  BY <1>2, <1>3 DEF PageEndsUpTrue

\* A step that pushes e, which is about u and says how u is marked then.
LEMMA PushedAbout ==
  ASSUME DownlinkInv, NEW e \in Envelope, NEW u \in Speakers,
         About(e, u), Says(e) <=> IsTalking(u)', PushToPage(e),
         IsTalking(u)' \in BOOLEAN, UNCHANGED lit,
         \A v \in Speakers \ {u} : ~About(e, v) /\ IsTalking(v)' = IsTalking(v)
  PROVE  toPage' \in Seq(Envelope) /\ PageEndsUpTrue'
<1>1. \A v \in Speakers : IsTalking(v) \in BOOLEAN
  BY DEF DownlinkInv, DownlinkTypes, Talker, IsTalking
<1>2. /\ toPage' \in Seq(Envelope)
      /\ "dropped" \notin mishaps' =>
           "dropped" \notin mishaps /\ toPage' = Append(toPage, e)
  BY Pushed DEF DownlinkInv
<1>3. ASSUME "dropped" \notin mishaps', NEW v \in Speakers
      PROVE  EndsUp(toPage', lit', v, IsTalking(v)')
  <2>1. CASE v = u
    <3>1. EndsUp(Append(toPage, e), lit, u, IsTalking(u)')
      BY AppendDecides DEF DownlinkInv, DownlinkTypes
    <3> QED
      BY <1>2, <1>3, <2>1, <3>1
  <2>2. CASE v # u
    <3>1. EndsUp(toPage, lit, v, IsTalking(v))
      BY <1>2, <1>3 DEF DownlinkInv, PageEndsUpTrue
    <3>2. EndsUp(Append(toPage, e), lit, v, IsTalking(v))
      BY <1>1, <2>2, <3>1, AppendKeeps DEF DownlinkInv, DownlinkTypes
    <3> QED
      BY <1>2, <1>3, <2>2, <3>2
  <2> QED
    BY <2>1, <2>2
<1> QED
  BY <1>2, <1>3 DEF PageEndsUpTrue

\* A step that leaves the queue, the page's map and the marks alone.
LEMMA Untold ==
  ASSUME DownlinkInv, UNCHANGED <<toPage, lit>>, "dropped" \in mishaps => "dropped" \in mishaps',
         \A u \in Speakers : IsTalking(u)' = IsTalking(u)
  PROVE  toPage' \in Seq(Envelope) /\ PageEndsUpTrue'
<1>1. toPage' \in Seq(Envelope)
  BY DEF DownlinkInv, DownlinkTypes
<1>2. ASSUME "dropped" \notin mishaps', NEW u \in Speakers
      PROVE  EndsUp(toPage', lit', u, IsTalking(u)')
  <2>1. EndsUp(toPage, lit, u, IsTalking(u))
    BY <1>2 DEF DownlinkInv, PageEndsUpTrue
  <2> QED
    BY <2>1
<1> QED
  BY <1>1, <1>2 DEF PageEndsUpTrue

------------------------------------------------------------------------------
\* A login starts with an empty queue, and nobody talks.
LEMMA DownlinkInit ==
  ASSUME VoiceBridgeInit
  PROVE  DownlinkInv /\ UplinkInv
<1>1. DownlinkInv
  BY DEF VoiceBridgeInit, Silent, DownlinkInv, DownlinkTypes, Talker, RecentIsMarked,
         PageEndsUpTrue, EndsUp, IsTalking, TracksOfPresent
<1>2. UplinkInv
  BY DEF VoiceBridgeInit, UplinkInv
<1> QED
  BY <1>1, <1>2

\* The proxy's signalling: offers and answers are about nobody.
LEMMA SignallingKeepsInv ==
  ASSUME DownlinkInv, Negotiate \/ HandleOffer \/ SendAnswer \/ HandleAnswer
  PROVE  DownlinkInv'
<1> USE DEF DownlinkInv, DownlinkTypes, RecentIsMarked, TracksOfPresent
<1>1. \A d \in SUBSET Speakers, t \in {"rtcOffer", "rtcAnswer"} :
        /\ [type |-> t, tracks |-> d] \in Envelope
        /\ \A u \in Speakers : ~About([type |-> t, tracks |-> d], u)
  BY DEF Envelope, About
<1>2. CASE Negotiate
  <2>1. toPage' \in Seq(Envelope) /\ PageEndsUpTrue'
    BY <1>1, <1>2, PushedAside DEF Negotiate
  <2> QED
    BY <1>2, <2>1 DEF Negotiate
<1>3. CASE HandleOffer
  <2>1. toPage' \in Seq(Envelope) /\ PageEndsUpTrue'
    BY <1>3, Untold DEF HandleOffer, IsTalking
  <2>2. \A d \in {{}} \cup {{u} : u \in peer.tracks} : d \in SUBSET Speakers
    OBVIOUS
  <2>3. \E d \in SUBSET Speakers :
           peer' \in {peer, [peer EXCEPT !.answering = TRUE, !.described = d]}
    BY <1>3, <2>2 DEF HandleOffer
  <2>4. /\ peer' \in [state : {"stable", "haveLocal"}, tracks : SUBSET Speakers,
                      described : SUBSET Speakers, answering : BOOLEAN]
        /\ peer'.tracks = peer.tracks /\ UNCHANGED talkers
    BY <1>3, <2>3 DEF HandleOffer
  <2> QED
    BY <2>1, <2>4
<1>4. CASE SendAnswer
  <2>1. toPage' \in Seq(Envelope) /\ PageEndsUpTrue'
    BY <1>1, <1>4, PushedAside DEF SendAnswer
  <2> QED
    BY <1>4, <2>1 DEF SendAnswer
<1>5. CASE HandleAnswer
  <2>1. toPage' \in Seq(Envelope) /\ PageEndsUpTrue'
    BY <1>5, Untold DEF HandleAnswer, IsTalking
  <2> QED
    BY <1>5, <2>1 DEF HandleAnswer
<1> QED
  BY <1>2, <1>3, <1>4, <1>5

\* Voice and silence, comings and goings.
LEMMA TalkersKeepInv ==
  ASSUME DownlinkInv, NEW u \in Speakers,
         \/ VoicePacket(u) \/ FallsSilent(u) \/ TalkingWatchdog(u)
         \/ SpeakerLeaves(u) \/ SpeakerKicked(u) \/ SpeakerComes(u)
  PROVE  DownlinkInv'
<1> USE DEF DownlinkInv, DownlinkTypes, RecentIsMarked, TracksOfPresent
<1>1. talkers \in [Speakers -> Talker] /\ talkers[u] \in Talker
  OBVIOUS
<1>2. \A b \in BOOLEAN :
        LET e == [type |-> "talking", session |-> u, talking |-> b]
        IN /\ e \in Envelope /\ About(e, u) /\ (Says(e) <=> b)
           /\ \A v \in Speakers \ {u} : ~About(e, v)
  BY DEF Envelope, About, Says
<1>3. CASE VoicePacket(u)
  <2>1. talkers' \in [Speakers -> Talker] /\ RecentIsMarked' /\ TracksOfPresent'
    BY <1>1, <1>3 DEF VoicePacket, Talker
  <2>2. /\ IsTalking(u)' = TRUE /\ \A v \in Speakers \ {u} : IsTalking(v)' = IsTalking(v)
    BY <1>1, <1>3 DEF VoicePacket, Talker, IsTalking
  <2>3. toPage' \in Seq(Envelope) /\ PageEndsUpTrue'
    <3>1. CASE talkers[u].talking
      <4>1. IsTalking(u) = TRUE
        BY <1>1, <1>3, <3>1 DEF VoicePacket, Talker, IsTalking
      <4> QED
        BY <1>3, <2>2, <3>1, <4>1, Untold DEF VoicePacket
    <3>2. CASE ~talkers[u].talking
      BY <1>2, <1>3, <2>2, <3>2, PushedAbout DEF VoicePacket
    <3> QED
      BY <3>1, <3>2
  <2> QED
    BY <1>3, <2>1, <2>3 DEF VoicePacket
<1>4. CASE FallsSilent(u)
  <2>1. talkers' \in [Speakers -> Talker] /\ RecentIsMarked' /\ TracksOfPresent'
    BY <1>1, <1>4 DEF FallsSilent, Talker
  <2>2. \A v \in Speakers : IsTalking(v)' = IsTalking(v)
    BY <1>1, <1>4 DEF FallsSilent, Talker, IsTalking
  <2>3. toPage' \in Seq(Envelope) /\ PageEndsUpTrue'
    BY <1>4, <2>2, Untold DEF FallsSilent
  <2> QED
    BY <1>4, <2>1, <2>3 DEF FallsSilent
<1>5. CASE TalkingWatchdog(u)
  <2>1. talkers' \in [Speakers -> Talker] /\ RecentIsMarked' /\ TracksOfPresent'
    BY <1>1, <1>5 DEF TalkingWatchdog, Talker
  <2>2. /\ IsTalking(u)' = FALSE /\ \A v \in Speakers \ {u} : IsTalking(v)' = IsTalking(v)
    BY <1>1, <1>5 DEF TalkingWatchdog, Talker, IsTalking
  <2>3. toPage' \in Seq(Envelope) /\ PageEndsUpTrue'
    BY <1>2, <1>5, <2>2, PushedAbout DEF TalkingWatchdog
  <2> QED
    BY <1>5, <2>1, <2>3 DEF TalkingWatchdog
<1>6. CASE SpeakerLeaves(u)
  <2> DEFINE e == [type |-> "userRemove", session |-> u]
  <2>1. talkers' \in [Speakers -> Talker] /\ RecentIsMarked' /\ TracksOfPresent'
    BY <1>1, <1>6 DEF SpeakerLeaves, Talker
  <2>2. /\ IsTalking(u)' = FALSE /\ \A v \in Speakers \ {u} : IsTalking(v)' = IsTalking(v)
    BY <1>1, <1>6 DEF SpeakerLeaves, Talker, IsTalking
  <2>3. /\ e \in Envelope /\ About(e, u) /\ ~Says(e)
        /\ \A v \in Speakers \ {u} : ~About(e, v)
    BY DEF Envelope, About, Says
  <2>4. toPage' \in Seq(Envelope) /\ PageEndsUpTrue'
    BY <1>6, <2>2, <2>3, PushedAbout DEF SpeakerLeaves
  <2> QED
    BY <1>6, <2>1, <2>4 DEF SpeakerLeaves
<1>7. CASE SpeakerKicked(u)
  <2>1. talkers' \in [Speakers -> Talker] /\ RecentIsMarked' /\ TracksOfPresent'
    BY <1>1, <1>7 DEF SpeakerKicked, Talker
  <2>2. \A v \in Speakers : IsTalking(v)' = IsTalking(v)
    BY <1>1, <1>7 DEF SpeakerKicked, Talker, IsTalking
  <2>3. toPage' \in Seq(Envelope) /\ PageEndsUpTrue'
    BY <1>7, <2>2, Untold DEF SpeakerKicked
  <2> QED
    BY <1>7, <2>1, <2>3 DEF SpeakerKicked
<1>8. CASE SpeakerComes(u)
  <2>1. talkers' \in [Speakers -> Talker] /\ RecentIsMarked' /\ TracksOfPresent'
    BY <1>1, <1>8 DEF SpeakerComes, Silent, Talker
  <2>2. \A v \in Speakers : IsTalking(v)' = IsTalking(v)
    BY <1>1, <1>8 DEF SpeakerComes, Silent, Talker, IsTalking
  <2>3. toPage' \in Seq(Envelope) /\ PageEndsUpTrue'
    BY <1>8, <2>2, Untold DEF SpeakerComes
  <2> QED
    BY <1>8, <2>1, <2>3 DEF SpeakerComes
<1> QED
  BY <1>3, <1>4, <1>5, <1>6, <1>7, <1>8

\* The page: an envelope that arrives moves from the queue into the page's map.
LEMMA PageKeepsInv ==
  ASSUME DownlinkInv, MicAnswered \/ PageOffers \/ EnvelopeArrives \/ PageAnswers
  PROVE  DownlinkInv'
<1> USE DEF DownlinkInv, DownlinkTypes, RecentIsMarked, TracksOfPresent
<1>1. CASE MicAnswered \/ PageOffers \/ PageAnswers
  <2>1. toPage' \in Seq(Envelope) /\ PageEndsUpTrue'
    BY <1>1, Untold DEF MicAnswered, PageOffers, PageAnswers, IsTalking
  <2> QED
    BY <1>1, <2>1 DEF MicAnswered, PageOffers, PageAnswers
<1>2. CASE EnvelopeArrives
  <2> DEFINE e == Head(toPage)
  <2>1. /\ toPage # <<>> /\ toPage' = Tail(toPage) /\ e \in Envelope
        /\ toPage' \in Seq(Envelope) /\ UNCHANGED <<peer, talkers>>
    BY <1>2 DEF EnvelopeArrives
  <2>2. /\ "dropped" \in mishaps => "dropped" \in mishaps'
        /\ \A u \in Speakers :
             /\ About(e, u) => (u \in lit' <=> Says(e))
             /\ ~About(e, u) => (u \in lit' <=> u \in lit)
    <3>1. CASE OfferArrives(e) \/ AnswerArrives(e)
      BY <2>1, <3>1 DEF OfferArrives, AnswerArrives, About
    <3>2. CASE TalkArrives(e)
      BY <2>1, <3>2 DEF TalkArrives, About, Says, Envelope
    <3> QED
      BY <1>2, <3>1, <3>2 DEF EnvelopeArrives
  <2>3. ASSUME "dropped" \notin mishaps', NEW u \in Speakers
        PROVE  EndsUp(toPage', lit', u, IsTalking(u)')
    <3>1. EndsUp(toPage, lit, u, IsTalking(u)) /\ IsTalking(u) \in BOOLEAN
      BY <2>2, <2>3 DEF PageEndsUpTrue, IsTalking, Talker
    <3>2. EndsUp(Tail(toPage), lit', u, IsTalking(u))
      BY <2>1, <2>2, <3>1, TailKeeps
    <3> QED
      BY <2>1, <3>2 DEF IsTalking
  <2>4. PageEndsUpTrue'
    BY <2>3 DEF PageEndsUpTrue
  <2> QED
    BY <2>1, <2>4
<1> QED
  BY <1>1, <1>2

\* The two parts of a sequence that is not empty.
LEMMA SplitInSeq ==
  ASSUME NEW S, NEW s \in Seq(S), s # <<>>
  PROVE  Head(s) \in S /\ Tail(s) \in Seq(S)
OBVIOUS

\* The frame that has passed the test is the only one that can come late.
LEMMA UplinkKeepsInv ==
  ASSUME UplinkInv, UplinkNext
  PROVE  UplinkInv'
<1>1. ASSUME NEW open \in BOOLEAN, GateSent(open)
      PROVE  UplinkInv'
  BY <1>1 DEF GateSent, UplinkInv
<1>2. CASE PttSwapped
  <2> DEFINE h == Head(uplink.presses)
             l == IF uplink.active # h THEN 0 ELSE uplink.late
  <2>1. /\ uplink.presses \in Seq(BOOLEAN) /\ uplink.presses # <<>>
        /\ uplink.late \in Nat /\ uplink.late <= 1 /\ ~uplink.releasing
    BY <1>2 DEF PttSwapped, UplinkInv
  <2>2. h \in BOOLEAN /\ Tail(uplink.presses) \in Seq(BOOLEAN)
    BY <2>1, SplitInSeq
  <2>3. uplink' = [uplink EXCEPT !.presses = Tail(uplink.presses), !.active = h,
                                 !.releasing = uplink.active /\ ~h, !.late = l]
    BY <1>2 DEF PttSwapped
  <2> HIDE DEF h
  <2>4. l \in Nat /\ l <= 1
    BY <2>1
  <2>5. CASE uplink.active = h
    BY <2>1, <2>2, <2>3, <2>4, <2>5 DEF UplinkInv
  <2>6. CASE uplink.active # h
    BY <2>1, <2>2, <2>3, <2>4, <2>6 DEF UplinkInv
  <2> QED
    BY <2>5, <2>6
<1>3. CASE Terminated
  BY <1>3 DEF Terminated, UplinkInv
<1>4. CASE MicFramePasses
  BY <1>4 DEF MicFramePasses, UplinkInv
<1>5. CASE MicFrameWritten
  <2>1. uplink.late = 0
    BY <1>5 DEF MicFrameWritten, UplinkInv
  <2>2. CASE uplink.active
    <3>1. uplink' = [uplink EXCEPT !.passed = FALSE, !.unended = TRUE,
                                   !.late = uplink.late]
      BY <1>5, <2>2 DEF MicFrameWritten
    <3> QED
      BY <2>1, <2>2, <3>1 DEF UplinkInv
  <2>3. CASE ~uplink.active
    <3>1. uplink' = [uplink EXCEPT !.passed = FALSE, !.unended = TRUE, !.late = 1]
      BY <1>5, <2>1, <2>3 DEF MicFrameWritten
    <3>2. uplink' \in [presses : Seq(BOOLEAN), active : BOOLEAN, releasing : BOOLEAN,
                       passed : BOOLEAN, late : Nat, unended : BOOLEAN]
      BY <3>1 DEF UplinkInv
    <3>3. ~uplink'.active /\ ~uplink'.passed /\ uplink'.late = 1
      BY <2>3, <3>1 DEF UplinkInv
    <3> QED
      BY <3>2, <3>3 DEF UplinkInv
  <2> QED
    BY <2>2, <2>3
<1> QED
  BY <1>1, <1>2, <1>3, <1>4, <1>5 DEF UplinkNext

\* Every step keeps both halves of the invariant of SpeechEnds.
LEMMA DownlinkKept ==
  ASSUME DownlinkInv, UplinkInv, [VoiceBridgeNext]_voiceBridgeVars
  PROVE  DownlinkInv' /\ UplinkInv'
<1>1. CASE DownlinkNext /\ UNCHANGED uplink
  <2>1. DownlinkInv'
    BY <1>1, SignallingKeepsInv, TalkersKeepInv, PageKeepsInv DEF DownlinkNext
  <2>2. UplinkInv'
    BY <1>1 DEF UplinkInv
  <2> QED
    BY <2>1, <2>2
<1>2. ASSUME UNCHANGED downlinkVars
      PROVE  DownlinkInv'
  <2>1. toPage' \in Seq(Envelope) /\ PageEndsUpTrue'
    BY <1>2, Untold DEF downlinkVars, IsTalking
  <2> QED
    BY <1>2, <2>1 DEF downlinkVars, DownlinkInv, DownlinkTypes, RecentIsMarked,
                      TracksOfPresent
<1>3. CASE UplinkNext /\ UNCHANGED downlinkVars
  BY <1>2, <1>3, UplinkKeepsInv
<1>4. CASE UNCHANGED voiceBridgeVars
  <2>1. UplinkInv'
    BY <1>4 DEF voiceBridgeVars, UplinkInv
  <2> QED
    BY <1>2, <1>4, <2>1 DEF voiceBridgeVars
<1> QED
  BY <1>1, <1>3, <1>4 DEF VoiceBridgeNext

------------------------------------------------------------------------------
\* Others' speech is seen to end by the page, once it has handled the queue, and
\* one's own by Murmur: the voice path keeps SpeechEnds (session.go, rtc.go).
THEOREM SpeechIsSeenToEnd == VoiceBridgeSpec => []SpeechEnds
<1>1. VoiceBridgeInit => DownlinkInv /\ UplinkInv
  BY DownlinkInit
<1>2. DownlinkInv /\ UplinkInv /\ [VoiceBridgeNext]_voiceBridgeVars
        => DownlinkInv' /\ UplinkInv'
  BY DownlinkKept
<1>3. DownlinkInv /\ UplinkInv => SpeechEnds
  <2> SUFFICES ASSUME DownlinkInv, UplinkInv
               PROVE  SpeechEnds
    OBVIOUS
  <2>1. ReleaseIsHeard
    BY DEF UplinkInv, ReleaseIsHeard
  <2>2. ASSUME toPage = <<>>, "dropped" \notin mishaps, NEW u \in Speakers
        PROVE  u \in lit <=> IsTalking(u)
    <3>1. EndsUp(toPage, lit, u, IsTalking(u)) /\ Len(toPage) = 0
      BY <2>2 DEF DownlinkInv, PageEndsUpTrue
    <3>2. ~\E i \in 1 .. Len(toPage) : TRUE
      BY <3>1
    <3> QED
      BY <3>1, <3>2 DEF EndsUp
  <2>3. TalkingIsTrue
    BY <2>2 DEF DownlinkInv, DownlinkTypes, RecentIsMarked, TracksOfPresent,
                TalkingIsTrue, IsTalking, Talker
  <2> QED
    BY <2>1, <2>3 DEF SpeechEnds
<1> QED
  BY <1>1, <1>2, <1>3, PTL DEF VoiceBridgeSpec

------------------------------------------------------------------------------
(* The signalling *)

\* An envelope of another type changes nothing for those of type t.
LEMMA AppendOther ==
  ASSUME NEW q \in Seq(Envelope), NEW e \in Envelope, NEW t, e.type # t
  PROVE  /\ Has(Append(q, e), t) <=> Has(q, t)
         /\ Once(q, t) => Once(Append(q, e), t)
         /\ \A d : Brings(q, t, d) => Brings(Append(q, e), t, d)
<1> DEFINE p == Append(q, e)
<1>1. /\ Len(p) = Len(q) + 1 /\ Len(q) \in Nat
      /\ \A i \in 1 .. Len(q) : i \in 1 .. Len(p) /\ p[i] = q[i]
      /\ p[Len(p)] = e
  OBVIOUS
<1> HIDE DEF p
<1>2. \A i \in 1 .. Len(p) : p[i].type = t => i \in 1 .. Len(q)
  BY <1>1
<1>3. Has(p, t) <=> Has(q, t)
  BY <1>1, <1>2 DEF Has
<1>4. Once(q, t) => Once(p, t)
  BY <1>1, <1>2 DEF Once
<1>5. \A d : Brings(q, t, d) => Brings(p, t, d)
  BY <1>1 DEF Brings
<1> QED
  BY <1>3, <1>4, <1>5 DEF p

\* The only envelope of type t in the queue is the one that was pushed.
LEMMA AppendFirst ==
  ASSUME NEW q \in Seq(Envelope), NEW e \in Envelope, ~Has(q, e.type)
  PROVE  /\ Has(Append(q, e), e.type) /\ Once(Append(q, e), e.type)
         /\ Brings(Append(q, e), e.type, e.tracks)
<1> DEFINE p == Append(q, e)
<1>1. /\ Len(p) = Len(q) + 1 /\ Len(q) \in Nat
      /\ \A i \in 1 .. Len(q) : p[i] = q[i]
      /\ p[Len(p)] = e
  OBVIOUS
<1> HIDE DEF p
<1>2. Len(p) \in 1 .. Len(p)
  BY <1>1
<1>3. \A i \in 1 .. Len(p) : p[i].type = e.type => i = Len(p)
  <2> SUFFICES ASSUME NEW i \in 1 .. Len(p), p[i].type = e.type, i # Len(p)
               PROVE  FALSE
    OBVIOUS
  <2>1. i \in 1 .. Len(q) /\ q[i].type = e.type
    BY <1>1
  <2> QED
    BY <2>1 DEF Has
<1>4. Has(p, e.type) /\ Brings(p, e.type, e.tracks)
  BY <1>1, <1>2 DEF Has, Brings
<1>5. Once(p, e.type)
  BY <1>3 DEF Once
<1> QED
  BY <1>4, <1>5 DEF p

\* Handling an envelope of another type changes nothing for those of type t.
LEMMA TailOther ==
  ASSUME NEW q \in Seq(Envelope), q # <<>>, NEW t, Head(q).type # t
  PROVE  /\ Has(Tail(q), t) <=> Has(q, t)
         /\ Once(q, t) => Once(Tail(q), t)
         /\ \A d : Brings(q, t, d) => Brings(Tail(q), t, d)
<1> DEFINE p == Tail(q)
<1>1. /\ Len(p) = Len(q) - 1 /\ Len(p) \in Nat /\ Len(q) \in Nat
      /\ \A i \in 1 .. Len(p) : p[i] = q[i + 1]
      /\ Head(q) = q[1]
  OBVIOUS
<1> HIDE DEF p
<1>2. \A i \in 1 .. Len(p) : i + 1 \in 1 .. Len(q) /\ p[i] = q[i + 1]
  BY <1>1
<1>3. \A i \in 1 .. Len(q) : q[i].type = t => i - 1 \in 1 .. Len(p) /\ p[i - 1] = q[i]
  <2> SUFFICES ASSUME NEW i \in 1 .. Len(q), q[i].type = t
               PROVE  i - 1 \in 1 .. Len(p) /\ p[i - 1] = q[i]
    OBVIOUS
  <2>1. i # 1
    BY <1>1
  <2>2. i - 1 \in 1 .. Len(p) /\ (i - 1) + 1 = i
    BY <1>1, <2>1
  <2> QED
    BY <1>1, <2>2
<1>4. Has(p, t) <=> Has(q, t)
  BY <1>2, <1>3 DEF Has
<1>5. Once(q, t) => Once(p, t)
  <2> SUFFICES ASSUME Once(q, t), NEW i \in 1 .. Len(p), NEW j \in 1 .. Len(p),
                      p[i].type = t, p[j].type = t
               PROVE  i = j
    BY DEF Once
  <2>1. i + 1 = j + 1
    BY <1>2 DEF Once
  <2> QED
    BY <2>1
<1>6. \A d : Brings(q, t, d) => Brings(p, t, d)
  BY <1>3 DEF Brings
<1> QED
  BY <1>4, <1>5, <1>6 DEF p

\* Handling the only envelope of its type leaves none, and brings what it brings.
LEMMA TailLast ==
  ASSUME NEW q \in Seq(Envelope), q # <<>>, Once(q, Head(q).type)
  PROVE  /\ Has(q, Head(q).type) /\ ~Has(Tail(q), Head(q).type)
         /\ Once(Tail(q), Head(q).type)
         /\ \A d : Brings(q, Head(q).type, d) => d \subseteq Head(q).tracks
<1> DEFINE p == Tail(q)
<1>1. /\ Len(p) = Len(q) - 1 /\ Len(p) \in Nat /\ Len(q) \in Nat
      /\ \A i \in 1 .. Len(p) : p[i] = q[i + 1]
      /\ Head(q) = q[1]
  OBVIOUS
<1> HIDE DEF p
<1>2. 1 \in 1 .. Len(q)
  BY <1>1
<1>3. \A i \in 1 .. Len(q) : q[i].type = Head(q).type => i = 1
  BY <1>1, <1>2 DEF Once
<1>4. \A i \in 1 .. Len(p) : i + 1 \in 1 .. Len(q) /\ p[i] = q[i + 1] /\ i + 1 # 1
  BY <1>1
<1>5. \A i \in 1 .. Len(p) : p[i].type # Head(q).type
  BY <1>3, <1>4
<1>6. ~Has(p, Head(q).type) /\ Once(p, Head(q).type)
  BY <1>5 DEF Has, Once
<1>7. \A d : Brings(q, Head(q).type, d) => d \subseteq Head(q).tracks
  BY <1>1, <1>3 DEF Brings
<1>8. Has(q, Head(q).type)
  BY <1>1, <1>2 DEF Has
<1> QED
  BY <1>6, <1>7, <1>8 DEF p

\* Whatever push does, where nothing was dropped the envelope is in the queue.
LEMMA PushedClean ==
  ASSUME DownlinkTypes, NEW e \in Envelope, PushToPage(e),
         mishaps' \cap {"early", "dropped"} = {}
  PROVE  mishaps \cap {"early", "dropped"} = {} /\ toPage' = Append(toPage, e)
BY DEF DownlinkTypes, PushToPage

\* A step that leaves the signalling of both ends alone, and that in the queue.
LEMMA QuietStep ==
  ASSUME SignallingInv, UNCHANGED <<browser, toProxy>>, lit' \subseteq Speakers,
         peer'.state = peer.state, peer'.described = peer.described,
         peer'.answering = peer.answering, mishaps \subseteq mishaps',
         mishaps' \cap {"early", "dropped"} = {} =>
           \A t \in {"rtcOffer", "rtcAnswer"} :
             /\ Has(toPage, t)' <=> Has(toPage, t)
             /\ Once(toPage, t) => Once(toPage, t)'
             /\ \A d : Brings(toPage, t, d) => Brings(toPage', t, d)
  PROVE  SignallingInv'
<1>1. BrowserTypes' /\ ReadyWithOffer'
  BY DEF SignallingInv, BrowserTypes, ReadyWithOffer
<1>2. ASSUME mishaps' \cap {"early", "dropped"} = {}
      PROVE  Signalling'
  <2>1. Signalling
    BY <1>2 DEF SignallingInv
  <2>2. ProxysOffer'
    BY <1>2, <2>1 DEF Signalling, ProxysOffer, Answered
  <2>3. PagesOffer'
    BY <1>2, <2>1 DEF Signalling, PagesOffer, Offered, Answered
  <2>4. TracksGetThere'
    BY <1>2, <2>1 DEF Signalling, TracksGetThere
  <2> QED
    BY <2>2, <2>3, <2>4 DEF Signalling
<1> QED
  BY <1>1, <1>2 DEF SignallingInv

\* A step that at most pushes an envelope about somebody.
LEMMA TalkPushed ==
  ASSUME DownlinkTypes, SignallingInv, UNCHANGED <<browser, toProxy, lit>>,
         peer'.state = peer.state, peer'.described = peer.described,
         peer'.answering = peer.answering,
         \/ UNCHANGED <<toPage, mishaps>>
         \/ \E e \in Envelope : e.type \notin {"rtcOffer", "rtcAnswer"} /\ PushToPage(e)
  PROVE  SignallingInv'
<1>1. CASE UNCHANGED <<toPage, mishaps>>
  <2>1. \A t \in {"rtcOffer", "rtcAnswer"} :
          /\ Has(toPage, t)' <=> Has(toPage, t)
          /\ Once(toPage, t) => Once(toPage, t)'
          /\ \A d : Brings(toPage, t, d) => Brings(toPage', t, d)
    BY <1>1 DEF Has, Once
  <2> QED
    BY <1>1, <2>1, QuietStep DEF SignallingInv, BrowserTypes
<1>2. ASSUME NEW e \in Envelope, e.type \notin {"rtcOffer", "rtcAnswer"}, PushToPage(e)
      PROVE  SignallingInv'
  <2>1. mishaps \subseteq mishaps'
    BY <1>2 DEF PushToPage
  <2>2. ASSUME mishaps' \cap {"early", "dropped"} = {}, NEW t \in {"rtcOffer", "rtcAnswer"}
        PROVE  /\ Has(toPage, t)' <=> Has(toPage, t)
               /\ Once(toPage, t) => Once(toPage, t)'
               /\ \A d : Brings(toPage, t, d) => Brings(toPage', t, d)
    <3>1. toPage' = Append(toPage, e) /\ toPage \in Seq(Envelope) /\ e.type # t
      BY <1>2, <2>2, PushedClean DEF DownlinkTypes
    <3>2. /\ Has(Append(toPage, e), t) <=> Has(toPage, t)
          /\ Once(toPage, t) => Once(Append(toPage, e), t)
          /\ \A d : Brings(toPage, t, d) => Brings(Append(toPage, e), t, d)
      BY <1>2, <3>1, AppendOther
    <3> QED
      BY <3>1, <3>2
  <2> QED
    BY <1>2, <2>1, <2>2, QuietStep DEF SignallingInv, BrowserTypes
<1> QED
  BY <1>1, <1>2

\* Voice and silence, comings and goings leave the descriptions alone.
LEMMA TalkersKeepSignalling ==
  ASSUME DownlinkTypes, SignallingInv, NEW u \in Speakers,
         \/ VoicePacket(u) \/ FallsSilent(u) \/ TalkingWatchdog(u)
         \/ SpeakerLeaves(u) \/ SpeakerKicked(u) \/ SpeakerComes(u)
  PROVE  SignallingInv'
<1>1. \A b \in BOOLEAN :
        LET e == [type |-> "talking", session |-> u, talking |-> b]
        IN e \in Envelope /\ e.type \notin {"rtcOffer", "rtcAnswer"}
  BY DEF Envelope
<1>2. LET e == [type |-> "userRemove", session |-> u]
      IN e \in Envelope /\ e.type \notin {"rtcOffer", "rtcAnswer"}
  BY DEF Envelope
<1>3. /\ UNCHANGED <<browser, toProxy, lit>> /\ peer'.state = peer.state
      /\ peer'.described = peer.described /\ peer'.answering = peer.answering
  BY DEF DownlinkTypes, VoicePacket, FallsSilent, TalkingWatchdog, SpeakerLeaves,
         SpeakerKicked, SpeakerComes
<1>4. \/ UNCHANGED <<toPage, mishaps>>
      \/ \E e \in Envelope : e.type \notin {"rtcOffer", "rtcAnswer"} /\ PushToPage(e)
  <2>1. CASE VoicePacket(u)
    BY <1>1, <2>1 DEF VoicePacket
  <2>2. CASE TalkingWatchdog(u)
    BY <1>1, <2>2 DEF TalkingWatchdog
  <2>3. CASE SpeakerLeaves(u)
    BY <1>2, <2>3 DEF SpeakerLeaves
  <2>4. CASE FallsSilent(u) \/ SpeakerKicked(u) \/ SpeakerComes(u)
    BY <2>4 DEF FallsSilent, SpeakerKicked, SpeakerComes
  <2> QED
    BY <2>1, <2>2, <2>3, <2>4
<1> QED
  BY <1>3, <1>4, TalkPushed

\* A sequence of one, and another.
LEMMA OneAndOne ==
  ASSUME NEW a, NEW b
  PROVE  Append(<<a>>, b) = <<a, b>>
<1> DEFINE p == Append(<<a>>, b)
           S == {a, b}
<1>1. p \in Seq(S) /\ Len(p) = 2 /\ p[1] = a /\ p[2] = b
  OBVIOUS
<1>2. <<a, b>> \in Seq(S) /\ Len(<<a, b>>) = 2
  OBVIOUS
<1>3. \A i \in 1 .. Len(p) : p[i] = <<a, b>>[i]
  BY <1>1
<1> HIDE DEF p, S
<1> QED
  BY <1>1, <1>2, <1>3, SeqEqual DEF p

\* What a head of the page's envelopes says of all of them.
LEMMA HeadOfToProxy ==
  ASSUME toProxy \in ToProxy, toProxy # <<>>
  PROVE  /\ Head(toProxy) = "rtcOffer" =>
              Offered /\ Tail(toProxy) \in {<<>>, <<"rtcAnswer">>}
              /\ (Answered <=> Tail(toProxy) = <<"rtcAnswer">>)
         /\ Head(toProxy) = "rtcAnswer" => toProxy = <<"rtcAnswer">> /\ Tail(toProxy) = <<>>
<1>1. CASE toProxy = <<"rtcOffer">>
  <2>1. Head(toProxy) = "rtcOffer" /\ Tail(toProxy) = <<>>
    BY <1>1
  <2>2. Offered /\ ~Answered /\ <<>> # <<"rtcAnswer">>
    BY <1>1 DEF Offered, Answered
  <2> QED
    BY <2>1, <2>2
<1>2. CASE toProxy = <<"rtcAnswer">>
  <2>1. Head(toProxy) = "rtcAnswer" /\ Tail(toProxy) = <<>>
    BY <1>2
  <2> QED
    BY <1>2, <2>1
<1>3. CASE toProxy = <<"rtcOffer", "rtcAnswer">>
  <2>1. Head(toProxy) = "rtcOffer"
    BY <1>3
  <2>2. Tail(toProxy) = <<"rtcAnswer">>
    BY <1>3
  <2>3. Offered /\ Answered
    BY <1>3 DEF Offered, Answered
  <2> QED
    BY <2>1, <2>2, <2>3
<1> QED
  BY <1>1, <1>2, <1>3 DEF ToProxy

\* The proxy's offer goes out, to a page that owes it nothing.
LEMMA NegotiateKeepsSignalling ==
  ASSUME DownlinkTypes, SignallingInv, Negotiate
  PROVE  SignallingInv'
<1> DEFINE e == [type |-> "rtcOffer", tracks |-> peer.tracks]
<1>1. /\ e \in Envelope /\ e.type = "rtcOffer" /\ e.tracks = peer.tracks
  BY DEF DownlinkTypes, Envelope
<1>2. /\ peer.state = "stable" /\ PushToPage(e) /\ UNCHANGED <<browser, toProxy, lit>>
      /\ peer' = [peer EXCEPT !.state = "haveLocal", !.described = peer.tracks]
  BY DEF Negotiate, Unnegotiated
<1>3. /\ peer'.state = "haveLocal" /\ peer'.described = peer.tracks
      /\ peer'.answering = peer.answering
  BY <1>2 DEF DownlinkTypes
<1>4. mishaps \subseteq mishaps'
  BY <1>2 DEF PushToPage
<1>5. BrowserTypes' /\ ReadyWithOffer'
  BY <1>2, <1>4 DEF SignallingInv, BrowserTypes, ReadyWithOffer
<1> HIDE DEF e
<1>6. ASSUME mishaps' \cap {"early", "dropped"} = {}
      PROVE  Signalling'
  <2>1. Signalling /\ toPage' = Append(toPage, e) /\ toPage \in Seq(Envelope)
    BY <1>1, <1>2, <1>6, PushedClean DEF SignallingInv, DownlinkTypes
  <2>2. ~Has(toPage, "rtcOffer") /\ browser.pc # "answering" /\ ~Answered
    BY <1>2, <2>1 DEF Signalling, ProxysOffer
  <2>3. /\ Has(toPage', "rtcOffer") /\ Once(toPage', "rtcOffer")
        /\ Brings(toPage', "rtcOffer", peer.tracks)
    BY <1>1, <2>1, <2>2, AppendFirst
  <2>4. /\ Has(toPage', "rtcAnswer") <=> Has(toPage, "rtcAnswer")
        /\ Once(toPage, "rtcAnswer") => Once(toPage', "rtcAnswer")
    BY <1>1, <2>1, AppendOther
  <2>5. ProxysOffer'
    BY <1>2, <1>3, <2>2, <2>3 DEF ProxysOffer, Answered
  <2>6. PagesOffer'
    BY <1>2, <1>3, <2>1, <2>3, <2>4 DEF Signalling, PagesOffer, Offered, Answered
  <2>7. TracksGetThere'
    BY <1>3, <2>3 DEF TracksGetThere
  <2> QED
    BY <2>5, <2>6, <2>7 DEF Signalling
<1> QED
  BY <1>5, <1>6 DEF SignallingInv

\* The proxy takes the page's offer, or refuses it for its own.
LEMMA HandleOfferKeepsSignalling ==
  ASSUME DownlinkTypes, SignallingInv, HandleOffer
  PROVE  SignallingInv'
<1>1. /\ toProxy # <<>> /\ Head(toProxy) = "rtcOffer" /\ ~peer.answering
      /\ toProxy' = Tail(toProxy) /\ UNCHANGED <<browser, toPage, lit, mishaps>>
  BY DEF HandleOffer
<1>2. BrowserTypes' /\ ReadyWithOffer'
  BY <1>1 DEF SignallingInv, BrowserTypes, ReadyWithOffer
<1>3. ASSUME mishaps' \cap {"early", "dropped"} = {}
      PROVE  Signalling'
  <2>1. Signalling /\ toProxy \in ToProxy
    BY <1>1, <1>3 DEF SignallingInv, Signalling, PagesOffer
  <2>2. /\ Offered /\ toProxy' \in {<<>>, <<"rtcAnswer">>}
        /\ Answered <=> toProxy' = <<"rtcAnswer">>
    BY <1>1, <2>1, HeadOfToProxy
  <2>3. /\ toProxy' \in ToProxy /\ ~Offered' /\ (Answered' <=> Answered)
    BY <2>2 DEF ToProxy, Offered, Answered
  <2>4. /\ ~Has(toPage, "rtcAnswer") /\ Once(toPage, "rtcAnswer") /\ Once(toPage, "rtcOffer")
        /\ peer.state = "stable" => browser.pc = "offered"
    BY <2>1, <2>2 DEF Signalling, PagesOffer, ProxysOffer
  <2>5. browser.pc \notin {"waiting", "refused", "creating"}
    BY <1>1, <2>1 DEF Signalling, PagesOffer
  <2>6. CASE peer.state = "stable"
    <3>1. PICK d : peer' = [peer EXCEPT !.answering = TRUE, !.described = d]
      BY <2>6 DEF HandleOffer
    <3>2. peer'.state = "stable" /\ peer'.answering = TRUE
      BY <2>6, <3>1 DEF DownlinkTypes
    <3>3. ProxysOffer'
      BY <1>1, <2>1, <2>3, <2>6, <3>2 DEF Signalling, ProxysOffer
    <3>4. PagesOffer'
      BY <1>1, <2>1, <2>3, <2>4, <3>2 DEF Signalling, PagesOffer
    <3>5. TracksGetThere'
      BY <1>1, <2>4, <2>6, <3>2 DEF TracksGetThere
    <3> QED
      BY <3>3, <3>4, <3>5 DEF Signalling
  <2>7. CASE peer.state = "haveLocal"
    <3>1. UNCHANGED peer
      BY <2>7 DEF HandleOffer
    <3>2. browser.pc = "offered" => Has(toPage, "rtcOffer")
      BY <2>1, <2>7 DEF Signalling, ProxysOffer, PagesOffer
    <3>3. ProxysOffer'
      BY <1>1, <2>1, <2>3, <3>1 DEF Signalling, ProxysOffer
    <3>4. PagesOffer'
      BY <1>1, <2>1, <2>3, <2>4, <2>5, <3>1, <3>2 DEF Signalling, PagesOffer
    <3>5. TracksGetThere'
      BY <1>1, <2>1, <3>1 DEF Signalling, TracksGetThere
    <3> QED
      BY <3>3, <3>4, <3>5 DEF Signalling
  <2> QED
    BY <2>6, <2>7 DEF DownlinkTypes
<1> QED
  BY <1>2, <1>3 DEF SignallingInv

\* The proxy's answer goes out.
LEMMA SendAnswerKeepsSignalling ==
  ASSUME DownlinkTypes, SignallingInv, SendAnswer
  PROVE  SignallingInv'
<1> DEFINE e == [type |-> "rtcAnswer", tracks |-> peer.described]
<1>1. /\ e \in Envelope /\ e.type = "rtcAnswer" /\ e.tracks = peer.described
  BY DEF DownlinkTypes, Envelope
<1>2. /\ peer.answering /\ PushToPage(e) /\ UNCHANGED <<browser, toProxy, lit>>
      /\ peer' = [peer EXCEPT !.answering = FALSE]
  BY DEF SendAnswer
<1>3. /\ peer'.state = peer.state /\ peer'.described = peer.described
      /\ peer'.answering = FALSE
  BY <1>2 DEF DownlinkTypes
<1>4. mishaps \subseteq mishaps'
  BY <1>2 DEF PushToPage
<1>5. BrowserTypes' /\ ReadyWithOffer'
  BY <1>2, <1>4 DEF SignallingInv, BrowserTypes, ReadyWithOffer
<1> HIDE DEF e
<1>6. ASSUME mishaps' \cap {"early", "dropped"} = {}
      PROVE  Signalling'
  <2>1. Signalling /\ toPage' = Append(toPage, e) /\ toPage \in Seq(Envelope)
    BY <1>1, <1>2, <1>6, PushedClean DEF SignallingInv, DownlinkTypes
  <2>2. ~Has(toPage, "rtcAnswer") /\ ~Offered
        /\ browser.pc \notin {"waiting", "refused", "creating"}
    BY <1>2, <2>1 DEF Signalling, PagesOffer
  <2>3. /\ Has(toPage', "rtcAnswer") /\ Once(toPage', "rtcAnswer")
        /\ Brings(toPage', "rtcAnswer", peer.described)
    BY <1>1, <2>1, <2>2, AppendFirst
  <2>4. /\ Has(toPage', "rtcOffer") <=> Has(toPage, "rtcOffer")
        /\ Once(toPage, "rtcOffer") => Once(toPage', "rtcOffer")
        /\ \A d : Brings(toPage, "rtcOffer", d) => Brings(toPage', "rtcOffer", d)
    BY <1>1, <2>1, AppendOther
  <2>5. ProxysOffer'
    BY <1>2, <1>3, <2>1, <2>4 DEF Signalling, ProxysOffer, Answered
  <2>6. PagesOffer'
    BY <1>2, <1>3, <2>1, <2>2, <2>3 DEF Signalling, PagesOffer, Offered, Answered
  <2>7. TracksGetThere'
    BY <1>2, <1>3, <2>1, <2>3, <2>4 DEF Signalling, TracksGetThere
  <2> QED
    BY <2>5, <2>6, <2>7 DEF Signalling
<1> QED
  BY <1>5, <1>6 DEF SignallingInv

\* The page's answer comes to the proxy that waits for it.
LEMMA HandleAnswerKeepsSignalling ==
  ASSUME DownlinkTypes, SignallingInv, HandleAnswer
  PROVE  SignallingInv'
<1>1. /\ toProxy # <<>> /\ Head(toProxy) = "rtcAnswer" /\ ~peer.answering
      /\ toProxy' = Tail(toProxy) /\ UNCHANGED <<browser, toPage, lit, mishaps>>
      /\ peer' = [peer EXCEPT !.state = "stable"]
  BY DEF HandleAnswer
<1>2. /\ peer'.state = "stable" /\ peer'.described = peer.described
      /\ peer'.answering = peer.answering
  BY <1>1 DEF DownlinkTypes
<1>3. BrowserTypes' /\ ReadyWithOffer'
  BY <1>1 DEF SignallingInv, BrowserTypes, ReadyWithOffer
<1>4. ASSUME mishaps' \cap {"early", "dropped"} = {}
      PROVE  Signalling'
  <2>1. Signalling /\ toProxy \in ToProxy
    BY <1>1, <1>4 DEF SignallingInv, Signalling, PagesOffer
  <2>2. toProxy = <<"rtcAnswer">> /\ toProxy' = <<>>
    BY <1>1, <2>1, HeadOfToProxy
  <2>3. Answered /\ ~Offered /\ ~Answered' /\ ~Offered' /\ toProxy' \in ToProxy
    BY <2>2 DEF Answered, Offered, ToProxy
  <2>4. ~Has(toPage, "rtcOffer") /\ browser.pc # "answering" /\ browser.pc # "offered"
    BY <2>1, <2>3 DEF Signalling, ProxysOffer, PagesOffer
  <2>5. ProxysOffer'
    BY <1>1, <1>2, <2>1, <2>3, <2>4 DEF Signalling, ProxysOffer
  <2>6. PagesOffer'
    BY <1>1, <1>2, <2>1, <2>2, <2>3, <2>4 DEF Signalling, PagesOffer
  <2>7. TracksGetThere'
    BY <1>1, <1>2, <2>1, <2>4 DEF Signalling, TracksGetThere
  <2> QED
    BY <2>5, <2>6, <2>7 DEF Signalling
<1> QED
  BY <1>3, <1>4 DEF SignallingInv

\* The page's microphone, its offer and its answer.
LEMMA PageSendsKeepSignalling ==
  ASSUME DownlinkTypes, SignallingInv, MicAnswered \/ PageOffers \/ PageAnswers
  PROVE  SignallingInv'
<1> USE DEF ToProxy, Offered, Answered
<1>1. CASE MicAnswered
  <2>1. PICK pc \in {"creating", "refused"} : browser' = [browser EXCEPT !.pc = pc]
    BY <1>1 DEF MicAnswered
  <2>2. /\ browser.pc = "waiting" /\ browser'.pc = pc /\ browser'.streams = browser.streams
        /\ browser' \in [pc : {"waiting", "refused", "creating", "offered", "answering", "stable"},
                         ready : BOOLEAN, streams : SUBSET Speakers]
        /\ UNCHANGED <<peer, toPage, toProxy, lit, mishaps>>
    BY <1>1, <2>1 DEF MicAnswered, SignallingInv, BrowserTypes
  <2>3. BrowserTypes' /\ ReadyWithOffer'
    BY <2>2 DEF SignallingInv, BrowserTypes, ReadyWithOffer
  <2>4. ASSUME Signalling
        PROVE  Signalling'
    <3>1. ProxysOffer'
      BY <2>2, <2>4 DEF Signalling, ProxysOffer
    <3>2. PagesOffer'
      BY <2>2, <2>4 DEF Signalling, PagesOffer
    <3>3. TracksGetThere'
      BY <2>2, <2>4 DEF Signalling, TracksGetThere
    <3> QED
      BY <3>1, <3>2, <3>3 DEF Signalling
  <2> QED
    BY <2>2, <2>3, <2>4 DEF SignallingInv
<1>2. CASE PageOffers
  <2>1. /\ browser.pc = "creating" /\ toProxy' = Append(toProxy, "rtcOffer")
        /\ browser' = [browser EXCEPT !.pc = "offered", !.ready = TRUE]
        /\ UNCHANGED <<peer, toPage, lit, mishaps>>
    BY <1>2 DEF PageOffers
  <2>2. /\ browser'.pc = "offered" /\ browser'.streams = browser.streams /\ browser'.ready = TRUE
        /\ browser' \in [pc : {"waiting", "refused", "creating", "offered", "answering", "stable"},
                         ready : BOOLEAN, streams : SUBSET Speakers]
    BY <2>1 DEF SignallingInv, BrowserTypes
  <2>3. BrowserTypes' /\ ReadyWithOffer'
    BY <2>1, <2>2 DEF SignallingInv, BrowserTypes, ReadyWithOffer
  <2>4. ASSUME Signalling
        PROVE  Signalling'
    <3>1. toProxy = <<>> /\ ~peer.answering /\ ~Has(toPage, "rtcAnswer")
      BY <2>1, <2>4 DEF Signalling, PagesOffer
    <3>2. toProxy' = <<"rtcOffer">>
      BY <2>1, <3>1
    <3>3. toProxy' \in ToProxy /\ Offered' /\ ~Answered' /\ ~Answered
      BY <3>1, <3>2
    <3>4. ProxysOffer'
      BY <2>1, <2>2, <2>4, <3>3 DEF Signalling, ProxysOffer
    <3>5. PagesOffer'
      BY <2>1, <2>2, <2>4, <3>1, <3>3 DEF Signalling, PagesOffer
    <3>6. TracksGetThere'
      BY <2>1, <2>2, <2>4 DEF Signalling, TracksGetThere
    <3> QED
      BY <3>4, <3>5, <3>6 DEF Signalling
  <2> QED
    BY <2>1, <2>3, <2>4 DEF SignallingInv
<1>3. CASE PageAnswers
  <2>1. /\ browser.pc = "answering" /\ toProxy' = Append(toProxy, "rtcAnswer")
        /\ browser' = [browser EXCEPT !.pc = "stable"]
        /\ UNCHANGED <<peer, toPage, lit, mishaps>>
    BY <1>3 DEF PageAnswers
  <2>2. /\ browser'.pc = "stable" /\ browser'.streams = browser.streams
        /\ browser'.ready = browser.ready
        /\ browser' \in [pc : {"waiting", "refused", "creating", "offered", "answering", "stable"},
                         ready : BOOLEAN, streams : SUBSET Speakers]
    BY <2>1 DEF SignallingInv, BrowserTypes
  <2>3. BrowserTypes' /\ ReadyWithOffer'
    BY <2>1, <2>2 DEF SignallingInv, BrowserTypes, ReadyWithOffer
  <2>4. ASSUME Signalling
        PROVE  Signalling'
    <3>1. /\ toProxy \in {<<>>, <<"rtcOffer">>} /\ peer.state = "haveLocal"
          /\ ~Has(toPage, "rtcOffer")
      BY <2>1, <2>4 DEF Signalling, PagesOffer, ProxysOffer, DownlinkTypes
    <3>2. /\ toProxy' \in ToProxy /\ Answered' /\ (Offered' <=> Offered)
      <4>1. CASE toProxy = <<>>
        <5>1. toProxy' = <<"rtcAnswer">>
          BY <2>1, <4>1
        <5> QED
          BY <4>1, <5>1
      <4>2. CASE toProxy = <<"rtcOffer">>
        <5>1. toProxy' = <<"rtcOffer", "rtcAnswer">>
          BY <2>1, <4>2, OneAndOne
        <5> QED
          BY <4>2, <5>1
      <4> QED
        BY <3>1, <4>1, <4>2
    <3> HIDE DEF ToProxy, Offered, Answered
    <3>3. ProxysOffer'
      BY <2>1, <2>2, <2>4, <3>1, <3>2 DEF Signalling, ProxysOffer
    <3>4. PagesOffer'
      BY <2>1, <2>2, <2>4, <3>1, <3>2 DEF Signalling, PagesOffer
    <3>5. TracksGetThere'
      BY <2>1, <2>2, <2>4 DEF Signalling, TracksGetThere
    <3> QED
      BY <3>3, <3>4, <3>5 DEF Signalling
  <2> QED
    BY <2>1, <2>3, <2>4 DEF SignallingInv
<1> QED
  BY <1>1, <1>2, <1>3

\* Signalling or talk comes to the page: it takes the proxy's offer, even for
\* its own, and the answer to an offer it still stands by.
LEMMA ArrivalKeepsSignalling ==
  ASSUME DownlinkTypes, SignallingInv, EnvelopeArrives
  PROVE  SignallingInv'
<1> DEFINE e == Head(toPage)
<1>1. /\ toPage # <<>> /\ toPage' = Tail(toPage) /\ toPage \in Seq(Envelope) /\ e \in Envelope
      /\ UNCHANGED <<peer, toProxy>> /\ (OfferArrives(e) \/ AnswerArrives(e) \/ TalkArrives(e))
  BY DEF EnvelopeArrives, DownlinkTypes
<1>2. \A t : e.type # t => /\ Has(toPage', t) <=> Has(toPage, t)
                           /\ Once(toPage, t) => Once(toPage', t)
                           /\ \A d : Brings(toPage, t, d) => Brings(toPage', t, d)
  BY <1>1, TailOther
<1>3. \A t : e.type = t /\ Once(toPage, t) =>
        /\ Has(toPage, t) /\ ~Has(toPage', t) /\ Once(toPage', t)
        /\ \A d : Brings(toPage, t, d) => d \subseteq e.tracks
  BY <1>1, TailLast
<1> HIDE DEF e
<1>4. CASE TalkArrives(e)
  <2>1. /\ UNCHANGED <<browser, mishaps>> /\ e.type \in {"talking", "userRemove"}
    BY <1>4 DEF TalkArrives
  <2>2. lit' \subseteq Speakers
    <3>1. e.session \in Speakers
      BY <1>1, <2>1 DEF Envelope
    <3> QED
      BY <1>4, <3>1 DEF TalkArrives, SignallingInv, BrowserTypes
  <2>3. \A t \in {"rtcOffer", "rtcAnswer"} :
          /\ Has(toPage, t)' <=> Has(toPage, t)
          /\ Once(toPage, t) => Once(toPage, t)'
          /\ \A d : Brings(toPage, t, d) => Brings(toPage', t, d)
    BY <1>2, <2>1
  <2> QED
    BY <1>1, <2>1, <2>2, <2>3, QuietStep
<1>5. CASE AnswerArrives(e)
  <2>1. /\ e.type = "rtcAnswer" /\ UNCHANGED <<lit, mishaps>> /\ e.tracks \subseteq Speakers
    BY <1>1, <1>5 DEF AnswerArrives, Envelope
  <2>2. /\ Has(toPage', "rtcOffer") <=> Has(toPage, "rtcOffer")
        /\ Once(toPage, "rtcOffer") => Once(toPage', "rtcOffer")
        /\ \A d : Brings(toPage, "rtcOffer", d) => Brings(toPage', "rtcOffer", d)
    BY <1>2, <2>1
  <2>3. Once(toPage, "rtcAnswer") =>
          /\ Has(toPage, "rtcAnswer") /\ ~Has(toPage', "rtcAnswer") /\ Once(toPage', "rtcAnswer")
          /\ \A d : Brings(toPage, "rtcAnswer", d) => d \subseteq e.tracks
    BY <1>3, <2>1
  <2>4. CASE browser.pc = "offered"
    <3>1. PICK s \in SUBSET Speakers : s = browser.streams \cup e.tracks
      BY <2>1 DEF SignallingInv, BrowserTypes
    <3>2. browser' = [browser EXCEPT !.pc = "stable", !.streams = s]
      BY <1>5, <2>4, <3>1 DEF AnswerArrives
    <3>3. /\ browser'.pc = "stable" /\ browser'.streams = s /\ browser'.ready = browser.ready
          /\ browser' \in [pc : {"waiting", "refused", "creating", "offered", "answering", "stable"},
                           ready : BOOLEAN, streams : SUBSET Speakers]
      BY <3>2 DEF SignallingInv, BrowserTypes
    <3>4. BrowserTypes' /\ ReadyWithOffer'
      BY <2>1, <2>4, <3>3 DEF SignallingInv, BrowserTypes, ReadyWithOffer
    <3>5. ASSUME Signalling
          PROVE  Signalling'
      <4>1. Once(toPage, "rtcAnswer") /\ Has(toPage, "rtcAnswer")
        BY <2>3, <3>5 DEF Signalling, PagesOffer
      <4>2. ~peer.answering /\ ~Offered
        BY <3>5, <4>1 DEF Signalling, PagesOffer
      <4>3. ProxysOffer'
        BY <1>1, <2>2, <2>4, <3>3, <3>5 DEF Signalling, ProxysOffer, Answered
      <4>4. PagesOffer'
        BY <1>1, <2>3, <3>3, <3>5, <4>1, <4>2 DEF Signalling, PagesOffer, Offered
      <4>5. TracksGetThere'
        <5>1. CASE peer.described \subseteq browser.streams
          BY <1>1, <3>1, <3>3, <5>1 DEF TracksGetThere
        <5>2. CASE Brings(toPage, "rtcOffer", peer.described)
          BY <1>1, <2>2, <5>2 DEF TracksGetThere
        <5>3. CASE Brings(toPage, "rtcAnswer", peer.described)
          BY <1>1, <2>3, <3>1, <3>3, <4>1, <5>3 DEF TracksGetThere
        <5> QED
          BY <3>5, <4>2, <5>1, <5>2, <5>3 DEF Signalling, TracksGetThere
      <4> QED
        BY <4>3, <4>4, <4>5 DEF Signalling
    <3> QED
      BY <2>1, <3>4, <3>5 DEF SignallingInv
  <2>5. CASE browser.pc # "offered"
    <3>1. UNCHANGED browser
      BY <1>5, <2>5 DEF AnswerArrives
    <3>2. BrowserTypes' /\ ReadyWithOffer'
      BY <2>1, <3>1 DEF SignallingInv, BrowserTypes, ReadyWithOffer
    <3>3. ASSUME Signalling
          PROVE  Signalling'
      <4>1. Once(toPage, "rtcAnswer") /\ Has(toPage, "rtcAnswer")
        BY <2>3, <3>3 DEF Signalling, PagesOffer
      <4>2. ProxysOffer'
        BY <1>1, <2>2, <3>1, <3>3 DEF Signalling, ProxysOffer, Answered
      <4>3. PagesOffer'
        BY <1>1, <2>3, <2>5, <3>1, <3>3, <4>1 DEF Signalling, PagesOffer, Offered, Answered
      <4>4. TracksGetThere'
        BY <1>1, <2>2, <2>5, <3>1, <3>3 DEF Signalling, TracksGetThere
      <4> QED
        BY <4>2, <4>3, <4>4 DEF Signalling
    <3> QED
      BY <2>1, <3>2, <3>3 DEF SignallingInv
  <2> QED
    BY <2>4, <2>5
<1>6. CASE OfferArrives(e)
  <2>1. /\ e.type = "rtcOffer" /\ browser.pc # "answering" /\ UNCHANGED lit
        /\ mishaps \subseteq mishaps' /\ e.tracks \subseteq Speakers
    BY <1>1, <1>6 DEF OfferArrives, Envelope
  <2>2. /\ Has(toPage', "rtcAnswer") <=> Has(toPage, "rtcAnswer")
        /\ Once(toPage, "rtcAnswer") => Once(toPage', "rtcAnswer")
    BY <1>2, <2>1
  <2>3. Once(toPage, "rtcOffer") =>
          /\ Has(toPage, "rtcOffer") /\ ~Has(toPage', "rtcOffer") /\ Once(toPage', "rtcOffer")
          /\ \A d : Brings(toPage, "rtcOffer", d) => d \subseteq e.tracks
    BY <1>3, <2>1
  <2>4. CASE browser.pc \in {"waiting", "refused"}
    <3>1. UNCHANGED browser /\ "early" \in mishaps'
      BY <1>6, <2>4 DEF OfferArrives, TakesOffer
    <3>2. BrowserTypes' /\ ReadyWithOffer'
      BY <2>1, <3>1 DEF SignallingInv, BrowserTypes, ReadyWithOffer
    <3> QED
      BY <3>1, <3>2 DEF SignallingInv
  <2>5. CASE browser.pc \in {"creating", "offered", "stable"}
    <3>1. PICK s \in SUBSET Speakers : s = browser.streams \cup e.tracks
      BY <2>1 DEF SignallingInv, BrowserTypes
    <3>2. browser' = [browser EXCEPT !.pc = "answering", !.streams = s]
      BY <1>6, <2>5, <3>1 DEF OfferArrives, TakesOffer
    <3>3. /\ browser'.pc = "answering" /\ browser'.streams = s /\ browser'.ready = browser.ready
          /\ browser' \in [pc : {"waiting", "refused", "creating", "offered", "answering", "stable"},
                           ready : BOOLEAN, streams : SUBSET Speakers]
      BY <3>2 DEF SignallingInv, BrowserTypes
    <3>4. browser.pc = "creating" => "crossed" \in mishaps'
      BY <1>6 DEF OfferArrives
    <3>5. BrowserTypes' /\ ReadyWithOffer'
      BY <2>1, <2>5, <3>3, <3>4 DEF SignallingInv, BrowserTypes, ReadyWithOffer
    <3>6. ASSUME Signalling
          PROVE  Signalling'
      <4>1. Once(toPage, "rtcOffer") /\ Has(toPage, "rtcOffer")
        BY <2>3, <3>6 DEF Signalling, ProxysOffer
      <4>2. peer.state = "haveLocal" /\ ~Answered
        BY <3>6, <4>1 DEF Signalling, ProxysOffer, DownlinkTypes
      <4>3. ProxysOffer'
        BY <1>1, <2>3, <3>3, <4>1, <4>2 DEF ProxysOffer, Answered
      <4>4. PagesOffer'
        BY <1>1, <2>2, <3>3, <3>6, <4>2 DEF Signalling, PagesOffer, Offered, Answered
      <4>5. TracksGetThere'
        <5>1. CASE peer.described \subseteq browser.streams
          BY <1>1, <3>1, <3>3, <5>1 DEF TracksGetThere
        <5>2. CASE Brings(toPage, "rtcOffer", peer.described)
          BY <1>1, <2>3, <3>1, <3>3, <4>1, <5>2 DEF TracksGetThere
        <5> QED
          BY <3>6, <4>2, <5>1, <5>2 DEF Signalling, TracksGetThere
      <4> QED
        BY <4>3, <4>4, <4>5 DEF Signalling
    <3> QED
      BY <2>1, <3>5, <3>6 DEF SignallingInv
  <2> QED
    BY <2>1, <2>4, <2>5 DEF SignallingInv, BrowserTypes
<1> QED
  BY <1>1, <1>4, <1>5, <1>6

\* A login starts without an offer on either side.
LEMMA SignallingInit == VoiceBridgeInit => SignallingInv
<1> SUFFICES ASSUME VoiceBridgeInit PROVE SignallingInv
  OBVIOUS
<1>1. BrowserTypes /\ ReadyWithOffer
  BY DEF VoiceBridgeInit, BrowserTypes, ReadyWithOffer
<1>2. \A t : ~Has(toPage, t) /\ Once(toPage, t)
  BY DEF VoiceBridgeInit, Has, Once
<1>3. ~Offered /\ ~Answered /\ toProxy \in ToProxy
  BY DEF VoiceBridgeInit, Offered, Answered, ToProxy
<1>4. Signalling
  BY <1>2, <1>3 DEF VoiceBridgeInit, Signalling, ProxysOffer, PagesOffer, TracksGetThere
<1> QED
  BY <1>1, <1>4 DEF SignallingInv

\* Every step of the signalling, the speakers and the page keeps the invariant.
LEMMA SignallingKept ==
  ASSUME DownlinkTypes, SignallingInv, [VoiceBridgeNext]_voiceBridgeVars
  PROVE  SignallingInv'
<1>1. CASE DownlinkNext
  <2>1. ASSUME NEW u \in Speakers,
               \/ VoicePacket(u) \/ FallsSilent(u) \/ TalkingWatchdog(u)
               \/ SpeakerLeaves(u) \/ SpeakerKicked(u) \/ SpeakerComes(u)
        PROVE  SignallingInv'
    BY <2>1, TalkersKeepSignalling
  <2>2. CASE Negotiate \/ HandleOffer \/ SendAnswer \/ HandleAnswer
    BY <2>2, NegotiateKeepsSignalling, HandleOfferKeepsSignalling, SendAnswerKeepsSignalling,
       HandleAnswerKeepsSignalling
  <2>3. CASE MicAnswered \/ PageOffers \/ EnvelopeArrives \/ PageAnswers
    BY <2>3, PageSendsKeepSignalling, ArrivalKeepsSignalling
  <2> QED
    BY <1>1, <2>1, <2>2, <2>3 DEF DownlinkNext
<1>2. CASE UNCHANGED downlinkVars
  <2>1. /\ UNCHANGED <<peer, browser, toPage, toProxy, lit, mishaps>>
    BY <1>2 DEF downlinkVars
  <2> QED
    BY <2>1, TalkPushed
<1> QED
  BY <1>1, <1>2 DEF VoiceBridgeNext, voiceBridgeVars, downlinkVars

\* Every state of a login has its signalling where the invariant says.
LEMMA SignallingInvariance == VoiceBridgeSpec => [](DownlinkInv /\ SignallingInv)
<1>1. VoiceBridgeInit => DownlinkInv /\ UplinkInv /\ SignallingInv
  BY DownlinkInit, SignallingInit
<1>2. /\ DownlinkInv /\ UplinkInv /\ SignallingInv /\ [VoiceBridgeNext]_voiceBridgeVars
      => DownlinkInv' /\ UplinkInv' /\ SignallingInv'
  BY DownlinkKept, SignallingKept DEF DownlinkInv
<1> QED
  BY <1>1, <1>2, PTL DEF VoiceBridgeSpec

\* The types of the peer, the page's connection and what it shows.
THEOREM VoiceBridgeTypeCorrect == VoiceBridgeSpec => []VoiceBridgeTypeOK
<1>1. DownlinkInv /\ SignallingInv => VoiceBridgeTypeOK
  BY DEF DownlinkInv, DownlinkTypes, SignallingInv, BrowserTypes, VoiceBridgeTypeOK
<1> QED
  BY <1>1, SignallingInvariance, PTL

\* However the offers of rtcPeer (rtc.go) and MumbleClient (mumbleClient.ts)
\* cross, the signalling rests only with both ends stable and a stream for every
\* track, unless an envelope came too early or was dropped.
THEOREM SignallingAgrees == VoiceBridgeSpec => []VoiceIsNegotiated
<1>1. DownlinkInv /\ SignallingInv => VoiceIsNegotiated
  <2> SUFFICES ASSUME DownlinkInv, SignallingInv, SignallingRests
               PROVE  /\ VoiceAgreed \/ mishaps \cap {"early", "dropped"} # {}
                      /\ browser.ready \/ "crossed" \in mishaps
    BY DEF VoiceIsNegotiated
  <2>1. browser.pc \in {"offered", "stable"}
    BY DEF SignallingRests, SignallingInv, BrowserTypes
  <2>2. browser.ready \/ "crossed" \in mishaps
    BY <2>1 DEF SignallingInv, ReadyWithOffer
  <2>3. ASSUME mishaps \cap {"early", "dropped"} = {}
        PROVE  VoiceAgreed
    <3>1. Signalling
      BY <2>3 DEF SignallingInv
    <3>2. /\ \A t : ~Has(toPage, t) /\ \A d : ~Brings(toPage, t, d)
          /\ ~Offered /\ ~Answered /\ ~peer.answering
      <4>1. toPage = <<>> /\ toProxy = <<>> /\ ~peer.answering
        BY DEF SignallingRests
      <4>2. 1 .. Len(toPage) = {}
        BY <4>1
      <4> QED
        BY <4>1, <4>2 DEF Has, Brings, Offered, Answered
    <3>3. browser.pc = "stable"
      BY <2>1, <3>1, <3>2 DEF Signalling, PagesOffer
    <3>4. peer.state = "stable"
      BY <3>1, <3>2, <3>3 DEF Signalling, ProxysOffer, DownlinkInv, DownlinkTypes
    <3>5. peer.tracks = peer.described
      BY <3>4 DEF SignallingRests, Unnegotiated
    <3>6. peer.described \subseteq browser.streams
      BY <3>1, <3>2, <3>3 DEF Signalling, TracksGetThere
    <3> QED
      BY <3>3, <3>4, <3>5, <3>6 DEF VoiceAgreed
  <2> QED
    BY <2>2, <2>3
<1> QED
  BY <1>1, SignallingInvariance, PTL
=============================================================================
