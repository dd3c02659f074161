---------------------------- MODULE VoiceBridge ----------------------------
(***************************************************************************)
(* The voice of one login, from Murmur over the proxy to the page and      *)
(* back: the WebRTC signalling between rtcPeer (server/internal/bridge/    *)
(* rtc.go) and MumbleClient (src/src/lib/mumbleClient.ts), who is said to  *)
(* be talking, and push-to-talk (session.go).                              *)
(*                                                                         *)
(* Either end may offer: the page once its microphone is there, the proxy  *)
(* whenever a speaker is heard for the first time or leaves.  Pion and the *)
(* browser are external; what a description holds is the set of speakers   *)
(* it has a track for.  PageVoice says what startAudio does when logins    *)
(* overlap: here there is one login, from its connected envelope on.       *)
(***************************************************************************)
EXTENDS Naturals, Sequences

CONSTANTS
  Speakers,    \* the sessions of other users
  MaxQueue,    \* envelopes on their way to the page, 256 in the code
  MaxPresses   \* bound: ptt commands on their way to the proxy

ASSUME VoiceBridgeAssumption == MaxQueue \in Nat \ {0} /\ MaxPresses \in Nat \ {0}

VARIABLES
  peer,     \* rtcPeer: signalling state, tracks, those its description holds,
            \* whether HandleOffer still has its answer to send
  browser,  \* the page's peer connection, micReady, remoteStreams
  toPage,   \* envelopes on their way to the page
  toProxy,  \* the page's offers and answers
  talkers,  \* each speaker: where, heard in the last 350 ms, marked as talking
  lit,      \* the store's talking
  mishaps,  \* history: what the signalling may have suffered from
  uplink    \* push-to-talk: pttActive, UpPtt and onMicFrame under way

downlinkVars == <<peer, browser, toPage, toProxy, talkers, lit, mishaps>>
voiceBridgeVars == <<downlinkVars, uplink>>

Silent(where) == [at |-> where, recent |-> FALSE, talking |-> FALSE]

VoiceBridgeInit ==
  /\ peer = [state |-> "stable", tracks |-> {}, described |-> {}, answering |-> FALSE]
  /\ browser = [pc |-> "waiting", ready |-> FALSE, streams |-> {}]
  /\ toPage = <<>> /\ toProxy = <<>>
  /\ talkers = [u \in Speakers |-> Silent("here")]
  /\ lit = {} /\ mishaps = {}
  /\ uplink = [presses |-> <<>>, active |-> FALSE, releasing |-> FALSE,
               passed |-> FALSE, late |-> 0, unended |-> FALSE]

------------------------------------------------------------------------------
(* The proxy's peer *)

\* push
PushToPage(env) ==
  IF Len(toPage) < MaxQueue
  THEN toPage' = Append(toPage, env) /\ UNCHANGED mishaps
  ELSE mishaps' = mishaps \cup {"dropped"} /\ UNCHANGED toPage

\* OnNegotiationNeeded, which pion calls in the stable state only.
Unnegotiated == peer.state = "stable" /\ peer.tracks # peer.described

Negotiate ==
  /\ Unnegotiated
  /\ peer' = [peer EXCEPT !.state = "haveLocal", !.described = peer.tracks]
  /\ PushToPage([type |-> "rtcOffer", tracks |-> peer.tracks])
  /\ UNCHANGED <<browser, toProxy, talkers, lit>>

\* HandleOffer up to its answer: refused while an offer of its own is out.
\* The page's one media line may be given to a track that waits for one.
HandleOffer ==
  /\ toProxy # <<>> /\ Head(toProxy) = "rtcOffer" /\ ~peer.answering
  /\ toProxy' = Tail(toProxy)
  /\ IF peer.state = "stable"
     THEN \E d \in {{}} \cup {{u} : u \in peer.tracks} :
            peer' = [peer EXCEPT !.answering = TRUE, !.described = d]
     ELSE UNCHANGED peer
  /\ UNCHANGED <<browser, toPage, talkers, lit, mishaps>>

\* ... and its answer, which an offer of OnNegotiationNeeded may overtake.
SendAnswer ==
  /\ peer.answering
  /\ peer' = [peer EXCEPT !.answering = FALSE]
  /\ PushToPage([type |-> "rtcAnswer", tracks |-> peer.described])
  /\ UNCHANGED <<browser, toProxy, talkers, lit>>

HandleAnswer ==
  /\ toProxy # <<>> /\ Head(toProxy) = "rtcAnswer" /\ ~peer.answering
  /\ toProxy' = Tail(toProxy)
  /\ peer' = [peer EXCEPT !.state = "stable"]
  /\ UNCHANGED <<browser, toPage, talkers, lit, mishaps>>

------------------------------------------------------------------------------
(* Who is talking *)

\* onVoicePacket: WriteVoice, then markTalking.
VoicePacket(u) ==
  /\ talkers[u].at = "here"
  /\ peer' = [peer EXCEPT !.tracks = @ \cup {u}]
  /\ talkers' = [talkers EXCEPT ![u].recent = TRUE, ![u].talking = TRUE]
  /\ IF talkers[u].talking THEN UNCHANGED <<toPage, mishaps>>
     ELSE PushToPage([type |-> "talking", session |-> u, talking |-> TRUE])
  /\ UNCHANGED <<browser, toProxy, lit>>

\* 350 ms pass without a packet.
FallsSilent(u) ==
  /\ talkers[u].recent
  /\ talkers' = [talkers EXCEPT ![u].recent = FALSE]
  /\ UNCHANGED <<peer, browser, toPage, toProxy, lit, mishaps>>

\* A watchdog that reports the end without taking the mark away.
WatchdogKeepingMark(u) ==
  /\ talkers[u].talking /\ ~talkers[u].recent
  /\ PushToPage([type |-> "talking", session |-> u, talking |-> FALSE])
  /\ UNCHANGED <<peer, browser, toProxy, talkers, lit>>

\* talkingWatchdog, for one of the sessions it finds silent.
TalkingWatchdog(u) ==
  /\ talkers[u].talking /\ ~talkers[u].recent
  /\ talkers' = [talkers EXCEPT ![u].talking = FALSE]
  /\ PushToPage([type |-> "talking", session |-> u, talking |-> FALSE])
  /\ UNCHANGED <<peer, browser, toProxy, lit>>

\* OnUserChange, disconnected: RemoveVoice too.
SpeakerLeaves(u) ==
  /\ talkers[u].at = "here"
  /\ talkers' = [talkers EXCEPT ![u].at = "gone"]
  /\ peer' = [peer EXCEPT !.tracks = @ \ {u}]
  /\ PushToPage([type |-> "userRemove", session |-> u])
  /\ UNCHANGED <<browser, toProxy, lit>>

\* OnUserChange, kicked, which it does not take for disconnected: the track stays.
SpeakerKicked(u) ==
  /\ talkers[u].at = "here"
  /\ talkers' = [talkers EXCEPT ![u].at = "kicked"]
  /\ UNCHANGED <<peer, browser, toPage, toProxy, lit, mishaps>>

\* Murmur gives a number out again, but not within 350 ms.
SpeakerComes(u) ==
  /\ talkers[u].at # "here" /\ ~talkers[u].talking
  /\ talkers' = [talkers EXCEPT ![u] = Silent("here")]
  /\ UNCHANGED <<peer, browser, toPage, toProxy, lit, mishaps>>

------------------------------------------------------------------------------
(* The page *)

\* startAudio: the microphone is granted, or refused, and then there is no
\* peer connection.
MicAnswered ==
  /\ browser.pc = "waiting"
  /\ \E pc \in {"creating", "refused"} : browser' = [browser EXCEPT !.pc = pc]
  /\ UNCHANGED <<peer, toPage, toProxy, talkers, lit, mishaps>>

\* startAudio goes on: setLocalDescription, rtcOffer, onMicReady.
PageOffers ==
  /\ browser.pc = "creating"
  /\ browser' = [browser EXCEPT !.pc = "offered", !.ready = TRUE]
  /\ toProxy' = Append(toProxy, "rtcOffer")
  /\ UNCHANGED <<peer, toPage, talkers, lit, mishaps>>

\* A page that would leave an offer alone while it has one of its own out.
OfferOnlyWhenStable(pc) == pc = "stable"

\* When handleSignaling's setRemoteDescription accepts an offer: the browser
\* rolls back an offer of its own.
TakesOffer(pc) == pc \in {"creating", "offered", "stable"}

\* handleSignaling of an offer: none without a peer connection; one that comes
\* while startAudio creates its own makes startAudio fail before onMicReady.
OfferArrives(e) ==
  /\ e.type = "rtcOffer" /\ browser.pc # "answering"
  /\ browser' = IF TakesOffer(browser.pc)
                THEN [browser EXCEPT !.pc = "answering", !.streams = @ \cup e.tracks]
                ELSE browser
  /\ mishaps' = mishaps \cup (IF browser.pc \in {"waiting", "refused"} THEN {"early"}
                              ELSE IF browser.pc = "creating" THEN {"crossed"} ELSE {})
  /\ UNCHANGED lit

\* handleSignaling of an answer, an error unless an offer is out.
AnswerArrives(e) ==
  /\ e.type = "rtcAnswer"
  /\ browser' = IF browser.pc = "offered"
                THEN [browser EXCEPT !.pc = "stable", !.streams = @ \cup e.tracks]
                ELSE browser
  /\ UNCHANGED <<lit, mishaps>>

\* handleMessage: talking, userRemove
TalkArrives(e) ==
  /\ \/ e.type = "talking" /\ lit' = IF e.talking THEN lit \cup {e.session} ELSE lit \ {e.session}
     \/ e.type = "userRemove" /\ lit' = lit \ {e.session}
  /\ UNCHANGED <<browser, mishaps>>

EnvelopeArrives ==
  /\ toPage # <<>> /\ toPage' = Tail(toPage)
  /\ LET e == Head(toPage) IN OfferArrives(e) \/ AnswerArrives(e) \/ TalkArrives(e)
  /\ UNCHANGED <<peer, toProxy, talkers>>

\* handleSignaling, second half: createAnswer, setLocalDescription, rtcAnswer.
PageAnswers ==
  /\ browser.pc = "answering"
  /\ browser' = [browser EXCEPT !.pc = "stable"]
  /\ toProxy' = Append(toProxy, "rtcAnswer")
  /\ UNCHANGED <<peer, toPage, talkers, lit, mishaps>>

DownlinkNext ==
  \/ Negotiate \/ HandleOffer \/ SendAnswer \/ HandleAnswer
  \/ \E u \in Speakers :
       \/ VoicePacket(u) \/ FallsSilent(u) \/ TalkingWatchdog(u)
       \/ SpeakerLeaves(u) \/ SpeakerKicked(u) \/ SpeakerComes(u)
  \/ MicAnswered \/ PageOffers \/ EnvelopeArrives \/ PageAnswers

------------------------------------------------------------------------------
(* Push-to-talk: the read loop against the microphone's goroutine *)

\* applyMicGate tells the proxy, whether or not the gate has moved.
GateSent(open) ==
  /\ Len(uplink.presses) < MaxPresses
  /\ uplink' = [uplink EXCEPT !.presses = Append(@, open)]

\* UpPtt: the swap.
PttSwapped ==
  /\ uplink.presses # <<>> /\ ~uplink.releasing
  /\ uplink' = [uplink EXCEPT !.presses = Tail(@), !.active = Head(uplink.presses),
                              !.releasing = uplink.active /\ ~Head(uplink.presses),
                              !.late = IF uplink.active # Head(uplink.presses) THEN 0 ELSE @]

\* UpPtt: the terminator.
Terminated ==
  /\ uplink.releasing
  /\ uplink' = [uplink EXCEPT !.releasing = FALSE, !.unended = FALSE]

\* onMicFrame: the test, then the write. Frames come whether or not the gate is
\* open, and in their own time: they do not travel with the commands.
MicFramePasses ==
  /\ uplink.active /\ ~uplink.passed
  /\ uplink' = [uplink EXCEPT !.passed = TRUE]

MicFrameWritten ==
  /\ uplink.passed
  /\ uplink' = [uplink EXCEPT !.passed = FALSE, !.unended = TRUE,
                              !.late = IF uplink.active THEN @ ELSE @ + 1]

UplinkNext ==
  \/ \E open \in BOOLEAN : GateSent(open)
  \/ PttSwapped \/ Terminated \/ MicFramePasses \/ MicFrameWritten

VoiceBridgeNext ==
  \/ DownlinkNext /\ UNCHANGED uplink
  \/ UplinkNext /\ UNCHANGED downlinkVars

VoiceBridgeSpec == VoiceBridgeInit /\ [][VoiceBridgeNext]_voiceBridgeVars

------------------------------------------------------------------------------
(* Properties *)

VoiceBridgeTypeOK ==
  /\ peer \in [state : {"stable", "haveLocal"}, tracks : SUBSET Speakers,
               described : SUBSET Speakers, answering : BOOLEAN]
  /\ browser \in [pc : {"waiting", "refused", "creating", "offered", "answering", "stable"},
                  ready : BOOLEAN, streams : SUBSET Speakers]
  /\ lit \subseteq Speakers

\* Nothing is under way between two peers.
SignallingRests ==
  /\ toPage = <<>> /\ toProxy = <<>> /\ ~peer.answering /\ ~Unnegotiated
  /\ browser.pc \notin {"waiting", "refused", "creating", "answering"}

VoiceAgreed ==
  peer.state = "stable" /\ browser.pc = "stable" /\ peer.tracks \subseteq browser.streams

\* However the two ends' offers cross, the signalling comes to rest with both
\* stable, a stream for every track, and the microphone ready.  What can keep it
\* from that are a proxy's offer before the page has a peer connection, an
\* envelope dropped by push, and, for the microphone, an offer during
\* startAudio's own.
VoiceIsNegotiated ==
  SignallingRests =>
    /\ VoiceAgreed \/ mishaps \cap {"early", "dropped"} # {}
    /\ browser.ready \/ "crossed" \in mishaps

\* Nobody is shown talking but those whose end the watchdog has yet to report,
\* and everybody heard is shown, unless push dropped an envelope; tracks are
\* kept for those present, and for the kicked, whom the proxy does not miss.
TalkingIsTrue ==
  /\ toPage = <<>> /\ "dropped" \notin mishaps =>
       \A u \in Speakers :
         /\ u \in lit => talkers[u].recent \/ talkers[u].talking
         /\ talkers[u].recent /\ talkers[u].at = "here" => u \in lit
  /\ \A u \in peer.tracks : talkers[u].at # "gone"

\* After a release Murmur gets at most the one frame that had passed the test,
\* and an utterance is left open by no more than that frame.
ReleaseIsHeard ==
  /\ ~uplink.active => uplink.late <= 1
  /\ ~uplink.active /\ ~uplink.releasing /\ uplink.unended => uplink.late = 1

\* Speech is seen to end: that of others by the page, one's own by Murmur.
SpeechEnds == TalkingIsTrue /\ ReleaseIsHeard

\* appStore.ts:801: voice is set up right after the login. Once the signalling
\* rests and nothing was dropped, the two ends are agreed.
VoiceIsEstablished ==
  SignallingRests /\ "dropped" \notin mishaps => VoiceAgreed
=============================================================================
