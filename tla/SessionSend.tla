----------------------------- MODULE SessionSend -----------------------------
(***************************************************************************)
(* What one browser is sent and how its WebSocket is closed: the send      *)
(* queue, the write pump and closeCode of server/internal/bridge/          *)
(* session.go, with the goroutines that write to them.                     *)
(*                                                                         *)
(* The upstream's read goroutine pushes the snapshot (OnConnect) and, when *)
(* the upstream is lost, a disconnected envelope (OnDisconnect); another   *)
(* session's takeover runs endWith; the read loop cleans up.  push never   *)
(* blocks: it drops what the queue cannot hold.  BridgeSession says when   *)
(* these goroutines start, this module what they do to the queue, from the *)
(* moment the dial begins: hello, and the envelopes of a session already   *)
(* logged in (texts, users, voice signalling), are left out.               *)
(***************************************************************************)
EXTENDS Naturals, SequencesExt

CONSTANTS
    Capacity,      \* of the send channel (256)
    SnapshotSize   \* channels and users of the server

ASSUME SendAssumption ==
    /\ Capacity \in Nat \ {0}
    /\ SnapshotSize \in Nat

VARIABLES
    queue,      \* Session.send
    wire,       \* envelopes written to the WebSocket
    logged,     \* types of the envelopes push logged as dropped
    pushed,     \* how many envelopes OnConnect has pushed
    done,       \* Session.done is closed
    closeCode,  \* Session.closeCode
    pump,       \* writePump: "select", "draining" or "over"
    frame,      \* code of the close frame, 0 for none
    loss,       \* OnDisconnect: "none", "pushed", "stored", "over"
    lossCode,   \* the code it computed
    ender,      \* endWith: "none", "claimed", "pushed", "over"
    ws          \* the browser: "open", "left" after its disconnect, "gone"

queueVars == <<queue, logged>>
pumpVars == <<wire, pump, frame>>
endVars == <<closeCode, loss, lossCode, ender>>
vars == <<queueVars, pumpVars, pushed, done, endVars, ws>>

FinalCodes == {"session_takeover", "kicked"}
Codes == FinalCodes \cup {"network"}
Envelopes == {"connected", "snapshot", "synced"} \cup Codes

----------------------------------------------------------------------------

Init ==
    /\ queue = <<>>
    /\ wire = <<>>
    /\ logged = {}
    /\ pushed = 0
    /\ done = FALSE
    /\ closeCode = 0
    /\ pump = "select"
    /\ frame = 0
    /\ loss = "none"
    /\ lossCode = "network"
    /\ ender = "none"
    /\ ws = "open"

(* Broken forms of push, which the properties must tell from the real one. *)
PushSilently(env) ==
    /\ queue' = IF Len(queue) < Capacity THEN Append(queue, env) ELSE queue
    /\ UNCHANGED logged
PushUnbounded(env) == queue' = Append(queue, env) /\ UNCHANGED logged

(* push: a select over the queue, the closed done, and the default.        *)
Push(env) ==
    \/ /\ Len(queue) < Capacity
       /\ queue' = Append(queue, env)
       /\ UNCHANGED logged
    \/ /\ done
       /\ UNCHANGED queueVars
    \/ /\ Len(queue) >= Capacity /\ ~done
       /\ logged' = logged \cup {env}
       /\ UNCHANGED queue

(* The once-only cleanup, as far as the queue is concerned.                *)
Cleanup == done' = TRUE

----------------------------------------------------------------------------
(* The upstream's read goroutine.                                          *)

SnapshotEnvelope(i) ==
    CASE i = 0            -> "connected"
      [] i > SnapshotSize -> "synced"
      [] OTHER            -> "snapshot"

Synced == pushed = SnapshotSize + 2

(* One step of OnConnect.                                                  *)
OnConnect ==
    /\ ~Synced
    /\ Push(SnapshotEnvelope(pushed))
    /\ pushed' = pushed + 1
    /\ UNCHANGED <<pumpVars, done, endVars, ws>>

(* A broken OnDisconnect that cleans up before it has stored its code.     *)
LossPushCleaningUp ==
    /\ Synced /\ loss = "none"
    /\ \E code \in Codes : Push(code) /\ lossCode' = code
    /\ Cleanup
    /\ loss' = "pushed"
    /\ UNCHANGED <<pumpVars, pushed, closeCode, ender, ws>>

(* OnDisconnect: push, requestClose, cleanup.                              *)
LossPush ==
    /\ Synced /\ loss = "none"
    /\ \E code \in Codes : Push(code) /\ lossCode' = code
    /\ loss' = "pushed"
    /\ UNCHANGED <<pumpVars, pushed, done, closeCode, ender, ws>>

CloseCodeOf(code) == IF code \in FinalCodes THEN 4001 ELSE 1011

LossRequestClose ==
    /\ loss = "pushed"
    /\ closeCode' = CloseCodeOf(lossCode)
    /\ loss' = "stored"
    /\ UNCHANGED <<queueVars, pumpVars, pushed, done, lossCode, ender, ws>>

LossCleanup ==
    /\ loss = "stored"
    /\ Cleanup
    /\ loss' = "over"
    /\ UNCHANGED <<queueVars, pumpVars, pushed, closeCode, lossCode, ender, ws>>

----------------------------------------------------------------------------
(* A broken endWith that cleans up before it has pushed.                   *)
EndClaimCleaningUp ==
    /\ Synced /\ ender = "none"
    /\ closeCode' = IF closeCode = 0 THEN 4001 ELSE closeCode
    /\ ender' = IF closeCode = 0 THEN "claimed" ELSE "pushed"
    /\ Cleanup
    /\ UNCHANGED <<queueVars, pumpVars, pushed, loss, lossCode, ws>>

(* endWith, started by the session that committed the same nickname.  A    *)
(* failed swap goes straight to cleanup.                                   *)
EndClaim ==
    /\ Synced /\ ender = "none"
    /\ closeCode' = IF closeCode = 0 THEN 4001 ELSE closeCode
    /\ ender' = IF closeCode = 0 THEN "claimed" ELSE "pushed"
    /\ UNCHANGED <<queueVars, pumpVars, pushed, done, loss, lossCode, ws>>

EndPush ==
    /\ ender = "claimed"
    /\ Push("session_takeover")
    /\ ender' = "pushed"
    /\ UNCHANGED <<pumpVars, pushed, done, closeCode, loss, lossCode, ws>>

EndCleanup ==
    /\ ender = "pushed"
    /\ Cleanup
    /\ ender' = "over"
    /\ UNCHANGED <<queueVars, pumpVars, pushed, closeCode, loss, lossCode, ws>>

----------------------------------------------------------------------------
(* The browser and the read loop.  The loop may serve the browser before   *)
(* OnConnect is through: a dial that times out is over for it, not for the *)
(* upstream's goroutine.                                                   *)

BrowserGone ==
    /\ ws # "gone"
    /\ ws' = "gone"
    /\ UNCHANGED <<queueVars, pumpVars, pushed, done, endVars>>

UserDisconnect ==
    /\ ws = "open"
    /\ ws' = "left"
    /\ Cleanup
    /\ UNCHANGED <<queueVars, pumpVars, pushed, endVars>>

ReadFail ==
    /\ ws = "gone" /\ ~done
    /\ Cleanup
    /\ UNCHANGED <<queueVars, pumpVars, pushed, endVars, ws>>

----------------------------------------------------------------------------
(* The write pump.  Its select takes either ready branch, so it may see    *)
(* done with envelopes still queued; it drains them then.                  *)

Write ==
    /\ pump # "over" /\ queue # <<>>
    /\ wire' = Append(wire, Head(queue))
    /\ queue' = Tail(queue)
    /\ UNCHANGED <<logged, pump, frame, pushed, done, endVars, ws>>

(* A write to a WebSocket that is gone, or a ping, fails.                  *)
WriteFail ==
    /\ pump # "over" /\ ws = "gone"
    /\ pump = "draining" => queue # <<>>
    /\ queue' = IF queue = <<>> THEN queue ELSE Tail(queue)
    /\ pump' = "over"
    /\ IF pump = "select" THEN Cleanup ELSE UNCHANGED done
    /\ UNCHANGED <<logged, wire, frame, pushed, endVars, ws>>

SeeDone ==
    /\ pump = "select" /\ done
    /\ pump' = "draining"
    /\ UNCHANGED <<queueVars, wire, frame, pushed, done, endVars, ws>>

(* The queue is drained: the close code is read only now.                  *)
CloseFrame ==
    /\ pump = "draining" /\ queue = <<>>
    /\ frame' = closeCode
    /\ pump' = "over"
    /\ UNCHANGED <<queueVars, wire, pushed, done, endVars, ws>>

----------------------------------------------------------------------------

ReadGoroutine == LossRequestClose \/ LossCleanup \/ OnConnect

EndWith == EndPush \/ EndCleanup

WritePump == Write \/ WriteFail \/ SeeDone \/ CloseFrame

Next ==
    \/ ReadGoroutine \/ LossPush
    \/ EndWith \/ EndClaim
    \/ BrowserGone \/ UserDisconnect \/ ReadFail
    \/ WritePump

Spec == Init /\ [][Next]_vars

(* Goroutines that have started run on.  Losing the upstream (LossPush),   *)
(* being taken over (EndClaim) and leaving are nobody's duty.              *)
Fairness ==
    /\ WF_vars(ReadGoroutine)
    /\ WF_vars(EndWith)
    /\ WF_vars(ReadFail)
    /\ WF_vars(WritePump)

FairSpec == Spec /\ Fairness

----------------------------------------------------------------------------

(* Type invariant; the queue never holds more than the channel can.        *)
TypeOK ==
    /\ queue \in Seq(Envelopes) /\ Len(queue) <= Capacity
    /\ wire \in Seq(Envelopes)
    /\ logged \in SUBSET Envelopes
    /\ pushed \in 0 .. SnapshotSize + 2
    /\ done \in BOOLEAN
    /\ closeCode \in {0, 1011, 4001}
    /\ pump \in {"select", "draining", "over"}
    /\ frame \in {0, 1011, 4001}
    /\ loss \in {"none", "pushed", "stored", "over"}
    /\ lossCode \in Codes
    /\ ender \in {"none", "claimed", "pushed", "over"}
    /\ ws \in {"open", "left", "gone"}

Seen == ToSet(wire)

(* How many channels and users the browser was sent.                       *)
SnapshotsSeen == Cardinality({i \in DOMAIN wire : wire[i] = "snapshot"})

(* A close frame comes after its reason: a browser that is there and did   *)
(* not leave was sent a final code before 4001, and some disconnected      *)
(* envelope before 1011, unless the full queue swallowed it.               *)
CloseFrameExplained ==
    ws = "open" =>
        /\ frame = 4001 => (Seen \cup logged) \cap FinalCodes # {}
        /\ frame = 1011 => (Seen \cup logged) \cap Codes # {}

(* Nothing is missing from the snapshot without a send_buffer_full in the  *)
(* log: a browser that stayed and was sent synced has seen every channel   *)
(* and user otherwise.                                                     *)
SnapshotLossIsLogged ==
    ws = "open" /\ "synced" \in Seen =>
        \/ "snapshot" \in logged
        \/ SnapshotsSeen = SnapshotSize

(* A session that lost its upstream or its name closes its WebSocket with  *)
(* a code, so the browser is not left waiting; and whoever cleaned up, the *)
(* write pump of an ended session returns.                                 *)
EndIsSignalled ==
    /\ loss # "none" \/ ender # "none" ~> frame # 0 \/ ws # "open"
    /\ done ~> pump = "over"

----------------------------------------------------------------------------
(* What comments of the code promise and the code does not do.             *)

(* protocol.go:11: synced means that channels and users are synchronised.  *)
SyncedIsComplete ==
    ws = "open" /\ "synced" \in Seen => SnapshotsSeen = SnapshotSize
=============================================================================
