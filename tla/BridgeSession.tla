---------------------------- MODULE BridgeSession ----------------------------
(***************************************************************************)
(* How a browser's session on the proxy logs in to Murmur and ends:        *)
(* server/internal/bridge/session.go on top of the nickname table of       *)
(* SessionRegistry and the gumble client's read goroutine.                 *)
(*                                                                         *)
(* Four kinds of goroutine act on one session: its read loop               *)
(* (connectMumble runs inside it and holds it for the whole dial), its     *)
(* write pump, the read goroutine of each of its gumble clients            *)
(* (OnConnect, OnDisconnect), and the endWith goroutine started by the     *)
(* session that takes its nickname over.  Any of them may run cleanup, in  *)
(* any order and at any place of connectMumble, and the read loop handles  *)
(* what it finds in its buffer after that too.                             *)
(*                                                                         *)
(* Murmur and the browser are external.  A browser opens a new WebSocket   *)
(* for every attempt, but a superseded socket that opens late makes it     *)
(* send its connect again on the new one: a session may see several, all   *)
(* for one login, and each dial makes a gumble client of its own.  After   *)
(* its disconnect command the browser sends nothing.                       *)
(***************************************************************************)
EXTENDS Naturals

CONSTANTS Sessions, Keys, KeyOf, ClientOf, MaxConnects, NoClient, NoSession, NoKey

(* SessionRegistry's own assumptions, which its instance below rests on.   *)
ASSUME BridgeAssumption ==
    /\ NoSession \notin Sessions
    /\ NoKey \notin Keys
    /\ KeyOf \in [Sessions -> Keys]
    /\ MaxConnects \in [Sessions -> Nat]
    /\ DOMAIN ClientOf = Sessions

(* The gumble clients: <<s, n>> is made by the n-th dial of s.             *)
Clients == UNION {{s} \X (1..MaxConnects[s]) : s \in Sessions}

SessionOf(c) == c[1]

VARIABLES
    entries, takeoverPending, sessionKey, done,  \* as in SessionRegistry
    connects,   \* how many connects got past Reserve
    loggedIn,   \* a Commit has been made
    unseen,     \* history: the roles the table gives a session behind its cleanup
    pc,         \* where the read loop is in connectMumble
    client,     \* s.client: which dial made it, 0 for nil
    up,         \* each gumble client: its handshake and its read goroutine
    link,       \* its TLS connection to Murmur as the next read will find it
    discType,   \* its disconnectEvent.Type
    notify,     \* where its OnDisconnect stands
    ender,      \* where endWith stands
    closing,    \* Session.closeCode is set
    ws,         \* the browser's end of the WebSocket
    told        \* session_takeover was queued for a browser that is there

registryVars == <<entries, takeoverPending, sessionKey>>
pastVars     == <<connects, loggedIn, unseen>>
upstreamVars == <<client, up, link, discType>>
endingVars   == <<notify, ender, closing>>
browserVars  == <<ws, told>>
vars == <<registryVars, done, pastVars, pc, upstreamVars, endingVars, browserVars>>

----------------------------------------------------------------------------
(* The nickname table.  Its phases abstract pc, and the sessions it counts *)
(* as condemned are those with an endWith goroutine.                       *)

DialPhase == [s \in Sessions |-> IF pc[s] \in {"reserved", "dialing"} THEN pc[s] ELSE "idle"]
Condemned == {s \in Sessions : ender[s] # "none"}

Reg == INSTANCE SessionRegistry WITH phase <- DialPhase, condemned <- Condemned

----------------------------------------------------------------------------

Init ==
    /\ unseen = [s \in Sessions |-> {}]
    /\ pc = [s \in Sessions |-> "idle"]
    /\ client = [s \in Sessions |-> 0]
    /\ up = [c \in Clients |-> "none"]
    /\ link = [c \in Clients |-> "none"]
    /\ discType = [c \in Clients |-> "error"]
    /\ notify = [c \in Clients |-> "none"]
    /\ ender = [s \in Sessions |-> "none"]
    /\ closing = [s \in Sessions |-> FALSE]
    /\ ws = [s \in Sessions |-> "open"]
    /\ told = [s \in Sessions |-> FALSE]
    /\ Reg!Init

----------------------------------------------------------------------------
(* Helpers that several handlers call.                                     *)

(* The client of the dial under way, and the one s.client points to.       *)
Dialled(s) == <<s, connects[s]>>
Handle(s) == <<s, client[s]>>

(* Conn.Close: reads fail from now on, unless the read goroutine already   *)
(* holds the packet that says the user was removed.                        *)
LinkAfterClose(c) ==
    CASE link[c] = "none"   -> {"none"}
      [] link[c] = "kicked" -> {"kicked", "closed"}
      [] OTHER              -> {"closed"}

(* A broken Disconnect that closes nothing.                                *)
DisconnectOnlyNoted(s) ==
    /\ IF client[s] = 0 THEN UNCHANGED discType
       ELSE discType' = [discType EXCEPT ![Handle(s)] = "user"]
    /\ UNCHANGED link

(* Client.Disconnect: nothing once the read goroutine has ended, except    *)
(* that the type is written without a lock and a Disconnect that saw the   *)
(* old state may still write it, in time for OnDisconnect to read it.      *)
Disconnect(s) ==
    IF client[s] = 0
    THEN UNCHANGED <<discType, link>>
    ELSE /\ \/ /\ notify[Handle(s)] \in {"none", "raised"}
               /\ discType' = [discType EXCEPT ![Handle(s)] = "user"]
            \/ /\ up[Handle(s)] = "down"
               /\ UNCHANGED discType
         /\ \E l \in LinkAfterClose(Handle(s)) : link' = [link EXCEPT ![Handle(s)] = l]

(* What a cleanup that finds no sessionKey leaves in the table.            *)
Overlooked(s) ==
    IF sessionKey[s] = NoKey
    THEN {role \in {"owner", "pending"} : entries[KeyOf[s]][role] = s}
    ELSE {}

(* A broken cleanup that leaves the nickname in the table.                 *)
CleanupKeepingName(s) ==
    IF done[s]
    THEN UNCHANGED <<done, entries, takeoverPending, unseen, client, discType, link>>
    ELSE /\ done' = [done EXCEPT ![s] = TRUE]
         /\ client' = [client EXCEPT ![s] = 0]
         /\ Disconnect(s)
         /\ UNCHANGED <<entries, takeoverPending, unseen>>

(* cleanup: the whole body once, nothing the next times.                   *)
Cleanup(s) ==
    IF done[s]
    THEN UNCHANGED <<done, entries, takeoverPending, unseen, client, discType, link>>
    ELSE /\ done' = [done EXCEPT ![s] = TRUE]
         /\ client' = [client EXCEPT ![s] = 0]
         /\ Disconnect(s)
         /\ unseen' = [unseen EXCEPT ![s] = Overlooked(s)]
         /\ IF sessionKey[s] = NoKey
            THEN UNCHANGED <<entries, takeoverPending>>
            ELSE /\ entries' = [entries EXCEPT ![sessionKey[s]] = Reg!Unregistered(@, s)]
                 /\ takeoverPending' = Reg!UnmarkedBy(entries[sessionKey[s]], s)

(* push of a disconnected envelope.  Once done is closed the select may    *)
(* take that branch and drop it.                                           *)
Push(s, code) ==
    \/ told' = [told EXCEPT ![s] =
            @ \/ (code = "session_takeover" /\ ws[s] = "open")]
    \/ /\ done[s]
       /\ UNCHANGED told

----------------------------------------------------------------------------
(* The read loop.  It never looks at done, and reads what was buffered     *)
(* before the WebSocket broke.                                             *)

(* connectMumble up to the answer of Reserve.  A refusal changes nothing.  *)
Connect(s) ==
    /\ pc[s] = "idle" /\ connects[s] < MaxConnects[s]
    /\ Reg!Reservable(entries[KeyOf[s]], s)
    /\ entries' = [entries EXCEPT ![KeyOf[s]] = Reg!Reserved(@, s)]
    /\ takeoverPending' = Reg!MarkedByReserve(entries[KeyOf[s]], s)
    /\ connects' = [connects EXCEPT ![s] = @ + 1]
    /\ unseen' = [unseen EXCEPT ![s] = IF done[s] THEN @ \cup {"pending"} ELSE @]
    /\ pc' = [pc EXCEPT ![s] = "reserved"]
    /\ UNCHANGED <<sessionKey, done, loggedIn, upstreamVars, endingVars, browserVars>>

(* s.sessionKey = key.                                                     *)
StoreKey(s) ==
    /\ pc[s] = "reserved"
    /\ sessionKey' = [sessionKey EXCEPT ![s] = KeyOf[s]]
    /\ pc' = [pc EXCEPT ![s] = "dialing"]
    /\ UNCHANGED <<entries, takeoverPending, done, pastVars, upstreamVars, endingVars, browserVars>>

(* A broken failure path that keeps the reservation.                       *)
DialFailKeepingName(s) ==
    /\ pc[s] = "dialing"
    /\ pc' = [pc EXCEPT ![s] = "idle"]
    /\ \E l \in LinkAfterClose(Dialled(s)) : link' = [link EXCEPT ![Dialled(s)] = l]
    /\ UNCHANGED <<registryVars, done, pastVars, client, up, discType, endingVars, browserVars>>

(* The dial fails: no WebRTC peer, no connection, a Reject, or the timeout *)
(* (which may win the select even when ServerSync has been handled).       *)
DialFail(s) ==
    /\ pc[s] = "dialing"
    /\ pc' = [pc EXCEPT ![s] = "idle"]
    /\ \E l \in LinkAfterClose(Dialled(s)) : link' = [link EXCEPT ![Dialled(s)] = l]
    /\ entries' = [entries EXCEPT ![sessionKey[s]] = Reg!Released(@, s)]
    /\ takeoverPending' = Reg!UnmarkedBy(entries[sessionKey[s]], s)
    /\ sessionKey' = [sessionKey EXCEPT ![s] = NoKey]
    /\ UNCHANGED <<done, pastVars, client, up, discType, endingVars, browserVars>>

(* A broken Commit that does not clear the reservation it promotes.        *)
DialDoneStillPending(s) ==
    /\ pc[s] = "dialing" /\ up[Dialled(s)] \in {"synced", "down"}
    /\ entries' = [entries EXCEPT ![KeyOf[s]].owner = s]
    /\ loggedIn' = [loggedIn EXCEPT ![s] = TRUE]
    /\ pc' = [pc EXCEPT ![s] = "attaching"]
    /\ UNCHANGED <<takeoverPending, sessionKey, done, connects, unseen,
                   upstreamVars, endingVars, browserVars>>

(* The dial succeeds: Commit, and a goroutine to end the previous owner,   *)
(* be it s itself.  Nothing looks at done.                                 *)
DialDone(s) ==
    LET prev == entries[KeyOf[s]].owner
    IN  /\ pc[s] = "dialing" /\ up[Dialled(s)] \in {"synced", "down"}
        /\ entries' = [entries EXCEPT ![KeyOf[s]] = Reg!Committed(@, s)]
        /\ ender' = [t \in Sessions |-> IF t = prev THEN "spawned" ELSE ender[t]]
        /\ loggedIn' = [loggedIn EXCEPT ![s] = TRUE]
        /\ pc' = [pc EXCEPT ![s] = "attaching"]
        /\ UNCHANGED <<takeoverPending, sessionKey, done, connects, unseen, upstreamVars,
                       notify, closing, browserVars>>

(* s.client = client, under s.mu: over whatever was there, and after       *)
(* cleanup too.                                                            *)
Attach(s) ==
    /\ pc[s] = "attaching"
    /\ pc' = [pc EXCEPT ![s] = "idle"]
    /\ client' = [client EXCEPT ![s] = connects[s]]
    /\ UNCHANGED <<registryVars, done, pastVars, up, link, discType, endingVars, browserVars>>

(* The user leaves: the disconnect command, the last thing to be read.     *)
UserDisconnect(s) ==
    /\ pc[s] = "idle"
    /\ pc' = [pc EXCEPT ![s] = "over"]
    /\ Cleanup(s)
    /\ UNCHANGED <<sessionKey, connects, loggedIn, up, endingVars, browserVars>>

(* ReadJSON fails and Run returns through its deferred cleanup.            *)
ReadFail(s) ==
    /\ pc[s] = "idle" /\ ws[s] = "gone"
    /\ pc' = [pc EXCEPT ![s] = "over"]
    /\ Cleanup(s)
    /\ UNCHANGED <<sessionKey, connects, loggedIn, up, endingVars, browserVars>>

----------------------------------------------------------------------------
(* The write pump: a write or a ping to a dead WebSocket fails.            *)

WriteFail(s) ==
    /\ ws[s] = "gone" /\ ~done[s]
    /\ Cleanup(s)
    /\ UNCHANGED <<sessionKey, connects, loggedIn, pc, up, endingVars, browserVars>>

----------------------------------------------------------------------------
(* The read goroutine of a gumble client.                                  *)

(* handleServerSync, when Murmur has sent it: OnConnect, and the dial is   *)
(* told.  It may be late for that, and read after the dial's timeout.      *)
Sync(c) ==
    /\ up[c] = "authed"
    /\ up' = [up EXCEPT ![c] = "synced"]
    /\ UNCHANGED <<registryVars, done, pastVars, pc, client, link, discType, endingVars, browserVars>>

(* handleUserRemove for oneself; Murmur closes the connection after it.    *)
HandleKick(c) ==
    /\ up[c] = "synced" /\ link[c] = "kicked"
    /\ discType' = [discType EXCEPT ![c] = "kicked"]
    /\ link' = [link EXCEPT ![c] = "closed"]
    /\ UNCHANGED <<registryVars, done, pastVars, pc, client, up, endingVars, browserVars>>

(* ReadPacket fails; OnDisconnect is raised only after a ServerSync.       *)
ReadRoutineEnds(c) ==
    /\ up[c] = "synced" /\ link[c] = "closed"
    /\ up' = [up EXCEPT ![c] = "down"]
    /\ notify' = [notify EXCEPT ![c] = "raised"]
    /\ UNCHANGED <<registryVars, done, pastVars, pc, client, link, discType,
                   ender, closing, browserVars>>

(* A broken code that takes every kick for a takeover.                     *)
DisconnectCodeOfKick(c) ==
    IF discType[c] = "kicked" THEN "session_takeover" ELSE "network"

(* disconnectCode, with the timeout, tls and closed codes as "network".    *)
DisconnectCode(c) ==
    CASE Reg!IsTakeoverPending(sessionKey[SessionOf(c)], SessionOf(c)) -> "session_takeover"
      [] discType[c] = "kicked" -> "kicked"
      [] OTHER                  -> "network"

(* OnDisconnect up to the push.                                            *)
LossPush(c) ==
    /\ notify[c] = "raised"
    /\ \/ /\ discType[c] = "user"
          /\ notify' = [notify EXCEPT ![c] = "over"]
          /\ UNCHANGED told
       \/ /\ discType[c] # "user"
          /\ Push(SessionOf(c), DisconnectCode(c))
          /\ notify' = [notify EXCEPT ![c] = "pushed"]
    /\ UNCHANGED <<registryVars, done, pastVars, pc, upstreamVars, ender, closing, ws>>

(* A broken end of OnDisconnect that counts on the pump to clean up.       *)
LossWithoutCleanup(c) ==
    /\ notify[c] = "pushed"
    /\ closing' = [closing EXCEPT ![SessionOf(c)] = TRUE]
    /\ notify' = [notify EXCEPT ![c] = "over"]
    /\ UNCHANGED <<registryVars, done, pastVars, pc, upstreamVars, ender, browserVars>>

(* ... and the rest: requestClose stores its code whatever was there.      *)
LossCleanup(c) ==
    /\ notify[c] = "pushed"
    /\ closing' = [closing EXCEPT ![SessionOf(c)] = TRUE]
    /\ notify' = [notify EXCEPT ![c] = "over"]
    /\ Cleanup(SessionOf(c))
    /\ UNCHANGED <<sessionKey, connects, loggedIn, pc, up, ender, browserVars>>

----------------------------------------------------------------------------
(* The endWith goroutine of a session whose nickname was taken over.       *)

(* CompareAndSwap(0, 4001), and the push if it succeeds.  The cleanup that *)
(* follows finds nothing to do in a session that is done.                  *)
EndPush(s) ==
    /\ ender[s] = "spawned"
    /\ IF closing[s]
       THEN UNCHANGED <<closing, told>>
       ELSE /\ closing' = [closing EXCEPT ![s] = TRUE]
            /\ Push(s, "session_takeover")
    /\ ender' = [ender EXCEPT ![s] = IF done[s] THEN "over" ELSE "pushed"]
    /\ UNCHANGED <<registryVars, done, pastVars, pc, upstreamVars, notify, ws>>

EndCleanup(s) ==
    /\ ender[s] = "pushed"
    /\ Cleanup(s)
    /\ ender' = [ender EXCEPT ![s] = "over"]
    /\ UNCHANGED <<sessionKey, connects, loggedIn, pc, up, notify, closing, browserVars>>

----------------------------------------------------------------------------
(* External: the browser, the network and Murmur.                          *)

(* The page leaves, the network breaks or is silent past the pong deadline *)
(* (which passes by itself in an ended session: its pump pings no more).   *)
BrowserGone(s) ==
    /\ ws[s] = "open" /\ pc[s] # "over"
    /\ ws' = [ws EXCEPT ![s] = "gone"]
    /\ UNCHANGED <<registryVars, done, pastVars, pc, upstreamVars, endingVars, told>>

(* The dialler connects, Murmur accepts its login and removes whoever has  *)
(* the same name.  Before that the dial can only fail.                     *)
MurmurAccepts(s) ==
    /\ pc[s] = "dialing" /\ up[Dialled(s)] = "none"
    /\ up' = [up EXCEPT ![Dialled(s)] = "authed"]
    /\ link' = [c \in Clients |->
                    IF c = Dialled(s) THEN "open"
                    ELSE IF link[c] = "open" /\ KeyOf[SessionOf(c)] = KeyOf[s] THEN "kicked"
                    ELSE link[c]]
    /\ UNCHANGED <<registryVars, done, pastVars, pc, client, discType, endingVars, browserVars>>

(* An administrator removes the user.                                      *)
MurmurKicks(c) ==
    /\ link[c] = "open"
    /\ link' = [link EXCEPT ![c] = "kicked"]
    /\ UNCHANGED <<registryVars, done, pastVars, pc, client, up, discType, endingVars, browserVars>>

(* The upstream connection breaks, or is silent for twenty seconds.  One   *)
(* whose removal never arrives has broken before it.                       *)
LinkBreaks(c) ==
    /\ link[c] = "open"
    /\ link' = [link EXCEPT ![c] = "closed"]
    /\ UNCHANGED <<registryVars, done, pastVars, pc, client, up, discType, endingVars, browserVars>>

----------------------------------------------------------------------------

ReadLoop(s) == StoreKey(s) \/ DialFail(s) \/ DialDone(s) \/ Attach(s) \/ ReadFail(s)

ReadRoutine(c) ==
    HandleKick(c) \/ ReadRoutineEnds(c) \/ LossPush(c) \/ LossCleanup(c)

EndWith(s) == EndPush(s) \/ EndCleanup(s)

Murmur(c) == Sync(c) \/ MurmurKicks(c) \/ LinkBreaks(c)

Next ==
    \/ \E s \in Sessions :
        \/ Connect(s) \/ MurmurAccepts(s) \/ UserDisconnect(s)
        \/ ReadLoop(s)
        \/ WriteFail(s)
        \/ EndWith(s)
        \/ BrowserGone(s)
    \/ \E c \in Clients : ReadRoutine(c) \/ Murmur(c)

Spec == Init /\ [][Next]_vars

(* Each goroutine runs: the dial ends by its ten second timeout, a dead    *)
(* WebSocket fails a read (pong deadline) and a write (ping).  A user owes *)
(* us no disconnect, and nobody a connect, a kick, a log-in or a break.    *)
Fairness ==
    /\ \A s \in Sessions :
        /\ WF_vars(ReadLoop(s))
        /\ WF_vars(WriteFail(s))
        /\ WF_vars(EndWith(s))
    /\ \A c \in Clients : WF_vars(ReadRoutine(c))

FairSpec == Spec /\ Fairness
----------------------------------------------------------------------------

(* Type invariant, the table's included.                                   *)
TypeOK ==
    /\ Reg!TypeOK
    /\ unseen \in [Sessions -> SUBSET {"owner", "pending"}]
    /\ pc \in [Sessions -> {"idle", "reserved", "dialing", "attaching", "over"}]
    /\ client \in [Sessions -> Nat]
    /\ up \in [Clients -> {"none", "authed", "synced", "down"}]
    /\ link \in [Clients -> {"none", "open", "kicked", "closed"}]
    /\ discType \in [Clients -> {"error", "kicked", "user"}]
    /\ notify \in [Clients -> {"none", "raised", "pushed", "over"}]
    /\ ender \in [Sessions -> {"none", "spawned", "pushed", "over"}]
    /\ closing \in [Sessions -> BOOLEAN]
    /\ ws \in [Sessions -> {"open", "gone"}]
    /\ told \in [Sessions -> BOOLEAN]
    /\ \A s \in Sessions : Handle(s) \in Clients \cup {<<s, 0>>}

(* Somebody that may be said to have taken over from s: a session that got *)
(* past Reserve, of the same tab, or ended or sent to its end while it was *)
(* dialling.                                                               *)
HasRival(s) ==
    \E t \in Sessions \ {s} :
        /\ connects[t] > 0
        /\ Reg!SameClient(s, t) \/ done[t] \/ ender[t] # "none"

(* A session that has logged in twice has taken itself over.               *)
LoggedInTwice(s) ==
    \E c, d \in Clients :
        /\ c # d /\ SessionOf(c) = s /\ SessionOf(d) = s
        /\ up[c] \in {"synced", "down"} /\ up[d] \in {"synced", "down"}

(* A browser that is there to be told session_takeover really has a rival, *)
(* unless its own second connect made the session take itself over.        *)
TakeoverNoticeTruthful ==
    \A s \in Sessions :
        told[s] => HasRival(s) \/ LoggedInTwice(s)

(* What an ended session still has in the table, its cleanup could not     *)
(* take away.  A reservation was made after the cleanup, or before the key *)
(* was stored for the cleanup to find, and its dial is under way and will  *)
(* give it back.  A nickname was committed after the cleanup, so that the  *)
(* session has a handle again or is about to, or the failed dial of a      *)
(* second connect had emptied sessionKey.                                  *)
EndedLetsGo ==
    \A s \in Sessions, k \in Keys :
        done[s] =>
            /\ entries[k].pending = s =>
                  "pending" \in unseen[s] /\ pc[s] \in {"reserved", "dialing"}
            /\ entries[k].owner = s =>
                  "owner" \in unseen[s] \/ pc[s] = "attaching" \/ client[s] # 0

(* No login is left to itself: a client that is neither the session's own  *)
(* nor being dialled has a dead link, because whoever dropped the handle   *)
(* closed it, or because Murmur did when the session logged in again.      *)
NoOrphanedLogin ==
    \A c \in Clients :
        \/ c = Handle(SessionOf(c))
        \/ c = Dialled(SessionOf(c)) /\ pc[SessionOf(c)] \in {"dialing", "attaching"}
        \/ link[c] # "open"

(* The table is used as SessionRegistry says, whatever the goroutines do,  *)
(* and its assumptions on dials and endWith are met.                       *)
RegistryFairSpec == Reg!FairSpec

(* Nothing doomed lingers: a session whose browser is gone (even during    *)
(* the dial), whose upstream is lost once it is logged in, or whose name   *)
(* was taken over, is cleaned up in the end.                               *)
Doomed(s) ==
    \/ ws[s] = "gone"
    \/ client[s] # 0 /\ up[Handle(s)] = "down"
    \/ ender[s] # "none"

(* The deferred cleanup of Run, the pump's, OnDisconnect's and endWith's   *)
(* together reach every doomed session.                                    *)
DoomedIsCleaned == \A s \in Sessions : Doomed(s) ~> done[s]

----------------------------------------------------------------------------
(* What comments of the code promise and the code does not do.             *)

(* registry.go:70: Commit hands back a previous owner, for endWith to end, *)
(* only when the same clientId reconnects.                                 *)
EndedByOwnTab ==
    \A s, t \in Sessions :
        DialDone(s) /\ ender[t] # ender'[t] => Reg!SameClient(s, t)

(* ... which no Commit may break.                                          *)
CommitEndsOnlyOwnTab == [][EndedByOwnTab]_vars

(* session.go:264: cleanup closes the upstream connection.                 *)
EndedIsLoggedOut ==
    \A c \in Clients : done[SessionOf(c)] ~> link[c] \in {"none", "closed"}
=============================================================================
