----------------------------- MODULE WebClient -----------------------------
(***************************************************************************)
(* The connection of one browser tab: the store's connection states        *)
(* (src/src/store/appStore.ts) over MumbleClient's WebSockets              *)
(* (src/src/lib/mumbleClient.ts), against the proxy's sessions.            *)
(*                                                                         *)
(* The store listens to every WebSocket it ever opened and never asks      *)
(* which of them is speaking; it sends on the last one.  The proxy reads a *)
(* socket's commands one by one and reads nothing during a dial.           *)
(*                                                                         *)
(* Left out here: the roster and voice fields the same handlers reset      *)
(* (PageRoster, PageVoice), invitations (PageInvite), error texts,         *)
(* and which credential is replayed (the page has some or none).           *)
(***************************************************************************)
EXTENDS Naturals, Sequences, FiniteSets

CONSTANTS
  Sockets,                 \* the WebSockets the tab may open, 1..n (bound)
  MAX_RECONNECT_ATTEMPTS,  \* appStore.ts:43
  FLAP_LIMIT,              \* appStore.ts:48
  MaxActs,                 \* bound: things the user does
  MaxFaults                \* bound: things that go wrong

None == 0

ASSUME SocketsAssumption == Sockets \subseteq Nat \ {None} /\ IsFiniteSet(Sockets)
ASSUME LimitsAssumption ==
  /\ MAX_RECONNECT_ATTEMPTS \in Nat \ {0} /\ FLAP_LIMIT \in Nat \ {0}
  /\ MaxActs \in Nat /\ MaxFaults \in Nat

VARIABLES
  page,   \* the store: connection state, reconnection state, own mute
  guest,  \* the page was opened through an invite link
  sock,   \* the browser's side of each WebSocket
  inbox,  \* envelopes on their way to the page, per socket
  up,     \* commands on their way to the proxy, per socket
  srv,    \* the proxy's session of each socket
  acts, faults

vars == <<page, guest, sock, inbox, up, srv, acts, faults>>

ConnStates == {"idle", "connecting", "connected", "ready", "reconnecting",
               "failed", "ended"}

\* The rejections and disconnections that end the session for good.
EndCodes == {"session_takeover", "username_in_use", "kicked", "flap_guard"}

NoPage ==
  [connState |-> "idle", endCode |-> "", creds |-> FALSE, manual |-> FALSE,
   suspend |-> FALSE, timer |-> FALSE, attempt |-> 0, needRestore |-> FALSE,
   connectedAt |-> "never", flaps |-> 0, self |-> None, selfMuted |-> FALSE,
   ws |-> None]

NoSession == [phase |-> "none", muted |-> FALSE]

Init ==
  /\ page = NoPage
  /\ guest \in BOOLEAN
  /\ sock = [i \in Sockets |-> "unused"]
  /\ inbox = [i \in Sockets |-> <<>>]
  /\ up = [i \in Sockets |-> <<>>]
  /\ srv = [i \in Sockets |-> NoSession]
  /\ acts = 0 /\ faults = 0

------------------------------------------------------------------------------
(* MumbleClient *)

Unused == {i \in Sockets : sock[i] = "unused"}
Fresh == CHOOSE i \in Unused : \A j \in Unused : i <= j

\* What a page that becomes p does to its sockets: it sends cmds on the socket
\* it had, dispose() says goodbye there and closes it, connect() opens another.
\* sk holds the sockets' states once the event being handled has happened.
PageBecomes(p, cmds, sk) ==
  LET old == page.ws
      disposed == old # None /\ p.ws = None
      bye == IF disposed THEN <<"disconnect">> ELSE <<>>
  IN /\ page' = p
     /\ up' = IF old # None /\ sk[old] = "open" THEN [up EXCEPT ![old] = @ \o cmds \o bye]
              ELSE up
     /\ sock' = [i \in Sockets |->
          CASE disposed /\ i = old /\ sk[i] \in {"connecting", "open"} -> "closed"
            [] i = p.ws /\ sk[i] = "unused" -> "connecting"
            [] OTHER -> sk[i]]

------------------------------------------------------------------------------
(* appStore: reconnection *)

\* cancelReconnect
Cancelled(p) == [p EXCEPT !.timer = FALSE, !.needRestore = FALSE]

\* endSession as it would be if the pending redial were left to fire.
EndedStillDialling(p, code) ==
  IF p.connState = "ended" THEN p
  ELSE [p EXCEPT !.connState = "ended", !.endCode = code, !.suspend = TRUE,
          !.attempt = 0, !.selfMuted = FALSE, !.ws = None]

\* endSession
Ended(p, code) ==
  IF p.connState = "ended" THEN p
  ELSE [Cancelled(p) EXCEPT !.connState = "ended", !.endCode = code, !.suspend = TRUE,
          !.attempt = 0, !.selfMuted = FALSE, !.ws = None]

\* scheduleNextAttempt that counts the attempts one too far.
ScheduledOnceMore(p) ==
  IF p.timer THEN p
  ELSE IF p.attempt > MAX_RECONNECT_ATTEMPTS
       THEN [p EXCEPT !.connState = "failed", !.attempt = 0]
       ELSE [p EXCEPT !.timer = TRUE, !.attempt = @ + 1]

\* scheduleNextAttempt
Scheduled(p) ==
  IF p.timer THEN p
  ELSE IF p.attempt + 1 > MAX_RECONNECT_ATTEMPTS
       THEN [p EXCEPT !.connState = "failed", !.attempt = 0]
       ELSE [p EXCEPT !.timer = TRUE, !.attempt = @ + 1]

\* The number of recent short sessions once this loss is counted: some of the
\* earlier ones may have left the window; a long session forgets them all.
FlapCounts(p) ==
  CASE p.connectedAt = "recent" -> {n + 1 : n \in 0..p.flaps}
    [] p.connectedAt = "old"    -> {0}
    [] p.connectedAt = "never"  -> {p.flaps}

\* beginReconnect: the pages it can lead to.
BegunReconnect(p) ==
  IF p.suspend THEN {p}
  ELSE IF ~p.creds THEN {[p EXCEPT !.connState = "failed"]}
  ELSE {IF p.connectedAt = "recent" /\ n >= FLAP_LIMIT
        THEN Ended([p EXCEPT !.flaps = n], "flap_guard")
        ELSE Scheduled([p EXCEPT !.flaps = n, !.connState = "reconnecting", !.attempt = 0])
        : n \in FlapCounts(p)}

\* onClose that counts on synced to come while the page is still syncing.
OnCloseWhenReady(p, code) ==
  IF p.manual \/ p.suspend \/ p.connState \in {"idle", "connected", "failed", "ended"} THEN {p}
  ELSE IF code = 4001 THEN {Ended(p, "session_takeover")}
  ELSE IF p.connState = "reconnecting" THEN {Scheduled(p)}
  ELSE BegunReconnect(p)

\* client.onClose: the pages a close event can lead to, by its close code.
OnClose(p, code) ==
  IF p.manual \/ p.suspend THEN {p}
  ELSE IF code = 4001 /\ p.connState # "ended" THEN {Ended(p, "session_takeover")}
  ELSE IF p.connState \in {"idle", "failed", "ended"} THEN {p}
  ELSE IF p.connState = "reconnecting" THEN {Scheduled(p)}
  ELSE BegunReconnect(p)

------------------------------------------------------------------------------
(* appStore: envelopes *)

\* handleMessage: the page it leads to; the other envelopes leave the connection.
Handled(p, m) ==
  CASE m.type = "connected" ->
         [p EXCEPT !.connState = "connected", !.self = m.session, !.attempt = 0,
            !.connectedAt = "recent",
            !.needRestore = @ \/ p.connState = "reconnecting"]
    [] m.type = "user" ->
         IF m.session = p.self THEN [p EXCEPT !.selfMuted = m.mute] ELSE p
    [] m.type = "synced" -> [p EXCEPT !.connState = "ready", !.needRestore = FALSE]
    [] m.type = "reject" ->
         IF m.code \in EndCodes THEN Ended(Cancelled(p), m.code)
         ELSE [Cancelled(p) EXCEPT !.connState = "failed", !.attempt = 0, !.endCode = m.code]
    [] m.type = "disconnected" ->
         IF m.code \in EndCodes THEN Ended(p, m.code) ELSE p
    [] m.type = "error" ->
         IF p.connState = "connecting" THEN [Cancelled(p) EXCEPT !.connState = "failed"]
         ELSE Cancelled(p)
    [] OTHER -> p

\* restoreSession, run by the synced of a reconnect, tells the proxy of the mute.
RestoreCommands(p, m) ==
  IF m.type = "synced" /\ p.needRestore /\ p.selfMuted THEN <<"mute">> ELSE <<>>

\* The head of a socket's inbox reaches ws.onmessage; a close frame closes it.
Receive(i) ==
  /\ sock[i] = "open" /\ inbox[i] # <<>>
  /\ LET m == Head(inbox[i])
     IN IF m.type = "close"
        THEN /\ sock' = [sock EXCEPT ![i] = IF m.code = 4001 THEN "closed4001" ELSE "closed"]
             /\ inbox' = [inbox EXCEPT ![i] = <<>>]
             /\ UNCHANGED <<page, up>>
        ELSE /\ inbox' = [inbox EXCEPT ![i] = Tail(@)]
             /\ PageBecomes(Handled(page, m), RestoreCommands(page, m), sock)
  /\ UNCHANGED <<guest, srv, acts, faults>>

------------------------------------------------------------------------------
(* The browser's sockets and timers *)

\* ws.onopen: the upgrade is done, and onOpen sends connect on the tab's last
\* socket, which need not be the one that opened.  Only a page that has
\* credentials opens sockets; onOpen sends nothing once they are gone.
Opens(i) ==
  /\ sock[i] = "connecting"
  /\ srv' = [srv EXCEPT ![i].phase = "idle"]
  /\ PageBecomes(page, IF page.creds THEN <<"connect">> ELSE <<>>,
                 [sock EXCEPT ![i] = "open"])
  /\ UNCHANGED <<guest, inbox, acts, faults>>

OpenFails(i) ==
  /\ sock[i] = "connecting" /\ faults < MaxFaults
  /\ sock' = [sock EXCEPT ![i] = "closed"]
  /\ faults' = faults + 1
  /\ UNCHANGED <<page, guest, inbox, up, srv, acts>>

\* The network between the browser and the proxy breaks under a socket.
NetworkDrop(i) ==
  /\ sock[i] = "open" /\ faults < MaxFaults
  /\ sock' = [sock EXCEPT ![i] = "closed"]
  /\ inbox' = [inbox EXCEPT ![i] = <<>>]
  /\ up' = [up EXCEPT ![i] = <<>>]
  /\ faults' = faults + 1
  /\ UNCHANGED <<page, guest, srv, acts>>

\* ws.onclose, whenever the browser gets to it.
Closes(i) ==
  /\ sock[i] \in {"closed", "closed4001"}
  /\ inbox' = [inbox EXCEPT ![i] = <<>>]
  /\ \E p \in OnClose(page, IF sock[i] = "closed4001" THEN 4001 ELSE 1006) :
       PageBecomes(p, <<>>, [sock EXCEPT ![i] = "dead"])
  /\ UNCHANGED <<guest, srv, acts, faults>>

\* The reconnect timer fires, or retryNow runs it early: doAttempt.
DoAttempt ==
  /\ page.timer /\ (page.creds => Unused # {})
  /\ PageBecomes(IF page.creds THEN [page EXCEPT !.timer = FALSE, !.ws = Fresh]
                 ELSE [page EXCEPT !.timer = FALSE, !.connState = "failed"], <<>>, sock)
  /\ UNCHANGED <<guest, inbox, srv, acts, faults>>

\* The tab becomes visible or the network comes back while the socket is
\* closed and its close event has not been delivered: retryNow.
RetryNow ==
  /\ page.connState \in {"connected", "ready"}
  /\ page.ws # None /\ sock[page.ws] \in {"closed", "closed4001", "dead"}
  /\ \E p \in BegunReconnect(page) : PageBecomes(p, <<>>, sock)
  /\ UNCHANGED <<guest, inbox, srv, acts, faults>>

\* Fifteen seconds pass since the last login.
LoginAges ==
  /\ page.connectedAt = "recent"
  /\ page' = [page EXCEPT !.connectedAt = "old"]
  /\ UNCHANGED <<guest, sock, inbox, up, srv, acts, faults>>

------------------------------------------------------------------------------
(* The user *)

UserDoes == acts < MaxActs /\ acts' = acts + 1 /\ UNCHANGED <<guest, inbox, srv, faults>>

\* The form is shown when there is no session; InvitePage shows it during a
\* reconnect too.
Connect ==
  /\ UserDoes /\ Unused # {}
  /\ page.connState \in {"idle", "failed"} \/ (guest /\ page.connState = "reconnecting")
  /\ PageBecomes([Cancelled(page) EXCEPT !.connState = "connecting", !.endCode = "",
                    !.manual = FALSE, !.suspend = FALSE, !.connectedAt = "never",
                    !.flaps = 0, !.creds = TRUE, !.ws = Fresh], <<>>, sock)

\* The end page's retry button, absent for a nickname in use.
RetryAfterEnd ==
  /\ UserDoes /\ page.creds /\ Unused # {}
  /\ page.connState = "ended" /\ page.endCode # "username_in_use"
  /\ PageBecomes([Cancelled(page) EXCEPT !.connState = "connecting", !.endCode = "",
                    !.manual = FALSE, !.suspend = FALSE, !.connectedAt = "never",
                    !.flaps = 0, !.attempt = 0, !.self = None, !.ws = Fresh], <<>>, sock)

\* Log out, or leave the end page.
Disconnect ==
  /\ UserDoes
  /\ page.connState \in {"ready", "reconnecting", "ended"}
  /\ PageBecomes([NoPage EXCEPT !.manual = TRUE], <<>>, sock)

\* setSelfMute whose command is not sent.
SetSelfMuteUnsent ==
  /\ UserDoes /\ page.connState \in {"ready", "reconnecting"}
  /\ PageBecomes([page EXCEPT !.selfMuted = ~@], <<>>, sock)

SetSelfMute ==
  /\ UserDoes /\ page.connState \in {"ready", "reconnecting"}
  /\ PageBecomes([page EXCEPT !.selfMuted = ~@],
                 IF page.selfMuted THEN <<"unmute">> ELSE <<"mute">>, sock)

------------------------------------------------------------------------------
(* The proxy, one session per socket, all of one clientId and nickname *)

Push(i, q) == IF sock[i] = "open" THEN [inbox EXCEPT ![i] = @ \o q] ELSE inbox
Snapshot(i) ==
  <<[type |-> "connected", session |-> i],
    [type |-> "user", session |-> i, mute |-> FALSE], [type |-> "synced"]>>
Farewell(code, close) ==
  <<[type |-> "disconnected", code |-> code], [type |-> "close", code |-> close]>>
Dialling(i) == srv[i].phase \in {"dialing", "redialing"}
LoggedIn(i) == srv[i].phase \in {"active", "redialing"}

\* The read loop takes a socket's next command, when it is not in a dial.
ReadCommand(i) ==
  /\ srv[i].phase \in {"idle", "active"} /\ up[i] # <<>>
  /\ up' = [up EXCEPT ![i] = Tail(@)]
  /\ LET c == Head(up[i]) IN
     \/ /\ c = "connect" /\ \E j \in Sockets \ {i} : Dialling(j)
        /\ inbox' = Push(i, <<[type |-> "reject", code |-> "username_in_use"]>>)
        /\ UNCHANGED srv
     \/ /\ c = "connect" /\ \A j \in Sockets : ~Dialling(j)
        /\ srv' = [srv EXCEPT ![i].phase = IF @ = "active" THEN "redialing" ELSE "dialing"]
        /\ UNCHANGED inbox
     \/ /\ c = "disconnect"
        /\ srv' = [srv EXCEPT ![i] = [phase |-> "gone", muted |-> FALSE]]
        /\ UNCHANGED inbox
     \/ /\ c \in {"mute", "unmute"} /\ srv[i].phase = "active"
        /\ srv' = [srv EXCEPT ![i].muted = (c = "mute")]
        /\ inbox' = Push(i, <<[type |-> "user", session |-> i, mute |-> (c = "mute")]>>)
     \/ /\ c \in {"mute", "unmute"} /\ srv[i].phase = "idle"
        /\ UNCHANGED <<srv, inbox>>
  /\ UNCHANGED <<page, guest, sock, acts, faults>>

\* A dial succeeds.  The session of this tab that had the nickname is ended as
\* taken over; a second connect on one socket makes that the session itself.
DialSucceeds(i) ==
  /\ Dialling(i)
  /\ LET self == srv[i].phase = "redialing"
         prev == {j \in Sockets \ {i} : LoggedIn(j)}
     IN /\ srv' = [j \in Sockets |->
             IF j \in prev \/ (j = i /\ self) THEN [phase |-> "gone", muted |-> FALSE]
             ELSE IF j = i THEN [phase |-> "active", muted |-> FALSE] ELSE srv[j]]
        /\ inbox' = [j \in Sockets |->
             IF sock[j] # "open" THEN inbox[j]
             ELSE IF j = i THEN inbox[j] \o Snapshot(i) \o
                    (IF self THEN Farewell("session_takeover", 4001) ELSE <<>>)
             ELSE IF j \in prev THEN inbox[j] \o Farewell("session_takeover", 4001)
             ELSE inbox[j]]
  /\ UNCHANGED <<page, guest, sock, up, acts, faults>>

\* A dial fails: the upstream refuses (reject), or WebRTC cannot start (error).
DialFails(i) ==
  /\ Dialling(i) /\ faults < MaxFaults
  /\ \E m \in {[type |-> "reject", code |-> "network"], [type |-> "error"]} :
       inbox' = Push(i, <<m>>)
  /\ srv' = [srv EXCEPT ![i].phase = IF @ = "redialing" THEN "active" ELSE "idle"]
  /\ faults' = faults + 1
  /\ UNCHANGED <<page, guest, sock, up, acts>>

\* The upstream connection of a session breaks, or an administrator kicks it.
UpstreamLost(i) ==
  /\ srv[i].phase = "active" /\ faults < MaxFaults
  /\ \E f \in {Farewell("network", 1011), Farewell("kicked", 4001)} : inbox' = Push(i, f)
  /\ srv' = [srv EXCEPT ![i] = [phase |-> "gone", muted |-> FALSE]]
  /\ faults' = faults + 1
  /\ UNCHANGED <<page, guest, sock, up, acts>>

\* The read loop sees that the browser's end is closed, after the commands the
\* browser had sent.
SeesClose(i) ==
  /\ srv[i].phase \in {"idle", "active"} /\ up[i] = <<>>
  /\ sock[i] \in {"closed", "closed4001", "dead"}
  /\ srv' = [srv EXCEPT ![i] = [phase |-> "gone", muted |-> FALSE]]
  /\ UNCHANGED <<page, guest, sock, inbox, up, acts, faults>>

------------------------------------------------------------------------------
User == Connect \/ RetryAfterEnd \/ Disconnect \/ SetSelfMute
Browser(i) == Opens(i) \/ OpenFails(i) \/ NetworkDrop(i) \/ Closes(i) \/ Receive(i)
Proxy(i) == ReadCommand(i) \/ DialSucceeds(i) \/ DialFails(i) \/ UpstreamLost(i) \/ SeesClose(i)

Next ==
  \/ User \/ DoAttempt \/ RetryNow \/ LoginAges
  \/ \E i \in Sockets : Browser(i) \/ Proxy(i)

Spec == Init /\ [][Next]_vars
------------------------------------------------------------------------------
(* Properties *)

Commands == {"connect", "disconnect", "mute", "unmute"}

\* Types; a page waits for a redial only while it may still redial.
TypeOK ==
  /\ page.connState \in ConnStates /\ page.endCode \in EndCodes \union {"", "network"}
  /\ {page.creds, page.manual, page.suspend, page.timer, page.needRestore,
      page.selfMuted, guest} \subseteq BOOLEAN
  /\ page.attempt \in 0..MAX_RECONNECT_ATTEMPTS
  /\ page.connectedAt \in {"never", "recent", "old"} /\ page.flaps \in 0..FLAP_LIMIT
  /\ {page.self, page.ws} \subseteq Sockets \union {None}
  /\ sock \in [Sockets -> {"unused", "connecting", "open", "closed", "closed4001", "dead"}]
  /\ \A i \in Sockets : up[i] \in Seq(Commands)
  /\ srv \in [Sockets -> [phase : {"none", "idle", "dialing", "active", "redialing", "gone"},
                          muted : BOOLEAN]]
  /\ page.timer => page.connState \in {"reconnecting", "connected", "ready", "failed"}

\* A socket that still has something to say to the page.
Speaks(i) == sock[i] \in {"connecting", "open", "closed", "closed4001"}

\* No screen outlives its connection.  A page that shows a session has a socket
\* that can still end it, unless the user has left or the session has ended; a
\* page that says it is reconnecting has a redial pending or under way.
\* (onClose, appStore.ts:257, with every way a socket and a timer can go.)
NoDeadScreen ==
  /\ page.connState \in {"connected", "ready"} =>
       page.manual \/ page.suspend \/ \E i \in Sockets : Speaks(i)
  /\ page.connState = "reconnecting" => page.timer \/ \E i \in Sockets : Speaks(i)

\* At rest, the mute the page shows is the mute Murmur has: neither commands
\* lost in a reconnect nor echoes that arrive late leave them apart.
MuteAgrees ==
  LET i == page.ws
  IN /\ page.connState = "ready" /\ i # None /\ page.self = i
     /\ sock[i] = "open" /\ inbox[i] = <<>> /\ up[i] = <<>> /\ srv[i].phase = "active"
     => page.selfMuted = srv[i].muted

\* No socket is opened behind the user's back: after a logout or on the end
\* page only the user's own connect or retry dials.
DialsOnlyWhenWanted ==
  [][Cardinality(Unused) # Cardinality(Unused')
     => acts' # acts \/ (page.creds /\ ~page.manual /\ ~page.suspend)]_vars

\* A tab's own reconnect is not taken for a second login: with no other tab and
\* no other client about, the page never ends as taken over or as refused for a
\* nickname in use (README.md:173).
OwnReconnectIsNotTakeover ==
  page.connState = "ended" => page.endCode \notin {"session_takeover", "username_in_use"}

\* Between a reconnect's login and its synced, when the mute is restored, the
\* page does not forget that the user is muted (appStore.ts:443).
RestoreKeepsMute ==
  [][page.needRestore /\ page'.needRestore /\ page.selfMuted => page'.selfMuted]_vars
=============================================================================
