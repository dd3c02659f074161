--------------------------- MODULE WebClientProofs --------------------------
(***************************************************************************)
(* The tab opens no WebSocket behind the user's back, shows no session     *)
(* that nothing can end, and shows the mute that Murmur has: proofs for    *)
(* any number of sockets, attempts, users' acts and faults, of the         *)
(* properties of WebClient that TLC checks on three sockets.               *)
(***************************************************************************)
EXTENDS WebClient, WellFoundedInduction, TLAPS

(* What a socket may be.                                                   *)
SockStates == {"unused", "connecting", "open", "closed", "closed4001", "dead"}

(* The fields of a page's record.                                          *)
PageFields == DOMAIN NoPage

(* A page's fields as far as dialling depends on them: a redial is pending *)
(* only for a page that may redial, a page the user has left has no        *)
(* socket, and a page reconnects only with credentials.                    *)
PageOk(p) ==
  /\ p = [f \in PageFields |-> p[f]]
  /\ p.timer \in BOOLEAN /\ p.creds \in BOOLEAN
  /\ p.manual \in BOOLEAN /\ p.suspend \in BOOLEAN
  /\ p.timer => p.creds /\ ~p.manual /\ ~p.suspend
  /\ p.manual => p.ws = None
  /\ p.connState = "reconnecting" => p.creds

(* The page q has the socket of p, or none.                                *)
KeepsSocket(p, q) == q.ws = p.ws \/ q.ws = None

(* The inductive invariant of dialling.                                    *)
DialInv ==
  /\ PageOk(page)
  /\ sock \in [Sockets -> SockStates]
  /\ page.ws \in Sockets => sock[page.ws] # "unused"
  /\ acts \in Nat

(* Cancelling a redial, ending the session and beginning to reconnect keep *)
(* a page right.                                                           *)
LEMMA CancelledOk ==
  ASSUME NEW p, PageOk(p)
  PROVE  PageOk(Cancelled(p)) /\ KeepsSocket(p, Cancelled(p))
BY DEF PageOk, PageFields, NoPage, Cancelled, KeepsSocket

(* endSession.                                                             *)
LEMMA EndedOk ==
  ASSUME NEW p, PageOk(p), NEW code
  PROVE  PageOk(Ended(p, code)) /\ KeepsSocket(p, Ended(p, code))
BY DEF PageOk, PageFields, NoPage, Cancelled, Ended, KeepsSocket

(* scheduleNextAttempt, for a page that may redial.                        *)
LEMMA ScheduledOk ==
  ASSUME NEW p, PageOk(p), p.creds, ~p.manual, ~p.suspend
  PROVE  PageOk(Scheduled(p)) /\ KeepsSocket(p, Scheduled(p))
BY DEF PageOk, PageFields, NoPage, Scheduled, KeepsSocket

(* beginReconnect.                                                         *)
LEMMA BegunReconnectOk ==
  ASSUME NEW p, PageOk(p), ~p.manual, NEW q \in BegunReconnect(p)
  PROVE  PageOk(q) /\ KeepsSocket(p, q)
<1>1. CASE p.suspend
  BY <1>1 DEF BegunReconnect, KeepsSocket
<1>2. CASE ~p.suspend /\ ~p.creds
  BY <1>2 DEF BegunReconnect, KeepsSocket, PageOk, PageFields, NoPage
<1>3. CASE ~p.suspend /\ p.creds
  <2>1. PICK n \in FlapCounts(p) :
          q = IF p.connectedAt = "recent" /\ n >= FLAP_LIMIT
              THEN Ended([p EXCEPT !.flaps = n], "flap_guard")
              ELSE Scheduled([p EXCEPT !.flaps = n, !.connState = "reconnecting", !.attempt = 0])
    BY <1>3 DEF BegunReconnect
  <2> DEFINE r == [p EXCEPT !.flaps = n]
             s == [p EXCEPT !.flaps = n, !.connState = "reconnecting", !.attempt = 0]
  <2>2. PageOk(r) /\ r.ws = p.ws
    BY DEF PageOk, PageFields, NoPage
  <2>3. PageOk(s) /\ s.ws = p.ws /\ s.creds /\ ~s.manual /\ ~s.suspend
    BY <1>3 DEF PageOk, PageFields, NoPage
  <2>4. PageOk(Ended(r, "flap_guard")) /\ KeepsSocket(p, Ended(r, "flap_guard"))
    BY <2>2, EndedOk DEF KeepsSocket
  <2>5. PageOk(Scheduled(s)) /\ KeepsSocket(p, Scheduled(s))
    BY <2>3, ScheduledOk DEF KeepsSocket
  <2>6. QED
    BY <2>1, <2>4, <2>5
<1>4. QED
  BY <1>1, <1>2, <1>3

(* onclose of the page's socket.                                           *)
LEMMA OnCloseOk ==
  ASSUME NEW p, PageOk(p), NEW code, NEW q \in OnClose(p, code)
  PROVE  PageOk(q) /\ KeepsSocket(p, q)
<1>1. CASE p.manual \/ p.suspend
  BY <1>1 DEF OnClose, KeepsSocket
<1>2. CASE ~(p.manual \/ p.suspend) /\ code = 4001 /\ p.connState # "ended"
  BY <1>2, EndedOk DEF OnClose
<1>3. CASE ~(p.manual \/ p.suspend) /\ ~(code = 4001 /\ p.connState # "ended")
  <2>1. CASE p.connState \in {"idle", "failed", "ended"}
    BY <1>3, <2>1 DEF OnClose, KeepsSocket
  <2>2. CASE p.connState = "reconnecting"
    <3>1. q = Scheduled(p)
      BY <1>3, <2>2 DEF OnClose
    <3>2. QED
      BY <1>3, <2>2, <3>1, ScheduledOk DEF PageOk
  <2>3. CASE p.connState \notin {"idle", "failed", "ended", "reconnecting"}
    <3>1. q \in BegunReconnect(p)
      BY <1>3, <2>3 DEF OnClose
    <3>2. QED
      BY <1>3, <3>1, BegunReconnectOk
  <2>4. QED
    BY <2>1, <2>2, <2>3
<1>4. QED
  BY <1>1, <1>2, <1>3

(* An envelope never opens a socket, nor lets a redial wait that may not.  *)
LEMMA HandledOk ==
  ASSUME NEW p, PageOk(p), NEW m
  PROVE  PageOk(Handled(p, m)) /\ KeepsSocket(p, Handled(p, m))
<1> DEFINE c == Cancelled(p)
<1>1. PageOk(c) /\ c.ws = p.ws
  BY CancelledOk DEF Cancelled, PageOk, PageFields, NoPage
<1>2. CASE m.type = "connected"
  BY <1>2 DEF Handled, KeepsSocket, PageOk, PageFields, NoPage
<1>3. CASE m.type = "user"
  BY <1>3 DEF Handled, KeepsSocket, PageOk, PageFields, NoPage
<1>4. CASE m.type = "synced"
  BY <1>4 DEF Handled, KeepsSocket, PageOk, PageFields, NoPage
<1>5. CASE m.type = "reject"
  <2>1. CASE m.code \in EndCodes
    <3>1. Handled(p, m) = Ended(c, m.code)
      BY <1>5, <2>1 DEF Handled
    <3>2. QED
      BY <1>1, <3>1, EndedOk DEF KeepsSocket
  <2>2. CASE m.code \notin EndCodes
    <3>1. Handled(p, m) = [c EXCEPT !.connState = "failed", !.attempt = 0, !.endCode = m.code]
      BY <1>5, <2>2 DEF Handled
    <3>2. QED
      BY <1>1, <3>1 DEF KeepsSocket, PageOk, PageFields, NoPage
  <2>3. QED
    BY <2>1, <2>2
<1>6. CASE m.type = "disconnected"
  <2>1. Handled(p, m) \in {p, Ended(p, m.code)}
    BY <1>6 DEF Handled
  <2>2. QED
    BY <2>1, EndedOk DEF KeepsSocket
<1>7. CASE m.type = "error"
  <2>1. Handled(p, m) \in {c, [c EXCEPT !.connState = "failed"]}
    BY <1>7 DEF Handled
  <2>2. QED
    BY <1>1, <2>1 DEF KeepsSocket, PageOk, PageFields, NoPage
<1>8. CASE m.type \notin {"connected", "user", "synced", "reject", "disconnected", "error"}
  BY <1>8 DEF Handled, KeepsSocket
<1>9. QED
  BY <1>2, <1>3, <1>4, <1>5, <1>6, <1>7, <1>8

(* What becomes of the sockets when the page becomes p: the one p has is   *)
(* in use, and none is taken into use unless p has one the page had not.   *)
LEMMA PageBecomesOk ==
  ASSUME NEW p, NEW cmds, NEW sk \in [Sockets -> SockStates], PageBecomes(p, cmds, sk)
  PROVE  /\ page' = p
         /\ sock' \in [Sockets -> SockStates]
         /\ p.ws \in Sockets => sock'[p.ws] # "unused"
         /\ KeepsSocket(page, p) /\ (page.ws \in Sockets => sk[page.ws] # "unused")
              => Unused' = {i \in Sockets : sk[i] = "unused"}
<1> DEFINE was == page.ws
           disposed == was # None /\ p.ws = None
           moved(i) == CASE disposed /\ i = was /\ sk[i] \in {"connecting", "open"} -> "closed"
                         [] i = p.ws /\ sk[i] = "unused" -> "connecting"
                         [] OTHER -> sk[i]
<1>1. page' = p /\ sock' = [i \in Sockets |-> moved(i)]
  BY DEF PageBecomes
<1>2. \A i \in Sockets : moved(i) \in SockStates
  BY DEF SockStates
<1>3. p.ws \in Sockets => moved(p.ws) # "unused"
  BY SocketsAssumption DEF None
<1>4. ASSUME KeepsSocket(page, p), page.ws \in Sockets => sk[page.ws] # "unused",
             NEW i \in Sockets
      PROVE  moved(i) = "unused" <=> sk[i] = "unused"
  BY <1>4, SocketsAssumption DEF KeepsSocket, None
<1>5. KeepsSocket(page, p) /\ (page.ws \in Sockets => sk[page.ws] # "unused")
        => Unused' = {i \in Sockets : sk[i] = "unused"}
  <2> HIDE DEF moved
  <2>1. Unused' = {i \in Sockets : moved(i) = "unused"}
    BY <1>1 DEF Unused
  <2>2. QED
    BY <2>1, <1>4
<1>6. QED
  <2> HIDE DEF moved
  <2>1. QED
    BY <1>1, <1>2, <1>3, <1>5


(* A page that has just been loaded.                                       *)
LEMMA InitDialInv ==
  Init => DialInv
<1> SUFFICES ASSUME Init PROVE DialInv
  OBVIOUS
<1>1. PageOk(NoPage)
  BY DEF PageOk, PageFields, NoPage
<1>2. page = NoPage /\ acts = 0 /\ sock = [i \in Sockets |-> "unused"]
  BY DEF Init
<1>3. page.ws \notin Sockets
  BY <1>2, SocketsAssumption DEF NoPage, None
<1>4. QED
  BY <1>1, <1>2, <1>3 DEF DialInv, SockStates

(* A step that moves the page on, by an event that changes the sockets to  *)
(* sk without opening one, keeps the invariant and the unused sockets.     *)
LEMMA StaysOk ==
  ASSUME DialInv, NEW p, PageOk(p), KeepsSocket(page, p), NEW cmds,
         NEW sk \in [Sockets -> SockStates],
         \A j \in Sockets : sk[j] = "unused" <=> sock[j] = "unused",
         PageBecomes(p, cmds, sk), acts' \in Nat
  PROVE  DialInv' /\ Unused' = Unused
<1>1. page.ws \in Sockets => sk[page.ws] # "unused"
  BY DEF DialInv
<1>2. page' = p /\ sock' \in [Sockets -> SockStates] /\ (p.ws \in Sockets => sock'[p.ws] # "unused")
  BY PageBecomesOk
<1>3. Unused' = {i \in Sockets : sk[i] = "unused"}
  BY <1>1, PageBecomesOk
<1>4. Unused' = Unused
  BY <1>3 DEF Unused
<1>5. PageOk(page')
  BY <1>2
<1>6. QED
  BY <1>2, <1>4, <1>5 DEF DialInv, PageOk

(* A step that takes a new socket into use.                                *)
LEMMA DialsOk ==
  ASSUME DialInv, NEW p, PageOk(p), PageBecomes(p, <<>>, sock), acts' \in Nat
  PROVE  DialInv'
<1>1. page' = p /\ sock' \in [Sockets -> SockStates] /\ (p.ws \in Sockets => sock'[p.ws] # "unused")
  BY PageBecomesOk DEF DialInv
<1>2. QED
  BY <1>1 DEF DialInv, PageOk

(* What a step may do to the sockets in use.                               *)
Wanted ==
  Unused' = Unused \/ acts' # acts \/ (page.creds /\ ~page.manual /\ ~page.suspend)

(* What the browser does keeps it, and makes no socket.                    *)
LEMMA BrowserOk ==
  ASSUME DialInv, NEW i \in Sockets, Browser(i)
  PROVE  DialInv' /\ Unused' = Unused
<1> USE DEF DialInv
<1>1. CASE Opens(i)
  <2> DEFINE sk == [sock EXCEPT ![i] = "open"]
             cmds == IF page.creds THEN <<"connect">> ELSE <<>>
  <2>1. PageBecomes(page, cmds, sk) /\ sock[i] = "connecting" /\ acts' \in Nat
    BY <1>1 DEF Opens
  <2>2. sk \in [Sockets -> SockStates] /\ \A j \in Sockets : sk[j] = "unused" <=> sock[j] = "unused"
    BY <2>1 DEF SockStates
  <2>3. KeepsSocket(page, page)
    BY DEF KeepsSocket
  <2>4. QED
    <3> HIDE DEF sk, cmds
    <3>1. QED
      BY <2>1, <2>2, <2>3, StaysOk
<1>2. CASE OpenFails(i) \/ NetworkDrop(i)
  <2>1. sock' = [sock EXCEPT ![i] = "closed"] /\ sock[i] # "unused" /\ page' = page /\ acts' = acts
    BY <1>2 DEF OpenFails, NetworkDrop
  <2>2. sock' \in [Sockets -> SockStates] /\ \A j \in Sockets : sock'[j] = "unused" <=> sock[j] = "unused"
    BY <2>1 DEF SockStates
  <2>3. QED
    BY <2>1, <2>2 DEF Unused, PageOk
<1>3. CASE Closes(i)
  <2> DEFINE sk == [sock EXCEPT ![i] = "dead"]
             code == IF sock[i] = "closed4001" THEN 4001 ELSE 1006
  <2>1. PICK p \in OnClose(page, code) : PageBecomes(p, <<>>, sk)
    BY <1>3 DEF Closes
  <2>2. sock[i] # "unused" /\ acts' \in Nat
    BY <1>3 DEF Closes
  <2>3. sk \in [Sockets -> SockStates] /\ \A j \in Sockets : sk[j] = "unused" <=> sock[j] = "unused"
    BY <2>2 DEF SockStates
  <2>4. PageOk(p) /\ KeepsSocket(page, p)
    BY OnCloseOk
  <2>5. QED
    <3> HIDE DEF sk
    <3>1. QED
      BY <2>1, <2>2, <2>3, <2>4, StaysOk
<1>4. CASE Receive(i)
  <2> DEFINE m == Head(inbox[i])
  <2>1. CASE m.type = "close"
    <3>1. sock' = [sock EXCEPT ![i] = IF m.code = 4001 THEN "closed4001" ELSE "closed"]
          /\ sock[i] = "open" /\ page' = page /\ acts' = acts
      BY <1>4, <2>1 DEF Receive
    <3>2. sock' \in [Sockets -> SockStates] /\ \A j \in Sockets : sock'[j] = "unused" <=> sock[j] = "unused"
      BY <3>1 DEF SockStates
    <3>3. QED
      BY <3>1, <3>2 DEF Unused, PageOk
  <2>2. CASE m.type # "close"
    <3> DEFINE p == Handled(page, m)
               cmds == RestoreCommands(page, m)
    <3>1. PageBecomes(p, cmds, sock) /\ acts' \in Nat
      BY <1>4, <2>2 DEF Receive
    <3>2. PageOk(p) /\ KeepsSocket(page, p)
      BY HandledOk
    <3>3. QED
      <4> HIDE DEF p, cmds
      <4>1. QED
        BY <3>1, <3>2, StaysOk
  <2>3. QED
    BY <2>1, <2>2
<1>5. QED
  BY <1>1, <1>2, <1>3, <1>4 DEF Browser

(* What the user does keeps it, and counts as an act.                      *)
LEMMA UserOk ==
  ASSUME DialInv, User
  PROVE  DialInv' /\ acts' # acts
<1>1. acts' = acts + 1 /\ acts \in Nat /\ PageOk(page)
  BY DEF User, UserDoes, Connect, RetryAfterEnd, Disconnect, SetSelfMute, DialInv
<1>2. \E p : PageOk(p) /\ \E cmds : PageBecomes(p, cmds, sock)
  <2>1. CASE Connect
    <3>1. PageOk([Cancelled(page) EXCEPT !.connState = "connecting", !.endCode = "",
                    !.manual = FALSE, !.suspend = FALSE, !.connectedAt = "never",
                    !.flaps = 0, !.creds = TRUE, !.ws = Fresh])
      BY <1>1 DEF PageOk, PageFields, NoPage, Cancelled
    <3>2. QED
      BY <2>1, <3>1 DEF Connect
  <2>2. CASE RetryAfterEnd
    <3>1. PageOk([Cancelled(page) EXCEPT !.connState = "connecting", !.endCode = "",
                    !.manual = FALSE, !.suspend = FALSE, !.connectedAt = "never",
                    !.flaps = 0, !.attempt = 0, !.self = None, !.ws = Fresh])
      BY <1>1 DEF PageOk, PageFields, NoPage, Cancelled
    <3>2. QED
      BY <2>2, <3>1 DEF RetryAfterEnd
  <2>3. CASE Disconnect
    <3>1. PageOk([NoPage EXCEPT !.manual = TRUE])
      BY DEF PageOk, PageFields, NoPage
    <3>2. QED
      BY <2>3, <3>1 DEF Disconnect
  <2>4. CASE SetSelfMute
    <3>1. PageOk([page EXCEPT !.selfMuted = ~@])
      BY <1>1 DEF PageOk, PageFields, NoPage
    <3>2. QED
      BY <2>4, <3>1 DEF SetSelfMute
  <2>5. QED
    BY <2>1, <2>2, <2>3, <2>4 DEF User
<1>3. PICK p, cmds : PageOk(p) /\ PageBecomes(p, cmds, sock)
  BY <1>2
<1>4. page' = p /\ sock' \in [Sockets -> SockStates] /\ (p.ws \in Sockets => sock'[p.ws] # "unused")
  BY <1>3, PageBecomesOk DEF DialInv
<1>5. QED
  BY <1>1, <1>3, <1>4 DEF DialInv, PageOk

(* Every step keeps the invariant and opens only wanted sockets.           *)
LEMMA StepOk ==
  ASSUME DialInv, [Next]_vars
  PROVE  DialInv' /\ Wanted
<1>1. CASE User
  BY <1>1, UserOk DEF Wanted
<1>2. CASE DoAttempt
  <2>1. page.timer /\ PageOk(page) /\ acts' \in Nat
    BY <1>2 DEF DoAttempt, DialInv
  <2>2. page.creds /\ ~page.manual /\ ~page.suspend
    BY <2>1 DEF PageOk
  <2>3. PageBecomes([page EXCEPT !.timer = FALSE, !.ws = Fresh], <<>>, sock)
    BY <1>2, <2>2 DEF DoAttempt
  <2>4. PageOk([page EXCEPT !.timer = FALSE, !.ws = Fresh])
    BY <2>1, <2>2 DEF PageOk, PageFields, NoPage
  <2>5. QED
    BY <2>1, <2>2, <2>3, <2>4, DialsOk DEF Wanted
<1>3. CASE RetryNow
  <2>1. PICK p \in BegunReconnect(page) : PageBecomes(p, <<>>, sock)
    BY <1>3 DEF RetryNow
  <2>2. acts' \in Nat /\ PageOk(page) /\ sock \in [Sockets -> SockStates]
    BY <1>3 DEF RetryNow, DialInv
  <2>3. ~page.manual
    BY <1>3, <2>2 DEF RetryNow, PageOk
  <2>4. PageOk(p) /\ KeepsSocket(page, p)
    BY <2>1, <2>2, <2>3, BegunReconnectOk
  <2>5. QED
    BY <2>1, <2>2, <2>4, StaysOk DEF Wanted
<1>4. CASE LoginAges
  <2>1. PageOk(page') /\ page'.ws = page.ws /\ sock' = sock /\ acts' = acts
    BY <1>4 DEF LoginAges, DialInv, PageOk, PageFields, NoPage
  <2>2. QED
    BY <2>1 DEF DialInv, Wanted, Unused, PageOk
<1>5. CASE \E i \in Sockets : Browser(i)
  BY <1>5, BrowserOk DEF Wanted
<1>6. CASE \E i \in Sockets : Proxy(i)
  <2>1. UNCHANGED <<page, sock, acts>>
    <3>1. ASSUME NEW i \in Sockets, Proxy(i) PROVE UNCHANGED <<page, sock, acts>>
      <4>1. CASE ReadCommand(i)
        BY <4>1 DEF ReadCommand
      <4>2. CASE DialSucceeds(i)
        BY <4>2 DEF DialSucceeds
      <4>3. CASE DialFails(i) \/ UpstreamLost(i) \/ SeesClose(i)
        BY <4>3 DEF DialFails, UpstreamLost, SeesClose
      <4>4. QED
        BY <3>1, <4>1, <4>2, <4>3 DEF Proxy
    <3>2. QED
      BY <1>6, <3>1
  <2>2. QED
    BY <2>1 DEF DialInv, Wanted, Unused, PageOk
<1>7. CASE UNCHANGED vars
  BY <1>7 DEF vars, DialInv, Wanted, Unused, PageOk
<1>8. QED
  BY <1>1, <1>2, <1>3, <1>4, <1>5, <1>6, <1>7 DEF Next

(* After a logout, on the end page and on a page without credentials, no   *)
(* timer, close event or envelope opens a WebSocket: only the user's own   *)
(* connect or retry does (connect, doAttempt, endSession, disconnect in    *)
(* appStore.ts).                                                           *)
THEOREM NoDialBehindTheUser ==
  Spec => DialsOnlyWhenWanted
<1>1. Init => DialInv
  BY InitDialInv
<1>2. DialInv /\ [Next]_vars => DialInv'
  BY StepOk
<1>3. DialInv /\ [Next]_vars =>
        [Cardinality(Unused) # Cardinality(Unused')
           => acts' # acts \/ (page.creds /\ ~page.manual /\ ~page.suspend)]_vars
  BY StepOk DEF Wanted
<1>4. QED
  BY <1>1, <1>2, <1>3, PTL DEF Spec, DialsOnlyWhenWanted

----------------------------------------------------------------------------
(* Types: what a page, an envelope and a command may be.                   *)

(* The page's record.                                                      *)
PageRecords ==
  [connState : ConnStates, endCode : EndCodes \union {"", "network"}, creds : BOOLEAN,
   manual : BOOLEAN, suspend : BOOLEAN, timer : BOOLEAN,
   attempt : 0..MAX_RECONNECT_ATTEMPTS, needRestore : BOOLEAN,
   connectedAt : {"never", "recent", "old"}, flaps : 0..FLAP_LIMIT,
   self : Sockets \union {None}, selfMuted : BOOLEAN, ws : Sockets \union {None}]

(* A page's own record: endSession suspends redials, the flap guard ends   *)
(* the session when it fires, and only a page that may redial reconnects.  *)
PageTyped(p) ==
  /\ p \in PageRecords
  /\ p.timer => p.connState \in {"reconnecting", "connected", "ready", "failed"}
  /\ p.flaps = FLAP_LIMIT => p.suspend
  /\ p.connState = "ended" => p.suspend
  /\ p.connState = "reconnecting" => ~p.manual /\ ~p.suspend

(* The envelopes a socket's session sends.                                 *)
Logins(i) == {[type |-> "connected", session |-> i], [type |-> "synced"]}
(* The mute that Murmur tells of.                                          *)
Echoes(i) == {[type |-> "user", session |-> i, mute |-> b] : b \in BOOLEAN}
(* A dial refused.                                                         *)
Refusals ==
  {[type |-> "reject", code |-> c] : c \in {"username_in_use", "network"}} \union {[type |-> "error"]}
(* The upstream lost.                                                      *)
Losses == {[type |-> "disconnected", code |-> c] : c \in {"session_takeover", "network", "kicked"}}
(* The code of a close.                                                    *)
Closings == {[type |-> "close", code |-> c] : c \in {4001, 1011}}

(* Whatever is on its way to a page.                                       *)
Messages(i) == Logins(i) \union Echoes(i) \union Refusals \union Losses \union Closings

(* The proxy's session of a socket.                                        *)
Sessions == [phase : {"none", "idle", "dialing", "active", "redialing", "gone"}, muted : BOOLEAN]

(* Types strong enough for the invariants.                                 *)
Typed ==
  /\ PageTyped(page)
  /\ guest \in BOOLEAN
  /\ \A i \in Sockets : up[i] \in Seq(Commands)
  /\ \A i \in Sockets : inbox[i] \in Seq(Messages(i))
  /\ srv \in [Sockets -> Sessions]
  /\ DOMAIN up = Sockets /\ DOMAIN inbox = Sockets

(* The page q is p with its socket and its mute, or has no socket.         *)
KeepsMute(p, q) ==
  q.ws = None \/ (q.ws = p.ws /\ q.self = p.self /\ q.selfMuted = p.selfMuted)

(* The fields of a page, and a page of given fields.                       *)
LEMMA FieldsTyped ==
  ASSUME NEW p \in PageRecords
  PROVE  /\ p.connState \in ConnStates /\ p.endCode \in EndCodes \union {"", "network"}
         /\ p.creds \in BOOLEAN /\ p.manual \in BOOLEAN /\ p.suspend \in BOOLEAN
         /\ p.timer \in BOOLEAN /\ p.needRestore \in BOOLEAN /\ p.selfMuted \in BOOLEAN
         /\ p.attempt \in Nat /\ p.attempt <= MAX_RECONNECT_ATTEMPTS
         /\ p.connectedAt \in {"never", "recent", "old"}
         /\ p.flaps \in Nat /\ p.flaps <= FLAP_LIMIT
         /\ p.self \in Sockets \union {None} /\ p.ws \in Sockets \union {None}
<1>1. p.attempt \in 0..MAX_RECONNECT_ATTEMPTS /\ p.flaps \in 0..FLAP_LIMIT
  BY DEF PageRecords
<1>2. p.attempt \in Nat /\ p.attempt <= MAX_RECONNECT_ATTEMPTS
  BY <1>1, LimitsAssumption
<1>3. p.flaps \in Nat /\ p.flaps <= FLAP_LIMIT
  BY <1>1, LimitsAssumption
<1>4. QED
  BY <1>2, <1>3 DEF PageRecords

(* The page's operations keep its types and its mute: cancelling a redial, *)
LEMMA CancelledTyped ==
  ASSUME NEW p, PageTyped(p)
  PROVE  PageTyped(Cancelled(p)) /\ KeepsMute(p, Cancelled(p))
BY DEF PageTyped, PageRecords, Cancelled, KeepsMute

(* endSession,                                                             *)
LEMMA EndedTyped ==
  ASSUME NEW p, PageTyped(p), NEW code \in EndCodes
  PROVE  PageTyped(Ended(p, code)) /\ KeepsMute(p, Ended(p, code))
<1>1. CASE p.connState = "ended"
  BY <1>1 DEF Ended, KeepsMute
<1>2. CASE p.connState # "ended"
  <2>1. 0 \in 0..MAX_RECONNECT_ATTEMPTS
    BY LimitsAssumption
  <2>2. QED
    BY <1>2, <2>1 DEF PageTyped, PageRecords, Cancelled, Ended, KeepsMute, ConnStates
<1>3. QED
  BY <1>1, <1>2

(* scheduleNextAttempt,                                                    *)
LEMMA ScheduledTyped ==
  ASSUME NEW p, PageTyped(p), p.connState = "reconnecting"
  PROVE  PageTyped(Scheduled(p)) /\ KeepsMute(p, Scheduled(p))
<1>1. CASE p.timer
  BY <1>1 DEF Scheduled, KeepsMute
<1>2. CASE ~p.timer /\ p.attempt + 1 > MAX_RECONNECT_ATTEMPTS
  <2>1. 0 \in 0..MAX_RECONNECT_ATTEMPTS
    BY LimitsAssumption
  <2>2. Scheduled(p) = [p EXCEPT !.connState = "failed", !.attempt = 0]
    BY <1>2 DEF Scheduled
  <2>3. QED
    BY <1>2, <2>1, <2>2 DEF KeepsMute, PageTyped, PageRecords, ConnStates
<1>3. CASE ~p.timer /\ ~(p.attempt + 1 > MAX_RECONNECT_ATTEMPTS)
  <2>1. p.attempt + 1 \in 0..MAX_RECONNECT_ATTEMPTS
    <3>1. p.attempt \in Nat
      BY FieldsTyped DEF PageTyped
    <3>2. QED
      BY <1>3, <3>1, LimitsAssumption
  <2>2. Scheduled(p) = [p EXCEPT !.timer = TRUE, !.attempt = p.attempt + 1]
    BY <1>3 DEF Scheduled
  <2>3. QED
    BY <2>1, <2>2 DEF KeepsMute, PageTyped, PageRecords
<1>4. QED
  BY <1>1, <1>2, <1>3

(* beginReconnect,                                                         *)
LEMMA BegunReconnectTyped ==
  ASSUME NEW p, PageTyped(p), ~p.manual, NEW q \in BegunReconnect(p)
  PROVE  PageTyped(q) /\ KeepsMute(p, q)
<1>1. CASE p.suspend
  BY <1>1 DEF BegunReconnect, KeepsMute
<1>2. CASE ~p.suspend /\ ~p.creds
  <2>1. q = [p EXCEPT !.connState = "failed"]
    BY <1>2 DEF BegunReconnect
  <2>2. QED
    BY <2>1 DEF KeepsMute, PageTyped, PageRecords, ConnStates
<1>3. CASE ~p.suspend /\ p.creds
  <2>1. PICK n \in FlapCounts(p) :
          q = IF p.connectedAt = "recent" /\ n >= FLAP_LIMIT
              THEN Ended([p EXCEPT !.flaps = n], "flap_guard")
              ELSE Scheduled([p EXCEPT !.flaps = n, !.connState = "reconnecting", !.attempt = 0])
    BY <1>3 DEF BegunReconnect
  <2> DEFINE r == [p EXCEPT !.flaps = n]
             s == [p EXCEPT !.flaps = n, !.connState = "reconnecting", !.attempt = 0]
  <2>2. p.flaps \in Nat /\ p.flaps <= FLAP_LIMIT /\ p.flaps # FLAP_LIMIT
    BY <1>3, FieldsTyped DEF PageTyped
  <2>3. n \in 0..FLAP_LIMIT /\ (p.connectedAt # "recent" => n # FLAP_LIMIT)
    <3>1. CASE p.connectedAt = "recent"
      <4>1. PICK k \in 0..p.flaps : n = k + 1
        BY <3>1 DEF FlapCounts
      <4>2. QED
        BY <2>2, <3>1, <4>1, LimitsAssumption
    <3>2. CASE p.connectedAt = "old"
      BY <3>2, LimitsAssumption DEF FlapCounts
    <3>3. CASE p.connectedAt = "never"
      BY <2>2, <3>3, LimitsAssumption DEF FlapCounts
    <3>4. QED
      BY <3>1, <3>2, <3>3, FieldsTyped DEF PageTyped
  <2>4. CASE p.connectedAt = "recent" /\ n >= FLAP_LIMIT
    <3>1. r \in PageRecords
      BY <2>3 DEF PageTyped, PageRecords
    <3>2. Ended(r, "flap_guard") = [Cancelled(r) EXCEPT !.connState = "ended",
            !.endCode = "flap_guard", !.suspend = TRUE, !.attempt = 0, !.selfMuted = FALSE,
            !.ws = None]
      BY <1>3, <3>1 DEF Ended, PageTyped, PageRecords
    <3>3. 0 \in 0..MAX_RECONNECT_ATTEMPTS
      BY LimitsAssumption
    <3>4. Cancelled(r) \in PageRecords /\ ~Cancelled(r).timer
      BY <3>1 DEF Cancelled, PageRecords
    <3>5. PageTyped(Ended(r, "flap_guard")) /\ Ended(r, "flap_guard").ws = None
      <4> HIDE DEF r
      <4>1. QED
        BY <3>2, <3>3, <3>4 DEF PageTyped, PageRecords, ConnStates, EndCodes
    <3>6. QED
      BY <2>1, <2>4, <3>5 DEF KeepsMute
  <2>5. CASE ~(p.connectedAt = "recent" /\ n >= FLAP_LIMIT)
    <3>1. n # FLAP_LIMIT
      BY <2>3, <2>5, LimitsAssumption
    <3>2. 0 \in 0..MAX_RECONNECT_ATTEMPTS
      BY LimitsAssumption
    <3>3. PageTyped(s) /\ s.connState = "reconnecting" /\ KeepsMute(p, s) /\ s.ws = p.ws
          /\ s.self = p.self /\ s.selfMuted = p.selfMuted
      BY <1>3, <2>3, <3>1, <3>2 DEF PageTyped, PageRecords, ConnStates, KeepsMute
    <3>4. PageTyped(Scheduled(s)) /\ KeepsMute(s, Scheduled(s))
      BY <3>3, ScheduledTyped
    <3>5. QED
      BY <2>1, <2>5, <3>3, <3>4 DEF KeepsMute
  <2>6. QED
    BY <2>4, <2>5
<1>4. QED
  BY <1>1, <1>2, <1>3

(* and onclose.                                                            *)
LEMMA OnCloseTyped ==
  ASSUME NEW p, PageTyped(p), NEW code, NEW q \in OnClose(p, code)
  PROVE  PageTyped(q) /\ KeepsMute(p, q)
<1>1. CASE p.manual \/ p.suspend
  BY <1>1 DEF OnClose, KeepsMute
<1>2. CASE ~(p.manual \/ p.suspend) /\ code = 4001 /\ p.connState # "ended"
  <2>1. q = Ended(p, "session_takeover")
    BY <1>2 DEF OnClose
  <2>2. QED
    BY <2>1, EndedTyped DEF EndCodes
<1>3. CASE ~(p.manual \/ p.suspend) /\ ~(code = 4001 /\ p.connState # "ended")
  <2>1. CASE p.connState \in {"idle", "failed", "ended"}
    BY <1>3, <2>1 DEF OnClose, KeepsMute
  <2>2. CASE p.connState = "reconnecting"
    <3>1. q = Scheduled(p)
      BY <1>3, <2>2 DEF OnClose
    <3>2. QED
      BY <2>2, <3>1, ScheduledTyped
  <2>3. CASE p.connState \notin {"idle", "failed", "ended", "reconnecting"}
    <3>1. q \in BegunReconnect(p)
      BY <1>3, <2>3 DEF OnClose
    <3>2. QED
      BY <1>3, <3>1, BegunReconnectTyped
  <2>4. QED
    BY <2>1, <2>2, <2>3
<1>4. QED
  BY <1>1, <1>2, <1>3

(* An envelope keeps the page's mute, but for an echo of the user's own    *)
(* and for the login that makes them the user.                             *)
LEMMA HandledTyped ==
  ASSUME NEW p, PageTyped(p), NEW i \in Sockets, NEW m \in Messages(i)
  PROVE  /\ PageTyped(Handled(p, m))
         /\ m.type \notin {"connected", "user"} => KeepsMute(p, Handled(p, m))
         /\ m.type = "user" =>
              /\ m.session = i
              /\ Handled(p, m).ws = p.ws /\ Handled(p, m).self = p.self
              /\ Handled(p, m).selfMuted = IF p.self = i THEN m.mute ELSE p.selfMuted
         /\ m.type = "connected" =>
              Handled(p, m).ws = p.ws /\ Handled(p, m).selfMuted = p.selfMuted
              /\ Handled(p, m).self = i
<1> DEFINE c == Cancelled(p)
<1>0. 0 \in 0..MAX_RECONNECT_ATTEMPTS
  BY LimitsAssumption
<1>1. PageTyped(c) /\ KeepsMute(p, c) /\ ~c.timer
  BY CancelledTyped DEF Cancelled, PageTyped, PageRecords
<1>2. CASE m = [type |-> "connected", session |-> i]
  <2>1. (p.needRestore \/ p.connState = "reconnecting") \in BOOLEAN
    OBVIOUS
  <2>2. Handled(p, m) = [p EXCEPT !.connState = "connected", !.self = i, !.attempt = 0,
            !.connectedAt = "recent",
            !.needRestore = (p.needRestore \/ p.connState = "reconnecting")]
    BY <1>2 DEF Handled
  <2> DEFINE b == (p.needRestore \/ p.connState = "reconnecting")
  <2>3. PageTyped([p EXCEPT !.connState = "connected", !.self = i, !.attempt = 0,
            !.connectedAt = "recent", !.needRestore = b])
    <3>1. b \in BOOLEAN
      BY <2>1
    <3> HIDE DEF b
    <3>2. QED
      BY <1>0, <3>1 DEF PageTyped, PageRecords, ConnStates
  <2>4. Handled(p, m).ws = p.ws /\ Handled(p, m).selfMuted = p.selfMuted /\ Handled(p, m).self = i
    BY <2>2 DEF PageTyped, PageRecords
  <2>5. QED
    BY <1>2, <2>2, <2>3, <2>4
<1>3. CASE \E b \in BOOLEAN : m = [type |-> "user", session |-> i, mute |-> b]
  <2>1. m.type = "user" /\ m.session = i /\ m.mute \in BOOLEAN
    BY <1>3
  <2>2. Handled(p, m) = IF i = p.self THEN [p EXCEPT !.selfMuted = m.mute] ELSE p
    BY <2>1 DEF Handled
  <2>3. PageTyped(Handled(p, m))
    BY <2>1, <2>2 DEF PageTyped, PageRecords
  <2>4. QED
    BY <2>1, <2>2, <2>3 DEF PageTyped, PageRecords
<1>4. CASE m = [type |-> "synced"]
  <2>1. Handled(p, m) = [p EXCEPT !.connState = "ready", !.needRestore = FALSE]
    BY <1>4 DEF Handled
  <2>2. QED
    BY <1>4, <2>1 DEF PageTyped, PageRecords, ConnStates, KeepsMute
<1>5. CASE m = [type |-> "error"]
  <2>1. Handled(p, m) = IF p.connState = "connecting" THEN [c EXCEPT !.connState = "failed"]
                        ELSE c
    BY <1>5 DEF Handled
  <2>2. PageTyped([c EXCEPT !.connState = "failed"]) /\ KeepsMute(p, [c EXCEPT !.connState = "failed"])
    <3> HIDE DEF c
    <3>1. QED
      BY <1>1 DEF PageTyped, PageRecords, ConnStates, KeepsMute
  <2>3. QED
    BY <1>1, <1>5, <2>1, <2>2
<1>6. CASE \E code \in {"username_in_use", "network"} : m = [type |-> "reject", code |-> code]
  <2>1. m.type = "reject" /\ m.code \in {"username_in_use", "network"}
    BY <1>6
  <2>2. CASE m.code \in EndCodes
    <3>1. Handled(p, m) = Ended(c, m.code)
      BY <2>1, <2>2 DEF Handled
    <3>2. PageTyped(Ended(c, m.code)) /\ KeepsMute(c, Ended(c, m.code))
      <4> HIDE DEF c
      <4>1. QED
        BY <1>1, <2>2, EndedTyped
    <3>3. QED
      BY <1>1, <2>1, <3>1, <3>2 DEF KeepsMute
  <2>3. CASE m.code \notin EndCodes
    <3>1. Handled(p, m) = [c EXCEPT !.connState = "failed", !.attempt = 0, !.endCode = m.code]
      BY <2>1, <2>3 DEF Handled
    <3>2. m.code = "network"
      BY <2>1, <2>3 DEF EndCodes
    <3>3. QED
      <4> HIDE DEF c
      <4>1. QED
        <5>1. [c EXCEPT !.connState = "failed", !.attempt = 0, !.endCode = "network"] \in PageRecords
          BY <1>0, <1>1 DEF PageTyped, PageRecords, ConnStates
        <5>2. QED
          <6> DEFINE q == [c EXCEPT !.connState = "failed", !.attempt = 0, !.endCode = "network"]
          <6>1. /\ q.connState = "failed" /\ q.timer = c.timer /\ q.flaps = c.flaps
                /\ q.suspend = c.suspend
                /\ q.ws = c.ws /\ q.self = c.self /\ q.selfMuted = c.selfMuted
            BY <1>1 DEF PageTyped, PageRecords
          <6>2. Handled(p, m) = q /\ q \in PageRecords
            BY <3>1, <3>2, <5>1
          <6> HIDE DEF q
          <6>3. QED
            BY <1>1, <2>1, <6>1, <6>2 DEF PageTyped, KeepsMute
  <2>4. QED
    BY <2>2, <2>3
<1>7. CASE \E code \in {"session_takeover", "network", "kicked"} :
             m = [type |-> "disconnected", code |-> code]
  <2>1. m.type = "disconnected"
    BY <1>7
  <2>2. Handled(p, m) = IF m.code \in EndCodes THEN Ended(p, m.code) ELSE p
    BY <2>1 DEF Handled
  <2>3. QED
    BY <2>1, <2>2, EndedTyped DEF KeepsMute
<1>8. CASE \E code \in {4001, 1011} : m = [type |-> "close", code |-> code]
  <2>1. m.type = "close"
    BY <1>8
  <2>2. Handled(p, m) = p
    BY <2>1 DEF Handled
  <2>3. QED
    BY <2>1, <2>2 DEF KeepsMute
<1>9. QED
  BY <1>2, <1>3, <1>4, <1>5, <1>6, <1>7, <1>8 DEF Messages, Logins, Echoes, Refusals, Losses, Closings

(* A socket to open is one that was not in use.                            *)
LEMMA FreshIsUnused ==
  ASSUME Unused # {}
  PROVE  Fresh \in Unused
<1>1. Unused \subseteq Nat
  BY SocketsAssumption DEF Unused
<1> DEFINE R == OpToRel(<, Nat)
<1>2. \A j, k \in Nat : j < k => <<j, k>> \in R
  BY Zenon DEF OpToRel
<1>3. IsWellFoundedOn(R, Nat)
  BY NatLessThanWellFounded
<1> HIDE DEF R
<1>4. PICK i \in Unused : \A j \in Unused : ~(<<j, i>> \in R)
  BY <1>1, <1>3, WFMin
<1>5. ASSUME NEW j \in Unused PROVE i <= j
  <2>1. i \in Nat /\ j \in Nat
    BY <1>1
  <2>2. ~(j < i)
    BY <1>2, <1>4, <2>1, Zenon
  <2>3. QED
    BY <2>1, <2>2
<1>6. QED
  BY <1>5 DEF Fresh

(* The head and the tail of a sequence.                                    *)
LEMMA SplitInSeq ==
  ASSUME NEW S, NEW q \in Seq(S), q # <<>>
  PROVE  Head(q) \in S /\ Tail(q) \in Seq(S)
OBVIOUS

(* The commands that a page sends, and its socket's goodbye.               *)
LEMMA UpTyped ==
  ASSUME Typed, NEW p, NEW cmds \in Seq(Commands), NEW sk, PageBecomes(p, cmds, sk)
  PROVE  DOMAIN up' = Sockets /\ \A i \in Sockets : up'[i] \in Seq(Commands)
<1> DEFINE bye == IF page.ws # None /\ p.ws = None THEN <<"disconnect">> ELSE <<>>
<1>1. bye \in Seq(Commands)
  <2>1. "disconnect" \in Commands
    BY DEF Commands
  <2>2. QED
    BY <2>1
<1>2. up' = up \/ (page.ws # None /\ up' = [up EXCEPT ![page.ws] = @ \o cmds \o bye])
  BY DEF PageBecomes
<1>3. page.ws \in Sockets \union {None}
  BY FieldsTyped DEF Typed, PageTyped
<1> HIDE DEF bye
<1>4. CASE up' = up
  BY <1>4 DEF Typed
<1>5. CASE page.ws # None /\ up' = [up EXCEPT ![page.ws] = @ \o cmds \o bye]
  <2>1. page.ws \in Sockets /\ up[page.ws] \in Seq(Commands)
    BY <1>3, <1>5 DEF Typed
  <2>2. up[page.ws] \o cmds \o bye \in Seq(Commands)
    BY <1>1, <2>1
  <2>3. QED
    BY <1>5, <2>1, <2>2 DEF Typed
<1>6. QED
  BY <1>2, <1>4, <1>5

(* The envelopes that a session pushes.                                    *)
LEMMA PushTyped ==
  ASSUME Typed, NEW i \in Sockets, NEW q \in Seq(Messages(i))
  PROVE  DOMAIN Push(i, q) = Sockets /\ \A j \in Sockets : Push(i, q)[j] \in Seq(Messages(j))
<1>1. inbox[i] \o q \in Seq(Messages(i))
  BY DEF Typed
<1>2. CASE Push(i, q) = [inbox EXCEPT ![i] = @ \o q]
  BY <1>1, <1>2 DEF Typed
<1>3. CASE Push(i, q) = inbox
  BY <1>3 DEF Typed
<1>4. QED
  BY <1>2, <1>3 DEF Push

(* What the proxy sends are messages.                                      *)
LEMMA EnvelopesTyped ==
  ASSUME NEW i
  PROVE  /\ Snapshot(i) \in Seq(Messages(i))
         /\ \A m \in Echoes(i) \union Refusals : <<m>> \in Seq(Messages(i))
         /\ \A c \in {"session_takeover", "network", "kicked"}, n \in {4001, 1011} :
              Farewell(c, n) \in Seq(Messages(i))
<1>1. /\ [type |-> "connected", session |-> i] \in Logins(i)
      /\ [type |-> "synced"] \in Logins(i)
  BY DEF Logins
<1>2. [type |-> "user", session |-> i, mute |-> FALSE] \in Echoes(i)
  BY DEF Echoes
<1>3. Snapshot(i) \in Seq(Messages(i))
  BY <1>1, <1>2 DEF Messages, Snapshot
<1>4. ASSUME NEW c \in {"session_takeover", "network", "kicked"}, NEW n \in {4001, 1011}
      PROVE  Farewell(c, n) \in Seq(Messages(i))
  <2>1. [type |-> "disconnected", code |-> c] \in Losses
    BY DEF Losses
  <2>2. [type |-> "close", code |-> n] \in Closings
    BY DEF Closings
  <2>3. QED
    BY <2>1, <2>2 DEF Messages, Farewell
<1>5. ASSUME NEW m \in Echoes(i) \union Refusals
      PROVE  <<m>> \in Seq(Messages(i))
  BY DEF Messages
<1>6. QED
  BY <1>3, <1>4, <1>5

(* The pages that the user's acts lead to.                                 *)
LEMMA UserTyped ==
  ASSUME Typed, User
  PROVE  /\ PageTyped(page')
         /\ \E cmds \in Seq(Commands) : PageBecomes(page', cmds, sock)
<1> DEFINE c == Cancelled(page)
<1>0. <<>> \in Seq(Commands) /\ <<"mute">> \in Seq(Commands) /\ <<"unmute">> \in Seq(Commands)
  <2>1. "mute" \in Commands /\ "unmute" \in Commands
    BY DEF Commands
  <2>2. QED
    BY <2>1
<1>1. PageTyped(page) /\ PageTyped(c) /\ ~c.timer /\ 0 \in 0..MAX_RECONNECT_ATTEMPTS
      /\ 0 \in 0..FLAP_LIMIT /\ FLAP_LIMIT # 0
  <2>1. PageTyped(page)
    BY DEF Typed
  <2>2. PageTyped(c) /\ ~c.timer
    BY <2>1, CancelledTyped DEF Cancelled, PageTyped, PageRecords
  <2>3. 0 \in 0..MAX_RECONNECT_ATTEMPTS /\ 0 \in 0..FLAP_LIMIT /\ FLAP_LIMIT # 0
    BY LimitsAssumption
  <2>4. QED
    BY <2>1, <2>2, <2>3
<1>2. CASE Connect
  <2> DEFINE p == [c EXCEPT !.connState = "connecting", !.endCode = "",
                    !.manual = FALSE, !.suspend = FALSE, !.connectedAt = "never",
                    !.flaps = 0, !.creds = TRUE, !.ws = Fresh]
  <2>1. PageBecomes(p, <<>>, sock) /\ Fresh \in Sockets
    BY <1>2, FreshIsUnused DEF Connect, Unused
  <2>2. page' = p
    BY <2>1 DEF PageBecomes
  <2>3. PageTyped(p)
    <3> HIDE DEF c
    <3> DEFINE q == [c EXCEPT !.connState = "connecting", !.endCode = "",
                      !.manual = FALSE, !.suspend = FALSE, !.connectedAt = "never"]
    <3>0. q \in PageRecords
      <4>1. c \in PageRecords
        BY <1>1 DEF PageTyped
      <4>2. "connecting" \in ConnStates /\ "" \in EndCodes \union {"", "network"}
        BY DEF ConnStates
      <4>3. QED
        BY <4>1, <4>2 DEF PageRecords
    <3>1. p \in PageRecords
      <4>1. p = [q EXCEPT !.flaps = 0, !.creds = TRUE, !.ws = Fresh]
        OBVIOUS
      <4> HIDE DEF q
      <4>2. QED
        BY <1>1, <2>1, <3>0, <4>1 DEF PageRecords
    <3>2. p.timer = c.timer /\ p.flaps = 0 /\ p.connState = "connecting"
      BY <1>1 DEF PageTyped, PageRecords
    <3>3. QED
      BY <1>1, <3>1, <3>2 DEF PageTyped
  <2>4. QED
    BY <1>0, <2>1, <2>2, <2>3
<1>3. CASE RetryAfterEnd
  <2> DEFINE p == [c EXCEPT !.connState = "connecting", !.endCode = "",
                    !.manual = FALSE, !.suspend = FALSE, !.connectedAt = "never",
                    !.flaps = 0, !.attempt = 0, !.self = None, !.ws = Fresh]
  <2>1. PageBecomes(p, <<>>, sock) /\ Fresh \in Sockets
    BY <1>3, FreshIsUnused DEF RetryAfterEnd, Unused
  <2>2. page' = p
    BY <2>1 DEF PageBecomes
  <2>3. PageTyped(p)
    <3> HIDE DEF c
    <3>1. p \in PageRecords
      BY <1>1, <2>1 DEF PageTyped, PageRecords, ConnStates
    <3>2. p.timer = c.timer /\ p.flaps = 0 /\ p.connState = "connecting"
      BY <1>1 DEF PageTyped, PageRecords
    <3>3. QED
      BY <1>1, <3>1, <3>2 DEF PageTyped
  <2>4. QED
    BY <1>0, <2>1, <2>2, <2>3
<1>4. CASE Disconnect
  <2> DEFINE p == [NoPage EXCEPT !.manual = TRUE]
  <2>1. PageBecomes(p, <<>>, sock)
    BY <1>4 DEF Disconnect
  <2>2. page' = p
    BY <2>1 DEF PageBecomes
  <2>3. PageTyped(p)
    BY <1>1 DEF NoPage, PageTyped, PageRecords, ConnStates
  <2>4. QED
    BY <1>0, <2>1, <2>2, <2>3
<1>5. CASE SetSelfMute
  <2> DEFINE p == [page EXCEPT !.selfMuted = ~@]
             cmds == IF page.selfMuted THEN <<"unmute">> ELSE <<"mute">>
  <2>1. PageBecomes(p, cmds, sock) /\ cmds \in Seq(Commands)
    BY <1>0, <1>5 DEF SetSelfMute
  <2>2. page' = p
    BY <2>1 DEF PageBecomes
  <2>3. PageTyped(p)
    BY <1>1 DEF PageTyped, PageRecords
  <2>4. QED
    BY <2>1, <2>2, <2>3
<1>6. QED
  BY <1>2, <1>3, <1>4, <1>5 DEF User

(* A page that becomes p, with everything else but commands left alone.    *)
LEMMA BecomesTyped ==
  ASSUME Typed, NEW p, PageTyped(p), NEW cmds \in Seq(Commands), NEW sk,
         PageBecomes(p, cmds, sk), UNCHANGED <<guest, inbox, srv>>
  PROVE  Typed'
<1>1. page' = p
  BY DEF PageBecomes
<1>2. PageTyped(page')
  BY <1>1
<1>3. DOMAIN up' = Sockets /\ \A i \in Sockets : up'[i] \in Seq(Commands)
  BY UpTyped
<1>4. QED
  BY <1>2, <1>3 DEF Typed, PageTyped

(* What the browser does keeps the types,                                  *)
LEMMA BrowserTyped ==
  ASSUME Typed, NEW i \in Sockets, Browser(i)
  PROVE  Typed'
<1>0. <<>> \in Seq(Commands) /\ <<"connect">> \in Seq(Commands) /\ <<"mute">> \in Seq(Commands)
  <2>1. "connect" \in Commands /\ "mute" \in Commands
    BY DEF Commands
  <2>2. QED
    BY <2>1
<1>1. CASE Opens(i)
  <2>1. PICK cmds \in Seq(Commands) : PageBecomes(page, cmds, [sock EXCEPT ![i] = "open"])
    BY <1>0, <1>1 DEF Opens
  <2>2. DOMAIN up' = Sockets /\ \A j \in Sockets : up'[j] \in Seq(Commands)
    BY <2>1, UpTyped
  <2>3. srv' \in [Sockets -> Sessions]
    BY <1>1 DEF Opens, Typed, Sessions
  <2>4. page' = page
    BY <2>1 DEF PageBecomes
  <2>5. QED
    BY <1>1, <2>2, <2>3, <2>4 DEF Opens, Typed, PageTyped
<1>2. CASE OpenFails(i)
  BY <1>2 DEF OpenFails, Typed, PageTyped
<1>3. CASE NetworkDrop(i)
  <2>1. inbox' = [inbox EXCEPT ![i] = <<>>] /\ up' = [up EXCEPT ![i] = <<>>]
        /\ UNCHANGED <<page, guest, srv>>
    BY <1>3 DEF NetworkDrop
  <2>2. QED
    BY <2>1 DEF Typed, PageTyped
<1>4. CASE Closes(i)
  <2>1. PICK code : \E p \in OnClose(page, code) : PageBecomes(p, <<>>, [sock EXCEPT ![i] = "dead"])
    BY <1>4 DEF Closes
  <2>2. PICK p \in OnClose(page, code) : PageBecomes(p, <<>>, [sock EXCEPT ![i] = "dead"])
    BY <2>1
  <2>3. PageTyped(p)
    BY OnCloseTyped DEF Typed
  <2>4. DOMAIN up' = Sockets /\ \A j \in Sockets : up'[j] \in Seq(Commands)
    BY <1>0, <2>2, UpTyped
  <2>5. page' = p /\ inbox' = [inbox EXCEPT ![i] = <<>>] /\ UNCHANGED <<guest, srv>>
    BY <1>4, <2>2 DEF Closes, PageBecomes
  <2>6. PageTyped(page')
    BY <2>3, <2>5
  <2>7. QED
    BY <2>4, <2>5, <2>6 DEF Typed, PageTyped
<1>5. CASE Receive(i)
  <2> DEFINE m == Head(inbox[i])
  <2>1. m \in Messages(i) /\ Tail(inbox[i]) \in Seq(Messages(i))
    BY <1>5, SplitInSeq DEF Receive, Typed
  <2>2. CASE m.type = "close"
    <3>1. inbox' = [inbox EXCEPT ![i] = <<>>] /\ UNCHANGED <<page, up, guest, srv>>
      BY <1>5, <2>2 DEF Receive
    <3>2. QED
      BY <3>1 DEF Typed, PageTyped
  <2>3. CASE m.type # "close"
    <3>1. PageBecomes(Handled(page, m), RestoreCommands(page, m), sock)
          /\ inbox' = [inbox EXCEPT ![i] = Tail(@)] /\ UNCHANGED <<guest, srv>>
      BY <1>5, <2>3 DEF Receive
    <3>2. PageTyped(Handled(page, m))
      BY <2>1, HandledTyped DEF Typed
    <3>3. RestoreCommands(page, m) \in Seq(Commands)
      BY <1>0 DEF RestoreCommands
    <3>4. DOMAIN up' = Sockets /\ \A j \in Sockets : up'[j] \in Seq(Commands)
      BY <3>1, <3>3, UpTyped
    <3>5. page' = Handled(page, m)
      BY <3>1 DEF PageBecomes
    <3>6. PageTyped(page')
      BY <3>2, <3>5
    <3>7. DOMAIN inbox' = Sockets /\ \A j \in Sockets : inbox'[j] \in Seq(Messages(j))
      BY <2>1, <3>1 DEF Typed
    <3>8. QED
      BY <3>1, <3>4, <3>6, <3>7 DEF Typed, PageTyped
  <2>4. QED
    BY <2>2, <2>3
<1>6. QED
  BY <1>1, <1>2, <1>3, <1>4, <1>5 DEF Browser

(* what the proxy does does,                                               *)
LEMMA ProxyTyped ==
  ASSUME Typed, NEW i \in Sockets, Proxy(i)
  PROVE  Typed'
<1>0. page' = page /\ guest' = guest
  <2>1. CASE ReadCommand(i)
    BY <2>1 DEF ReadCommand
  <2>2. CASE DialSucceeds(i)
    BY <2>2 DEF DialSucceeds
  <2>3. CASE DialFails(i) \/ UpstreamLost(i) \/ SeesClose(i)
    BY <2>3 DEF DialFails, UpstreamLost, SeesClose
  <2>4. QED
    BY <2>1, <2>2, <2>3 DEF Proxy
<1>00. [phase |-> "gone", muted |-> FALSE] \in Sessions
  BY DEF Sessions
<1> DEFINE InboxOk == DOMAIN inbox' = Sockets /\ \A j \in Sockets : inbox'[j] \in Seq(Messages(j))
           UpOk == DOMAIN up' = Sockets /\ \A j \in Sockets : up'[j] \in Seq(Commands)
           SrvOk == srv' \in [Sockets -> Sessions]
<1>s. InboxOk /\ UpOk /\ SrvOk => Typed'
  BY <1>0 DEF Typed, PageTyped
<1>1. CASE ReadCommand(i)
  <2> DEFINE c == Head(up[i])
  <2>1. UpOk
    <3>1. Tail(up[i]) \in Seq(Commands) /\ up' = [up EXCEPT ![i] = Tail(@)]
      BY <1>1, SplitInSeq DEF ReadCommand, Typed
    <3>2. QED
      BY <3>1 DEF Typed
  <2>2. CASE inbox' = Push(i, <<[type |-> "reject", code |-> "username_in_use"]>>) /\ UNCHANGED srv
    <3>1. [type |-> "reject", code |-> "username_in_use"] \in Refusals
      BY DEF Refusals
    <3>2. <<[type |-> "reject", code |-> "username_in_use"]>> \in Seq(Messages(i))
      BY <3>1, EnvelopesTyped
    <3>3. InboxOk
      BY <2>2, <3>2, PushTyped
    <3>4. SrvOk
      BY <2>2 DEF Typed
    <3>5. QED
      BY <1>s, <2>1, <3>3, <3>4
  <2>3. CASE /\ \/ srv' = [srv EXCEPT ![i].phase = IF @ = "active" THEN "redialing" ELSE "dialing"]
                \/ srv' = [srv EXCEPT ![i] = [phase |-> "gone", muted |-> FALSE]]
                \/ UNCHANGED srv
             /\ UNCHANGED inbox
    <3>1. InboxOk
      BY <2>3 DEF Typed
    <3>2. SrvOk
      <4>1. CASE srv' = [srv EXCEPT ![i].phase = IF @ = "active" THEN "redialing" ELSE "dialing"]
        <5>1. PICK ph \in {"redialing", "dialing"} : srv' = [srv EXCEPT ![i].phase = ph]
          BY <4>1
        <5>2. QED
          BY <5>1 DEF Typed, Sessions
      <4>2. CASE srv' = [srv EXCEPT ![i] = [phase |-> "gone", muted |-> FALSE]]
        BY <1>00, <4>2 DEF Typed
      <4>3. CASE UNCHANGED srv
        BY <4>3 DEF Typed
      <4>4. QED
        BY <2>3, <4>1, <4>2, <4>3
    <3>3. QED
      BY <1>s, <2>1, <3>1, <3>2
  <2>4. CASE /\ srv' = [srv EXCEPT ![i].muted = (c = "mute")]
             /\ inbox' = Push(i, <<[type |-> "user", session |-> i, mute |-> (c = "mute")]>>)
    <3>1. (c = "mute") \in BOOLEAN
      OBVIOUS
    <3>2. PICK b \in BOOLEAN : b = (c = "mute")
      BY <3>1
    <3>3. [type |-> "user", session |-> i, mute |-> b] \in Echoes(i)
      BY DEF Echoes
    <3>4. <<[type |-> "user", session |-> i, mute |-> b]>> \in Seq(Messages(i))
      BY <3>3, EnvelopesTyped
    <3>5. InboxOk
      BY <2>4, <3>2, <3>4, PushTyped
    <3>6. srv' = [srv EXCEPT ![i].muted = b]
      BY <2>4, <3>2
    <3>7. SrvOk
      BY <3>6 DEF Typed, Sessions
    <3>8. QED
      BY <1>s, <2>1, <3>5, <3>7
  <2>5. QED
    BY <1>1, <2>2, <2>3, <2>4 DEF ReadCommand
<1>2. CASE DialSucceeds(i)
  <2>1. SrvOk
    <3>1. [phase |-> "active", muted |-> FALSE] \in Sessions
      BY DEF Sessions
    <3>2. QED
      BY <1>2, <1>00, <3>1 DEF DialSucceeds, Typed
  <2>2. ASSUME NEW j \in Sockets PROVE inbox'[j] \in Seq(Messages(j))
    <3> DEFINE bye == Farewell("session_takeover", 4001)
    <3>1. inbox[j] \in Seq(Messages(j)) /\ Snapshot(j) \in Seq(Messages(j))
          /\ bye \in Seq(Messages(j)) /\ <<>> \in Seq(Messages(j))
      BY EnvelopesTyped DEF Typed
    <3>2. \/ inbox'[j] = inbox[j]
          \/ \E q \in {bye, <<>>} : inbox'[j] = inbox[j] \o Snapshot(j) \o q
          \/ inbox'[j] = inbox[j] \o bye
      <4> HIDE DEF bye
      <4>1. inbox'[j] =
               IF sock[j] # "open" THEN inbox[j]
               ELSE IF j = i THEN inbox[j] \o Snapshot(i) \o
                      (IF srv[i].phase = "redialing" THEN bye ELSE <<>>)
               ELSE IF j \in {k \in Sockets \ {i} : LoggedIn(k)} THEN inbox[j] \o bye
               ELSE inbox[j]
        BY <1>2, Zenon DEF DialSucceeds, bye
      <4>2. QED
        BY <4>1
    <3> HIDE DEF bye
    <3>3. inbox[j] \o Snapshot(j) \in Seq(Messages(j)) /\ inbox[j] \o bye \in Seq(Messages(j))
      BY <3>1
    <3>4. \A q \in {bye, <<>>} : inbox[j] \o Snapshot(j) \o q \in Seq(Messages(j))
      <4> DEFINE front == inbox[j] \o Snapshot(j)
      <4>1. front \in Seq(Messages(j))
        BY <3>3
      <4> HIDE DEF front
      <4>2. front \o bye \in Seq(Messages(j)) /\ front \o <<>> \in Seq(Messages(j))
        BY <3>1, <4>1
      <4>3. QED
        BY <4>2 DEF front
    <3>5. QED
      BY <3>1, <3>2, <3>3, <3>4
  <2>3. DOMAIN inbox' = Sockets /\ up' = up
    BY <1>2 DEF DialSucceeds
  <2>4. QED
    BY <1>s, <2>1, <2>2, <2>3 DEF Typed
<1>3. CASE DialFails(i)
  <2>1. PICK m \in {[type |-> "reject", code |-> "network"], [type |-> "error"]} :
          inbox' = Push(i, <<m>>)
    BY <1>3 DEF DialFails
  <2>2. m \in Refusals
    BY DEF Refusals
  <2>3. InboxOk
    <3>1. <<m>> \in Seq(Messages(i))
      BY <2>2, EnvelopesTyped
    <3>2. QED
      BY <2>1, <3>1, PushTyped
  <2>4. SrvOk
    BY <1>3 DEF DialFails, Typed, Sessions
  <2>5. QED
    BY <1>3, <1>s, <2>3, <2>4 DEF DialFails, Typed
<1>4. CASE UpstreamLost(i)
  <2>1. PICK f \in {Farewell("network", 1011), Farewell("kicked", 4001)} : inbox' = Push(i, f)
    BY <1>4 DEF UpstreamLost
  <2>2. InboxOk
    BY <2>1, EnvelopesTyped, PushTyped
  <2>3. SrvOk
    BY <1>00, <1>4 DEF UpstreamLost, Typed
  <2>4. QED
    BY <1>4, <1>s, <2>2, <2>3 DEF UpstreamLost, Typed
<1>5. CASE SeesClose(i)
  BY <1>00, <1>5, <1>s DEF SeesClose, Typed
<1>6. QED
  BY <1>1, <1>2, <1>3, <1>4, <1>5 DEF Proxy

(* and so does every step.                                                 *)
LEMMA TypedStep ==
  ASSUME DialInv, Typed, [Next]_vars
  PROVE  Typed'
<1>0. <<>> \in Seq(Commands)
  OBVIOUS
<1>1. CASE User
  <2>1. UNCHANGED <<guest, inbox, srv>>
    BY <1>1 DEF User, Connect, RetryAfterEnd, Disconnect, SetSelfMute, UserDoes
  <2>2. QED
    BY <1>1, <2>1, UserTyped, BecomesTyped
<1>2. CASE DoAttempt
  <2>1. page.creds /\ Fresh \in Sockets
    BY <1>2, FreshIsUnused DEF DoAttempt, DialInv, PageOk, Unused
  <2>2. PageBecomes([page EXCEPT !.timer = FALSE, !.ws = Fresh], <<>>, sock)
        /\ UNCHANGED <<guest, inbox, srv>>
    BY <1>2, <2>1 DEF DoAttempt
  <2>3. PageTyped([page EXCEPT !.timer = FALSE, !.ws = Fresh])
    BY <2>1 DEF Typed, PageTyped, PageRecords
  <2>4. QED
    BY <1>0, <2>2, <2>3, BecomesTyped
<1>3. CASE RetryNow
  <2>1. PICK p \in BegunReconnect(page) : PageBecomes(p, <<>>, sock)
    BY <1>3 DEF RetryNow
  <2>2. ~page.manual
    BY <1>3 DEF RetryNow, DialInv, PageOk
  <2>3. PageTyped(p)
    BY <2>2, BegunReconnectTyped DEF Typed
  <2>4. QED
    BY <1>0, <1>3, <2>1, <2>3, BecomesTyped DEF RetryNow
<1>4. CASE LoginAges
  <2>1. PageTyped([page EXCEPT !.connectedAt = "old"])
    BY DEF Typed, PageTyped, PageRecords
  <2>2. PageTyped(page')
    BY <1>4, <2>1 DEF LoginAges
  <2>3. QED
    BY <1>4, <2>2 DEF LoginAges, Typed, PageTyped
<1>5. CASE \E i \in Sockets : Browser(i) \/ Proxy(i)
  BY <1>5, BrowserTyped, ProxyTyped
<1>6. CASE UNCHANGED vars
  BY <1>6 DEF vars, Typed, PageTyped
<1>7. QED
  BY <1>1, <1>2, <1>3, <1>4, <1>5, <1>6 DEF Next
----------------------------------------------------------------------------
(* No screen outlives its connection.                                      *)

(* A page that needs no socket to get on: what it shows is over, left or   *)
(* about to be redialled.                                                  *)
NeedsNoSocket(p) ==
  /\ p.connState \in {"connected", "ready"} => p.manual \/ p.suspend
  /\ p.connState = "reconnecting" => p.timer

(* A page that ended its session needs no socket to be ended,              *)
LEMMA EndedNeedsNone ==
  ASSUME NEW p, PageTyped(p), NEW code
  PROVE  NeedsNoSocket(Ended(p, code))
BY DEF Ended, Cancelled, NeedsNoSocket, PageTyped, PageRecords

(* nor does one that waits for its redial,                                 *)
LEMMA ScheduledNeedsNone ==
  ASSUME NEW p, PageTyped(p), p.connState = "reconnecting"
  PROVE  NeedsNoSocket(Scheduled(p))
<1>1. CASE p.timer
  BY <1>1 DEF Scheduled, NeedsNoSocket
<1>2. CASE ~p.timer
  <2>1. Scheduled(p).timer \/ Scheduled(p).connState = "failed"
    BY <1>2 DEF Scheduled, PageTyped, PageRecords
  <2>2. Scheduled(p).connState \in {"reconnecting", "failed"}
    BY <1>2 DEF Scheduled, PageTyped, PageRecords
  <2>3. QED
    BY <2>1, <2>2 DEF NeedsNoSocket
<1>3. QED
  BY <1>1, <1>2, FieldsTyped DEF PageTyped

(* or has begun to reconnect,                                              *)
LEMMA BegunReconnectNeedsNone ==
  ASSUME NEW p, PageTyped(p), ~p.manual, NEW q \in BegunReconnect(p)
  PROVE  NeedsNoSocket(q)
<1>1. CASE p.suspend
  BY <1>1 DEF BegunReconnect, NeedsNoSocket, PageTyped
<1>2. CASE ~p.suspend /\ ~p.creds
  <2>1. q = [p EXCEPT !.connState = "failed"]
    BY <1>2 DEF BegunReconnect
  <2>2. QED
    BY <2>1 DEF NeedsNoSocket, PageTyped, PageRecords
<1>3. CASE ~p.suspend /\ p.creds
  <2>1. PICK n \in FlapCounts(p) :
          q = IF p.connectedAt = "recent" /\ n >= FLAP_LIMIT
              THEN Ended([p EXCEPT !.flaps = n], "flap_guard")
              ELSE Scheduled([p EXCEPT !.flaps = n, !.connState = "reconnecting", !.attempt = 0])
    BY <1>3 DEF BegunReconnect
  <2> DEFINE r == [p EXCEPT !.flaps = n]
             s == [p EXCEPT !.flaps = n, !.connState = "reconnecting", !.attempt = 0]
  <2>2. Ended(r, "flap_guard").connState = "ended"
    BY DEF Ended, Cancelled, PageTyped, PageRecords
  <2>3. NeedsNoSocket(Ended(r, "flap_guard"))
    BY <2>2 DEF NeedsNoSocket
  <2>4. Scheduled(s).connState \in {"reconnecting", "failed"}
        /\ (Scheduled(s).connState = "reconnecting" => Scheduled(s).timer)
    <3>1. s.connState = "reconnecting" /\ s.timer = p.timer /\ s = [f \in PageFields |-> s[f]]
      BY DEF PageTyped, PageRecords, PageFields, NoPage
    <3> HIDE DEF s
    <3>2. QED
      BY <3>1 DEF Scheduled, PageFields, NoPage
  <2>5. QED
    BY <2>1, <2>3, <2>4 DEF NeedsNoSocket
<1>4. QED
  BY <1>1, <1>2, <1>3

(* or has lost its socket.                                                 *)
LEMMA OnCloseNeedsNone ==
  ASSUME NEW p, PageTyped(p), NEW code, NEW q \in OnClose(p, code)
  PROVE  NeedsNoSocket(q)
<1>1. CASE p.manual \/ p.suspend
  BY <1>1 DEF OnClose, NeedsNoSocket, PageTyped
<1>2. CASE ~(p.manual \/ p.suspend) /\ code = 4001 /\ p.connState # "ended"
  BY <1>2, EndedNeedsNone DEF OnClose
<1>3. CASE ~(p.manual \/ p.suspend) /\ ~(code = 4001 /\ p.connState # "ended")
  <2>1. CASE p.connState \in {"idle", "failed", "ended"}
    BY <1>3, <2>1 DEF OnClose, NeedsNoSocket
  <2>2. CASE p.connState = "reconnecting"
    BY <1>3, <2>2, ScheduledNeedsNone DEF OnClose
  <2>3. CASE p.connState \notin {"idle", "failed", "ended", "reconnecting"}
    BY <1>3, <2>3, BegunReconnectNeedsNone DEF OnClose
  <2>4. QED
    BY <2>1, <2>2, <2>3
<1>4. QED
  BY <1>1, <1>2, <1>3

(* A socket that could speak when the event was handled still can, and one *)
(* that is opened can.                                                     *)
LEMMA SpeakersStay ==
  ASSUME NEW p, NEW cmds, NEW sk \in [Sockets -> SockStates], PageBecomes(p, cmds, sk),
         NEW i \in Sockets
  PROVE  /\ sk[i] \in {"connecting", "open", "closed", "closed4001"} => Speaks(i)'
         /\ p.ws = i /\ sk[i] = "unused" => Speaks(i)'
<1> DEFINE was == page.ws
           disposed == was # None /\ p.ws = None
<1>1. sock'[i] = CASE disposed /\ i = was /\ sk[i] \in {"connecting", "open"} -> "closed"
                   [] i = p.ws /\ sk[i] = "unused" -> "connecting"
                   [] OTHER -> sk[i]
  BY DEF PageBecomes
<1>2. i # None
  BY SocketsAssumption
<1>3. QED
  BY <1>1, <1>2 DEF Speaks

(* One socket that speaks is enough for any page.                          *)
LEMMA OneSpeaks ==
  ASSUME NEW i \in Sockets, Speaks(i)' PROVE NoDeadScreen'
BY DEF NoDeadScreen

(* No step leaves a screen dead.                                           *)
LEMMA ScreenStep ==
  ASSUME DialInv, Typed, NoDeadScreen, [Next]_vars
  PROVE  NoDeadScreen'
<1>1. CASE \E i \in Sockets : Closes(i)
  <2>1. PICK i, code, sk : \E p \in OnClose(page, code) : PageBecomes(p, <<>>, sk)
    BY <1>1 DEF Closes
  <2>2. PICK p \in OnClose(page, code) : PageBecomes(p, <<>>, sk)
    BY <2>1
  <2>3. NeedsNoSocket(p) /\ page' = p
    BY <2>2, OnCloseNeedsNone DEF Typed, PageBecomes
  <2>4. QED
    BY <2>3 DEF NeedsNoSocket, NoDeadScreen
<1>2. CASE RetryNow
  <2>1. PICK p \in BegunReconnect(page) : PageBecomes(p, <<>>, sock)
    BY <1>2 DEF RetryNow
  <2>2. ~page.manual
    BY <1>2 DEF RetryNow, DialInv, PageOk
  <2>3. NeedsNoSocket(p) /\ page' = p
    BY <2>1, <2>2, BegunReconnectNeedsNone DEF Typed, PageBecomes
  <2>4. QED
    BY <2>3 DEF NeedsNoSocket, NoDeadScreen
<1>3. CASE DoAttempt
  <2>1. page.creds /\ Fresh \in Unused
    BY <1>3, FreshIsUnused DEF DoAttempt, DialInv, PageOk
  <2>2. PageBecomes([page EXCEPT !.timer = FALSE, !.ws = Fresh], <<>>, sock)
    BY <1>3, <2>1 DEF DoAttempt
  <2>3. [page EXCEPT !.timer = FALSE, !.ws = Fresh].ws = Fresh
    BY DEF Typed, PageTyped, PageRecords
  <2>4. PICK k \in Sockets : k = Fresh
    BY <2>1 DEF Unused
  <2>5. sock[k] = "unused" /\ sock \in [Sockets -> SockStates]
    BY <2>1, <2>4 DEF Unused, DialInv
  <2>6. Speaks(k)'
    BY <2>2, <2>3, <2>4, <2>5, SpeakersStay
  <2>7. QED
    BY <2>6, OneSpeaks
<1>4. CASE Connect \/ RetryAfterEnd
  <2>1. page'.connState = "connecting"
    BY <1>4 DEF Connect, RetryAfterEnd, PageBecomes, Cancelled, Typed, PageTyped, PageRecords
  <2>2. QED
    BY <2>1 DEF NoDeadScreen
<1>5. CASE Disconnect
  <2>1. page'.connState = "idle"
    BY <1>5 DEF Disconnect, PageBecomes, NoPage
  <2>2. QED
    BY <2>1 DEF NoDeadScreen
<1>6. CASE SetSelfMute
  <2>1. PICK p, cmds : p = [page EXCEPT !.selfMuted = ~@] /\ PageBecomes(p, cmds, sock)
    BY <1>6 DEF SetSelfMute
  <2>2. page' = p
    BY <2>1 DEF PageBecomes
  <2>3. page'.connState = page.connState /\ page'.manual = page.manual
        /\ page'.suspend = page.suspend /\ page'.timer = page.timer
    BY <2>1, <2>2 DEF Typed, PageTyped, PageRecords
  <2>4. \A i \in Sockets : Speaks(i) => Speaks(i)'
    BY <2>1, SpeakersStay DEF Speaks, DialInv
  <2>5. QED
    BY <2>3, <2>4 DEF NoDeadScreen
<1>7. ASSUME NEW i \in Sockets, Opens(i) \/ OpenFails(i) \/ NetworkDrop(i) \/ Receive(i)
      PROVE  NoDeadScreen'
  <2>1. sock \in [Sockets -> SockStates]
    BY DEF DialInv
  <2>2. CASE Opens(i)
    <3> DEFINE sk == [sock EXCEPT ![i] = "open"]
    <3>1. PICK cmds : PageBecomes(page, cmds, sk)
      BY <2>2 DEF Opens
    <3>2. sk \in [Sockets -> SockStates] /\ sk[i] = "open"
      BY <2>1 DEF SockStates
    <3> HIDE DEF sk
    <3>3. QED
      BY <3>1, <3>2, SpeakersStay, OneSpeaks
  <2>3. CASE OpenFails(i) \/ NetworkDrop(i)
    <3>1. sock'[i] = "closed"
      BY <2>1, <2>3 DEF OpenFails, NetworkDrop
    <3>2. QED
      BY <3>1, OneSpeaks DEF Speaks
  <2>4. CASE Receive(i)
    <3> DEFINE m == Head(inbox[i])
    <3>1. CASE m.type = "close"
      <4>1. sock'[i] \in {"closed", "closed4001"}
        BY <2>1, <2>4, <3>1 DEF Receive
      <4>2. QED
        BY <4>1, OneSpeaks DEF Speaks
    <3>2. CASE m.type # "close"
      <4>1. PageBecomes(Handled(page, m), RestoreCommands(page, m), sock) /\ sock[i] = "open"
        BY <2>4, <3>2 DEF Receive
      <4>2. Speaks(i)'
        BY <2>1, <4>1, SpeakersStay
      <4>3. QED
        BY <4>2, OneSpeaks
    <3>3. QED
      BY <3>1, <3>2
  <2>5. QED
    BY <1>7, <2>2, <2>3, <2>4
<1>8. CASE LoginAges
  <2>1. page'.connState = page.connState /\ page'.manual = page.manual
        /\ page'.suspend = page.suspend /\ page'.timer = page.timer /\ sock' = sock
    BY <1>8 DEF LoginAges, Typed, PageTyped, PageRecords
  <2>2. QED
    BY <2>1 DEF NoDeadScreen, Speaks
<1>9. CASE UNCHANGED <<page, sock>>
  BY <1>9 DEF NoDeadScreen, Speaks
<1>10. ASSUME NEW i \in Sockets, Proxy(i) PROVE UNCHANGED <<page, sock>>
  <2>1. CASE ReadCommand(i)
    BY <2>1 DEF ReadCommand
  <2>2. CASE DialSucceeds(i)
    BY <2>2 DEF DialSucceeds
  <2>3. CASE DialFails(i) \/ UpstreamLost(i) \/ SeesClose(i)
    BY <2>3 DEF DialFails, UpstreamLost, SeesClose
  <2>4. QED
    BY <1>10, <2>1, <2>2, <2>3 DEF Proxy
<1>11. QED
  BY <1>1, <1>2, <1>3, <1>4, <1>5, <1>6, <1>7, <1>8, <1>9, <1>10 DEF Next, User, Browser, vars
----------------------------------------------------------------------------
(* The mute that a page shows and the mute that Murmur has.                *)

(* A command to (un)mute is under way, or its echo, or nothing is and the  *)
(* two agree.                                                              *)
NoMute(q) == \A k \in DOMAIN q : q[k] \notin {"mute", "unmute"}

(* What sets the shown mute.                                               *)
News == {"user", "connected"}

(* The last news in a queue is that of the mute b.                         *)
TellsMute(q, b) ==
  \E k \in DOMAIN q :
    /\ q[k].type = "user" /\ q[k].mute = b
    /\ \A l \in DOMAIN q : k < l => q[l].type \notin News

(* A queue without news.                                                   *)
TellsNothing(q) == \A k \in DOMAIN q : q[k].type \notin News

(* Once the queue q is handled, the page p of the session i shows the mute *)
(* b.                                                                      *)
Settles(q, b, p, i) ==
  TellsMute(q, b) \/ (TellsNothing(q) /\ (p.self = i => p.selfMuted = b))

(* For the page's own socket, once a session is logged in on it.           *)
MuteArrives ==
  \A i \in Sockets :
    /\ page.ws = i /\ sock[i] = "open"
    /\ srv[i].phase \in {"active", "redialing"} /\ NoMute(up[i])
    => Settles(inbox[i], srv[i].muted, page, i)

(* Of two queues of commands.                                              *)
LEMMA NoMuteConcat ==
  ASSUME NEW S, NEW q \in Seq(S), NEW r \in Seq(S), NoMute(q \o r)
  PROVE  NoMute(q) /\ NoMute(r)
<1>1. \A k \in DOMAIN q : k \in DOMAIN (q \o r) /\ (q \o r)[k] = q[k]
  OBVIOUS
<1>2. \A k \in DOMAIN r : Len(q) + k \in DOMAIN (q \o r) /\ (q \o r)[Len(q) + k] = r[k]
  OBVIOUS
<1>3. QED
  BY <1>1, <1>2 DEF NoMute

(* Of a queue of commands and its tail.                                    *)
LEMMA NoMuteTail ==
  ASSUME NEW S, NEW q \in Seq(S), q # <<>>, NoMute(Tail(q)), Head(q) \notin {"mute", "unmute"}
  PROVE  NoMute(q)
<1>1. \A k \in DOMAIN q : k # 1 => k - 1 \in DOMAIN Tail(q) /\ Tail(q)[k - 1] = q[k]
  OBVIOUS
<1>2. q[1] = Head(q)
  OBVIOUS
<1>3. QED
  BY <1>1, <1>2 DEF NoMute

(* Envelopes that tell nothing of a mute change nothing; those that do     *)
(* have the last word.                                                     *)
LEMMA TellsConcat ==
  ASSUME NEW S, NEW q \in Seq(S), NEW r \in Seq(S), NEW b
  PROVE  /\ TellsNothing(q) /\ TellsNothing(r) => TellsNothing(q \o r)
         /\ TellsMute(q, b) /\ TellsNothing(r) => TellsMute(q \o r, b)
         /\ TellsMute(r, b) => TellsMute(q \o r, b)
<1> DEFINE s == q \o r
<1>1. \A k \in DOMAIN q : k \in DOMAIN s /\ s[k] = q[k]
  OBVIOUS
<1>2. \A k \in DOMAIN r : Len(q) + k \in DOMAIN s /\ s[Len(q) + k] = r[k]
  OBVIOUS
<1>3. \A k \in DOMAIN s : k \in DOMAIN q \/ (k - Len(q) \in DOMAIN r /\ s[k] = r[k - Len(q)])
  OBVIOUS
<1>4. /\ \A k \in DOMAIN s : k \in Int
      /\ \A k \in DOMAIN r : k \in Nat \ {0}
      /\ \A k \in DOMAIN q : k \in Nat /\ k <= Len(q)
      /\ Len(q) \in Nat
  OBVIOUS
<1> HIDE DEF s
<1>5. TellsNothing(q) /\ TellsNothing(r) => TellsNothing(s)
  BY <1>1, <1>3 DEF TellsNothing
<1>6. TellsMute(q, b) /\ TellsNothing(r) => TellsMute(s, b)
  BY <1>1, <1>3 DEF TellsNothing, TellsMute
<1>7. ASSUME TellsMute(r, b) PROVE TellsMute(s, b)
  <2>1. PICK k \in DOMAIN r :
          /\ r[k].type = "user" /\ r[k].mute = b
          /\ \A l \in DOMAIN r : k < l => r[l].type \notin News
    BY <1>7 DEF TellsMute
  <2>2. Len(q) + k \in DOMAIN s /\ s[Len(q) + k] = r[k]
    BY <1>2
  <2>3. ASSUME NEW l \in DOMAIN s, Len(q) + k < l PROVE s[l].type \notin News
    <3>1. l - Len(q) \in DOMAIN r /\ s[l] = r[l - Len(q)]
      BY <1>3, <1>4, <2>3
    <3>2. k < l - Len(q)
      BY <1>4, <2>3
    <3>3. QED
      BY <2>1, <3>1, <3>2
  <2>4. QED
    BY <2>1, <2>2, <2>3 DEF TellsMute
<1>8. QED
  BY <1>5, <1>6, <1>7 DEF s

(* What the tail of a queue tells.                                         *)
LEMMA TellsTail ==
  ASSUME NEW S, NEW q \in Seq(S), q # <<>>, NEW b
  PROVE  /\ TellsNothing(q) => Head(q).type \notin News /\ TellsNothing(Tail(q))
         /\ TellsMute(q, b) =>
              \/ TellsMute(Tail(q), b)
              \/ Head(q).type = "user" /\ Head(q).mute = b /\ TellsNothing(Tail(q))
<1> DEFINE t == Tail(q)
<1>1. \A k \in DOMAIN t : k \in Nat \ {0} /\ k + 1 \in DOMAIN q /\ t[k] = q[k + 1]
  OBVIOUS
<1>2. \A k \in DOMAIN q : k \in Nat \ {0} /\ (k = 1 \/ (k - 1 \in DOMAIN t /\ t[k - 1] = q[k]))
  OBVIOUS
<1>3. Head(q) = q[1] /\ 1 \in DOMAIN q
  OBVIOUS
<1> HIDE DEF t
<1>4. TellsNothing(q) => Head(q).type \notin News /\ TellsNothing(t)
  BY <1>1, <1>3 DEF TellsNothing
<1>5. ASSUME TellsMute(q, b)
      PROVE  TellsMute(t, b) \/ (Head(q).type = "user" /\ Head(q).mute = b /\ TellsNothing(t))
  <2>1. PICK k \in DOMAIN q :
          /\ q[k].type = "user" /\ q[k].mute = b
          /\ \A l \in DOMAIN q : k < l => q[l].type \notin News
    BY <1>5 DEF TellsMute
  <2>2. CASE k = 1
    BY <1>1, <1>3, <2>1, <2>2 DEF TellsNothing
  <2>3. CASE k # 1
    <3>1. k - 1 \in DOMAIN t /\ t[k - 1] = q[k] /\ k \in Nat
      BY <1>2, <2>3
    <3>2. ASSUME NEW l \in DOMAIN t, k - 1 < l PROVE t[l].type \notin News
      <4>1. l + 1 \in DOMAIN q /\ t[l] = q[l + 1] /\ k < l + 1
        BY <1>1, <3>1, <3>2
      <4>2. QED
        BY <2>1, <4>1
    <3>3. QED
      BY <2>1, <3>1, <3>2 DEF TellsMute
  <2>4. QED
    BY <2>2, <2>3
<1>6. QED
  BY <1>4, <1>5 DEF t

(* A page that becomes p adds to its commands and opens no socket.         *)
LEMMA UpGrows ==
  ASSUME Typed, NEW p, NEW cmds \in Seq(Commands), NEW sk, PageBecomes(p, cmds, sk),
         NEW i \in Sockets, p.ws = i, NoMute(up'[i])
  PROVE  /\ sock'[i] = "open" => sk[i] = "open"
         /\ NoMute(up[i])
         /\ page.ws = i /\ sk[i] = "open" => NoMute(cmds)
<1>1. i # None
  BY SocketsAssumption
<1>2. sock'[i] = "open" => sk[i] = "open"
  BY DEF PageBecomes
<1>3. up' = IF page.ws # None /\ sk[page.ws] = "open"
            THEN [up EXCEPT ![page.ws] = @ \o cmds \o <<>>] ELSE up
  BY <1>1 DEF PageBecomes
<1>4. up[i] \in Seq(Commands) /\ DOMAIN up = Sockets
  BY DEF Typed
<1>5. CASE page.ws = i /\ sk[i] = "open"
  <2>1. up'[i] = up[i] \o cmds \o <<>>
    BY <1>1, <1>3, <1>4, <1>5
  <2>2. up'[i] = up[i] \o cmds
    BY <1>4, <2>1
  <2>3. QED
    BY <1>2, <1>4, <2>2, NoMuteConcat
<1>6. CASE ~(page.ws = i /\ sk[i] = "open")
  BY <1>2, <1>3, <1>6
<1>7. QED
  BY <1>5, <1>6

(* An event that leaves the page its mute: only what reaches its own       *)
(* socket could matter, and nothing does.                                  *)
LEMMA MuteStays ==
  ASSUME Typed, MuteArrives, NEW p, KeepsMute(page, p), NEW cmds \in Seq(Commands), NEW sk,
         PageBecomes(p, cmds, sk),
         \A i \in Sockets : sk[i] = "open" /\ srv'[i].phase \in {"active", "redialing"} =>
           sock[i] = "open" /\ srv'[i] = srv[i] /\ inbox'[i] = inbox[i]
  PROVE  MuteArrives'
<1> SUFFICES ASSUME NEW i \in Sockets, page'.ws = i, sock'[i] = "open",
                    srv'[i].phase \in {"active", "redialing"}, NoMute(up'[i])
             PROVE  Settles(inbox'[i], srv'[i].muted, page', i)
  BY DEF MuteArrives
<1>1. page' = p
  BY DEF PageBecomes
<1>2. i # None
  BY SocketsAssumption
<1>3. page.ws = i /\ p.self = page.self /\ p.selfMuted = page.selfMuted
  BY <1>1, <1>2 DEF KeepsMute
<1>4. sk[i] = "open" /\ NoMute(up[i])
  <2>1. p.ws = i
    BY <1>1
  <2>2. QED
    BY <2>1, UpGrows
<1>5. Settles(inbox[i], srv[i].muted, page, i)
  BY <1>3, <1>4 DEF MuteArrives
<1>6. QED
  BY <1>1, <1>3, <1>4, <1>5 DEF Settles

(* A page that has just dialled has no open socket.                        *)
LEMMA DialledSettles ==
  ASSUME NEW p, NEW cmds, NEW sk, PageBecomes(p, cmds, sk), p.ws \in Sockets => sk[p.ws] = "unused"
  PROVE  MuteArrives'
<1>1. page' = p
  BY DEF PageBecomes
<1>2. ASSUME NEW i \in Sockets, page'.ws = i PROVE sock'[i] # "open"
  BY <1>1, <1>2 DEF PageBecomes
<1>3. QED
  BY <1>2 DEF MuteArrives

(* A click sends the command it shows.                                     *)
LEMMA UserSettles ==
  ASSUME Typed, MuteArrives, User
  PROVE  MuteArrives'
<1>1. CASE Connect
  <2> DEFINE p == [Cancelled(page) EXCEPT !.connState = "connecting", !.endCode = "",
                    !.manual = FALSE, !.suspend = FALSE, !.connectedAt = "never",
                    !.flaps = 0, !.creds = TRUE, !.ws = Fresh]
  <2>1. PageBecomes(p, <<>>, sock) /\ Fresh \in Unused
    BY <1>1, FreshIsUnused DEF Connect
  <2>2. p.ws = Fresh
    BY DEF Typed, PageTyped, PageRecords, Cancelled
  <2>3. sock[p.ws] = "unused"
    BY <2>1, <2>2 DEF Unused
  <2> HIDE DEF p
  <2>4. QED
    BY <2>1, <2>3, DialledSettles
<1>2. CASE RetryAfterEnd
  <2> DEFINE p == [Cancelled(page) EXCEPT !.connState = "connecting", !.endCode = "",
                    !.manual = FALSE, !.suspend = FALSE, !.connectedAt = "never",
                    !.flaps = 0, !.attempt = 0, !.self = None, !.ws = Fresh]
  <2>1. PageBecomes(p, <<>>, sock) /\ Fresh \in Unused
    BY <1>2, FreshIsUnused DEF RetryAfterEnd
  <2>2. p.ws = Fresh
    BY DEF Typed, PageTyped, PageRecords, Cancelled
  <2>3. sock[p.ws] = "unused"
    BY <2>1, <2>2 DEF Unused
  <2> HIDE DEF p
  <2>4. QED
    BY <2>1, <2>3, DialledSettles
<1>3. CASE Disconnect
  <2>1. page'.ws = None
    BY <1>3 DEF Disconnect, PageBecomes, NoPage
  <2>2. \A i \in Sockets : i # None
    BY SocketsAssumption
  <2>3. QED
    BY <2>1, <2>2 DEF MuteArrives
<1>4. CASE SetSelfMute
  <2> DEFINE p == [page EXCEPT !.selfMuted = ~@]
             cmds == IF page.selfMuted THEN <<"unmute">> ELSE <<"mute">>
  <2>1. PageBecomes(p, cmds, sock)
    BY <1>4 DEF SetSelfMute
  <2>2. page' = p /\ p.ws = page.ws
    BY <2>1 DEF PageBecomes, Typed, PageTyped, PageRecords
  <2>3. ~NoMute(cmds)
    BY DEF NoMute
  <2>4. cmds \in Seq(Commands)
    <3>1. "mute" \in Commands /\ "unmute" \in Commands
      BY DEF Commands
    <3>2. QED
      BY <3>1
  <2> HIDE DEF p, cmds
  <2>5. ASSUME NEW i \in Sockets, page'.ws = i, sock'[i] = "open", NoMute(up'[i]) PROVE FALSE
    BY <2>1, <2>2, <2>3, <2>4, <2>5, UpGrows
  <2>6. QED
    BY <2>5 DEF MuteArrives
<1>5. QED
  BY <1>1, <1>2, <1>3, <1>4 DEF User

(* An envelope from the page's own socket is the echo it waits for, or     *)
(* tells nothing; one from another socket is nobody's echo.                *)
LEMMA ReceiveSettles ==
  ASSUME DialInv, Typed, MuteArrives, NEW i \in Sockets, Receive(i)
  PROVE  MuteArrives'
<1> DEFINE m == Head(inbox[i])
<1>1. inbox[i] # <<>> /\ inbox[i] \in Seq(Messages(i)) /\ m \in Messages(i) /\ srv' = srv
      /\ DOMAIN inbox = Sockets
  BY SplitInSeq DEF Receive, Typed
<1>2. CASE m.type = "close"
  <2>1. sock'[i] # "open" /\ \A j \in Sockets \ {i} : sock'[j] = sock[j] /\ inbox'[j] = inbox[j]
    <3>1. PICK st \in {"closed4001", "closed"} : sock' = [sock EXCEPT ![i] = st]
      BY <1>2 DEF Receive
    <3>2. inbox' = [inbox EXCEPT ![i] = <<>>]
      BY <1>2 DEF Receive
    <3>3. QED
      BY <1>1, <3>1, <3>2 DEF DialInv
  <2>2. UNCHANGED <<page, up>>
    BY <1>2 DEF Receive
  <2>3. QED
    BY <1>1, <2>1, <2>2 DEF MuteArrives, Settles
<1>3. CASE m.type # "close"
  <2> DEFINE p == Handled(page, m)
             cmds == RestoreCommands(page, m)
  <2>1. PageBecomes(p, cmds, sock) /\ inbox' = [inbox EXCEPT ![i] = Tail(@)]
    BY <1>3 DEF Receive
  <2>2. page' = p
    BY <2>1 DEF PageBecomes
  <2>3. cmds \in Seq(Commands)
    <3>1. "mute" \in Commands
      BY DEF Commands
    <3>2. QED
      BY <3>1 DEF RestoreCommands
  <2>4. /\ m.type \notin News => KeepsMute(page, p)
        /\ m.type = "user" =>
              p.ws = page.ws /\ p.self = page.self
              /\ p.selfMuted = IF page.self = i THEN m.mute ELSE page.selfMuted
        /\ m.type = "connected" =>
              p.ws = page.ws /\ p.selfMuted = page.selfMuted /\ p.self = i
    BY <1>1, HandledTyped DEF Typed, News
  <2> HIDE DEF p, cmds, m
  <2> SUFFICES ASSUME NEW j \in Sockets, page'.ws = j, sock'[j] = "open",
                      srv'[j].phase \in {"active", "redialing"}, NoMute(up'[j])
               PROVE  Settles(inbox'[j], srv'[j].muted, page', j)
    BY DEF MuteArrives
  <2>5. sock[j] = "open" /\ NoMute(up[j])
    BY <2>1, <2>2, <2>3, UpGrows
  <2>6. j # None
    BY SocketsAssumption
  <2>7. page.ws = j
    BY <2>2, <2>4, <2>6 DEF KeepsMute, News
  <2>8. Settles(inbox[j], srv[j].muted, page, j)
    BY <1>1, <2>5, <2>7 DEF MuteArrives
  <2>9. CASE j = i
    <3>1. inbox'[j] = Tail(inbox[i])
      BY <1>1, <2>1, <2>9
    <3>2. CASE TellsMute(inbox[i], srv[i].muted)
      <4>1. TellsMute(Tail(inbox[i]), srv[i].muted)
            \/ (m.type = "user" /\ m.mute = srv[i].muted /\ TellsNothing(Tail(inbox[i])))
        BY <1>1, <3>2, TellsTail DEF m
      <4>2. QED
        BY <1>1, <2>2, <2>4, <2>9, <3>1, <4>1 DEF Settles
    <3>3. CASE TellsNothing(inbox[i]) /\ (page.self = i => page.selfMuted = srv[i].muted)
      <4>1. m.type \notin News /\ TellsNothing(Tail(inbox[i]))
        BY <1>1, <3>3, TellsTail DEF m
      <4>2. p.self = page.self /\ p.selfMuted = page.selfMuted
        BY <2>2, <2>4, <2>6, <4>1 DEF KeepsMute
      <4>3. QED
        BY <1>1, <2>2, <2>9, <3>1, <3>3, <4>1, <4>2 DEF Settles
    <3>4. QED
      BY <2>8, <2>9, <3>2, <3>3 DEF Settles
  <2>10. CASE j # i
    <3>1. inbox'[j] = inbox[j]
      BY <1>1, <2>1, <2>10
    <3>2. p.self = j => page.self = j /\ p.selfMuted = page.selfMuted
      BY <2>2, <2>4, <2>6, <2>10 DEF KeepsMute, News
    <3>3. QED
      BY <1>1, <2>2, <2>8, <3>1, <3>2 DEF Settles
  <2>11. QED
    BY <2>9, <2>10
<1>4. QED
  BY <1>2, <1>3

(* What the browser handles, the page shows.                               *)
LEMMA BrowserSettles ==
  ASSUME DialInv, Typed, MuteArrives, NEW i \in Sockets, Browser(i)
  PROVE  MuteArrives'
<1>0. sock \in [Sockets -> SockStates] /\ srv \in [Sockets -> Sessions]
  BY DEF DialInv, Typed
<1>1. CASE Opens(i)
  <2>1. PICK cmds \in Seq(Commands) : PageBecomes(page, cmds, [sock EXCEPT ![i] = "open"])
    <3>1. "connect" \in Commands
      BY DEF Commands
    <3>2. (IF page.creds THEN <<"connect">> ELSE <<>>) \in Seq(Commands)
      BY <3>1
    <3>3. QED
      BY <1>1, <3>2 DEF Opens
  <2>2. srv'[i].phase = "idle" /\ inbox' = inbox /\ \A j \in Sockets \ {i} : srv'[j] = srv[j]
    BY <1>0, <1>1 DEF Opens, Sessions
  <2>3. \A j \in Sockets : [sock EXCEPT ![i] = "open"][j] = "open" => j = i \/ sock[j] = "open"
    BY <1>0
  <2>4. KeepsMute(page, page)
    BY DEF KeepsMute
  <2> DEFINE sk == [sock EXCEPT ![i] = "open"]
  <2>5. /\ PageBecomes(page, cmds, sk)
        /\ \A j \in Sockets : sk[j] = "open" /\ srv'[j].phase \in {"active", "redialing"} =>
              sock[j] = "open" /\ srv'[j] = srv[j] /\ inbox'[j] = inbox[j]
    BY <2>1, <2>2, <2>3
  <2> HIDE DEF sk
  <2>6. QED
    BY <2>4, <2>5, MuteStays
<1>2. CASE OpenFails(i) \/ NetworkDrop(i)
  <2>1. /\ sock'[i] # "open" /\ UNCHANGED <<page, srv>>
        /\ \A j \in Sockets \ {i} : sock'[j] = sock[j] /\ inbox'[j] = inbox[j] /\ up'[j] = up[j]
    BY <1>0, <1>2 DEF OpenFails, NetworkDrop, Typed
  <2>2. QED
    BY <2>1 DEF MuteArrives, Settles
<1>3. CASE Closes(i)
  <2>1. PICK code : \E p \in OnClose(page, code) : PageBecomes(p, <<>>, [sock EXCEPT ![i] = "dead"])
    BY <1>3 DEF Closes
  <2>2. PICK p \in OnClose(page, code) : PageBecomes(p, <<>>, [sock EXCEPT ![i] = "dead"])
    BY <2>1
  <2>3. KeepsMute(page, p) /\ <<>> \in Seq(Commands)
    BY OnCloseTyped DEF Typed
  <2>4. srv' = srv /\ \A j \in Sockets \ {i} : inbox'[j] = inbox[j]
    BY <1>3 DEF Closes, Typed
  <2> DEFINE sk == [sock EXCEPT ![i] = "dead"]
  <2>5. \A j \in Sockets : sk[j] = "open" => j # i /\ sock[j] = "open"
    BY <1>0
  <2>6. PageBecomes(p, <<>>, sk)
    BY <2>2
  <2> HIDE DEF sk
  <2>7. QED
    BY <2>3, <2>4, <2>5, <2>6, MuteStays
<1>4. CASE Receive(i)
  BY <1>4, ReceiveSettles
<1>5. QED
  BY <1>1, <1>2, <1>3, <1>4 DEF Browser

(* The proxy does not touch the page; what it does to the session of the   *)
(* page's socket, it tells.                                                *)
LEMMA ProxySettles ==
  ASSUME Typed, MuteArrives, NEW i \in Sockets, Proxy(i)
  PROVE  MuteArrives'
<1>0. page' = page /\ sock' = sock
  <2>1. CASE ReadCommand(i)
    BY <2>1 DEF ReadCommand
  <2>2. CASE DialSucceeds(i)
    BY <2>2 DEF DialSucceeds
  <2>3. CASE DialFails(i) \/ UpstreamLost(i) \/ SeesClose(i)
    BY <2>3 DEF DialFails, UpstreamLost, SeesClose
  <2>4. QED
    BY <2>1, <2>2, <2>3 DEF Proxy
<1> SUFFICES ASSUME NEW j \in Sockets, page.ws = j, sock[j] = "open",
                    srv'[j].phase \in {"active", "redialing"}, NoMute(up'[j])
             PROVE  Settles(inbox'[j], srv'[j].muted, page, j)
  BY <1>0 DEF MuteArrives
<1>1. ASSUME UNCHANGED <<inbox[j], srv[j], up[j]>>
      PROVE  Settles(inbox'[j], srv'[j].muted, page, j)
  BY <1>1 DEF MuteArrives
<1>2. /\ DOMAIN inbox = Sockets /\ DOMAIN up = Sockets /\ srv \in [Sockets -> Sessions]
      /\ inbox[j] \in Seq(Messages(j)) /\ up[j] \in Seq(Commands)
  BY DEF Typed
<1>3. ASSUME NEW q, TellsNothing(q), q \in Seq(Messages(j)), inbox'[j] = inbox[j] \o q,
             srv'[j].muted = srv[j].muted, Settles(inbox[j], srv[j].muted, page, j)
      PROVE  Settles(inbox'[j], srv'[j].muted, page, j)
  BY <1>2, <1>3, TellsConcat DEF Settles
<1>4. CASE ReadCommand(i)
  <2> DEFINE c == Head(up[i])
  <2>1. up' = [up EXCEPT ![i] = Tail(@)] /\ up[i] # <<>> /\ srv[i].phase \in {"idle", "active"}
    BY <1>4 DEF ReadCommand
  <2>2. CASE j # i
    <3>1. inbox'[j] = inbox[j] /\ srv'[j] = srv[j] /\ up'[j] = up[j]
      BY <1>2, <1>4, <2>1, <2>2 DEF ReadCommand, Push
    <3>2. QED
      BY <1>1, <3>1
  <2>3. CASE j = i
    <3>1. NoMute(Tail(up[j]))
      BY <1>2, <2>1, <2>3
    <3>2. ASSUME c \notin {"mute", "unmute"}, srv[j].phase \in {"active", "redialing"}
          PROVE  Settles(inbox[j], srv[j].muted, page, j)
      <4>1. NoMute(up[j])
        BY <1>2, <2>1, <2>3, <3>1, <3>2, NoMuteTail
      <4>2. QED
        BY <3>2, <4>1 DEF MuteArrives
    <3>3. CASE /\ c = "connect" /\ UNCHANGED srv
               /\ inbox' = Push(i, <<[type |-> "reject", code |-> "username_in_use"]>>)
      <4> DEFINE q == <<[type |-> "reject", code |-> "username_in_use"]>>
      <4>1. TellsNothing(q)
        BY DEF TellsNothing, News
      <4>2. q \in Seq(Messages(j))
        BY EnvelopesTyped DEF Refusals
      <4>3. inbox'[j] = inbox[j] \o q
        BY <1>2, <2>3, <3>3 DEF Push
      <4>4. Settles(inbox[j], srv[j].muted, page, j)
        BY <3>2, <3>3
      <4> HIDE DEF q
      <4>5. QED
        BY <1>3, <3>3, <4>1, <4>2, <4>3, <4>4
    <3>4. CASE /\ c = "connect" /\ UNCHANGED inbox
               /\ srv' = [srv EXCEPT ![i].phase = IF @ = "active" THEN "redialing" ELSE "dialing"]
      <4>1. srv[j].phase = "active" /\ srv'[j].muted = srv[j].muted
        BY <1>2, <2>1, <2>3, <3>4 DEF Sessions
      <4>2. Settles(inbox[j], srv[j].muted, page, j)
        BY <3>2, <3>4, <4>1
      <4>3. QED
        BY <3>4, <4>1, <4>2
    <3>5. CASE /\ srv[i].phase = "active"
               /\ srv' = [srv EXCEPT ![i].muted = (c = "mute")]
               /\ inbox' = Push(i, <<[type |-> "user", session |-> i, mute |-> (c = "mute")]>>)
      <4>1. (c = "mute") \in BOOLEAN
        OBVIOUS
      <4>2. PICK b \in BOOLEAN : b = (c = "mute")
        BY <4>1
      <4> DEFINE m == [type |-> "user", session |-> i, mute |-> b]
      <4>3. srv'[j].muted = b
        <5>1. srv' = [srv EXCEPT ![i].muted = b]
          BY <3>5, <4>2
        <5>2. QED
          BY <1>2, <2>3, <5>1 DEF Sessions
      <4>4. TellsMute(<<m>>, b)
        BY DEF TellsMute
      <4>5. <<m>> \in Seq(Messages(j))
        <5>1. m \in Echoes(j)
          BY <2>3 DEF Echoes
        <5> HIDE DEF m
        <5>2. QED
          BY <5>1, EnvelopesTyped
      <4>6. inbox'[j] = inbox[j] \o <<m>>
        <5>1. inbox' = Push(i, <<m>>)
          BY <3>5, <4>2
        <5> HIDE DEF m
        <5>2. QED
          BY <1>2, <2>3, <5>1 DEF Push
      <4> HIDE DEF m
      <4>7. QED
        <5>1. TellsMute(inbox[j] \o <<m>>, b)
          BY <1>2, <4>4, <4>5, TellsConcat
        <5>2. QED
          BY <4>3, <4>6, <5>1 DEF Settles
    <3>6. CASE srv' = [srv EXCEPT ![i] = [phase |-> "gone", muted |-> FALSE]]
      BY <1>2, <2>3, <3>6
    <3>7. CASE srv[i].phase = "idle" /\ UNCHANGED srv
      BY <2>3, <3>7
    <3>8. QED
      BY <1>4, <3>3, <3>4, <3>5, <3>6, <3>7 DEF ReadCommand
  <2>4. QED
    BY <2>2, <2>3
<1>5. CASE DialSucceeds(i)
  <2>1. srv'[j] = IF j \in {k \in Sockets \ {i} : LoggedIn(k)} \/ (j = i /\ srv[i].phase = "redialing")
                  THEN [phase |-> "gone", muted |-> FALSE]
                  ELSE IF j = i THEN [phase |-> "active", muted |-> FALSE] ELSE srv[j]
    BY <1>5, Zenon DEF DialSucceeds
  <2>2. j = i /\ srv[i].phase # "redialing" /\ srv'[j].muted = FALSE
    <3>1. ~(j \in {k \in Sockets \ {i} : LoggedIn(k)} \/ (j = i /\ srv[i].phase = "redialing"))
      BY <2>1
    <3>2. j # i => srv'[j] = srv[j] /\ ~LoggedIn(j)
      BY <2>1, <3>1
    <3>3. QED
      BY <2>1, <3>1, <3>2 DEF LoggedIn
  <2>3. inbox'[j] = inbox[j] \o Snapshot(j) \o <<>>
    BY <1>5, <2>2 DEF DialSucceeds
  <2>4. Snapshot(j) \in Seq(Messages(j)) /\ inbox'[j] = inbox[j] \o Snapshot(j)
    <3>1. Snapshot(j) \in Seq(Messages(j))
      BY EnvelopesTyped
    <3>2. inbox[j] \o Snapshot(j) \in Seq(Messages(j))
      BY <1>2, <3>1
    <3>3. QED
      BY <2>3, <3>1, <3>2
  <2>5. TellsMute(Snapshot(j), FALSE)
    <3>1. DOMAIN Snapshot(j) = 1 .. 3 /\ Snapshot(j)[2].type = "user" /\ Snapshot(j)[2].mute = FALSE
          /\ Snapshot(j)[3].type = "synced"
      BY DEF Snapshot
    <3>2. QED
      BY <3>1 DEF TellsMute, News
  <2>6. QED
    <3>1. TellsMute(inbox[j] \o Snapshot(j), FALSE)
      BY <1>2, <2>4, <2>5, TellsConcat
    <3>2. QED
      BY <2>2, <2>4, <3>1 DEF Settles
<1>6. CASE DialFails(i)
  <2>1. PICK m \in {[type |-> "reject", code |-> "network"], [type |-> "error"]} :
          inbox' = Push(i, <<m>>)
    BY <1>6 DEF DialFails
  <2>2. up' = up /\ srv' = [srv EXCEPT ![i].phase = IF @ = "redialing" THEN "active" ELSE "idle"]
        /\ srv[i].phase \in {"dialing", "redialing"}
    BY <1>6 DEF DialFails, Dialling
  <2>3. CASE j # i
    <3>1. inbox'[j] = inbox[j] /\ srv'[j] = srv[j]
      BY <1>2, <2>1, <2>2, <2>3 DEF Push
    <3>2. QED
      BY <1>1, <2>2, <3>1
  <2>4. CASE j = i
    <3>1. srv[j].phase = "redialing" /\ srv'[j].muted = srv[j].muted
      BY <1>2, <2>2, <2>4 DEF Sessions
    <3>2. Settles(inbox[j], srv[j].muted, page, j)
      BY <2>2, <3>1 DEF MuteArrives
    <3>3. m \in Refusals /\ m.type \notin News
      BY DEF Refusals, News
    <3>4. TellsNothing(<<m>>) /\ <<m>> \in Seq(Messages(j))
      BY <3>3, EnvelopesTyped DEF TellsNothing
    <3>5. inbox'[j] = inbox[j] \o <<m>>
      BY <1>2, <2>1, <2>4 DEF Push
    <3>6. QED
      BY <1>3, <3>1, <3>2, <3>4, <3>5
  <2>5. QED
    BY <2>3, <2>4
<1>7. CASE UpstreamLost(i)
  <2>1. j # i
    BY <1>2, <1>7 DEF UpstreamLost
  <2>2. inbox'[j] = inbox[j] /\ srv'[j] = srv[j] /\ up' = up
    BY <1>2, <1>7, <2>1 DEF UpstreamLost, Push
  <2>3. QED
    BY <1>1, <2>2
<1>8. CASE SeesClose(i)
  <2>1. j # i
    BY <1>2, <1>8 DEF SeesClose
  <2>2. QED
    BY <1>1, <1>2, <1>8, <2>1 DEF SeesClose
<1>9. QED
  BY <1>4, <1>5, <1>6, <1>7, <1>8 DEF Proxy

(* Every step keeps it.                                                    *)
LEMMA MuteStep ==
  ASSUME DialInv, Typed, MuteArrives, [Next]_vars
  PROVE  MuteArrives'
<1>0. <<>> \in Seq(Commands)
  OBVIOUS
<1>1. CASE User
  BY <1>1, UserSettles
<1>2. CASE DoAttempt
  <2> DEFINE p == [page EXCEPT !.timer = FALSE, !.ws = Fresh]
  <2>1. PageBecomes(p, <<>>, sock) /\ Fresh \in Unused
    BY <1>2, FreshIsUnused DEF DoAttempt, DialInv, PageOk
  <2>2. p.ws = Fresh
    BY DEF Typed, PageTyped, PageRecords
  <2>3. sock[p.ws] = "unused"
    BY <2>1, <2>2 DEF Unused
  <2> HIDE DEF p
  <2>4. QED
    BY <2>1, <2>3, DialledSettles
<1>3. CASE RetryNow
  <2>1. PICK p \in BegunReconnect(page) : PageBecomes(p, <<>>, sock)
    BY <1>3 DEF RetryNow
  <2>2. ~page.manual
    BY <1>3 DEF RetryNow, DialInv, PageOk
  <2>3. KeepsMute(page, p)
    BY <2>2, BegunReconnectTyped DEF Typed
  <2>4. UNCHANGED <<srv, inbox>>
    BY <1>3 DEF RetryNow
  <2>5. QED
    BY <1>0, <2>1, <2>3, <2>4, MuteStays
<1>4. CASE LoginAges
  <2>1. page'.ws = page.ws /\ page'.self = page.self /\ page'.selfMuted = page.selfMuted
        /\ UNCHANGED <<sock, inbox, up, srv>>
    BY <1>4 DEF LoginAges, Typed, PageTyped, PageRecords
  <2>2. QED
    BY <2>1 DEF MuteArrives, Settles
<1>5. CASE \E i \in Sockets : Browser(i)
  BY <1>5, BrowserSettles
<1>6. CASE \E i \in Sockets : Proxy(i)
  BY <1>6, ProxySettles
<1>7. CASE UNCHANGED vars
  BY <1>7 DEF vars, MuteArrives, Settles
<1>8. QED
  BY <1>1, <1>2, <1>3, <1>4, <1>5, <1>6, <1>7 DEF Next
----------------------------------------------------------------------------
(* The invariant and what it proves.                                       *)

(* What a page may dial, the types, and the two properties of what a page  *)
(* shows, the second strengthened to what is still under way.              *)
IInv == DialInv /\ Typed /\ NoDeadScreen /\ MuteArrives

(* The invariant holds at first,                                           *)
LEMMA InitInv == Init => IInv
<1> SUFFICES ASSUME Init PROVE IInv
  OBVIOUS
<1>1. DialInv
  BY InitDialInv
<1>2. PageTyped(page)
  <2>1. 0 \in 0..MAX_RECONNECT_ATTEMPTS /\ 0 \in 0..FLAP_LIMIT /\ FLAP_LIMIT # 0
    BY LimitsAssumption
  <2>2. QED
    BY <2>1 DEF Init, NoPage, PageTyped, PageRecords, ConnStates
<1>3. Typed
  BY <1>2 DEF Init, Typed, PageTyped, NoSession, Sessions
<1>4. NoDeadScreen
  BY DEF Init, NoPage, NoDeadScreen
<1>5. MuteArrives
  BY DEF Init, MuteArrives
<1>6. QED
  BY <1>1, <1>3, <1>4, <1>5 DEF IInv

(* and always.                                                             *)
LEMMA Invariance == Spec => []IInv
<1>1. IInv /\ [Next]_vars => IInv'
  BY StepOk, TypedStep, ScreenStep, MuteStep DEF IInv
<1>2. QED
  BY InitInv, <1>1, PTL DEF Spec

(* Every state is of the declared types: in particular the attempts and    *)
(* the flaps that appStore.ts counts never pass their limits.              *)
THEOREM TypeCorrect == Spec => []TypeOK
<1>1. IInv => TypeOK
  <2> SUFFICES ASSUME IInv PROVE TypeOK
    OBVIOUS
  <2>1. page \in PageRecords /\ (page.timer =>
          page.connState \in {"reconnecting", "connected", "ready", "failed"})
    BY DEF IInv, Typed, PageTyped
  <2>2. page.attempt \in 0..MAX_RECONNECT_ATTEMPTS /\ page.flaps \in 0..FLAP_LIMIT
    BY <2>1 DEF PageRecords
  <2>3. {page.creds, page.manual, page.suspend, page.timer, page.needRestore,
         page.selfMuted, guest} \subseteq BOOLEAN
    BY <2>1, FieldsTyped DEF IInv, Typed
  <2>4. QED
    BY <2>1, <2>2, <2>3, FieldsTyped DEF TypeOK, IInv, DialInv, Typed, SockStates, Sessions
<1>2. QED
  BY Invariance, <1>1, PTL

(* However sockets, timers and envelopes race, a page that shows a session *)
(* has a socket that can still end it, and a page that says it is          *)
(* reconnecting has a redial pending or under way (onClose and retryNow in *)
(* appStore.ts).                                                           *)
THEOREM NoScreenIsDead == Spec => []NoDeadScreen
<1>1. IInv => NoDeadScreen
  BY DEF IInv
<1>2. QED
  BY Invariance, <1>1, PTL

(* Once no command and no envelope is under way on the page's own socket,  *)
(* the mute it shows is the one Murmur has, whatever was sent, echoed,     *)
(* lost or late before (setSelfMute, restoreSession, handleMessage).       *)
THEOREM MutesAgree == Spec => []MuteAgrees
<1>1. IInv => MuteAgrees
  <2> SUFFICES ASSUME IInv, NEW i, i = page.ws, i # None, page.self = i, sock[i] = "open",
                      inbox[i] = <<>>, up[i] = <<>>, srv[i].phase = "active"
               PROVE  page.selfMuted = srv[i].muted
    BY DEF MuteAgrees
  <2>1. i \in Sockets
    BY FieldsTyped DEF IInv, Typed, PageTyped
  <2>2. NoMute(up[i])
    BY DEF NoMute
  <2>3. Settles(inbox[i], srv[i].muted, page, i)
    BY <2>1, <2>2 DEF IInv, MuteArrives
  <2>4. ~TellsMute(inbox[i], srv[i].muted)
    BY DEF TellsMute
  <2>5. QED
    BY <2>3, <2>4 DEF Settles
<1>2. QED
  BY Invariance, <1>1, PTL
=============================================================================
