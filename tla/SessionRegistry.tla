--------------------------- MODULE SessionRegistry ---------------------------
(***************************************************************************)
(* The proxy's table of nicknames in use (server/internal/bridge/          *)
(* registry.go) together with the order in which its only caller,          *)
(* connectMumble and cleanup of session.go, calls it.                      *)
(*                                                                         *)
(* A key is a (server, nickname) pair.  A session reserves its key before  *)
(* it dials Murmur, commits it when the dial succeeds, releases it when    *)
(* the dial fails, and unregisters itself when it is cleaned up.  Nothing  *)
(* stops the cleanup from running at any place of connectMumble, between   *)
(* Reserve and the store of the key too, nor a connect from being handled  *)
(* after it, so every operation can come from a session that has ended.    *)
(*                                                                         *)
(* A session handles any number of connects, one at a time.  The page may  *)
(* send a second one on a socket, and it is for the same login.            *)
(***************************************************************************)
EXTENDS Naturals

CONSTANTS
    Sessions,   \* browser WebSocket connections
    Keys,       \* registryKey(server, nickname)
    KeyOf,      \* KeyOf[s]: the key that the connects of s ask for
    ClientOf,   \* ClientOf[s]: the tab's clientId sent with the connect of s
    MaxConnects, \* MaxConnects[s]: bound on the connects of s that are granted
    NoClient,   \* the empty clientId of a page that sends none
    NoSession,  \* Go's nil *Session
    NoKey       \* the empty sessionKey

ASSUME RegistryAssumption ==
    /\ NoSession \notin Sessions
    /\ NoKey \notin Keys
    /\ KeyOf \in [Sessions -> Keys]
    /\ MaxConnects \in [Sessions -> Nat]
    /\ DOMAIN ClientOf = Sessions

VARIABLES
    entries,          \* entries[k]: who owns k and who is dialling for it
    takeoverPending,  \* Session.takeoverPending
    sessionKey,       \* Session.sessionKey
    phase,            \* where connectMumble stands
    connects,         \* how many connects of the session were granted
    loggedIn,         \* a Commit of the session has been made
    done,             \* cleanupOnce has run
    condemned         \* sessions for which "go prev.endWith" was started

vars == <<entries, takeoverPending, sessionKey, phase, connects, loggedIn, done, condemned>>

----------------------------------------------------------------------------
(* The operations on one entry.  A key missing from the Go map and an      *)
(* entry with neither owner nor pending are the same state: every method   *)
(* treats them alike and Release and Unregister delete the empty entry.    *)

MaybeSession == Sessions \cup {NoSession}

Entry == [owner : MaybeSession, pending : MaybeSession]

NoEntry == [owner |-> NoSession, pending |-> NoSession]

SameClient(a, b) ==
    /\ a \in Sessions /\ b \in Sessions
    /\ ClientOf[a] # NoClient
    /\ ClientOf[a] = ClientOf[b]

(* Broken forms of the operations below, which the properties must tell    *)
(* from the real ones.                                                     *)
ReservableWhilePending(e, s) ==
    e.owner \in {NoSession, s} \/ SameClient(e.owner, s)
CommittedKeepingPending(e, s) == [e EXCEPT !.owner = s]
NotReleased(e, s) == e
UnregisteredWhoeverOwns(e, s) == NoEntry

(* Reserve answers ok.                                                     *)
Reservable(e, s) ==
    /\ e.pending = NoSession
    /\ e.owner \in {NoSession, s} \/ SameClient(e.owner, s)

Reserved(e, s) == IF e.owner = s THEN e ELSE [e EXCEPT !.pending = s]

Committed(e, s) ==
    [owner |-> s, pending |-> IF e.pending = s THEN NoSession ELSE e.pending]

(* Release: gives up a reservation and leaves the owner alone.             *)
Released(e, s) ==
    IF e.pending = s THEN [e EXCEPT !.pending = NoSession] ELSE e

(* Unregister: removes s as pending and as owner, and nobody else.         *)
Unregistered(e, s) ==
    [owner   |-> IF e.owner = s THEN NoSession ELSE e.owner,
     pending |-> Released(e, s).pending]

(* TakeoverPending(key, s).                                                *)
IsTakeoverPending(k, s) ==
    k \in Keys /\ entries[k].owner = s /\ entries[k].pending # NoSession

(* What Reserve does to the owner's takeoverPending flag.                  *)
MarkedByReserve(e, s) ==
    [t \in Sessions |-> takeoverPending[t] \/ (t = e.owner /\ t # s)]

(* What Release and Unregister do to it.                                   *)
UnmarkedBy(e, s) ==
    [t \in Sessions |-> takeoverPending[t] /\ ~(e.pending = s /\ t = e.owner)]

----------------------------------------------------------------------------

Init ==
    /\ entries = [k \in Keys |-> NoEntry]
    /\ takeoverPending = [s \in Sessions |-> FALSE]
    /\ sessionKey = [s \in Sessions |-> NoKey]
    /\ phase = [s \in Sessions |-> "idle"]
    /\ connects = [s \in Sessions |-> 0]
    /\ loggedIn = [s \in Sessions |-> FALSE]
    /\ done = [s \in Sessions |-> FALSE]
    /\ condemned = {}

(* connectMumble reaches Reserve and is granted the key.  A refusal        *)
(* changes nothing: the browser gets reject username_in_use.               *)
Reserve(s) ==
    LET k == KeyOf[s]
    IN  /\ phase[s] = "idle"
        /\ connects[s] < MaxConnects[s]
        /\ Reservable(entries[k], s)
        /\ entries' = [entries EXCEPT ![k] = Reserved(@, s)]
        /\ takeoverPending' = MarkedByReserve(entries[k], s)
        /\ phase' = [phase EXCEPT ![s] = "reserved"]
        /\ connects' = [connects EXCEPT ![s] = @ + 1]
        /\ UNCHANGED <<sessionKey, loggedIn, done, condemned>>

(* s.sessionKey = key, without a lock; the dial follows.                   *)
StoreKey(s) ==
    /\ phase[s] = "reserved"
    /\ sessionKey' = [sessionKey EXCEPT ![s] = KeyOf[s]]
    /\ phase' = [phase EXCEPT ![s] = "dialing"]
    /\ UNCHANGED <<entries, takeoverPending, connects, loggedIn, done, condemned>>

(* Dial succeeded: Commit, and a goroutine is started to end the previous  *)
(* owner, whoever that was: of a second connect, the session itself.       *)
Commit(s) ==
    LET k == KeyOf[s]
        prev == entries[k].owner
    IN  /\ phase[s] = "dialing"
        /\ entries' = [entries EXCEPT ![k] = Committed(@, s)]
        /\ condemned' = condemned \cup ({prev} \ {NoSession})
        /\ phase' = [phase EXCEPT ![s] = "idle"]
        /\ loggedIn' = [loggedIn EXCEPT ![s] = TRUE]
        /\ UNCHANGED <<takeoverPending, sessionKey, connects, done>>

(* No WebRTC peer, or the dial failed: releaseReservation, which forgets   *)
(* the key even of a session that owns it through an earlier connect.      *)
Release(s) ==
    LET k == sessionKey[s]
    IN  /\ phase[s] = "dialing"
        /\ entries' = [entries EXCEPT ![k] = Released(@, s)]
        /\ takeoverPending' = UnmarkedBy(entries[k], s)
        /\ sessionKey' = [sessionKey EXCEPT ![s] = NoKey]
        /\ phase' = [phase EXCEPT ![s] = "idle"]
        /\ UNCHANGED <<connects, loggedIn, done, condemned>>

(* cleanup, the first time: from the read loop, the write pump, the        *)
(* upstream's OnDisconnect or endWith, at any moment.                      *)
Cleanup(s) ==
    LET k == sessionKey[s]
    IN  /\ ~done[s]
        /\ done' = [done EXCEPT ![s] = TRUE]
        /\ IF k = NoKey
           THEN UNCHANGED <<entries, takeoverPending>>
           ELSE /\ entries' = [entries EXCEPT ![k] = Unregistered(@, s)]
                /\ takeoverPending' = UnmarkedBy(entries[k], s)
        /\ UNCHANGED <<sessionKey, phase, connects, loggedIn, condemned>>

Next ==
    \E s \in Sessions :
        \/ Reserve(s)
        \/ StoreKey(s)
        \/ Commit(s)
        \/ Release(s)
        \/ Cleanup(s)

Spec == Init /\ [][Next]_vars

(* The dial has a ten second timeout and endWith runs in a goroutine of    *)
(* its own, so both end; nothing obliges a browser to connect or to leave. *)
Fairness ==
    \A s \in Sessions :
        /\ WF_vars(StoreKey(s) \/ Commit(s) \/ Release(s))
        /\ WF_vars(s \in condemned /\ Cleanup(s))

FairSpec == Spec /\ Fairness

----------------------------------------------------------------------------

Phases == {"idle", "reserved", "dialing"}

(* Type invariant: every variable has its type, and no entry names one     *)
(* session both as the owner and as the one about to replace it.           *)
TypeOK ==
    /\ entries \in [Keys -> Entry]
    /\ takeoverPending \in [Sessions -> BOOLEAN]
    /\ sessionKey \in [Sessions -> Keys \cup {NoKey}]
    /\ phase \in [Sessions -> Phases]
    /\ connects \in [Sessions -> Nat]
    /\ loggedIn \in [Sessions -> BOOLEAN]
    /\ done \in [Sessions -> BOOLEAN]
    /\ condemned \in SUBSET Sessions
    /\ \A k \in Keys :
          entries[k].owner # NoSession => entries[k].owner # entries[k].pending

(* Logged in under k, whether or not it is dialling again, not cleaned up, *)
(* and nobody has been sent to end it.                                     *)
Active(s, k) ==
    /\ loggedIn[s] /\ KeyOf[s] = k
    /\ ~done[s]
    /\ s \notin condemned

(* At most one active session per (server, nickname): the opening promise  *)
(* of registry.go.                                                         *)
OneActive ==
    \A k \in Keys, s, t \in Sessions :
        Active(s, k) /\ Active(t, k) => s = t

(* connectMumble is between Reserve and the end of its dial.               *)
Dialing(s) == phase[s] \in {"reserved", "dialing"}

(* A reservation belongs to a session that is dialling for that key, so a  *)
(* nickname is never reserved for nobody.                                  *)
PendingIsDialing ==
    \A k \in Keys, s \in Sessions :
        entries[k].pending = s => Dialing(s) /\ KeyOf[s] = k

(* The flag that Reserve, Release and Unregister maintain on the owner     *)
(* says for every active session what the table says (TakeoverPending).    *)
FlagMatchesPending ==
    \A k \in Keys, s \in Sessions :
        Active(s, k) => (takeoverPending[s] <=> IsTakeoverPending(k, s))

(* An active session is displaced only by a session of its own tab, or by  *)
(* one that had itself ended, or been sent to its end, while its dial was  *)
(* in flight.  These cases are not what registry.go promises: see          *)
(* BridgeSession.                                                          *)
DisplacedBy(k, s, t) ==
    /\ Active(t, k) /\ entries'[k].owner = s /\ s # t /\ s # NoSession

TakeoverStaysInTab ==
    \A k \in Keys, s, t \in Sessions :
        DisplacedBy(k, s, t) =>
            done[s] \/ s \in condemned \/ (ClientOf[s] = ClientOf[t] /\ ClientOf[s] # NoClient)

(* No step breaks that: Reserve, Commit, Release and cleanup alike.        *)
TakeoverOnlyBySameTab == [][TakeoverStaysInTab]_vars

(* Every reservation is promoted or given back, so the nickname does not   *)
(* stay blocked behind a dial.                                             *)
ReservationSettles ==
    \A k \in Keys, s \in Sessions :
        entries[k].pending = s ~> entries[k].pending # s

----------------------------------------------------------------------------
(* The inductive invariant behind OneActive, FlagMatchesPending and        *)
(* TakeoverOnlyBySameTab.                                                  *)

ActiveIsOwner ==
    \A k \in Keys, s \in Sessions : Active(s, k) => entries[k].owner = s

OwnerIsOnline ==
    \A k \in Keys, s \in Sessions :
        entries[k].owner = s => loggedIn[s] /\ KeyOf[s] = k

KeyIsHeld ==
    \A s \in Sessions :
        /\ sessionKey[s] \in {NoKey, KeyOf[s]}
        /\ phase[s] = "dialing" => sessionKey[s] = KeyOf[s]

(* Only the end of s takes away the reservation of s: no other session     *)
(* can, even one that commits out of turn.  A session that dials again     *)
(* under a name it owns has none, and need not.                            *)
LiveDialIsPending ==
    \A s \in Sessions :
        Dialing(s) /\ ~done[s] /\ s \notin condemned =>
            s \in {entries[KeyOf[s]].pending, entries[KeyOf[s]].owner}

PendingIsSameTab ==
    \A k \in Keys, s, t \in Sessions :
        entries[k].pending = s /\ Active(t, k) => SameClient(t, s)

FlaggedIsOnline ==
    \A s \in Sessions : takeoverPending[s] => loggedIn[s]

IInv ==
    /\ TypeOK
    /\ ActiveIsOwner
    /\ OwnerIsOnline
    /\ KeyIsHeld
    /\ PendingIsDialing
    /\ LiveDialIsPending
    /\ PendingIsSameTab
    /\ FlaggedIsOnline
    /\ FlagMatchesPending
=============================================================================
