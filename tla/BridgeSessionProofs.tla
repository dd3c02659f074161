------------------------- MODULE BridgeSessionProofs -------------------------
(***************************************************************************)
(* BridgeSession implements SessionRegistry, and what its runs check of    *)
(* login and end, for any sets of sessions and keys, any assignment of     *)
(* keys and clientIds and any number of connects.  The table's own         *)
(* invariant is not proved again: every step of a goroutine is a step of   *)
(* the table or leaves it alone, so that the lemmas of                     *)
(* SessionRegistryProofs carry over.                                       *)
(***************************************************************************)
EXTENDS BridgeSession, TLAPS

(* The registry's theorems, of the table that the bridge drives.           *)
RegProofs == INSTANCE SessionRegistryProofs WITH phase <- DialPhase, condemned <- Condemned

USE BridgeAssumption

----------------------------------------------------------------------------
(* The inductive invariant.                                                *)

(* Types of what the table does not have.                                  *)
OwnTypes ==
    /\ unseen \in [Sessions -> SUBSET {"owner", "pending"}]
    /\ pc \in [Sessions -> {"idle", "reserved", "dialing", "attaching", "over"}]
    /\ client \in [Sessions -> Nat]
    /\ up \in [Clients -> {"none", "authed", "synced", "down"}]
    /\ link \in [Clients -> {"none", "open", "kicked", "closed"}]
    /\ discType \in [Clients -> {"error", "kicked", "user"}]
    /\ notify \in [Clients -> {"none", "raised", "pushed", "over"}]
    /\ ender \in [Sessions -> {"none", "spawned", "pushed", "over"}]
    /\ closing \in [Sessions -> BOOLEAN]
    /\ ws \in [Sessions -> {"open", "gone"}]
    /\ told \in [Sessions -> BOOLEAN]

(* The n-th connect makes the n-th client, and a handle is of an earlier   *)
(* dial than the one under way.                                            *)
Counts ==
    \A s \in Sessions :
        /\ connects[s] \in 0..MaxConnects[s]
        /\ client[s] \in 0..connects[s]
        /\ pc[s] \in {"reserved", "dialing", "attaching"} => client[s] < connects[s]

(* A client comes into being in its dial, OnDisconnect is raised when its  *)
(* read goroutine is down, and once Murmur has accepted a dial it has      *)
(* removed the login that the session still has a handle of.               *)
Handshake ==
    /\ \A c \in Clients :
          /\ notify[c] # "none" => up[c] = "down"
          /\ up[c] # "none" => c[2] <= connects[SessionOf(c)]
    /\ \A s \in Sessions :
          /\ pc[s] = "reserved" => up[Dialled(s)] = "none"
          /\ pc[s] = "attaching" => up[Dialled(s)] # "none"
          /\ pc[s] \in {"dialing", "attaching"} /\ client[s] # 0 /\ up[Dialled(s)] # "none" =>
                link[Handle(s)] # "open"

(* The upstream's logins are somebody's.                                   *)
Upstream == Handshake /\ NoOrphanedLogin

(* A session that has logged in has a client that did, and not the one it  *)
(* is dialling with.                                                       *)
LoggedInHasClient ==
    \A s \in Sessions :
        loggedIn[s] =>
            \E c \in Clients :
                /\ SessionOf(c) = s /\ up[c] \in {"synced", "down"}
                /\ pc[s] \in {"reserved", "dialing"} => c # Dialled(s)

(* The session was taken over, by a rival or by itself.                    *)
Overtaken(s) == HasRival(s) \/ LoggedInTwice(s)

(* There is a takeover to speak of, nobody to speak to, or the session     *)
(* already has its close code.                                             *)
Spent(s) == Overtaken(s) \/ ws[s] = "gone" \/ closing[s]

(* Owners that are about to be replaced, sessions with an endWith and, but *)
(* for those whose read loop is over, sessions that have ended.            *)
Leaving(s) ==
    \/ \E k \in Keys : entries[k].owner = s /\ entries[k].pending # NoSession
    \/ ender[s] # "none"
    \/ done[s] /\ pc[s] # "over"

LeavingIsSpent == \A s \in Sessions : Leaving(s) => Spent(s)

(* A close code is set with a reason: a takeover, or a loss of upstream.   *)
ClosingHasReason ==
    \A s \in Sessions :
        closing[s] =>
            \/ Overtaken(s) \/ ws[s] = "gone"
            \/ \E c \in Clients : SessionOf(c) = s /\ notify[c] = "over"

(* What a session is told of its end.                                      *)
Notices ==
    LoggedInHasClient /\ LeavingIsSpent /\ ClosingHasReason /\ TakeoverNoticeTruthful

(* The inductive invariant: the table's own, and what the bridge adds.     *)
IInv == Reg!IInv /\ OwnTypes /\ Counts /\ Upstream /\ EndedLetsGo /\ Notices

----------------------------------------------------------------------------
(* Clients.                                                                *)

(* A client is a session with the number of a dial.                        *)
LEMMA ClientShape ==
    /\ \A c \in Clients : /\ SessionOf(c) \in Sessions
                          /\ c[2] \in Nat \ {0}
                          /\ c = <<SessionOf(c), c[2]>>
    /\ \A s \in Sessions, n \in Nat :
          /\ SessionOf(<<s, n>>) = s
          /\ <<s, n>> \in Clients <=> n \in 1..MaxConnects[s]
<1>1. ASSUME NEW c \in Clients
      PROVE  SessionOf(c) \in Sessions /\ c[2] \in Nat \ {0} /\ c = <<SessionOf(c), c[2]>>
    <2>1. PICK s \in Sessions : c \in {s} \X (1..MaxConnects[s])
        BY <1>1 DEF Clients
    <2>2. MaxConnects[s] \in Nat
        OBVIOUS
    <2>3. QED
        BY <2>1, <2>2 DEF SessionOf
<1>2. ASSUME NEW s \in Sessions, NEW n \in Nat
      PROVE  SessionOf(<<s, n>>) = s /\ (<<s, n>> \in Clients <=> n \in 1..MaxConnects[s])
    BY DEF Clients, SessionOf
<1>3. QED
    BY <1>1, <1>2

----------------------------------------------------------------------------
(* The table as the bridge uses it.                                        *)

(* The instance of the proofs speaks of the same table.                    *)
LEMMA SameTable ==
    /\ RegProofs!RegistryAssumption
    /\ Reg!IInv <=> RegProofs!IInv
    /\ [Reg!Next]_(Reg!vars) => [RegProofs!Next]_(RegProofs!vars)
    /\ Reg!Init => RegProofs!Init
<1>1. RegProofs!RegistryAssumption
    BY DEF RegProofs!RegistryAssumption, BridgeAssumption
<1>2. Reg!IInv <=> RegProofs!IInv
    BY DEF Reg!IInv, RegProofs!IInv, Reg!TypeOK, RegProofs!TypeOK,
        Reg!ActiveIsOwner, RegProofs!ActiveIsOwner, Reg!OwnerIsOnline, RegProofs!OwnerIsOnline,
        Reg!KeyIsHeld, RegProofs!KeyIsHeld, Reg!PendingIsDialing, RegProofs!PendingIsDialing,
        Reg!LiveDialIsPending, RegProofs!LiveDialIsPending,
        Reg!PendingIsSameTab, RegProofs!PendingIsSameTab,
        Reg!FlaggedIsOnline, RegProofs!FlaggedIsOnline,
        Reg!FlagMatchesPending, RegProofs!FlagMatchesPending,
        Reg!Active, RegProofs!Active, Reg!Dialing, RegProofs!Dialing,
        Reg!SameClient, RegProofs!SameClient,
        Reg!IsTakeoverPending, RegProofs!IsTakeoverPending,
        Reg!Entry, RegProofs!Entry, Reg!MaybeSession, RegProofs!MaybeSession,
        Reg!Phases, RegProofs!Phases
<1>3. Reg!Next <=> RegProofs!Next
    BY DEF Reg!Next, RegProofs!Next, Reg!Reserve, RegProofs!Reserve,
        Reg!StoreKey, RegProofs!StoreKey,
        Reg!Commit, RegProofs!Commit, Reg!Release, RegProofs!Release,
        Reg!Cleanup, RegProofs!Cleanup, Reg!Reservable, RegProofs!Reservable,
        Reg!Reserved, RegProofs!Reserved, Reg!Committed, RegProofs!Committed,
        Reg!Released, RegProofs!Released, Reg!Unregistered, RegProofs!Unregistered,
        Reg!MarkedByReserve, RegProofs!MarkedByReserve, Reg!UnmarkedBy, RegProofs!UnmarkedBy,
        Reg!SameClient, RegProofs!SameClient
<1>4. Reg!Init <=> RegProofs!Init
    BY DEF Reg!Init, RegProofs!Init, Reg!NoEntry, RegProofs!NoEntry
<1>5. QED
    BY <1>1, <1>2, <1>3, <1>4 DEF Reg!vars, RegProofs!vars

(* The table's invariant is inductive here too.                            *)
LEMMA TableInductive ==
    /\ Reg!Init => Reg!IInv
    /\ Reg!IInv /\ [Reg!Next]_(Reg!vars) => Reg!IInv'
<1>1. Reg!Init => Reg!IInv
    BY SameTable, RegProofs!InitInv
<1>2. Reg!IInv' <=> RegProofs!IInv'
    BY DEF Reg!IInv, RegProofs!IInv, Reg!TypeOK, RegProofs!TypeOK,
        Reg!ActiveIsOwner, RegProofs!ActiveIsOwner, Reg!OwnerIsOnline, RegProofs!OwnerIsOnline,
        Reg!KeyIsHeld, RegProofs!KeyIsHeld, Reg!PendingIsDialing, RegProofs!PendingIsDialing,
        Reg!LiveDialIsPending, RegProofs!LiveDialIsPending,
        Reg!PendingIsSameTab, RegProofs!PendingIsSameTab,
        Reg!FlaggedIsOnline, RegProofs!FlaggedIsOnline,
        Reg!FlagMatchesPending, RegProofs!FlagMatchesPending,
        Reg!Active, RegProofs!Active, Reg!Dialing, RegProofs!Dialing,
        Reg!SameClient, RegProofs!SameClient,
        Reg!IsTakeoverPending, RegProofs!IsTakeoverPending,
        Reg!Entry, RegProofs!Entry, Reg!MaybeSession, RegProofs!MaybeSession,
        Reg!Phases, RegProofs!Phases
<1>3. QED
    BY <1>1, <1>2, SameTable, RegProofs!NextInv

(* What the table's invariant says in the bridge's own terms.              *)
LEMMA TableFacts ==
    ASSUME Reg!IInv, OwnTypes
    PROVE  /\ entries \in [Keys -> Reg!Entry]
           /\ sessionKey \in [Sessions -> Keys \cup {NoKey}]
           /\ done \in [Sessions -> BOOLEAN]
           /\ connects \in [Sessions -> Nat]
           /\ loggedIn \in [Sessions -> BOOLEAN]
           /\ \A k \in Keys : /\ entries[k].owner \in Sessions \cup {NoSession}
                              /\ entries[k].pending \in Sessions \cup {NoSession}
           /\ \A s \in Sessions, k \in Keys :
                 /\ entries[k].owner = s => loggedIn[s] /\ KeyOf[s] = k
                 /\ entries[k].pending = s => pc[s] \in {"reserved", "dialing"} /\ KeyOf[s] = k
           /\ \A s \in Sessions :
                 /\ sessionKey[s] \in {NoKey, KeyOf[s]}
                 /\ pc[s] = "dialing" => sessionKey[s] = KeyOf[s]
                 /\ pc[s] \in {"reserved", "dialing"} /\ ~done[s] /\ ender[s] = "none" =>
                        s \in {entries[KeyOf[s]].pending, entries[KeyOf[s]].owner}
<1>1. \A s \in Sessions : /\ DialPhase[s] = "dialing" <=> pc[s] = "dialing"
                          /\ Reg!Dialing(s) <=> pc[s] \in {"reserved", "dialing"}
    BY DEF DialPhase, OwnTypes, Reg!Dialing
<1>2. \A s \in Sessions : s \in Condemned <=> ender[s] # "none"
    BY DEF Condemned
<1>3. Reg!TypeOK /\ Reg!OwnerIsOnline /\ Reg!PendingIsDialing /\ Reg!KeyIsHeld /\ Reg!LiveDialIsPending
    BY DEF Reg!IInv
<1>4. \A k \in Keys : /\ entries[k].owner \in Sessions \cup {NoSession}
                     /\ entries[k].pending \in Sessions \cup {NoSession}
    BY <1>3 DEF Reg!TypeOK, Reg!Entry, Reg!MaybeSession
<1>5. QED
    BY <1>1, <1>2, <1>3, <1>4 DEF Reg!TypeOK, Reg!OwnerIsOnline, Reg!PendingIsDialing,
        Reg!KeyIsHeld, Reg!LiveDialIsPending

(* How the table's phase follows the read loop.                            *)
LEMMA PhaseMoves ==
    ASSUME OwnTypes, NEW s \in Sessions, NEW p, pc' = [pc EXCEPT ![s] = p]
    PROVE  /\ DialPhase[s] = IF pc[s] \in {"reserved", "dialing"} THEN pc[s] ELSE "idle"
           /\ DialPhase' =
                [DialPhase EXCEPT ![s] = IF p \in {"reserved", "dialing"} THEN p ELSE "idle"]
<1>1. \A t \in Sessions : pc'[t] = IF t = s THEN p ELSE pc[t]
    BY DEF OwnTypes
<1>2. DialPhase' = [t \in Sessions |-> IF pc'[t] \in {"reserved", "dialing"} THEN pc'[t] ELSE "idle"]
    BY DEF DialPhase
<1>3. DialPhase = [t \in Sessions |-> IF pc[t] \in {"reserved", "dialing"} THEN pc[t] ELSE "idle"]
    BY DEF DialPhase
<1>4. QED
    BY <1>1, <1>2, <1>3

(* cleanup is the table's Cleanup, or nothing.                             *)
LEMMA CleanupIsRegs ==
    ASSUME NEW s \in Sessions, Cleanup(s), DialPhase' = DialPhase, Condemned' = Condemned,
           UNCHANGED <<sessionKey, connects, loggedIn>>
    PROVE  [Reg!Next]_(Reg!vars)
<1>1. CASE done[s]
    BY <1>1 DEF Cleanup, Reg!vars
<1>2. CASE ~done[s]
    <2>1. Reg!Cleanup(s)
        BY <1>2 DEF Cleanup, Reg!Cleanup
    <2>2. QED
        BY <2>1 DEF Reg!Next
<1>3. QED
    BY <1>1, <1>2

(* Each goroutine's step is a step of the table or leaves it alone.        *)
LEMMA TableStep ==
    ASSUME Reg!IInv, OwnTypes, [Next]_vars
    PROVE  [Reg!Next]_(Reg!vars)
<1> USE DEF registryVars, pastVars, upstreamVars, endingVars, browserVars
<1>1. pc' = pc => DialPhase' = DialPhase
    BY DEF DialPhase
<1>2. ender' = ender => Condemned' = Condemned
    BY DEF Condemned
<1>3. UNCHANGED <<pc, ender, entries, takeoverPending, sessionKey, done, connects, loggedIn>>
         => [Reg!Next]_(Reg!vars)
    BY <1>1, <1>2 DEF Reg!vars
<1>4. ASSUME NEW s \in Sessions, Connect(s) PROVE [Reg!Next]_(Reg!vars)
    <2>1. /\ Condemned' = Condemned /\ DialPhase[s] = "idle"
          /\ DialPhase' = [DialPhase EXCEPT ![s] = "reserved"]
        BY <1>2, <1>4, PhaseMoves DEF Connect
    <2>2. Reg!Reserve(s)
        BY <1>4, <2>1 DEF Connect, Reg!Reserve
    <2>3. QED
        BY <2>2 DEF Reg!Next
<1>5. ASSUME NEW s \in Sessions, StoreKey(s) PROVE [Reg!Next]_(Reg!vars)
    <2>1. /\ Condemned' = Condemned /\ DialPhase[s] = "reserved"
          /\ DialPhase' = [DialPhase EXCEPT ![s] = "dialing"]
        BY <1>2, <1>5, PhaseMoves DEF StoreKey
    <2>2. Reg!StoreKey(s)
        BY <1>5, <2>1 DEF StoreKey, Reg!StoreKey
    <2>3. QED
        BY <2>2 DEF Reg!Next
<1>6. ASSUME NEW s \in Sessions, DialFail(s) PROVE [Reg!Next]_(Reg!vars)
    <2>1. /\ Condemned' = Condemned /\ DialPhase[s] = "dialing"
          /\ DialPhase' = [DialPhase EXCEPT ![s] = "idle"]
        BY <1>2, <1>6, PhaseMoves DEF DialFail
    <2>2. Reg!Release(s)
        BY <1>6, <2>1 DEF DialFail, Reg!Release
    <2>3. QED
        BY <2>2 DEF Reg!Next
<1>7. ASSUME NEW s \in Sessions, DialDone(s) PROVE [Reg!Next]_(Reg!vars)
    <2> DEFINE prev == entries[KeyOf[s]].owner
    <2>1. /\ DialPhase[s] = "dialing" /\ DialPhase' = [DialPhase EXCEPT ![s] = "idle"]
        BY <1>7, PhaseMoves DEF DialDone
    <2>2. prev \in Sessions \cup {NoSession}
        BY TableFacts
    <2>3. ender' = [t \in Sessions |-> IF t = prev THEN "spawned" ELSE ender[t]]
        BY <1>7 DEF DialDone
    <2>4. Condemned' = Condemned \cup ({prev} \ {NoSession})
        BY <2>2, <2>3 DEF Condemned
    <2>5. Reg!Commit(s)
        BY <1>7, <2>1, <2>4 DEF DialDone, Reg!Commit
    <2>6. QED
        BY <2>5 DEF Reg!Next
<1>8. ASSUME NEW s \in Sessions, Attach(s) PROVE [Reg!Next]_(Reg!vars)
    <2>1. DialPhase' = DialPhase /\ Condemned' = Condemned
        BY <1>2, <1>8 DEF Attach, DialPhase, OwnTypes
    <2>2. QED
        BY <1>8, <2>1 DEF Attach, Reg!vars
<1>9. ASSUME NEW s \in Sessions, UserDisconnect(s) \/ ReadFail(s) PROVE [Reg!Next]_(Reg!vars)
    <2>1. DialPhase' = DialPhase /\ Condemned' = Condemned
        BY <1>2, <1>9 DEF UserDisconnect, ReadFail, DialPhase, OwnTypes
    <2>2. QED
        BY <1>9, <2>1, CleanupIsRegs DEF UserDisconnect, ReadFail
<1>10. ASSUME NEW s \in Sessions, WriteFail(s) PROVE [Reg!Next]_(Reg!vars)
    BY <1>1, <1>2, <1>10, CleanupIsRegs DEF WriteFail
<1>11. ASSUME NEW c \in Clients, LossCleanup(c) PROVE [Reg!Next]_(Reg!vars)
    BY <1>1, <1>2, <1>11, CleanupIsRegs, ClientShape DEF LossCleanup
<1>12. ASSUME NEW s \in Sessions, EndPush(s) PROVE [Reg!Next]_(Reg!vars)
    <2>1. Condemned' = Condemned
        BY <1>12 DEF EndPush, Condemned, OwnTypes
    <2>2. QED
        BY <1>1, <1>12, <2>1 DEF EndPush, Reg!vars
<1>13. ASSUME NEW s \in Sessions, EndCleanup(s) PROVE [Reg!Next]_(Reg!vars)
    <2>1. Condemned' = Condemned
        BY <1>13 DEF EndCleanup, Condemned, OwnTypes
    <2>2. QED
        BY <1>1, <1>13, <2>1, CleanupIsRegs DEF EndCleanup
<1>14. ASSUME NEW s \in Sessions, MurmurAccepts(s) \/ BrowserGone(s) PROVE [Reg!Next]_(Reg!vars)
    BY <1>3, <1>14 DEF MurmurAccepts, BrowserGone
<1>15. ASSUME NEW c \in Clients,
              Sync(c) \/ HandleKick(c) \/ ReadRoutineEnds(c) \/ LossPush(c) \/ MurmurKicks(c) \/ LinkBreaks(c)
       PROVE  [Reg!Next]_(Reg!vars)
    BY <1>3, <1>15 DEF Sync, HandleKick, ReadRoutineEnds, LossPush, MurmurKicks, LinkBreaks
<1>16. CASE UNCHANGED vars
    BY <1>3, <1>16 DEF vars
<1>17. QED
    BY <1>4, <1>5, <1>6, <1>7, <1>8, <1>9, <1>10, <1>11, <1>12, <1>13, <1>14, <1>15, <1>16
       DEF Next, ReadLoop, ReadRoutine, EndWith, Murmur

----------------------------------------------------------------------------
(* The helpers.                                                            *)

(* The client of a dial, and the one that a handle points to.              *)
LEMMA DialShape ==
    ASSUME OwnTypes, Counts, NEW s \in Sessions
    PROVE  /\ Dialled(s) = <<s, connects[s]>> /\ Handle(s) = <<s, client[s]>>
           /\ SessionOf(Dialled(s)) = s /\ Dialled(s)[2] = connects[s]
           /\ SessionOf(Handle(s)) = s
           /\ pc[s] \in {"reserved", "dialing", "attaching"} =>
                Dialled(s) \in Clients /\ Dialled(s) # Handle(s)
           /\ client[s] # 0 => Handle(s) \in Clients
<1>1. connects[s] \in 0..MaxConnects[s] /\ client[s] \in 0..connects[s] /\ MaxConnects[s] \in Nat
    BY DEF Counts
<1>2. pc[s] \in {"reserved", "dialing", "attaching"} => client[s] < connects[s]
    BY DEF Counts
<1>3. connects[s] \in Nat /\ client[s] \in Nat
    BY <1>1
<1>4. pc[s] \in {"reserved", "dialing", "attaching"} => connects[s] \in 1..MaxConnects[s]
    BY <1>1, <1>2, <1>3
<1>5. client[s] # 0 => client[s] \in 1..MaxConnects[s]
    BY <1>1, <1>3
<1>6. client[s] < connects[s] => <<s, connects[s]>> # <<s, client[s]>>
    BY <1>3
<1>7. QED
    BY <1>2, <1>3, <1>4, <1>5, <1>6, ClientShape DEF Dialled, Handle, SessionOf

(* Closing a connection never opens it.                                    *)
LEMMA LinkClosed ==
    ASSUME OwnTypes, NEW c \in Clients, NEW l \in LinkAfterClose(c)
    PROVE  l \in {"none", "kicked", "closed"}
BY DEF LinkAfterClose, OwnTypes

(* What cleanup changes: nothing the second time, and otherwise s ends,    *)
(* drops its handle, whose connection is closed, and its nickname, or      *)
(* overlooks it.                                                           *)
LEMMA CleanupOk ==
    ASSUME OwnTypes, Counts, Reg!IInv, NEW s \in Sessions, Cleanup(s)
    PROVE  /\ client' \in [Sessions -> Nat]
           /\ link' \in [Clients -> {"none", "open", "kicked", "closed"}]
           /\ discType' \in [Clients -> {"error", "kicked", "user"}]
           /\ unseen' \in [Sessions -> SUBSET {"owner", "pending"}]
           /\ done' = [done EXCEPT ![s] = TRUE]
           /\ done[s] => UNCHANGED <<client, link, entries, unseen>>
           /\ ~done[s] => client' = [client EXCEPT ![s] = 0]
           /\ \A c \in Clients : link'[c] = "open" => link[c] = "open"
           /\ ~done[s] /\ client[s] # 0 => link'[Handle(s)] # "open"
           /\ \A t \in Sessions : t # s => unseen'[t] = unseen[t]
           /\ ~done[s] => \A k \in Keys : /\ entries'[k].owner = s => "owner" \in unseen'[s]
                                          /\ entries'[k].pending = s => "pending" \in unseen'[s]
           /\ \A k \in Keys, t \in Sessions \cup {NoSession} :
                 /\ entries'[k].owner = t => entries[k].owner = t \/ t = NoSession
                 /\ entries'[k].pending = t => entries[k].pending = t \/ t = NoSession
           /\ \A k \in Keys : entries'[k].pending \in Sessions \cup {NoSession}
<1>1. CASE done[s]
    BY <1>1, TableFacts DEF Cleanup, OwnTypes
<1>2. CASE ~done[s]
    <2>1. /\ client' = [client EXCEPT ![s] = 0]
          /\ done' = [done EXCEPT ![s] = TRUE]
          /\ Disconnect(s)
          /\ unseen' = [unseen EXCEPT ![s] = Overlooked(s)]
        BY <1>2 DEF Cleanup
    <2>2. discType' \in [Clients -> {"error", "kicked", "user"}]
        <3>1. "user" \in {"error", "kicked", "user"}
            OBVIOUS
        <3>2. QED
            BY <2>1, <3>1, DialShape DEF Disconnect, OwnTypes
    <2>3. /\ link' \in [Clients -> {"none", "open", "kicked", "closed"}]
          /\ \A c \in Clients : link'[c] = "open" => link[c] = "open"
          /\ client[s] # 0 => link'[Handle(s)] # "open"
        <3>1. CASE client[s] # 0
            <4>1. Handle(s) \in Clients
                BY <3>1, DialShape
            <4>2. PICK l \in LinkAfterClose(Handle(s)) : link' = [link EXCEPT ![Handle(s)] = l]
                BY <2>1, <3>1 DEF Disconnect
            <4>3. QED
                BY <4>1, <4>2, LinkClosed DEF OwnTypes
        <3>2. CASE client[s] = 0
            BY <2>1, <3>2 DEF Disconnect, OwnTypes
        <3>3. QED
            BY <3>1, <3>2
    <2>4. /\ unseen' \in [Sessions -> SUBSET {"owner", "pending"}]
          /\ \A t \in Sessions : t # s => unseen'[t] = unseen[t]
          /\ unseen'[s] = Overlooked(s)
        <3>1. Overlooked(s) \in SUBSET {"owner", "pending"}
            BY DEF Overlooked
        <3>2. QED
            BY <2>1, <3>1 DEF OwnTypes
    <2>5. /\ \A k \in Keys : /\ entries'[k].owner = s => "owner" \in unseen'[s]
                             /\ entries'[k].pending = s => "pending" \in unseen'[s]
          /\ \A k \in Keys, t \in Sessions \cup {NoSession} :
                /\ entries'[k].owner = t => entries[k].owner = t \/ t = NoSession
                /\ entries'[k].pending = t => entries[k].pending = t \/ t = NoSession
          /\ \A k \in Keys : entries'[k].pending \in Sessions \cup {NoSession}
        <3>1. CASE sessionKey[s] = NoKey
            <4>1. entries' = entries
                BY <1>2, <3>1 DEF Cleanup
            <4>2. \A k \in Keys : /\ entries[k].owner = s => "owner" \in Overlooked(s)
                                  /\ entries[k].pending = s => "pending" \in Overlooked(s)
                BY <3>1, TableFacts DEF Overlooked
            <4>3. QED
                BY <2>4, <4>1, <4>2, TableFacts
        <3>2. CASE sessionKey[s] # NoKey
            <4> DEFINE k == KeyOf[s]
                       e == Reg!Unregistered(entries[k], s)
            <4>1. k \in Keys /\ entries[k] \in Reg!Entry /\ sessionKey[s] = k
                BY <3>2, TableFacts
            <4>2. entries' = [entries EXCEPT ![k] = e]
                BY <1>2, <3>2, <4>1 DEF Cleanup
            <4>3. /\ e.owner # s /\ e.pending # s
                  /\ \A t : /\ e.owner = t => entries[k].owner = t \/ t = NoSession
                            /\ e.pending = t => entries[k].pending = t \/ t = NoSession
                  /\ e.pending \in Sessions \cup {NoSession}
                BY <4>1, TableFacts DEF Reg!Unregistered, Reg!Released, Reg!Entry
            <4>4. \A j \in Keys : j # k => entries'[j] = entries[j]
                BY <4>2, TableFacts
            <4>5. entries'[k] = e
                BY <4>1, <4>2, TableFacts
            <4>6. \A j \in Keys : j # k => entries[j].owner # s /\ entries[j].pending # s
                BY TableFacts
            <4> HIDE DEF e, k
            <4>7. QED
                BY <4>3, <4>4, <4>5, <4>6, TableFacts
        <3>3. QED
            BY <3>1, <3>2
    <2>6. client' \in [Sessions -> Nat]
        BY <2>1 DEF OwnTypes
    <2>7. QED
        BY <1>2, <2>1, <2>2, <2>3, <2>4, <2>5, <2>6
<1>3. QED
    BY <1>1, <1>2

(* The initial state.                                                      *)
LEMMA InitInv == Init => IInv
<1> SUFFICES ASSUME Init PROVE IInv
    OBVIOUS
<1>1. Reg!IInv
    BY TableInductive DEF Init
<1>2. /\ entries = [k \in Keys |-> Reg!NoEntry] /\ done = [s \in Sessions |-> FALSE]
      /\ connects = [s \in Sessions |-> 0] /\ loggedIn = [s \in Sessions |-> FALSE]
    BY DEF Init, Reg!Init
<1>3. OwnTypes
    BY DEF Init, OwnTypes
<1>4. Counts
    <2>1. \A s \in Sessions : MaxConnects[s] \in Nat /\ connects[s] = 0 /\ client[s] = 0 /\ pc[s] = "idle"
        BY <1>2 DEF Init
    <2>2. \A n \in Nat : 0 \in 0..n
        OBVIOUS
    <2>3. QED
        BY <2>1, <2>2 DEF Counts
<1>5. Upstream
    BY DEF Init, Upstream, Handshake, NoOrphanedLogin, SessionOf
<1>6. EndedLetsGo
    BY <1>2 DEF EndedLetsGo
<1>7. Notices
    <2>1. \A k \in Keys : entries[k].pending = NoSession
        BY <1>2 DEF Reg!NoEntry
    <2>2. QED
        BY <1>2, <2>1 DEF Init, Notices, LoggedInHasClient, LeavingIsSpent, Leaving, ClosingHasReason,
            TakeoverNoticeTruthful
<1>8. QED
    BY <1>1, <1>3, <1>4, <1>5, <1>6, <1>7 DEF IInv

----------------------------------------------------------------------------
(* Types and counts.                                                       *)

(* Every step keeps the types of what is not the table's.                  *)
LEMMA TypeStep ==
    ASSUME OwnTypes, Counts, Reg!IInv, [Next]_vars
    PROVE  OwnTypes'
<1> USE DEF registryVars, pastVars, upstreamVars, endingVars, browserVars
<1>1. ASSUME NEW s \in Sessions, Connect(s) PROVE OwnTypes'
    <2>1. unseen' \in [Sessions -> SUBSET {"owner", "pending"}]
        <3>1. (IF done[s] THEN unseen[s] \cup {"pending"} ELSE unseen[s]) \in SUBSET {"owner", "pending"}
            BY DEF OwnTypes
        <3>2. QED
            BY <1>1, <3>1 DEF Connect, OwnTypes
    <2>2. QED
        BY <1>1, <2>1 DEF Connect, OwnTypes
<1>2. ASSUME NEW s \in Sessions, StoreKey(s) PROVE OwnTypes'
    BY <1>2 DEF StoreKey, OwnTypes
<1>3. ASSUME NEW s \in Sessions, DialFail(s) PROVE OwnTypes'
    <2>1. Dialled(s) \in Clients
        BY <1>3, DialShape DEF DialFail
    <2>2. link' \in [Clients -> {"none", "open", "kicked", "closed"}]
        BY <1>3, <2>1, LinkClosed DEF DialFail, OwnTypes
    <2>3. QED
        BY <1>3, <2>2 DEF DialFail, OwnTypes
<1>4. ASSUME NEW s \in Sessions, DialDone(s) PROVE OwnTypes'
    <2>1. ender' \in [Sessions -> {"none", "spawned", "pushed", "over"}]
        BY <1>4 DEF DialDone, OwnTypes
    <2>2. QED
        BY <1>4, <2>1 DEF DialDone, OwnTypes
<1>5. ASSUME NEW s \in Sessions, Attach(s) PROVE OwnTypes'
    BY <1>5, TableFacts DEF Attach, OwnTypes
<1>6. ASSUME NEW s \in Sessions, UserDisconnect(s) \/ ReadFail(s) PROVE OwnTypes'
    <2>1. pc' \in [Sessions -> {"idle", "reserved", "dialing", "attaching", "over"}]
        BY <1>6 DEF UserDisconnect, ReadFail, OwnTypes
    <2>2. Cleanup(s) /\ UNCHANGED <<up, notify, ender, closing, ws, told>>
        BY <1>6 DEF UserDisconnect, ReadFail
    <2>3. QED
        BY <2>1, <2>2, CleanupOk DEF OwnTypes
<1>7. ASSUME NEW s \in Sessions, WriteFail(s) PROVE OwnTypes'
    BY <1>7, CleanupOk DEF WriteFail, OwnTypes
<1>8. ASSUME NEW c \in Clients, Sync(c) \/ HandleKick(c) PROVE OwnTypes'
    BY <1>8 DEF Sync, HandleKick, OwnTypes
<1>9. ASSUME NEW c \in Clients, ReadRoutineEnds(c) PROVE OwnTypes'
    BY <1>9 DEF ReadRoutineEnds, OwnTypes
<1>10. ASSUME NEW s \in Sessions, NEW code, Push(s, code) PROVE told' \in [Sessions -> BOOLEAN]
    <2>1. (told[s] \/ (code = "session_takeover" /\ ws[s] = "open")) \in BOOLEAN
        OBVIOUS
    <2>2. CASE told' = [told EXCEPT ![s] = told[s] \/ (code = "session_takeover" /\ ws[s] = "open")]
        BY <2>1, <2>2 DEF OwnTypes
    <2>3. QED
        BY <1>10, <2>2 DEF Push, OwnTypes
<1>11. ASSUME NEW c \in Clients, LossPush(c) PROVE OwnTypes'
    <2>1. told' \in [Sessions -> BOOLEAN]
        BY <1>10, <1>11, ClientShape DEF LossPush, OwnTypes
    <2>2. notify' \in [Clients -> {"none", "raised", "pushed", "over"}]
        BY <1>11 DEF LossPush, OwnTypes
    <2>3. QED
        BY <1>11, <2>1, <2>2 DEF LossPush, OwnTypes
<1>12. ASSUME NEW c \in Clients, LossCleanup(c) PROVE OwnTypes'
    <2>1. closing' \in [Sessions -> BOOLEAN] /\ notify' \in [Clients -> {"none", "raised", "pushed", "over"}]
        BY <1>12 DEF LossCleanup, OwnTypes
    <2>2. QED
        BY <1>12, <2>1, CleanupOk, ClientShape DEF LossCleanup, OwnTypes
<1>13. ASSUME NEW s \in Sessions, EndPush(s) PROVE OwnTypes'
    <2>1. told' \in [Sessions -> BOOLEAN]
        BY <1>10, <1>13 DEF EndPush, OwnTypes
    <2>2. closing' \in [Sessions -> BOOLEAN]
        BY <1>13 DEF EndPush, OwnTypes
    <2>3. ender' \in [Sessions -> {"none", "spawned", "pushed", "over"}]
        BY <1>13 DEF EndPush, OwnTypes
    <2>4. QED
        BY <1>13, <2>1, <2>2, <2>3 DEF EndPush, OwnTypes
<1>14. ASSUME NEW s \in Sessions, EndCleanup(s) PROVE OwnTypes'
    BY <1>14, CleanupOk DEF EndCleanup, OwnTypes
<1>15. ASSUME NEW s \in Sessions, BrowserGone(s) PROVE OwnTypes'
    BY <1>15 DEF BrowserGone, OwnTypes
<1>16. ASSUME NEW s \in Sessions, MurmurAccepts(s) PROVE OwnTypes'
    <2>1. link' \in [Clients -> {"none", "open", "kicked", "closed"}]
        BY <1>16 DEF MurmurAccepts, OwnTypes
    <2>2. QED
        BY <1>16, <2>1 DEF MurmurAccepts, OwnTypes
<1>17. ASSUME NEW c \in Clients, MurmurKicks(c) \/ LinkBreaks(c) PROVE OwnTypes'
    BY <1>17 DEF MurmurKicks, LinkBreaks, OwnTypes
<1>18. CASE UNCHANGED vars
    BY <1>18 DEF vars, OwnTypes
<1>19. QED
    BY <1>1, <1>2, <1>3, <1>4, <1>5, <1>6, <1>7, <1>8, <1>9, <1>11, <1>12, <1>13, <1>14, <1>15,
       <1>16, <1>17, <1>18
       DEF Next, ReadLoop, ReadRoutine, EndWith, Murmur

(* Every step keeps the numbers of dials and handles in order.             *)
LEMMA CountStep ==
    ASSUME OwnTypes, Counts, Reg!IInv, [Next]_vars
    PROVE  Counts'
<1> USE DEF registryVars, pastVars, upstreamVars, endingVars, browserVars
<1>1. \A t \in Sessions : /\ connects[t] \in Nat /\ client[t] \in Nat /\ MaxConnects[t] \in Nat
                         /\ connects[t] <= MaxConnects[t] /\ client[t] <= connects[t]
    BY TableFacts DEF Counts, OwnTypes
<1>2. ASSUME connects' = connects,
             \A t \in Sessions : /\ client'[t] \in {client[t], 0}
                                 /\ pc'[t] = pc[t] \/ pc'[t] \in {"idle", "over"}
      PROVE  Counts'
    BY <1>1, <1>2 DEF Counts
<1>3. ASSUME NEW s \in Sessions, Connect(s) PROVE Counts'
    <2>1. /\ connects' = [connects EXCEPT ![s] = connects[s] + 1] /\ connects[s] < MaxConnects[s]
          /\ client' = client /\ pc' = [pc EXCEPT ![s] = "reserved"]
        BY <1>3 DEF Connect
    <2>2. connects'[s] = connects[s] + 1 /\ \A t \in Sessions : t # s => connects'[t] = connects[t] /\ pc'[t] = pc[t]
        BY <2>1, TableFacts DEF OwnTypes
    <2>3. QED
        BY <1>1, <2>1, <2>2 DEF Counts
<1>4. ASSUME NEW s \in Sessions, StoreKey(s) \/ DialDone(s) PROVE Counts'
    BY <1>1, <1>4 DEF StoreKey, DialDone, Counts, OwnTypes
<1>5. ASSUME NEW s \in Sessions, Attach(s) PROVE Counts'
    BY <1>1, <1>5 DEF Attach, Counts, OwnTypes
<1>6. ASSUME NEW s \in Sessions, DialFail(s) PROVE Counts'
    BY <1>2, <1>6 DEF DialFail, OwnTypes
<1>7. ASSUME NEW s \in Sessions, Cleanup(s), connects' = connects,
             pc' = pc \/ pc' = [pc EXCEPT ![s] = "over"]
      PROVE  Counts'
    <2>1. \A t \in Sessions : client'[t] \in {client[t], 0}
        BY <1>7, CleanupOk DEF OwnTypes
    <2>2. QED
        BY <1>2, <1>7, <2>1 DEF OwnTypes
<1>8. ASSUME NEW s \in Sessions, UserDisconnect(s) \/ ReadFail(s) \/ WriteFail(s) \/ EndCleanup(s)
      PROVE  Counts'
    BY <1>7, <1>8 DEF UserDisconnect, ReadFail, WriteFail, EndCleanup
<1>9. ASSUME NEW c \in Clients, LossCleanup(c) PROVE Counts'
    BY <1>7, <1>9, ClientShape DEF LossCleanup
<1>10. CASE UNCHANGED <<connects, client, pc>>
    BY <1>2, <1>10
<1>11. ASSUME NEW s \in Sessions, EndPush(s) \/ BrowserGone(s) \/ MurmurAccepts(s) PROVE Counts'
    BY <1>10, <1>11 DEF EndPush, BrowserGone, MurmurAccepts
<1>12. ASSUME NEW c \in Clients,
              Sync(c) \/ HandleKick(c) \/ ReadRoutineEnds(c) \/ LossPush(c) \/ MurmurKicks(c) \/ LinkBreaks(c)
       PROVE  Counts'
    BY <1>10, <1>12 DEF Sync, HandleKick, ReadRoutineEnds, LossPush, MurmurKicks, LinkBreaks
<1>13. CASE UNCHANGED vars
    BY <1>10, <1>13 DEF vars
<1>14. QED
    BY <1>3, <1>4, <1>5, <1>6, <1>8, <1>9, <1>11, <1>12, <1>13
       DEF Next, ReadLoop, ReadRoutine, EndWith, Murmur


----------------------------------------------------------------------------
(* Upstream logins.                                                        *)

(* A step that closes what it lets go of leaves no login behind.           *)
LEMMA UpstreamKept ==
    ASSUME OwnTypes, Counts, Upstream, connects' = connects,
           \A c \in Clients : /\ up'[c] # "none" <=> up[c] # "none"
                              /\ notify'[c] # "none" => up'[c] = "down"
                              /\ link'[c] = "open" => link[c] = "open",
           \A t \in Sessions :
              /\ \/ client'[t] = client[t]
                 \/ client'[t] = 0 /\ (client[t] # 0 => link'[Handle(t)] # "open")
              /\ \/ pc'[t] = pc[t]
                 \/ pc[t] = "idle" /\ pc'[t] = "over"
                 \/ pc[t] = "dialing" /\ pc'[t] = "idle" /\ link'[Dialled(t)] # "open"
                 \/ pc[t] = "reserved" /\ pc'[t] = "dialing"
                 \/ pc[t] = "dialing" /\ pc'[t] = "attaching" /\ up[Dialled(t)] # "none"
    PROVE  Upstream'
<1>1. \A t \in Sessions : Dialled(t)' = Dialled(t)
    BY DEF Dialled
<1>2. \A t \in Sessions : client'[t] # 0 => client[t] # 0 /\ Handle(t)' = Handle(t)
    BY DEF Handle
<1>3. Handshake'
    <2>1. ASSUME NEW c \in Clients
          PROVE  /\ notify'[c] # "none" => up'[c] = "down"
                 /\ up'[c] # "none" => c[2] <= connects'[SessionOf(c)]
        BY DEF Upstream, Handshake
    <2>2. ASSUME NEW t \in Sessions
          PROVE  /\ pc'[t] = "reserved" => up'[Dialled(t)] = "none"
                 /\ pc'[t] = "attaching" => up'[Dialled(t)] # "none"
                 /\ pc'[t] \in {"dialing", "attaching"} /\ client'[t] # 0 /\ up'[Dialled(t)] # "none" =>
                        link'[Handle(t)'] # "open"
        <3>1. pc'[t] \in {"reserved", "dialing", "attaching"} =>
                 pc[t] \in {"reserved", "dialing", "attaching"} /\ Dialled(t) \in Clients
            BY DialShape
        <3>2. client'[t] # 0 => Handle(t) \in Clients
            BY <1>2, DialShape
        <3>3. QED
            BY <1>2, <3>1, <3>2 DEF Upstream, Handshake
    <2>3. QED
        BY <1>1, <2>1, <2>2 DEF Handshake
<1>4. NoOrphanedLogin'
    <2>1. SUFFICES ASSUME NEW c \in Clients, link'[c] = "open", c # Handle(SessionOf(c))'
                   PROVE  c = Dialled(SessionOf(c)) /\ pc'[SessionOf(c)] \in {"dialing", "attaching"}
        BY <1>1, ClientShape DEF NoOrphanedLogin
    <2> DEFINE t == SessionOf(c)
    <2>2. t \in Sessions /\ c[2] # 0 /\ link[c] = "open"
        BY <2>1, ClientShape
    <2>3. c # Handle(t)
        <3>1. SUFFICES ASSUME c = Handle(t) PROVE FALSE
            OBVIOUS
        <3>2. client'[t] # client[t]
            BY <2>1, <3>1 DEF Handle
        <3>3. client[t] = 0
            BY <2>1, <2>2, <3>1, <3>2
        <3>4. QED
            BY <2>2, <3>1, <3>3, DialShape
    <2>4. c = Dialled(t) /\ pc[t] \in {"dialing", "attaching"}
        BY <2>2, <2>3 DEF Upstream, NoOrphanedLogin
    <2>5. QED
        BY <2>1, <2>2, <2>4
<1>5. QED
    BY <1>3, <1>4 DEF Upstream

(* Every step.                                                             *)
LEMMA UpstreamStep ==
    ASSUME OwnTypes, Counts, Reg!IInv, Upstream, [Next]_vars
    PROVE  Upstream'
<1> USE DEF registryVars, pastVars, upstreamVars, endingVars, browserVars
<1>1. /\ \A c \in Clients : /\ notify[c] # "none" => up[c] = "down"
                            /\ up[c] # "none" => c[2] <= connects[SessionOf(c)]
      /\ NoOrphanedLogin /\ Handshake
    BY DEF Upstream, Handshake
<1>2. ASSUME NEW s \in Sessions, Connect(s) PROVE Upstream'
    <2>1. /\ pc[s] = "idle" /\ connects[s] < MaxConnects[s] /\ UNCHANGED <<client, up, link, notify>>
          /\ connects' = [connects EXCEPT ![s] = connects[s] + 1]
          /\ pc' = [pc EXCEPT ![s] = "reserved"]
        BY <1>2 DEF Connect
    <2>2. /\ connects[s] \in Nat /\ connects'[s] = connects[s] + 1 /\ pc'[s] = "reserved"
          /\ \A t \in Sessions : t # s => connects'[t] = connects[t] /\ pc'[t] = pc[t]
        BY <2>1, TableFacts DEF OwnTypes
    <2>3. \A t \in Sessions : Handle(t)' = Handle(t) /\ (t # s => Dialled(t)' = Dialled(t))
        BY <2>1, <2>2 DEF Handle, Dialled
    <2>4. up[Dialled(s)'] = "none"
        <3>1. Dialled(s)' = <<s, connects[s] + 1>>
            BY <2>2 DEF Dialled
        <3>2. Dialled(s)' \in Clients /\ SessionOf(Dialled(s)') = s /\ Dialled(s)'[2] = connects[s] + 1
            BY <2>1, <2>2, <3>1, ClientShape
        <3>3. ~(connects[s] + 1 <= connects[s])
            BY <2>2
        <3>4. QED
            BY <1>1, <3>2, <3>3
    <2>5. Handshake'
        <3>1. \A c \in Clients : up[c] # "none" => c[2] <= connects'[SessionOf(c)]
            <4>1. SUFFICES ASSUME NEW c \in Clients, up[c] # "none" PROVE c[2] <= connects'[SessionOf(c)]
                OBVIOUS
            <4>2. c[2] \in Nat /\ SessionOf(c) \in Sessions /\ c[2] <= connects[SessionOf(c)]
                BY <1>1, <4>1, ClientShape
            <4>3. QED
                BY <2>2, <4>2
        <3>2. QED
            BY <1>1, <2>1, <2>2, <2>3, <2>4, <3>1 DEF Handshake
    <2>6. NoOrphanedLogin'
        BY <1>1, <2>1, <2>2, <2>3, ClientShape DEF NoOrphanedLogin
    <2>7. QED
        BY <2>5, <2>6 DEF Upstream
<1>3. ASSUME NEW s \in Sessions, StoreKey(s) \/ DialDone(s) PROVE Upstream'
    <2>1. UNCHANGED <<connects, client, up, link, notify>>
        BY <1>3 DEF StoreKey, DialDone
    <2>2. \A t \in Sessions :
             \/ pc'[t] = pc[t]
             \/ pc[t] = "reserved" /\ pc'[t] = "dialing"
             \/ pc[t] = "dialing" /\ pc'[t] = "attaching" /\ up[Dialled(t)] # "none"
        BY <1>3 DEF StoreKey, DialDone, OwnTypes
    <2>3. QED
        BY <1>1, <2>1, <2>2, UpstreamKept
<1>4. ASSUME NEW s \in Sessions, DialFail(s) PROVE Upstream'
    <2>1. Dialled(s) \in Clients /\ pc[s] = "dialing"
        BY <1>4, DialShape DEF DialFail
    <2>2. PICK l \in LinkAfterClose(Dialled(s)) : link' = [link EXCEPT ![Dialled(s)] = l]
        BY <1>4 DEF DialFail
    <2>3. /\ link'[Dialled(s)] # "open"
          /\ \A c \in Clients : link'[c] = "open" => link[c] = "open"
        BY <2>1, <2>2, LinkClosed DEF OwnTypes
    <2>4. UNCHANGED <<connects, client, up, notify>> /\ pc' = [pc EXCEPT ![s] = "idle"]
        BY <1>4 DEF DialFail
    <2>5. \A t \in Sessions :
             \/ pc'[t] = pc[t]
             \/ pc[t] = "dialing" /\ pc'[t] = "idle" /\ link'[Dialled(t)] # "open"
        BY <2>1, <2>3, <2>4 DEF OwnTypes
    <2>6. QED
        BY <1>1, <2>3, <2>4, <2>5, UpstreamKept
<1>5. ASSUME NEW s \in Sessions, Attach(s) PROVE Upstream'
    <2>1. /\ UNCHANGED <<connects, up, link, notify>> /\ pc[s] = "attaching"
          /\ \A t \in Sessions :
                /\ t # s => client'[t] = client[t] /\ pc'[t] = pc[t]
                /\ t = s => client'[t] = connects[t] /\ pc'[t] = "idle"
        BY <1>5 DEF Attach, OwnTypes
    <2>2. /\ \A t \in Sessions : /\ Dialled(t)' = Dialled(t)
                                 /\ t # s => Handle(t)' = Handle(t)
          /\ Handle(s)' = Dialled(s)
        BY <2>1 DEF Handle, Dialled
    <2>3. client[s] # 0 => link[Handle(s)] # "open"
        BY <1>1, <2>1 DEF Handshake
    <2>4. Handshake'
        BY <1>1, <2>1, <2>2 DEF Handshake
    <2>5. NoOrphanedLogin'
        <3>1. SUFFICES ASSUME NEW c \in Clients, link[c] = "open", c # Handle(SessionOf(c))'
                       PROVE  c = Dialled(SessionOf(c)) /\ pc'[SessionOf(c)] \in {"dialing", "attaching"}
            BY <2>1, <2>2, ClientShape DEF NoOrphanedLogin
        <3>2. SessionOf(c) \in Sessions /\ c[2] # 0
            BY ClientShape
        <3>3. CASE SessionOf(c) = s
            <4>1. c # Dialled(s)
                BY <2>2, <3>1, <3>3
            <4>2. c = Handle(s)
                BY <1>1, <3>1, <3>3, <4>1 DEF NoOrphanedLogin
            <4>3. client[s] # 0
                BY <3>2, <4>2, DialShape
            <4>4. QED
                BY <2>3, <3>1, <4>2, <4>3
        <3>4. CASE SessionOf(c) # s
            BY <1>1, <2>1, <2>2, <3>1, <3>2, <3>4 DEF NoOrphanedLogin
        <3>5. QED
            BY <3>3, <3>4
    <2>6. QED
        BY <2>4, <2>5 DEF Upstream
<1>6. ASSUME NEW s \in Sessions, MurmurAccepts(s) PROVE Upstream'
    <2> DEFINE d == Dialled(s)
    <2>1. /\ pc[s] = "dialing" /\ up[d] = "none" /\ UNCHANGED <<connects, pc, client, notify>>
          /\ up' = [up EXCEPT ![d] = "authed"]
          /\ link' = [c \in Clients |->
                        IF c = d THEN "open"
                        ELSE IF link[c] = "open" /\ KeyOf[SessionOf(c)] = KeyOf[s] THEN "kicked"
                        ELSE link[c]]
        BY <1>6 DEF MurmurAccepts
    <2>2. d \in Clients /\ d # Handle(s) /\ SessionOf(d) = s
        BY <2>1, DialShape
    <2>3. \A t \in Sessions : Dialled(t)' = Dialled(t) /\ Handle(t)' = Handle(t)
        BY <2>1 DEF Handle, Dialled
    <2>4. /\ up'[d] = "authed" /\ \A c \in Clients : c # d => up'[c] = up[c]
          /\ \A c \in Clients : /\ c # d /\ link'[c] = "open" => link[c] = "open"
                                /\ c # d /\ KeyOf[SessionOf(c)] = KeyOf[s] => link'[c] # "open"
        BY <2>1, <2>2 DEF OwnTypes
    <2>5. Handshake'
        <3>1. ASSUME NEW c \in Clients
              PROVE  /\ notify[c] # "none" => up'[c] = "down"
                     /\ up'[c] # "none" => c[2] <= connects[SessionOf(c)]
            <4>1. d[2] = connects[s] /\ connects[s] \in Nat
                BY DialShape, TableFacts
            <4>2. CASE c = d
                BY <1>1, <2>1, <2>2, <4>1, <4>2
            <4>3. CASE c # d
                BY <1>1, <2>4, <4>3
            <4>4. QED
                BY <4>2, <4>3
        <3>2. ASSUME NEW t \in Sessions
              PROVE  /\ pc[t] = "reserved" => up'[Dialled(t)] = "none"
                     /\ pc[t] = "attaching" => up'[Dialled(t)] # "none"
                     /\ pc[t] \in {"dialing", "attaching"} /\ client[t] # 0 /\ up'[Dialled(t)] # "none" =>
                            link'[Handle(t)] # "open"
            <4>1. CASE t = s
                BY <2>1, <2>2, <2>4, <4>1, DialShape
            <4>2. CASE t # s
                <5>1. Dialled(t) # d /\ Handle(t) # d
                    BY <2>2, <4>2, DialShape
                <5>2. /\ pc[t] \in {"reserved", "dialing", "attaching"} => Dialled(t) \in Clients
                      /\ client[t] # 0 => Handle(t) \in Clients
                    BY DialShape
                <5>3. QED
                    BY <1>1, <2>4, <5>1, <5>2 DEF Handshake
            <4>3. QED
                BY <4>1, <4>2
        <3>3. QED
            BY <2>1, <2>3, <3>1, <3>2 DEF Handshake
    <2>6. NoOrphanedLogin'
        BY <1>1, <2>1, <2>2, <2>3, <2>4, ClientShape DEF NoOrphanedLogin
    <2>7. QED
        BY <2>5, <2>6 DEF Upstream
<1>7. ASSUME NEW s \in Sessions, Cleanup(s), UNCHANGED <<connects, up>>,
             \A c \in Clients : notify'[c] # "none" => up[c] = "down",
             pc' = pc \/ (pc[s] = "idle" /\ pc' = [pc EXCEPT ![s] = "over"])
      PROVE  Upstream'
    <2>1. \A t \in Sessions : pc'[t] = pc[t] \/ (pc[t] = "idle" /\ pc'[t] = "over")
        BY <1>7 DEF OwnTypes
    <2>2. /\ \A c \in Clients : link'[c] = "open" => link[c] = "open"
          /\ \A t \in Sessions : \/ client'[t] = client[t]
                                 \/ client'[t] = 0 /\ (client[t] # 0 => link'[Handle(t)] # "open")
        <3>1. /\ done[s] => client' = client
              /\ ~done[s] => client' = [client EXCEPT ![s] = 0]
              /\ \A c \in Clients : link'[c] = "open" => link[c] = "open"
              /\ ~done[s] /\ client[s] # 0 => link'[Handle(s)] # "open"
            BY <1>7, CleanupOk
        <3>2. QED
            BY <3>1 DEF OwnTypes
    <2>3. QED
        BY <1>7, <2>1, <2>2, UpstreamKept
<1>8. ASSUME NEW s \in Sessions, UserDisconnect(s) \/ ReadFail(s) \/ WriteFail(s) \/ EndCleanup(s)
      PROVE  Upstream'
    BY <1>1, <1>7, <1>8 DEF UserDisconnect, ReadFail, WriteFail, EndCleanup
<1>9. ASSUME NEW c \in Clients, LossCleanup(c) PROVE Upstream'
    <2>1. \A d \in Clients : notify'[d] # "none" => up[d] = "down"
        BY <1>1, <1>9 DEF LossCleanup, OwnTypes
    <2>2. QED
        BY <1>7, <1>9, <2>1, ClientShape DEF LossCleanup
<1>10. ASSUME UNCHANGED <<connects, client, pc>>,
              \A c \in Clients : /\ up'[c] # "none" <=> up[c] # "none"
                                 /\ notify'[c] # "none" => up'[c] = "down"
                                 /\ link'[c] = "open" => link[c] = "open"
       PROVE  Upstream'
    BY <1>10, UpstreamKept
<1>11. ASSUME NEW s \in Sessions, EndPush(s) \/ BrowserGone(s) PROVE Upstream'
    BY <1>1, <1>10, <1>11 DEF EndPush, BrowserGone
<1>12. ASSUME NEW c \in Clients,
              Sync(c) \/ HandleKick(c) \/ ReadRoutineEnds(c) \/ LossPush(c) \/ MurmurKicks(c) \/ LinkBreaks(c)
       PROVE  Upstream'
    <2>1. UNCHANGED <<connects, client, pc>>
        BY <1>12 DEF Sync, HandleKick, ReadRoutineEnds, LossPush, MurmurKicks, LinkBreaks
    <2>2. ASSUME NEW d \in Clients
          PROVE  /\ up'[d] # "none" <=> up[d] # "none"
                 /\ notify'[d] # "none" => up'[d] = "down"
                 /\ link'[d] = "open" => link[d] = "open"
        BY <1>1, <1>12 DEF Sync, HandleKick, ReadRoutineEnds, LossPush, MurmurKicks, LinkBreaks, OwnTypes
    <2>3. QED
        BY <1>10, <2>1, <2>2
<1>13. CASE UNCHANGED vars
    BY <1>1, <1>10, <1>13 DEF vars
<1>14. QED
    BY <1>2, <1>3, <1>4, <1>5, <1>6, <1>8, <1>9, <1>11, <1>12, <1>13
       DEF Next, ReadLoop, ReadRoutine, EndWith, Murmur

----------------------------------------------------------------------------
(* What an ended session still has in the table.                           *)

(* What connectMumble does to owners and reservations.                     *)
LEMMA TableMoves ==
    ASSUME Reg!IInv, OwnTypes, NEW s \in Sessions
    PROVE  /\ Connect(s) =>
                \A k \in Keys : /\ entries'[k].owner = entries[k].owner
                                /\ \/ entries'[k] = entries[k]
                                   \/ /\ k = KeyOf[s] /\ entries'[k].pending = s
                                      /\ Reg!Reservable(entries[k], s) /\ entries[k].owner # s
           /\ DialFail(s) =>
                \A k \in Keys : /\ entries'[k].owner = entries[k].owner
                                /\ entries'[k].pending \in {entries[k].pending, NoSession}
           /\ DialDone(s) =>
                \A k \in Keys : \/ entries'[k] = entries[k]
                                \/ /\ k = KeyOf[s] /\ entries'[k].owner = s
                                   /\ \/ entries'[k].pending = NoSession
                                      \/ entries'[k].pending = entries[k].pending /\ entries[k].pending # s
<1>1. /\ entries \in [Keys -> Reg!Entry] /\ KeyOf[s] \in Keys
      /\ pc[s] = "dialing" => sessionKey[s] = KeyOf[s]
    BY TableFacts
<1> DEFINE e == entries[KeyOf[s]]
<1>2. e \in Reg!Entry
    BY <1>1
<1>3. /\ Reg!Reserved(e, s).owner = e.owner
      /\ Reg!Reserved(e, s) = e \/ (Reg!Reserved(e, s).pending = s /\ e.owner # s)
      /\ Reg!Released(e, s).owner = e.owner
      /\ Reg!Released(e, s).pending \in {e.pending, NoSession}
      /\ Reg!Committed(e, s).owner = s
      /\ \/ Reg!Committed(e, s).pending = NoSession
         \/ Reg!Committed(e, s).pending = e.pending /\ e.pending # s
    BY <1>2 DEF Reg!Reserved, Reg!Released, Reg!Committed, Reg!Entry
<1>4. ASSUME NEW f, entries' = [entries EXCEPT ![KeyOf[s]] = f], NEW k \in Keys
      PROVE  IF k = KeyOf[s] THEN entries'[k] = f ELSE entries'[k] = entries[k]
    BY <1>1, <1>4
<1>5. Connect(s) => /\ entries' = [entries EXCEPT ![KeyOf[s]] = Reg!Reserved(e, s)]
                    /\ Reg!Reservable(e, s)
    BY DEF Connect
<1>6. DialFail(s) => entries' = [entries EXCEPT ![KeyOf[s]] = Reg!Released(e, s)]
    BY <1>1 DEF DialFail
<1>7. DialDone(s) => entries' = [entries EXCEPT ![KeyOf[s]] = Reg!Committed(e, s)]
    BY DEF DialDone
<1> HIDE DEF e
<1>8. ASSUME NEW f, entries' = [entries EXCEPT ![KeyOf[s]] = f]
      PROVE  \A k \in Keys : IF k = KeyOf[s] THEN entries'[k] = f /\ entries[k] = e ELSE entries'[k] = entries[k]
    BY <1>4, <1>8 DEF e
<1>9. ASSUME Connect(s)
      PROVE  \A k \in Keys : /\ entries'[k].owner = entries[k].owner
                             /\ \/ entries'[k] = entries[k]
                                \/ /\ k = KeyOf[s] /\ entries'[k].pending = s
                                   /\ Reg!Reservable(entries[k], s) /\ entries[k].owner # s
    BY <1>3, <1>5, <1>8, <1>9
<1>10. ASSUME DialFail(s)
       PROVE  \A k \in Keys : /\ entries'[k].owner = entries[k].owner
                              /\ entries'[k].pending \in {entries[k].pending, NoSession}
    BY <1>3, <1>6, <1>8, <1>10
<1>11. ASSUME DialDone(s)
       PROVE  \A k \in Keys : \/ entries'[k] = entries[k]
                              \/ /\ k = KeyOf[s] /\ entries'[k].owner = s
                                 /\ \/ entries'[k].pending = NoSession
                                    \/ entries'[k].pending = entries[k].pending /\ entries[k].pending # s
    BY <1>3, <1>7, <1>8, <1>11
<1>12. QED
    BY <1>9, <1>10, <1>11

(* A step that gives an ended session nothing, or notes that it does.      *)
LEMMA UnseenKept ==
    ASSUME EndedLetsGo, OwnTypes', Reg!IInv',
           \A t \in Sessions, k \in Keys :
              done'[t] =>
                 /\ entries'[k].pending = t =>
                        "pending" \in unseen'[t] \/ (done[t] /\ entries[k].pending = t)
                 /\ entries'[k].owner = t =>
                        "owner" \in unseen'[t] \/ pc'[t] = "attaching" \/ (done[t] /\ entries[k].owner = t),
           \A t \in Sessions :
              done[t] => /\ unseen[t] \subseteq unseen'[t]
                         /\ client[t] # 0 => client'[t] # 0
                         /\ pc[t] = "attaching" => pc'[t] = "attaching" \/ client'[t] # 0
    PROVE  EndedLetsGo'
<1>1. \A t \in Sessions, k \in Keys : entries'[k].pending = t => pc'[t] \in {"reserved", "dialing"}
    <2>1. \A t \in Sessions : Reg!Dialing(t)' <=> pc'[t] \in {"reserved", "dialing"}
        BY DEF DialPhase, OwnTypes, Reg!Dialing
    <2>2. QED
        BY <2>1 DEF Reg!IInv, Reg!PendingIsDialing
<1>2. ASSUME NEW t \in Sessions, NEW k \in Keys, done'[t], entries'[k].pending = t
      PROVE  "pending" \in unseen'[t]
    BY <1>2 DEF EndedLetsGo
<1>3. ASSUME NEW t \in Sessions, NEW k \in Keys, done'[t], entries'[k].owner = t
      PROVE  "owner" \in unseen'[t] \/ pc'[t] = "attaching" \/ client'[t] # 0
    BY <1>3 DEF EndedLetsGo
<1>4. QED
    BY <1>1, <1>2, <1>3 DEF EndedLetsGo

(* Every step.                                                             *)
LEMMA EndedStep ==
    ASSUME OwnTypes, OwnTypes', Counts, Reg!IInv, Reg!IInv', EndedLetsGo, [Next]_vars
    PROVE  EndedLetsGo'
<1> USE DEF registryVars, pastVars, upstreamVars, endingVars, browserVars
<1>1. ASSUME UNCHANGED <<entries, done, unseen, client>>,
             \A t \in Sessions : pc[t] = "attaching" => pc'[t] = "attaching"
      PROVE  EndedLetsGo'
    BY <1>1, UnseenKept
<1>2. ASSUME NEW s \in Sessions, Connect(s) PROVE EndedLetsGo'
    <2>1. /\ UNCHANGED <<done, client>> /\ pc[s] = "idle"
          /\ pc' = [pc EXCEPT ![s] = "reserved"]
          /\ unseen' = [unseen EXCEPT ![s] = IF done[s] THEN unseen[s] \cup {"pending"} ELSE unseen[s]]
        BY <1>2 DEF Connect
    <2>2. \A k \in Keys : /\ entries'[k].owner = entries[k].owner
                          /\ entries'[k] = entries[k] \/ entries'[k].pending = s
        BY <1>2, TableMoves
    <2>3. /\ \A t \in Sessions : unseen[t] \subseteq unseen'[t] /\ (pc[t] = "attaching" => pc'[t] = "attaching")
          /\ done[s] => "pending" \in unseen'[s]
        BY <2>1 DEF OwnTypes
    <2>4. QED
        BY <2>1, <2>2, <2>3, UnseenKept
<1>3. ASSUME NEW s \in Sessions, StoreKey(s) PROVE EndedLetsGo'
    BY <1>1, <1>3 DEF StoreKey, OwnTypes
<1>4. ASSUME NEW s \in Sessions, DialFail(s) PROVE EndedLetsGo'
    <2>1. /\ UNCHANGED <<done, client, unseen>>
          /\ \A t \in Sessions : pc[t] = "attaching" => pc'[t] = "attaching"
        BY <1>4 DEF DialFail, OwnTypes
    <2>2. \A k \in Keys, t \in Sessions : /\ entries'[k].owner = entries[k].owner
                                          /\ entries'[k].pending = t => entries[k].pending = t
        BY <1>4, TableMoves
    <2>3. QED
        BY <2>1, <2>2, UnseenKept
<1>5. ASSUME NEW s \in Sessions, DialDone(s) PROVE EndedLetsGo'
    <2>1. /\ UNCHANGED <<done, client, unseen>> /\ pc'[s] = "attaching"
          /\ \A t \in Sessions : pc[t] = "attaching" => pc'[t] = "attaching"
        BY <1>5 DEF DialDone, OwnTypes
    <2>2. \A k \in Keys, t \in Sessions : /\ entries'[k].owner = t => entries[k].owner = t \/ t = s
                                          /\ entries'[k].pending = t => entries[k].pending = t
        BY <1>5, TableMoves
    <2>3. QED
        BY <2>1, <2>2, UnseenKept
<1>6. ASSUME NEW s \in Sessions, Attach(s) PROVE EndedLetsGo'
    <2>1. /\ UNCHANGED <<entries, done, unseen>>
          /\ \A t \in Sessions : /\ t # s => client'[t] = client[t] /\ pc'[t] = pc[t]
                                 /\ t = s => client'[t] = connects[t]
          /\ pc[s] = "attaching"
        BY <1>6 DEF Attach, OwnTypes
    <2>2. connects[s] # 0
        BY <2>1, DialShape, ClientShape
    <2>3. QED
        BY <2>1, <2>2, UnseenKept
<1>7. ASSUME NEW s \in Sessions, Cleanup(s), \A t \in Sessions : pc[t] = "attaching" => pc'[t] = "attaching"
      PROVE  EndedLetsGo'
    <2>1. /\ \A t \in Sessions : t # s => done'[t] = done[t] /\ (done[s] \/ t # s => client'[t] = client[t])
          /\ done[s] => UNCHANGED <<client, entries, unseen, done>>
        <3>1. /\ done' = [done EXCEPT ![s] = TRUE] /\ done \in [Sessions -> BOOLEAN]
              /\ done[s] => UNCHANGED <<client, entries, unseen>>
              /\ ~done[s] => client' = [client EXCEPT ![s] = 0]
            BY <1>7, CleanupOk, TableFacts
        <3>2. done[s] => done' = done
            BY <3>1
        <3>3. QED
            BY <3>1, <3>2 DEF OwnTypes
    <2>2. /\ \A t \in Sessions : t # s => unseen'[t] = unseen[t]
          /\ ~done[s] => \A k \in Keys : /\ entries'[k].owner = s => "owner" \in unseen'[s]
                                         /\ entries'[k].pending = s => "pending" \in unseen'[s]
          /\ \A k \in Keys, t \in Sessions : /\ entries'[k].owner = t => entries[k].owner = t
                                             /\ entries'[k].pending = t => entries[k].pending = t
        BY <1>7, CleanupOk
    <2>3. CASE done[s]
        BY <1>1, <1>7, <2>1, <2>3
    <2>4. CASE ~done[s]
        BY <1>7, <2>1, <2>2, <2>4, UnseenKept
    <2>5. QED
        BY <2>3, <2>4
<1>8. ASSUME NEW s \in Sessions, UserDisconnect(s) \/ ReadFail(s) \/ WriteFail(s) \/ EndCleanup(s)
      PROVE  EndedLetsGo'
    <2>1. Cleanup(s) /\ \A t \in Sessions : pc[t] = "attaching" => pc'[t] = "attaching"
        BY <1>8 DEF UserDisconnect, ReadFail, WriteFail, EndCleanup, OwnTypes
    <2>2. QED
        BY <1>7, <2>1
<1>9. ASSUME NEW c \in Clients, LossCleanup(c) PROVE EndedLetsGo'
    BY <1>7, <1>9, ClientShape DEF LossCleanup
<1>10. ASSUME NEW s \in Sessions, EndPush(s) \/ BrowserGone(s) \/ MurmurAccepts(s) PROVE EndedLetsGo'
    BY <1>1, <1>10 DEF EndPush, BrowserGone, MurmurAccepts
<1>11. ASSUME NEW c \in Clients,
              Sync(c) \/ HandleKick(c) \/ ReadRoutineEnds(c) \/ LossPush(c) \/ MurmurKicks(c) \/ LinkBreaks(c)
       PROVE  EndedLetsGo'
    BY <1>1, <1>11 DEF Sync, HandleKick, ReadRoutineEnds, LossPush, MurmurKicks, LinkBreaks
<1>12. CASE UNCHANGED vars
    BY <1>1, <1>12 DEF vars
<1>13. QED
    BY <1>2, <1>3, <1>4, <1>5, <1>6, <1>8, <1>9, <1>10, <1>11, <1>12
       DEF Next, ReadLoop, ReadRoutine, EndWith, Murmur

----------------------------------------------------------------------------
(* What the browser is told.                                               *)

(* What no step takes back.                                                *)
LEMMA NoWayBack ==
    ASSUME OwnTypes, Counts, Reg!IInv, Upstream, [Next]_vars
    PROVE  /\ \A t \in Sessions :
                 /\ done[t] => done'[t]
                 /\ connects[t] > 0 => connects'[t] > 0
                 /\ ender[t] # "none" => ender'[t] # "none"
                 /\ ws[t] = "gone" => ws'[t] = "gone"
                 /\ closing[t] => closing'[t]
                 /\ pc[t] = "over" => pc'[t] = "over"
                 /\ pc'[t] = "dialing" => pc[t] \in {"reserved", "dialing"} /\ connects'[t] = connects[t]
           /\ \A c \in Clients :
                 /\ up[c] \in {"synced", "down"} => up'[c] \in {"synced", "down"}
                 /\ notify[c] = "over" => notify'[c] = "over"
<1> USE DEF registryVars, pastVars, upstreamVars, endingVars, browserVars
<1>1. \A t \in Sessions : done[t] => done'[t]
    <2>1. ASSUME NEW s \in Sessions, Cleanup(s) PROVE \A t \in Sessions : done[t] => done'[t]
        BY <2>1, CleanupOk, TableFacts
    <2>2. QED
        BY <2>1, ClientShape DEF Next, vars, Connect, UserDisconnect, ReadLoop, StoreKey, DialFail, DialDone,
            Attach, ReadFail, WriteFail, ReadRoutine, HandleKick, ReadRoutineEnds, LossPush,
            LossCleanup, EndWith, EndPush, EndCleanup, BrowserGone, MurmurAccepts, Murmur, Sync,
            MurmurKicks, LinkBreaks
<1>2. \A t \in Sessions :
         /\ connects[t] > 0 => connects'[t] > 0
         /\ connects'[t] = connects[t] \/ pc'[t] = "reserved"
    BY TableFacts DEF Next, vars, Connect, UserDisconnect, ReadLoop, StoreKey, DialFail, DialDone,
        Attach, ReadFail, WriteFail, ReadRoutine, HandleKick, ReadRoutineEnds, LossPush,
        LossCleanup, EndWith, EndPush, EndCleanup, BrowserGone, MurmurAccepts, Murmur, Sync,
        MurmurKicks, LinkBreaks, OwnTypes
<1>3. \A t \in Sessions :
         /\ ender[t] # "none" => ender'[t] # "none"
         /\ ws[t] = "gone" => ws'[t] = "gone"
    BY DEF Next, vars, Connect, UserDisconnect, ReadLoop, StoreKey, DialFail, DialDone,
        Attach, ReadFail, WriteFail, ReadRoutine, HandleKick, ReadRoutineEnds, LossPush,
        LossCleanup, EndWith, EndPush, EndCleanup, BrowserGone, MurmurAccepts, Murmur, Sync,
        MurmurKicks, LinkBreaks, OwnTypes
<1>4. \A t \in Sessions : closing[t] => closing'[t]
    BY DEF Next, vars, Connect, UserDisconnect, ReadLoop, StoreKey, DialFail, DialDone,
        Attach, ReadFail, WriteFail, ReadRoutine, HandleKick, ReadRoutineEnds, LossPush,
        LossCleanup, EndWith, EndPush, EndCleanup, BrowserGone, MurmurAccepts, Murmur, Sync,
        MurmurKicks, LinkBreaks, OwnTypes
<1>5. \A t \in Sessions :
         /\ pc[t] = "over" => pc'[t] = "over"
         /\ pc'[t] = "dialing" => pc[t] \in {"reserved", "dialing"}
    BY DEF Next, vars, Connect, UserDisconnect, ReadLoop, StoreKey, DialFail, DialDone,
        Attach, ReadFail, WriteFail, ReadRoutine, HandleKick, ReadRoutineEnds, LossPush,
        LossCleanup, EndWith, EndPush, EndCleanup, BrowserGone, MurmurAccepts, Murmur, Sync,
        MurmurKicks, LinkBreaks, OwnTypes
<1>6. ASSUME NEW c \in Clients, up[c] \in {"synced", "down"} PROVE up'[c] \in {"synced", "down"}
    <2>1. ASSUME NEW s \in Sessions, MurmurAccepts(s) PROVE up'[c] = up[c]
        BY <1>6, <2>1 DEF MurmurAccepts, OwnTypes
    <2>2. ASSUME NEW d \in Clients, Sync(d) \/ ReadRoutineEnds(d) PROVE up'[c] \in {"synced", "down"}
        BY <1>6, <2>2 DEF Sync, ReadRoutineEnds, OwnTypes
    <2>3. QED
        BY <1>6, <2>1, <2>2
           DEF Next, vars, Connect, UserDisconnect, ReadLoop, StoreKey, DialFail, DialDone,
               Attach, ReadFail, WriteFail, ReadRoutine, HandleKick, LossPush,
               LossCleanup, EndWith, EndPush, EndCleanup, BrowserGone, Murmur,
               MurmurKicks, LinkBreaks
<1>7. ASSUME NEW c \in Clients, notify[c] = "over" PROVE notify'[c] = "over"
    <2>1. ASSUME NEW d \in Clients, LossPush(d) \/ LossCleanup(d) PROVE notify'[c] = "over"
        BY <1>7, <2>1 DEF LossPush, LossCleanup, OwnTypes
    <2>2. ASSUME NEW d \in Clients, ReadRoutineEnds(d) PROVE notify'[c] = "over"
        <3>1. notify[d] = "none"
            BY <2>2 DEF Upstream, Handshake, ReadRoutineEnds
        <3>2. QED
            BY <1>7, <2>2, <3>1 DEF ReadRoutineEnds, OwnTypes
    <2>3. QED
        BY <1>7, <2>1, <2>2
           DEF Next, vars, Connect, UserDisconnect, ReadLoop, StoreKey, DialFail, DialDone,
               Attach, ReadFail, WriteFail, ReadRoutine, HandleKick,
               EndWith, EndPush, EndCleanup, BrowserGone, MurmurAccepts, Murmur, Sync,
               MurmurKicks, LinkBreaks
<1>8. QED
    BY <1>1, <1>2, <1>3, <1>4, <1>5, <1>6, <1>7

(* Whoever was taken over stays so.                                        *)
LEMMA OvertakenStays ==
    ASSUME OwnTypes, Counts, Reg!IInv, Upstream, [Next]_vars, NEW s \in Sessions
    PROVE  /\ Overtaken(s) => Overtaken(s)'
           /\ Spent(s) => Spent(s)'
<1>1. HasRival(s) => HasRival(s)'
    BY NoWayBack DEF HasRival, Reg!SameClient
<1>2. LoggedInTwice(s) => LoggedInTwice(s)'
    BY NoWayBack DEF LoggedInTwice, SessionOf
<1>3. QED
    BY <1>1, <1>2, NoWayBack DEF Overtaken, Spent

(* The login of a session that has one is not the one it dials for.        *)
LEMMA LoggedInStep ==
    ASSUME OwnTypes, Counts, Reg!IInv, Upstream, LoggedInHasClient, Upstream', Counts', OwnTypes', [Next]_vars
    PROVE  LoggedInHasClient'
<1> SUFFICES ASSUME NEW t \in Sessions, loggedIn'[t]
             PROVE  \E c \in Clients :
                       /\ SessionOf(c) = t /\ up'[c] \in {"synced", "down"}
                       /\ pc'[t] \in {"reserved", "dialing"} => c # Dialled(t)'
    BY DEF LoggedInHasClient, SessionOf
<1>1. CASE loggedIn[t]
    <2>1. PICK c \in Clients : /\ SessionOf(c) = t /\ up[c] \in {"synced", "down"}
                               /\ pc[t] \in {"reserved", "dialing"} => c # Dialled(t)
        BY <1>1 DEF LoggedInHasClient
    <2>2. up'[c] \in {"synced", "down"}
        BY <2>1, NoWayBack
    <2>3. pc'[t] = "reserved" => c # Dialled(t)'
        BY <2>2 DEF Upstream, Handshake
    <2>4. pc'[t] = "dialing" => c # Dialled(t)'
        BY <2>1, NoWayBack DEF Dialled
    <2>5. QED
        BY <2>1, <2>2, <2>3, <2>4
<1>2. CASE ~loggedIn[t]
    <2>1. DialDone(t)
        BY <1>2, TableFacts
           DEF Next, vars, Connect, UserDisconnect, ReadLoop, StoreKey, DialFail, DialDone,
               Attach, ReadFail, WriteFail, ReadRoutine, HandleKick, ReadRoutineEnds, LossPush,
               LossCleanup, EndWith, EndPush, EndCleanup, BrowserGone, MurmurAccepts, Murmur, Sync,
               MurmurKicks, LinkBreaks, registryVars, pastVars, upstreamVars, endingVars, browserVars
    <2>2. pc'[t] = "attaching" /\ up'[Dialled(t)] \in {"synced", "down"} /\ pc[t] = "dialing"
        BY <2>1 DEF DialDone, OwnTypes, upstreamVars
    <2>3. Dialled(t) \in Clients /\ SessionOf(Dialled(t)) = t
        BY <2>2, DialShape
    <2>4. QED
        BY <2>2, <2>3
<1>3. QED
    BY <1>1, <1>2

(* Who gets an endWith goroutine was taken over, or was about to be.       *)
LEMMA EnderIsSpent ==
    ASSUME IInv, NEW s \in Sessions, DialDone(s), NEW t \in Sessions, entries[KeyOf[s]].owner = t
    PROVE  Overtaken(t) \/ Leaving(t)
<1> USE DEF IInv
<1>1. /\ pc[s] = "dialing" /\ up[Dialled(s)] \in {"synced", "down"}
      /\ Dialled(s) \in Clients /\ SessionOf(Dialled(s)) = s
    BY DialShape DEF DialDone
<1>2. CASE t = s
    <2>1. loggedIn[s]
        BY <1>2, TableFacts
    <2>2. PICK c \in Clients : SessionOf(c) = s /\ up[c] \in {"synced", "down"} /\ c # Dialled(s)
        BY <1>1, <2>1 DEF Notices, LoggedInHasClient
    <2>3. LoggedInTwice(s)
        BY <1>1, <2>2 DEF LoggedInTwice
    <2>4. QED
        BY <1>2, <2>3 DEF Overtaken
<1>3. CASE t # s
    <2>1. connects[s] > 0
        <3>1. /\ client[s] \in 0..connects[s] /\ connects[s] \in 0..MaxConnects[s]
              /\ MaxConnects[s] \in Nat /\ client[s] < connects[s]
            BY <1>1 DEF Counts
        <3>2. QED
            BY <3>1
    <2>2. CASE done[s] \/ ender[s] # "none"
        BY <1>3, <2>1, <2>2 DEF HasRival, Overtaken
    <2>3. CASE ~done[s] /\ ender[s] = "none"
        <3>1. entries[KeyOf[s]].pending = s /\ s # NoSession /\ KeyOf[s] \in Keys
            BY <1>1, <1>3, <2>3, TableFacts
        <3>2. QED
            BY <3>1 DEF Leaving
    <2>4. QED
        BY <2>2, <2>3
<1>4. QED
    BY <1>2, <1>3

(* A live session with a reservation beside it is of the tab that made it. *)
LEMMA DisplacedIsSpent ==
    ASSUME IInv, [Next]_vars, NEW t \in Sessions, NEW k \in Keys,
           entries'[k].owner = t, entries'[k].pending # NoSession
    PROVE  Leaving(t) \/ HasRival(t)'
<1> USE DEF IInv, registryVars, pastVars, upstreamVars, endingVars, browserVars
<1>1. entries[k].owner = t /\ entries[k].pending # NoSession => Leaving(t)
    BY DEF Leaving
<1>2. ASSUME NEW s \in Sessions, Connect(s) PROVE Leaving(t) \/ HasRival(t)'
    <2>1. /\ entries'[k].owner = entries[k].owner
          /\ \/ entries'[k] = entries[k]
             \/ /\ k = KeyOf[s] /\ entries'[k].pending = s
                /\ Reg!Reservable(entries[k], s) /\ entries[k].owner # s
        BY <1>2, TableMoves
    <2>2. CASE entries'[k] = entries[k]
        BY <1>1, <2>2
    <2>3. CASE entries'[k] # entries[k]
        <3>1. Reg!SameClient(t, s) /\ t # s
            BY <2>1, <2>3 DEF Reg!Reservable
        <3>2. connects'[s] > 0
            BY <1>2, TableFacts DEF Connect
        <3>3. QED
            BY <3>1, <3>2 DEF HasRival, Reg!SameClient
    <2>4. QED
        BY <2>2, <2>3
<1>3. ASSUME NEW s \in Sessions, DialFail(s) PROVE Leaving(t)
    <2>1. /\ entries'[k].owner = entries[k].owner
          /\ entries'[k].pending \in {entries[k].pending, NoSession}
        BY <1>3, TableMoves
    <2>2. QED
        BY <1>1, <2>1
<1>4. ASSUME NEW s \in Sessions, DialDone(s) PROVE Leaving(t)
    <2>1. CASE entries'[k] = entries[k]
        BY <1>1, <2>1
    <2>2. CASE entries'[k] # entries[k]
        <3>1. /\ k = KeyOf[s] /\ t = s /\ entries[k].pending # s /\ entries[k].pending # NoSession
              /\ pc[s] = "dialing"
            <4> HIDE DEF IInv
            <4>1. Reg!IInv /\ OwnTypes
                BY DEF IInv
            <4>2. \/ entries'[k] = entries[k]
                  \/ /\ k = KeyOf[s] /\ entries'[k].owner = s
                     /\ \/ entries'[k].pending = NoSession
                        \/ entries'[k].pending = entries[k].pending /\ entries[k].pending # s
                BY <1>4, <4>1, TableMoves
            <4>3. pc[s] = "dialing"
                BY <1>4 DEF DialDone
            <4>4. QED
                BY <2>2, <4>2, <4>3
        <3>2. CASE done[s] \/ ender[s] # "none"
            BY <3>1, <3>2 DEF Leaving
        <3>3. CASE ~done[s] /\ ender[s] = "none"
            <4>1. entries[k].owner = s
                BY <3>1, <3>3, TableFacts
            <4>2. QED
                BY <1>1, <3>1, <4>1
        <3>4. QED
            BY <3>2, <3>3
    <2>3. QED
        BY <2>1, <2>2
<1>5. ASSUME NEW s \in Sessions, Cleanup(s) PROVE Leaving(t)
    <2>1. /\ entries'[k].pending \in Sessions
          /\ \A u \in Sessions \cup {NoSession} :
                /\ entries'[k].owner = u => entries[k].owner = u \/ u = NoSession
                /\ entries'[k].pending = u => entries[k].pending = u \/ u = NoSession
        BY <1>5, CleanupOk
    <2>2. entries[k].owner = t /\ entries[k].pending # NoSession
        BY <2>1
    <2>3. QED
        BY <1>1, <2>2
<1>6. CASE entries' = entries
    BY <1>1, <1>6
<1>7. QED
    BY <1>2, <1>3, <1>4, <1>5, <1>6, ClientShape
       DEF Next, vars, UserDisconnect, ReadLoop, StoreKey, Attach, ReadFail, WriteFail,
           ReadRoutine, HandleKick, ReadRoutineEnds, LossPush, LossCleanup, EndWith, EndPush,
           EndCleanup, BrowserGone, MurmurAccepts, Murmur, Sync, MurmurKicks, LinkBreaks

(* Who leaves has been taken over, has no browser, or has its close code.  *)
LEMMA LeavingStep ==
    ASSUME IInv, OwnTypes', [Next]_vars
    PROVE  LeavingIsSpent'
<1> USE DEF registryVars, pastVars, upstreamVars, endingVars, browserVars
<1> SUFFICES ASSUME NEW t \in Sessions, Leaving(t)', ~Leaving(t) PROVE Spent(t)'
    <2>1. \A t \in Sessions : Leaving(t) => Spent(t)'
        BY OvertakenStays DEF IInv, Notices, LeavingIsSpent
    <2>2. QED
        BY <2>1 DEF LeavingIsSpent
<1>1. \A u \in Sessions : Overtaken(u)' => Spent(u)'
    BY DEF Spent
<1>2. ASSUME NEW k \in Keys, entries'[k].owner = t, entries'[k].pending # NoSession
      PROVE  Spent(t)'
    <2>1. HasRival(t)'
        BY <1>2, DisplacedIsSpent
    <2>2. QED
        BY <1>1, <2>1 DEF Overtaken
<1>3. CASE ender'[t] # "none"
    <2>1. ender[t] = "none"
        BY DEF Leaving
    <2>2. PICK s \in Sessions : DialDone(s)
        BY <1>3, <2>1
           DEF Next, vars, Connect, UserDisconnect, ReadLoop, StoreKey, DialFail,
               Attach, ReadFail, WriteFail, ReadRoutine, HandleKick, ReadRoutineEnds, LossPush,
               LossCleanup, EndWith, EndPush, EndCleanup, BrowserGone, MurmurAccepts, Murmur, Sync,
               MurmurKicks, LinkBreaks, OwnTypes
    <2>3. entries[KeyOf[s]].owner = t
        BY <1>3, <2>1, <2>2 DEF DialDone
    <2>4. Overtaken(t)
        BY <2>2, <2>3, EnderIsSpent
    <2>5. QED
        BY <1>1, <2>4, OvertakenStays DEF IInv
<1>4. CASE done'[t] /\ pc'[t] # "over"
    <2>1. ender[t] = "none" /\ (done[t] => pc[t] = "over")
        BY DEF Leaving
    <2>2. ~done[t]
        BY <1>4, <2>1, NoWayBack DEF IInv
    <2>3. ASSUME NEW s \in Sessions, Cleanup(s) PROVE t = s
        BY <1>4, <2>2, <2>3, CleanupOk, TableFacts DEF IInv
    <2>4. \/ WriteFail(t)
          \/ \E c \in Clients : SessionOf(c) = t /\ LossCleanup(c)
        <3>1. \/ UserDisconnect(t) \/ ReadFail(t) \/ WriteFail(t) \/ EndCleanup(t)
              \/ \E c \in Clients : SessionOf(c) = t /\ LossCleanup(c)
            BY <1>4, <2>2, <2>3, ClientShape
               DEF Next, vars, Connect, UserDisconnect, ReadLoop, StoreKey, DialFail, DialDone,
                   Attach, ReadFail, WriteFail, ReadRoutine, HandleKick, ReadRoutineEnds, LossPush,
                   LossCleanup, EndWith, EndPush, EndCleanup, BrowserGone, MurmurAccepts, Murmur, Sync,
                   MurmurKicks, LinkBreaks
        <3>2. ~UserDisconnect(t) /\ ~ReadFail(t)
            BY <1>4 DEF UserDisconnect, ReadFail, IInv, OwnTypes
        <3>3. ~EndCleanup(t)
            BY <2>1 DEF EndCleanup
        <3>4. QED
            BY <3>1, <3>2, <3>3
    <2>5. CASE WriteFail(t)
        BY <2>5 DEF WriteFail, Spent
    <2>6. ASSUME NEW c \in Clients, SessionOf(c) = t, LossCleanup(c) PROVE Spent(t)'
        BY <2>6 DEF LossCleanup, Spent, IInv, OwnTypes
    <2>7. QED
        BY <2>4, <2>5, <2>6
<1>5. QED
    BY <1>2, <1>3, <1>4 DEF Leaving

(* A close code is not set without a reason.                               *)
LEMMA ClosingStep ==
    ASSUME IInv, OwnTypes', [Next]_vars
    PROVE  ClosingHasReason'
<1> USE DEF IInv
<1> SUFFICES ASSUME NEW t \in Sessions, closing'[t]
             PROVE  \/ Overtaken(t)' \/ ws'[t] = "gone"
                    \/ \E c \in Clients : SessionOf(c) = t /\ notify'[c] = "over"
    BY DEF ClosingHasReason, SessionOf
<1>1. CASE closing[t]
    <2>1. \/ Overtaken(t) \/ ws[t] = "gone"
          \/ \E c \in Clients : SessionOf(c) = t /\ notify[c] = "over"
        BY <1>1 DEF Notices, ClosingHasReason
    <2>2. QED
        BY <2>1, OvertakenStays, NoWayBack
<1>2. CASE ~closing[t]
    <2>1. EndPush(t) \/ \E c \in Clients : SessionOf(c) = t /\ LossCleanup(c)
        <3>1. ASSUME NEW u \in Sessions, EndPush(u) PROVE t = u
            BY <1>2, <3>1 DEF EndPush, OwnTypes
        <3>2. ASSUME NEW c \in Clients, LossCleanup(c) PROVE t = SessionOf(c)
            BY <1>2, <3>2, ClientShape DEF LossCleanup, OwnTypes
        <3>3. QED
            BY <1>2, <3>1, <3>2
               DEF Next, vars, Connect, UserDisconnect, ReadLoop, StoreKey, DialFail, DialDone,
                   Attach, ReadFail, WriteFail, ReadRoutine, HandleKick, ReadRoutineEnds, LossPush,
                   EndWith, EndCleanup, BrowserGone, MurmurAccepts, Murmur, Sync,
                   MurmurKicks, LinkBreaks,
                   registryVars, pastVars, upstreamVars, endingVars, browserVars
    <2>2. CASE EndPush(t)
        <3>1. Spent(t)
            BY <2>2 DEF EndPush, Notices, LeavingIsSpent, Leaving
        <3>2. QED
            BY <1>2, <3>1, OvertakenStays, NoWayBack DEF Spent
    <2>3. ASSUME NEW c \in Clients, SessionOf(c) = t, LossCleanup(c) PROVE notify'[c] = "over"
        BY <2>3 DEF LossCleanup, OwnTypes
    <2>4. QED
        BY <2>1, <2>2, <2>3
<1>3. QED
    BY <1>1, <1>2

(* Who is told what by a push.                                             *)
LEMMA PushTells ==
    ASSUME OwnTypes, NEW s \in Sessions, NEW code, Push(s, code)
    PROVE  \A t \in Sessions :
              told'[t] => told[t] \/ (t = s /\ code = "session_takeover" /\ ws[s] = "open")
<1> DEFINE says == told[s] \/ (code = "session_takeover" /\ ws[s] = "open")
<1>1. CASE told' = [told EXCEPT ![s] = says]
    <2>1. \A t \in Sessions : told'[t] = IF t = s THEN says ELSE told[t]
        BY <1>1 DEF OwnTypes
    <2>2. QED
        BY <2>1
<1>2. QED
    BY <1>1 DEF Push

(* A takeover is spoken of only when there is one, or to nobody.           *)
LEMMA ToldStep ==
    ASSUME IInv, OwnTypes', [Next]_vars
    PROVE  TakeoverNoticeTruthful'
<1> USE DEF IInv
<1> SUFFICES ASSUME NEW t \in Sessions, told'[t] PROVE Overtaken(t)'
    BY DEF TakeoverNoticeTruthful, Overtaken
<1>1. CASE told[t]
    BY <1>1, OvertakenStays DEF Notices, TakeoverNoticeTruthful, Overtaken
<1>2. CASE ~told[t]
    <2>1. EndPush(t) \/ \E c \in Clients : SessionOf(c) = t /\ LossPush(c)
        <3>1. \A u \in Sessions : \A code : Push(u, code) => t = u
            BY <1>2, PushTells
        <3>2. ASSUME NEW u \in Sessions, EndPush(u) PROVE t = u
            BY <1>2, <3>1, <3>2 DEF EndPush
        <3>3. ASSUME NEW c \in Clients, LossPush(c) PROVE t = SessionOf(c)
            BY <1>2, <3>1, <3>3, ClientShape DEF LossPush
        <3>4. QED
            BY <1>2, <3>2, <3>3
               DEF Next, vars, Connect, UserDisconnect, ReadLoop, StoreKey, DialFail, DialDone,
                   Attach, ReadFail, WriteFail, ReadRoutine, HandleKick, ReadRoutineEnds,
                   LossCleanup, EndWith, EndCleanup, BrowserGone, MurmurAccepts, Murmur, Sync,
                   MurmurKicks, LinkBreaks,
                   registryVars, pastVars, upstreamVars, endingVars, browserVars
    <2>2. CASE EndPush(t)
        <3>1. ~closing[t] /\ Push(t, "session_takeover") /\ ender[t] # "none"
            BY <1>2, <2>2 DEF EndPush
        <3>2. ws[t] = "open"
            BY <1>2, <3>1, PushTells
        <3>3. Overtaken(t)
            BY <3>1, <3>2 DEF Notices, LeavingIsSpent, Leaving, Spent
        <3>4. QED
            BY <3>3, OvertakenStays
    <2>3. ASSUME NEW c \in Clients, SessionOf(c) = t, LossPush(c) PROVE Overtaken(t)'
        <3>1. notify[c] = "raised" /\ Push(t, DisconnectCode(c))
            BY <1>2, <2>3 DEF LossPush
        <3>2. ws[t] = "open" /\ DisconnectCode(c) = "session_takeover"
            BY <1>2, <3>1, PushTells
        <3>3. Reg!IsTakeoverPending(sessionKey[t], t)
            BY <2>3, <3>2 DEF DisconnectCode
        <3>4. Leaving(t)
            BY <3>3 DEF Reg!IsTakeoverPending, Leaving
        <3>5. Overtaken(t) \/ closing[t]
            BY <3>2, <3>4 DEF Notices, LeavingIsSpent, Spent
        <3>6. ASSUME closing[t], ~Overtaken(t) PROVE FALSE
            <4>1. PICK d \in Clients : SessionOf(d) = t /\ notify[d] = "over"
                BY <3>2, <3>6 DEF Notices, ClosingHasReason
            <4>2. up[c] = "down" /\ up[d] = "down" /\ c # d
                BY <3>1, <4>1 DEF Upstream, Handshake
            <4>3. LoggedInTwice(t)
                BY <2>3, <4>1, <4>2 DEF LoggedInTwice
            <4>4. QED
                BY <3>6, <4>3 DEF Overtaken
        <3>7. QED
            BY <3>5, <3>6, OvertakenStays
    <2>4. QED
        BY <2>1, <2>2, <2>3
<1>3. QED
    BY <1>1, <1>2

----------------------------------------------------------------------------

(* The invariant holds always.                                             *)
LEMMA Invariance == Spec => []IInv
<1>1. IInv /\ [Next]_vars => IInv'
    <2> SUFFICES ASSUME IInv, [Next]_vars PROVE IInv'
        OBVIOUS
    <2>1. OwnTypes' /\ Counts' /\ Reg!IInv'
        BY TypeStep, CountStep, TableStep, TableInductive DEF IInv
    <2>2. Upstream' /\ EndedLetsGo'
        BY <2>1, UpstreamStep, EndedStep DEF IInv
    <2>3. LoggedInHasClient'
        BY <2>1, <2>2, LoggedInStep DEF IInv, Notices
    <2>4. LeavingIsSpent' /\ ClosingHasReason' /\ TakeoverNoticeTruthful'
        BY <2>1, LeavingStep, ClosingStep, ToldStep
    <2>5. QED
        BY <2>1, <2>2, <2>3, <2>4 DEF IInv, Notices
<1>2. QED
    BY <1>1, InitInv, PTL DEF Spec

(* The goroutines of a session use the nickname table as SessionRegistry   *)
(* describes, in every interleaving: the safety part of the refinement     *)
(* that the bridge run checks as RegistryFairSpec.                         *)
THEOREM ImplementsRegistry == Spec => Reg!Spec
<1>1. Init => Reg!Init
    BY DEF Init
<1>2. IInv /\ [Next]_vars => [Reg!Next]_(Reg!vars)
    BY TableStep DEF IInv
<1>3. QED
    BY <1>1, <1>2, Invariance, PTL DEF Spec, Reg!Spec

(* The opening promise of registry.go, kept by the goroutines that use it: *)
(* at most one session logged in, not ended and not condemned per nickname.*)
THEOREM OneActiveLogin == Spec => []Reg!OneActive
<1>1. IInv => Reg!OneActive
    BY DEF IInv, Reg!IInv, Reg!ActiveIsOwner, Reg!OneActive
<1>2. QED
    BY <1>1, Invariance, PTL

(* No step of the goroutines hands an active session's nickname to another *)
(* tab, except to a session that has itself ended, or been sent to its     *)
(* end, during its dial.                                                   *)
THEOREM TakeoverSafe == Spec => Reg!TakeoverOnlyBySameTab
<1>1. [Reg!Next]_(Reg!vars) => [RegProofs!Next]_(RegProofs!vars)
    BY SameTable
<1>2. Reg!Init => RegProofs!Init
    BY SameTable
<1>3. RegProofs!Spec => RegProofs!TakeoverOnlyBySameTab
    BY SameTable, RegProofs!TakeoverSafe
<1>4. [RegProofs!TakeoverStaysInTab]_(RegProofs!vars) => [Reg!TakeoverStaysInTab]_(Reg!vars)
    BY DEF RegProofs!TakeoverStaysInTab, Reg!TakeoverStaysInTab, RegProofs!vars, Reg!vars,
        RegProofs!DisplacedBy, Reg!DisplacedBy, RegProofs!Active, Reg!Active
<1>5. QED
    BY <1>1, <1>2, <1>3, <1>4, ImplementsRegistry, PTL
       DEF Reg!Spec, RegProofs!Spec, Reg!TakeoverOnlyBySameTab, RegProofs!TakeoverOnlyBySameTab

(* The types, the table's included.                                        *)
THEOREM TypeCorrect == Spec => []TypeOK
<1>1. IInv => TypeOK
    <2> SUFFICES ASSUME IInv PROVE TypeOK
        OBVIOUS
    <2>1. \A s \in Sessions : Handle(s) \in Clients \cup {<<s, 0>>}
        BY DialShape DEF IInv, Handle
    <2>2. QED
        BY <2>1 DEF IInv, Reg!IInv, OwnTypes, TypeOK
<1>2. QED
    BY <1>1, Invariance, PTL

(* What an ended session still has in the table came after its cleanup, or *)
(* was there for it without a key to find it by, and a dial or a client    *)
(* will end it (connectMumble, cleanup).                                   *)
THEOREM EndedSessionsLetGo == Spec => []EndedLetsGo
<1>1. IInv => EndedLetsGo
    BY DEF IInv
<1>2. QED
    BY <1>1, Invariance, PTL

(* No login without somebody to close it, however many dials a session     *)
(* makes and whoever drops its handles (cleanup, connectMumble).           *)
THEOREM HandlesAreClosed == Spec => []NoOrphanedLogin
<1>1. IInv => NoOrphanedLogin
    BY DEF IInv, Upstream
<1>2. QED
    BY <1>1, Invariance, PTL

(* A browser that is told session_takeover has a rival that got past       *)
(* Reserve, or has made its session log in twice, however endWith,         *)
(* OnDisconnect and late Commits interleave.                               *)
THEOREM NoticesAreTruthful == Spec => []TakeoverNoticeTruthful
<1>1. IInv => TakeoverNoticeTruthful
    BY DEF IInv, Notices
<1>2. QED
    BY <1>1, Invariance, PTL
=============================================================================
