------------------------ MODULE SessionRegistryProofs ------------------------
(***************************************************************************)
(* Proofs, for any sets of sessions and keys, any assignment of keys and   *)
(* clientIds and any number of connects, of the safety properties of SessionRegistry that TLC checks  *)
(* on four sessions.  Each action preserves the inductive invariant IInv;  *)
(* the properties follow from it.                                          *)
(***************************************************************************)
EXTENDS SessionRegistry, TLAPS

USE RegistryAssumption

(* What the entry operations return, and what Reserve requires.            *)
LEMMA EntryOps ==
    ASSUME NEW e \in Entry, NEW s \in Sessions
    PROVE  /\ Reserved(e, s) \in Entry
           /\ Committed(e, s) \in Entry
           /\ Released(e, s) \in Entry
           /\ Unregistered(e, s) \in Entry
           /\ e.owner \in MaybeSession /\ e.pending \in MaybeSession
           /\ Released(e, s).owner = e.owner
           /\ Released(e, s).pending = IF e.pending = s THEN NoSession ELSE e.pending
           /\ Unregistered(e, s).owner = IF e.owner = s THEN NoSession ELSE e.owner
           /\ Unregistered(e, s).pending = Released(e, s).pending
           /\ Committed(e, s).owner = s
           /\ Committed(e, s).pending = Released(e, s).pending
           /\ e.owner # s => Reserved(e, s) = [owner |-> e.owner, pending |-> s]
BY DEF Entry, MaybeSession, Reserved, Committed, Released, Unregistered

(* The initial table satisfies the inductive invariant.                    *)
LEMMA InitInv == Init => IInv
<1> SUFFICES ASSUME Init PROVE IInv
    OBVIOUS
<1>1. TypeOK
    BY DEF Init, TypeOK, Entry, MaybeSession, NoEntry, Phases
<1>2. QED
    BY <1>1 DEF Init, IInv, NoEntry, ActiveIsOwner, OwnerIsOnline, KeyIsHeld,
        PendingIsDialing, LiveDialIsPending, PendingIsSameTab,
        FlaggedIsOnline, FlagMatchesPending, Active, Dialing

(* Reserve puts a session beside an owner of its own tab only, or leaves   *)
(* the entry that s owns as it is.                                         *)
LEMMA ReserveInv ==
    ASSUME IInv, NEW s \in Sessions, Reserve(s)
    PROVE  IInv'
<1> USE DEF IInv
<1> DEFINE k == KeyOf[s]
           p == IF entries[k].owner = s THEN NoSession ELSE s
<1>1. k \in Keys /\ entries[k] \in Entry
    BY DEF TypeOK
<1>2. /\ entries[k].pending = NoSession
      /\ entries[k].owner \in {NoSession, s} \/ SameClient(entries[k].owner, s)
    BY DEF Reserve, Reservable
<1>3. entries' = [entries EXCEPT ![k] = [owner |-> entries[k].owner, pending |-> p]]
    <2>1. Reserved(entries[k], s) = [owner |-> entries[k].owner, pending |-> p]
        <3>1. CASE entries[k].owner = s
            <4>1. entries[k] = [owner |-> entries[k].owner, pending |-> entries[k].pending]
                BY <1>1 DEF Entry
            <4>2. QED
                BY <1>2, <3>1, <4>1 DEF Reserved
        <3>2. CASE entries[k].owner # s
            BY <1>1, <3>2 DEF Reserved, Entry
        <3>3. QED
            BY <3>1, <3>2
    <2>2. QED
        BY <2>1 DEF Reserve
<1>4. /\ phase' = [phase EXCEPT ![s] = "reserved"]
      /\ phase[s] = "idle"
      /\ connects' = [connects EXCEPT ![s] = @ + 1]
      /\ UNCHANGED <<sessionKey, loggedIn, done, condemned>>
      /\ takeoverPending' =
            [t \in Sessions |-> takeoverPending[t] \/ (t = entries[k].owner /\ t # s)]
    BY DEF Reserve, MarkedByReserve
<1>5. \A t \in Sessions, j \in Keys : Active(t, j)' <=> Active(t, j)
    BY <1>4 DEF Active
<1>6. TypeOK'
    BY <1>1, <1>3, <1>4 DEF TypeOK, Entry, MaybeSession, Phases
<1>7. ActiveIsOwner'
    BY <1>3, <1>5 DEF ActiveIsOwner, TypeOK
<1>8. OwnerIsOnline' /\ KeyIsHeld'
    BY <1>3, <1>4 DEF OwnerIsOnline, KeyIsHeld, TypeOK
<1>9. PendingIsDialing'
    BY <1>1, <1>3, <1>4 DEF PendingIsDialing, Dialing, TypeOK
<1>10. LiveDialIsPending'
    <2> SUFFICES ASSUME NEW t \in Sessions, Dialing(t)', ~done[t], t \notin condemned
                 PROVE  t \in {entries'[KeyOf[t]].pending, entries'[KeyOf[t]].owner}
        BY <1>4 DEF LiveDialIsPending
    <2>1. CASE t = s
        BY <1>1, <1>3, <2>1 DEF TypeOK
    <2>2. CASE t # s
        <3>1. t \in {entries[KeyOf[t]].pending, entries[KeyOf[t]].owner}
            BY <1>4, <2>2 DEF LiveDialIsPending, Dialing, TypeOK
        <3>2. CASE KeyOf[t] = k
            BY <1>1, <1>2, <1>3, <3>1, <3>2 DEF TypeOK
        <3>3. CASE KeyOf[t] # k
            BY <1>3, <3>1, <3>3 DEF TypeOK
        <3>4. QED
            BY <3>2, <3>3
    <2>3. QED
        BY <2>1, <2>2
<1>11. PendingIsSameTab'
    BY <1>1, <1>2, <1>3, <1>5 DEF PendingIsSameTab, ActiveIsOwner, TypeOK, SameClient
<1>12. FlaggedIsOnline'
    BY <1>1, <1>4 DEF FlaggedIsOnline, OwnerIsOnline, TypeOK
<1>13. FlagMatchesPending'
    <2> SUFFICES ASSUME NEW j \in Keys, NEW t \in Sessions, Active(t, j)
                 PROVE  takeoverPending'[t] <=> IsTakeoverPending(j, t)'
        BY <1>5 DEF FlagMatchesPending
    <2>1. entries[j].owner = t /\ (takeoverPending[t] <=> IsTakeoverPending(j, t))
        BY DEF ActiveIsOwner, FlagMatchesPending
    <2>2. CASE j = k
        <3>1. entries'[k].owner = t /\ entries'[k].pending = p
            BY <1>1, <1>3, <2>1, <2>2 DEF TypeOK
        <3>2. IsTakeoverPending(j, t)' <=> t # s
            BY <2>1, <2>2, <3>1 DEF IsTakeoverPending
        <3>3. t = s => ~takeoverPending[t]
            BY <1>2, <2>1, <2>2 DEF IsTakeoverPending
        <3>4. takeoverPending'[t] <=> t # s
            BY <1>4, <2>1, <2>2, <3>3 DEF TypeOK
        <3>5. QED
            BY <3>2, <3>4
    <2>3. CASE j # k
        <3>1. entries[k].owner # t
            BY <1>1, <2>1, <2>3 DEF OwnerIsOnline
        <3>2. QED
            BY <1>3, <1>4, <2>1, <2>3, <3>1 DEF IsTakeoverPending, TypeOK
    <2>4. QED
        BY <2>2, <2>3
<1>14. QED
    BY <1>6, <1>7, <1>8, <1>9, <1>10, <1>11, <1>12, <1>13

(* The session remembers its key; the table stays as it is.                *)
LEMMA StoreKeyInv ==
    ASSUME IInv, NEW s \in Sessions, StoreKey(s)
    PROVE  IInv'
<1> USE DEF IInv
<1>1. /\ sessionKey' = [sessionKey EXCEPT ![s] = KeyOf[s]]
      /\ phase' = [phase EXCEPT ![s] = "dialing"]
      /\ phase[s] = "reserved"
      /\ UNCHANGED <<entries, takeoverPending, connects, loggedIn, done, condemned>>
    BY DEF StoreKey
<1>2. /\ \A t \in Sessions, j \in Keys : Active(t, j)' <=> Active(t, j)
      /\ \A t \in Sessions : Dialing(t)' <=> Dialing(t)
    BY <1>1 DEF Active, Dialing, TypeOK
<1>3. TypeOK' /\ KeyIsHeld'
    BY <1>1 DEF TypeOK, Phases, KeyIsHeld
<1>4. ActiveIsOwner' /\ OwnerIsOnline' /\ FlaggedIsOnline'
    BY <1>1, <1>2 DEF ActiveIsOwner, OwnerIsOnline, FlaggedIsOnline
<1>5. PendingIsDialing' /\ LiveDialIsPending' /\ PendingIsSameTab'
    BY <1>1, <1>2 DEF PendingIsDialing, LiveDialIsPending, PendingIsSameTab
<1>6. FlagMatchesPending'
    BY <1>1, <1>2 DEF FlagMatchesPending, IsTakeoverPending
<1>7. QED
    BY <1>3, <1>4, <1>5, <1>6

(* Commit makes s the owner.  If s is still live its reservation stands,   *)
(* so nobody is left pending; whoever owned the key is condemned, s itself *)
(* included.                                                               *)
LEMMA CommitInv ==
    ASSUME IInv, NEW s \in Sessions, Commit(s)
    PROVE  IInv'
<1> USE DEF IInv
<1> DEFINE k == KeyOf[s]
           prev == entries[k].owner
           Live == ~done[s] /\ s \notin condemned /\ prev # s
<1>1. k \in Keys /\ phase[s] = "dialing"
    BY DEF Commit
<1>2. entries[k] \in Entry
    BY <1>1 DEF TypeOK
<1>3. /\ entries' = [entries EXCEPT ![k] =
            [owner |-> s,
             pending |-> IF entries[k].pending = s THEN NoSession ELSE entries[k].pending]]
      /\ condemned' = condemned \cup ({prev} \ {NoSession})
      /\ phase' = [phase EXCEPT ![s] = "idle"]
      /\ loggedIn' = [loggedIn EXCEPT ![s] = TRUE]
      /\ UNCHANGED <<takeoverPending, sessionKey, connects, done>>
    BY DEF Commit, Committed
<1>4. \A t \in Sessions, j \in Keys :
        Active(t, j)' => \/ t = s /\ j = k /\ Live
                         \/ t # s /\ j # k /\ Active(t, j)
    <2> SUFFICES ASSUME NEW t \in Sessions, NEW j \in Keys, Active(t, j)'
                 PROVE  \/ t = s /\ j = k /\ Live
                        \/ t # s /\ j # k /\ Active(t, j)
        OBVIOUS
    <2>1. CASE t = s
        BY <1>3, <2>1 DEF Active
    <2>2. CASE t # s
        <3>1. Active(t, j)
            BY <1>3, <2>2 DEF Active, TypeOK
        <3>2. entries[j].owner = t
            BY <3>1 DEF ActiveIsOwner
        <3>3. QED
            BY <1>3, <2>2, <3>1, <3>2 DEF Active
    <2>3. QED
        BY <2>1, <2>2
<1>5. Live => entries[k].pending = s /\ ~takeoverPending[s]
    <2> SUFFICES ASSUME Live PROVE entries[k].pending = s /\ ~takeoverPending[s]
        OBVIOUS
    <2>1. s \in {entries[k].pending, entries[k].owner}
        BY <1>1 DEF LiveDialIsPending, Dialing
    <2>2. ~loggedIn[s]
        BY <1>1 DEF ActiveIsOwner, Active
    <2>3. QED
        BY <2>1, <2>2 DEF FlaggedIsOnline
<1>6. TypeOK'
    BY <1>1, <1>2, <1>3 DEF TypeOK, Entry, MaybeSession, Phases
<1>7. ActiveIsOwner'
    BY <1>1, <1>3, <1>4 DEF ActiveIsOwner, TypeOK
<1>8. OwnerIsOnline' /\ KeyIsHeld'
    BY <1>1, <1>3 DEF OwnerIsOnline, KeyIsHeld, TypeOK
<1>9. PendingIsDialing'
    BY <1>1, <1>3 DEF PendingIsDialing, Dialing, TypeOK
<1>10. LiveDialIsPending'
    BY <1>1, <1>3 DEF LiveDialIsPending, Dialing, TypeOK
<1>11. PendingIsSameTab'
    <2> SUFFICES ASSUME NEW j \in Keys, NEW p \in Sessions, NEW t \in Sessions,
                        entries'[j].pending = p, Active(t, j)'
                 PROVE  SameClient(t, p)
        BY DEF PendingIsSameTab
    <2>1. CASE t = s /\ j = k /\ Live
        BY <1>1, <1>3, <1>5, <2>1 DEF TypeOK
    <2>2. CASE t # s /\ j # k /\ Active(t, j)
        BY <1>3, <2>2 DEF PendingIsSameTab, TypeOK
    <2>3. QED
        BY <1>4, <2>1, <2>2
<1>12. FlaggedIsOnline'
    BY <1>1, <1>3 DEF FlaggedIsOnline, TypeOK
<1>13. FlagMatchesPending'
    <2> SUFFICES ASSUME NEW j \in Keys, NEW t \in Sessions, Active(t, j)'
                 PROVE  takeoverPending'[t] <=> IsTakeoverPending(j, t)'
        BY DEF FlagMatchesPending
    <2>1. CASE t = s /\ j = k /\ Live
        BY <1>1, <1>3, <1>5, <2>1 DEF IsTakeoverPending, TypeOK
    <2>2. CASE t # s /\ j # k /\ Active(t, j)
        BY <1>3, <2>2 DEF FlagMatchesPending, IsTakeoverPending, TypeOK
    <2>3. QED
        BY <1>4, <2>1, <2>2
<1>14. QED
    BY <1>6, <1>7, <1>8, <1>9, <1>10, <1>11, <1>12, <1>13

(* Removing s's own reservation also takes back the flag it had set.       *)
LEMMA UnmarkInv ==
    ASSUME IInv, NEW s \in Sessions, NEW k \in Keys,
           entries' = [entries EXCEPT ![k] = [owner   |-> entries'[k].owner,
                                              pending |-> Released(entries[k], s).pending]],
           entries'[k].owner = entries[k].owner \/ entries[k].owner = s,
           takeoverPending' = UnmarkedBy(entries[k], s),
           \A t \in Sessions, j \in Keys :
              Active(t, j)' => Active(t, j) /\ (j = k => entries'[k].owner = t)
    PROVE  FlagMatchesPending' /\ PendingIsSameTab'
<1> USE DEF IInv
<1>1. entries[k] \in Entry
    BY DEF TypeOK
<1>2. entries'[k].pending = IF entries[k].pending = s THEN NoSession ELSE entries[k].pending
    BY <1>1 DEF Released, Entry, TypeOK
<1>3. PendingIsSameTab'
    BY <1>2 DEF PendingIsSameTab, TypeOK
<1>4. FlagMatchesPending'
    <2> SUFFICES ASSUME NEW j \in Keys, NEW t \in Sessions, Active(t, j)'
                 PROVE  takeoverPending'[t] <=> IsTakeoverPending(j, t)'
        BY DEF FlagMatchesPending
    <2>1. Active(t, j) /\ entries[j].owner = t
        BY DEF ActiveIsOwner
    <2>2. takeoverPending[t] <=> entries[j].pending # NoSession
        BY <2>1 DEF FlagMatchesPending, IsTakeoverPending
    <2>3. takeoverPending'[t] = (takeoverPending[t] /\ ~(entries[k].pending = s /\ t = entries[k].owner))
        BY DEF UnmarkedBy
    <2>4. CASE j = k
        BY <1>2, <2>1, <2>2, <2>3, <2>4 DEF IsTakeoverPending
    <2>5. CASE j # k
        <3>1. entries[k].owner # t
            BY <2>1, <2>5 DEF OwnerIsOnline
        <3>2. entries'[j] = entries[j]
            BY <2>5 DEF TypeOK
        <3>3. QED
            BY <2>1, <2>2, <2>3, <3>1, <3>2 DEF IsTakeoverPending
    <2>6. QED
        BY <2>4, <2>5
<1>5. QED
    BY <1>3, <1>4

(* A failed dial gives the reservation back and disturbs nobody else.      *)
LEMMA ReleaseInv ==
    ASSUME IInv, NEW s \in Sessions, Release(s)
    PROVE  IInv'
<1> USE DEF IInv
<1> DEFINE k == sessionKey[s]
<1>1. k \in Keys /\ k = KeyOf[s] /\ phase[s] = "dialing"
    BY DEF Release, KeyIsHeld
<1>2. entries[k] \in Entry
    BY <1>1 DEF TypeOK
<1>3. /\ entries' = [entries EXCEPT ![k] = [owner |-> entries[k].owner,
                                            pending |-> Released(entries[k], s).pending]]
      /\ Released(entries[k], s).pending =
            IF entries[k].pending = s THEN NoSession ELSE entries[k].pending
      /\ takeoverPending' = UnmarkedBy(entries[k], s)
      /\ sessionKey' = [sessionKey EXCEPT ![s] = NoKey]
      /\ phase' = [phase EXCEPT ![s] = "idle"]
      /\ UNCHANGED <<connects, loggedIn, done, condemned>>
    <2>1. Released(entries[k], s) = [owner |-> entries[k].owner,
                                     pending |-> Released(entries[k], s).pending]
        BY <1>2 DEF Released, Entry
    <2>2. Released(entries[k], s).pending =
            IF entries[k].pending = s THEN NoSession ELSE entries[k].pending
        BY <1>2, EntryOps
    <2>3. entries' = [entries EXCEPT ![k] = Released(entries[k], s)]
        BY DEF Release
    <2>4. QED
        BY <2>1, <2>2, <2>3 DEF Release
<1>4. \A t \in Sessions, j \in Keys : Active(t, j)' => Active(t, j)
    BY <1>3 DEF Active
<1>5. TypeOK'
    BY <1>1, <1>2, <1>3 DEF TypeOK, Entry, MaybeSession, Phases, UnmarkedBy
<1>6. ActiveIsOwner' /\ OwnerIsOnline' /\ KeyIsHeld'
    BY <1>1, <1>3, <1>4 DEF ActiveIsOwner, OwnerIsOnline, KeyIsHeld, TypeOK
<1>7. PendingIsDialing' /\ LiveDialIsPending'
    BY <1>1, <1>3 DEF PendingIsDialing, LiveDialIsPending, Dialing, TypeOK
<1>8. FlaggedIsOnline'
    BY <1>1, <1>3 DEF FlaggedIsOnline, UnmarkedBy, TypeOK
<1>9. entries'[k].owner = entries[k].owner
    BY <1>1, <1>3 DEF TypeOK
<1>10. FlagMatchesPending' /\ PendingIsSameTab'
    <2>1. entries' = [entries EXCEPT ![k] = [owner   |-> entries'[k].owner,
                                             pending |-> Released(entries[k], s).pending]]
        BY <1>3, <1>9
    <2>2. \A t \in Sessions, j \in Keys :
            Active(t, j)' => Active(t, j) /\ (j = k => entries'[k].owner = t)
        BY <1>4, <1>9 DEF ActiveIsOwner
    <2>3. QED
        BY <1>1, <1>3, <1>9, <2>1, <2>2, UnmarkInv
<1>11. QED
    BY <1>5, <1>6, <1>7, <1>8, <1>10

(* Cleanup removes s alone, as owner and as pending.                       *)
LEMMA CleanupInv ==
    ASSUME IInv, NEW s \in Sessions, Cleanup(s)
    PROVE  IInv'
<1> USE DEF IInv
<1> DEFINE k == sessionKey[s]
<1>1. done' = [done EXCEPT ![s] = TRUE] /\ UNCHANGED <<sessionKey, phase, connects, loggedIn, condemned>>
    BY DEF Cleanup
<1>2. \A t \in Sessions, j \in Keys : Active(t, j)' => Active(t, j) /\ t # s
    BY <1>1 DEF Active, TypeOK
<1>3. CASE k = NoKey
    <2>1. UNCHANGED <<entries, takeoverPending>>
        BY <1>3 DEF Cleanup
    <2>2. TypeOK' /\ OwnerIsOnline' /\ KeyIsHeld' /\ PendingIsDialing' /\ FlaggedIsOnline'
        BY <1>1, <2>1 DEF TypeOK, OwnerIsOnline, KeyIsHeld, PendingIsDialing, Dialing, FlaggedIsOnline
    <2>3. ActiveIsOwner' /\ PendingIsSameTab' /\ FlagMatchesPending'
        BY <1>2, <2>1 DEF ActiveIsOwner, PendingIsSameTab, FlagMatchesPending, IsTakeoverPending
    <2>4. LiveDialIsPending'
        BY <1>1, <2>1 DEF LiveDialIsPending, Dialing, TypeOK
    <2>5. QED
        BY <2>2, <2>3, <2>4
<1>4. CASE k # NoKey
    <2>1. k \in Keys /\ k = KeyOf[s] /\ entries[k] \in Entry
        BY <1>4 DEF TypeOK, KeyIsHeld
    <2>2. /\ entries' = [entries EXCEPT ![k] =
                [owner   |-> IF entries[k].owner = s THEN NoSession ELSE entries[k].owner,
                 pending |-> Released(entries[k], s).pending]]
          /\ takeoverPending' = UnmarkedBy(entries[k], s)
          /\ Released(entries[k], s).pending =
                IF entries[k].pending = s THEN NoSession ELSE entries[k].pending
        BY <1>4, <2>1 DEF Cleanup, Unregistered, Released, Entry
    <2>3. TypeOK'
        BY <1>1, <2>1, <2>2 DEF TypeOK, Entry, MaybeSession, UnmarkedBy
    <2>4. ActiveIsOwner' /\ OwnerIsOnline' /\ KeyIsHeld'
        BY <1>1, <1>2, <2>1, <2>2 DEF ActiveIsOwner, OwnerIsOnline, KeyIsHeld, TypeOK
    <2>5. PendingIsDialing'
        BY <1>1, <2>1, <2>2 DEF PendingIsDialing, Dialing, TypeOK
    <2>6. LiveDialIsPending'
        BY <1>1, <2>1, <2>2 DEF LiveDialIsPending, Dialing, TypeOK
    <2>7. FlaggedIsOnline'
        BY <1>1, <2>2 DEF FlaggedIsOnline, UnmarkedBy, TypeOK
    <2>8. /\ entries'[k].owner = entries[k].owner \/ entries[k].owner = s
          /\ entries' = [entries EXCEPT ![k] = [owner   |-> entries'[k].owner,
                                                pending |-> Released(entries[k], s).pending]]
        BY <2>1, <2>2 DEF TypeOK
    <2>9. \A t \in Sessions, j \in Keys :
            Active(t, j)' => Active(t, j) /\ (j = k => entries'[k].owner = t)
        BY <1>2, <2>4 DEF ActiveIsOwner
    <2>10. FlagMatchesPending' /\ PendingIsSameTab'
        BY <2>1, <2>2, <2>8, <2>9, UnmarkInv
    <2>11. QED
        BY <2>3, <2>4, <2>5, <2>6, <2>7, <2>10
<1>5. QED
    BY <1>3, <1>4

(* Every step, stuttering included, preserves the inductive invariant.     *)
LEMMA NextInv == IInv /\ [Next]_vars => IInv'
<1> SUFFICES ASSUME IInv, [Next]_vars PROVE IInv'
    OBVIOUS
<1>1. ASSUME NEW s \in Sessions, Reserve(s) PROVE IInv'
    BY <1>1, ReserveInv
<1>2. ASSUME NEW s \in Sessions, StoreKey(s) PROVE IInv'
    BY <1>2, StoreKeyInv
<1>3. ASSUME NEW s \in Sessions, Commit(s) PROVE IInv'
    BY <1>3, CommitInv
<1>4. ASSUME NEW s \in Sessions, Release(s) PROVE IInv'
    BY <1>4, ReleaseInv
<1>5. ASSUME NEW s \in Sessions, Cleanup(s) PROVE IInv'
    BY <1>5, CleanupInv
<1>6. CASE UNCHANGED vars
    BY <1>6 DEF vars, IInv, TypeOK, ActiveIsOwner, OwnerIsOnline, KeyIsHeld,
        PendingIsDialing, LiveDialIsPending, PendingIsSameTab,
        FlaggedIsOnline, FlagMatchesPending, Active, Dialing, IsTakeoverPending
<1>7. QED
    BY <1>1, <1>2, <1>3, <1>4, <1>5, <1>6 DEF Next

(* The inductive invariant holds of every behaviour.                       *)
THEOREM Invariance == Spec => []IInv
BY InitInv, NextInv, PTL DEF Spec

----------------------------------------------------------------------------

(* The table and the sessions' fields have their types, and no entry names *)
(* one session twice (registry.go, registryEntry).                         *)
THEOREM TypeCorrect == Spec => []TypeOK
<1>1. IInv => TypeOK
    BY DEF IInv
<1>2. QED
    BY <1>1, Invariance, PTL

(* At most one active session per nickname, whatever the interleaving of   *)
(* dials, takeovers and cleanups (registry.go's opening promise).          *)
THEOREM OneActiveSession == Spec => []OneActive
<1>1. IInv => OneActive
    BY DEF IInv, ActiveIsOwner, OneActive
<1>2. QED
    BY <1>1, Invariance, PTL

(* A nickname is reserved only for a session that is dialling with it      *)
(* (Reserve and every way a dial can end).                                 *)
THEOREM ReservationHasDial == Spec => []PendingIsDialing
<1>1. IInv => PendingIsDialing
    BY DEF IInv
<1>2. QED
    BY <1>1, Invariance, PTL

(* Session.takeoverPending and TakeoverPending() agree on every active     *)
(* session.                                                                *)
THEOREM FlagIsAccurate == Spec => []FlagMatchesPending
<1>1. IInv => FlagMatchesPending
    BY DEF IInv
<1>2. QED
    BY <1>1, Invariance, PTL

(* No step hands an active session's nickname to another tab, except a     *)
(* Commit by a session that has itself ended or been sent to its end.      *)
THEOREM TakeoverSafe == Spec => TakeoverOnlyBySameTab
<1>1. IInv /\ [Next]_vars => TakeoverStaysInTab
    <2> SUFFICES ASSUME IInv, [Next]_vars,
                        NEW k \in Keys, NEW s \in Sessions, NEW t \in Sessions,
                        DisplacedBy(k, s, t)
                 PROVE  done[s] \/ s \in condemned
                            \/ (ClientOf[s] = ClientOf[t] /\ ClientOf[s] # NoClient)
        BY DEF TakeoverStaysInTab
    <2> USE DEF IInv
    <2>1. /\ entries[k].owner = t /\ entries'[k].owner = s /\ s # t
          /\ Active(t, k) /\ entries[k] \in Entry
        BY DEF DisplacedBy, ActiveIsOwner, TypeOK
    <2>2. ASSUME NEW u \in Sessions, Reserve(u) PROVE FALSE
        <3>1. KeyOf[u] \in Keys /\ entries[KeyOf[u]] \in Entry
            BY DEF TypeOK
        <3>2. Reserved(entries[KeyOf[u]], u).owner = entries[KeyOf[u]].owner
            BY <3>1 DEF Reserved, Entry
        <3>3. QED
            BY <2>1, <2>2, <3>2 DEF Reserve, TypeOK
    <2>3. ASSUME NEW u \in Sessions, Commit(u)
          PROVE  done[s] \/ s \in condemned
                     \/ (ClientOf[s] = ClientOf[t] /\ ClientOf[s] # NoClient)
        <3>1. u = s /\ KeyOf[u] = k /\ phase[u] = "dialing"
            BY <2>1, <2>3 DEF Commit, Committed, TypeOK
        <3>2. ~done[s] /\ s \notin condemned => entries[k].pending = s
            BY <2>1, <3>1 DEF LiveDialIsPending, Dialing
        <3>3. ~done[s] /\ s \notin condemned => SameClient(t, s)
            BY <2>1, <3>2 DEF PendingIsSameTab
        <3>4. QED
            BY <3>3 DEF SameClient
    <2>4. ASSUME NEW u \in Sessions, Release(u) PROVE FALSE
        BY <2>1, <2>4 DEF Release, Released, TypeOK, Entry
    <2>5. ASSUME NEW u \in Sessions, Cleanup(u) PROVE FALSE
        <3>1. CASE sessionKey[u] = NoKey
            BY <2>1, <2>5, <3>1 DEF Cleanup
        <3>2. CASE sessionKey[u] # NoKey
            BY <2>1, <2>5, <3>2 DEF Cleanup, Unregistered, TypeOK, Entry
        <3>3. QED
            BY <3>1, <3>2
    <2>6. QED
        BY <2>1, <2>2, <2>3, <2>4, <2>5 DEF Next, vars, StoreKey
<1>2. QED
    BY <1>1, Invariance, PTL DEF Spec, TakeoverOnlyBySameTab
=============================================================================
