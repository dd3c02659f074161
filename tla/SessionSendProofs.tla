-------------------------- MODULE SessionSendProofs --------------------------
(***************************************************************************)
(* What the browser was sent explains how its WebSocket was closed, and    *)
(* what the queue swallowed of the snapshot is in the log: proofs for any  *)
(* capacity of the queue and any size of the snapshot, of the invariants   *)
(* of SessionSend that TLC checks with three places and three envelopes.   *)
(***************************************************************************)
EXTENDS SessionSend, FiniteSetTheorems, TLAPS

USE SendAssumption

(* Everything the session has said: what the pump wrote, then what waits.  *)
(* A write leaves it as it is, and a push can only make it longer.         *)
Said == wire \o queue

(* How often the snapshot is in a sequence.                                *)
Count(s) == Cardinality({i \in DOMAIN s : s[i] = "snapshot"})

(* A code of C was said, or its loss is in the log.                        *)
Told(C) == (ToSet(Said) \cup logged) \cap C # {}

(* How many channels and users OnConnect has pushed.                       *)
SnapshotsPushed ==
    IF pushed = 0 THEN 0
    ELSE IF pushed > SnapshotSize THEN SnapshotSize
    ELSE pushed - 1

(* Only the goroutines that end a session and those that lost its browser  *)
(* close done, and the first two not before the snapshot.                  *)
DoneHasReason ==
    /\ pump = "draining" => done
    /\ done /\ ws = "open" => loss = "over" \/ ender = "over"
    /\ loss # "none" \/ ender # "none" => Synced

(* closeCode is the code of the loss once that is stored, whatever endWith *)
(* stored before; until then it is endWith's.                              *)
CodeOfTheEnd ==
    closeCode = IF loss \in {"stored", "over"} THEN CloseCodeOf(lossCode)
                ELSE IF ender = "none" THEN 0 ELSE 4001

(* The reason of an end is said before the code of its close is stored, or *)
(* the other end has said one already.                                     *)
EndIsTold ==
    ws = "open" =>
        /\ loss # "none" => Told(Codes)
        /\ loss # "none" /\ lossCode \in FinalCodes => Told(FinalCodes)
        /\ loss \in {"none", "pushed"} /\ ender \in {"pushed", "over"} => Told(FinalCodes)

(* The snapshot is said in full but for what was logged, and before synced. *)
SnapshotInOrder ==
    ws = "open" =>
        /\ \A i, j \in DOMAIN Said : Said[i] = "synced" /\ i < j => Said[j] # "snapshot"
        /\ "synced" \in ToSet(Said) => Synced
        /\ "snapshot" \in logged \/ Count(Said) = SnapshotsPushed

(* The inductive invariant.                                                *)
IInv ==
    /\ TypeOK
    /\ DoneHasReason /\ CodeOfTheEnd /\ EndIsTold
    /\ CloseFrameExplained
    /\ SnapshotInOrder

----------------------------------------------------------------------------
(* Sequences.                                                              *)

(* What is queued last is said last.                                       *)
LEMMA AppendedLast ==
    ASSUME NEW S, NEW w \in Seq(S), NEW q \in Seq(S), NEW e \in S
    PROVE  w \o Append(q, e) = Append(w \o q, e)
OBVIOUS

(* The head of the queue goes to the wire: nothing changes place.          *)
LEMMA WrittenInOrder ==
    ASSUME NEW S, NEW w \in Seq(S), NEW q \in Seq(S), q # <<>>
    PROVE  /\ Append(w, Head(q)) \in Seq(S) /\ Tail(q) \in Seq(S)
           /\ Len(Tail(q)) <= Len(q)
           /\ Append(w, Head(q)) \o Tail(q) = w \o q
<1>1. Head(q) \in S /\ Tail(q) \in Seq(S) /\ Len(Tail(q)) = Len(q) - 1
  OBVIOUS
<1>2. Append(w, Head(q)) \in Seq(S) /\ Len(Append(w, Head(q))) = Len(w) + 1
  BY <1>1
<1>3. Len(Append(w, Head(q)) \o Tail(q)) = Len(w \o q)
  BY <1>1, <1>2
<1>4. \A i \in 1 .. Len(w \o q) : (Append(w, Head(q)) \o Tail(q))[i] = (w \o q)[i]
  BY <1>1, <1>2
<1>5. QED
  BY <1>1, <1>2, <1>3, <1>4

(* One more element, one more member.                                      *)
LEMMA MembersOfAppend ==
    ASSUME NEW S, NEW s \in Seq(S), NEW e \in S
    PROVE  ToSet(Append(s, e)) = ToSet(s) \cup {e}
BY DEF ToSet

(* Only a snapshot counts as one.                                          *)
LEMMA CountOfAppend ==
    ASSUME NEW S, NEW s \in Seq(S), NEW e \in S
    PROVE  Count(s) \in Nat
           /\ Count(Append(s, e)) = IF e = "snapshot" THEN Count(s) + 1 ELSE Count(s)
<1> DEFINE at == {i \in DOMAIN s : s[i] = "snapshot"}
           last == Len(s) + 1
<1>1. IsFiniteSet(at) /\ Cardinality(at) \in Nat
  <2>1. at \subseteq 1 .. Len(s)
    OBVIOUS
  <2>2. QED
    <3>1. IsFiniteSet(1 .. Len(s))
      BY FS_Interval
    <3>2. IsFiniteSet(at)
      BY <2>1, <3>1, FS_Subset
    <3>3. QED
      BY <3>2, FS_CardinalityType
<1>2. last \notin at
  OBVIOUS
<1>3. {i \in DOMAIN Append(s, e) : Append(s, e)[i] = "snapshot"}
        = IF e = "snapshot" THEN at \cup {last} ELSE at
  OBVIOUS
<1>4. Cardinality(at \cup {last}) = Cardinality(at) + 1
  BY <1>1, <1>2, FS_AddElement
<1>5. QED
  BY <1>1, <1>3, <1>4 DEF Count

----------------------------------------------------------------------------
(* What a step does to what has been said.                                 *)

(* A push keeps the queue within its capacity.                             *)
LEMMA PushTypes ==
    ASSUME TypeOK, NEW e \in Envelopes, Push(e)
    PROVE  /\ queue' \in Seq(Envelopes) /\ Len(queue') <= Capacity
           /\ logged' \in SUBSET Envelopes
<1>1. queue \in Seq(Envelopes) /\ Len(queue) <= Capacity /\ logged \in SUBSET Envelopes
  BY DEF TypeOK
<1>2. CASE Len(queue) < Capacity /\ queue' = Append(queue, e) /\ UNCHANGED logged
  <2>1. Append(queue, e) \in Seq(Envelopes) /\ Len(Append(queue, e)) = Len(queue) + 1
    BY <1>1
  <2>2. Len(queue) \in Nat
    BY <1>1
  <2>3. QED
    BY <1>1, <1>2, <2>1, <2>2
<1>3. CASE UNCHANGED queueVars
  BY <1>1, <1>3 DEF queueVars
<1>4. CASE logged' = logged \cup {e} /\ UNCHANGED queue
  BY <1>1, <1>4
<1>5. QED
  BY <1>2, <1>3, <1>4 DEF Push

(* push says the envelope last, or logs its loss, or finds done closed.    *)
LEMMA PushSays ==
    ASSUME TypeOK, NEW e \in Envelopes, Push(e), wire' = wire
    PROVE  \/ Said' = Append(Said, e) /\ logged' = logged
           \/ Said' = Said /\ logged' = logged \cup {e}
           \/ Said' = Said /\ logged' = logged /\ done
<1>1. wire \in Seq(Envelopes) /\ queue \in Seq(Envelopes)
  BY DEF TypeOK
<1>2. wire \o Append(queue, e) = Append(wire \o queue, e)
  BY <1>1, AppendedLast
<1>3. QED
  BY <1>2 DEF Push, Said, queueVars

(* What is pushed is said or logged, and nothing that was is lost.         *)
LEMMA PushTells ==
    ASSUME TypeOK, NEW e \in Envelopes, Push(e), wire' = wire
    PROVE  /\ \A C : Told(C) => Told(C)'
           /\ \A C : ~done /\ e \in C => Told(C)'
<1>1. Said \in Seq(Envelopes)
  BY DEF TypeOK, Said
<1>2. ToSet(Append(Said, e)) = ToSet(Said) \cup {e}
  BY <1>1, MembersOfAppend
<1>3. ToSet(Said) \cup logged \subseteq (ToSet(Said) \cup logged)'
  BY <1>2, PushSays
<1>4. ~done => e \in (ToSet(Said) \cup logged)'
  BY <1>2, PushSays
<1>5. QED
  BY <1>3, <1>4 DEF Told

(* Every other step of a session whose browser is there keeps it.          *)
LEMMA NothingSaid ==
    ASSUME TypeOK, ws' = "open",
           \/ UNCHANGED <<queueVars, wire>>
           \/ WritePump
    PROVE  Said' = Said /\ logged' = logged
<1>1. CASE UNCHANGED <<queueVars, wire>>
  BY <1>1 DEF Said, queueVars
<1>2. CASE Write
  <2>1. wire \in Seq(Envelopes) /\ queue \in Seq(Envelopes) /\ queue # <<>>
    BY <1>2 DEF TypeOK, Write
  <2>2. Append(wire, Head(queue)) \o Tail(queue) = wire \o queue
    BY <2>1, WrittenInOrder
  <2>3. QED
    BY <1>2, <2>2 DEF Write, Said
<1>3. CASE WriteFail
  BY <1>3 DEF WriteFail
<1>4. CASE SeeDone \/ CloseFrame
  BY <1>4 DEF SeeDone, CloseFrame, Said, queueVars
<1>5. QED
  BY <1>1, <1>2, <1>3, <1>4 DEF WritePump

----------------------------------------------------------------------------
(* Types.                                                                  *)

(* The invariant holds at first;                                           *)
LEMMA InitInv == Init => IInv
<1> SUFFICES ASSUME Init PROVE IInv
  OBVIOUS
<1> USE DEF Init
<1>1. TypeOK
  <2>1. queue \in Seq(Envelopes) /\ wire \in Seq(Envelopes) /\ Len(queue) <= Capacity
    OBVIOUS
  <2>2. pushed \in 0 .. SnapshotSize + 2
    OBVIOUS
  <2>3. QED
    BY <2>1, <2>2 DEF TypeOK, Codes
<1>2. DoneHasReason /\ CodeOfTheEnd /\ EndIsTold /\ CloseFrameExplained
  BY DEF DoneHasReason, CodeOfTheEnd, EndIsTold, CloseFrameExplained
<1>3. Said = <<>>
  BY DEF Said
<1>4. Count(Said) = 0
  <2>1. {i \in DOMAIN Said : Said[i] = "snapshot"} = {}
    BY <1>3
  <2>2. QED
    BY <2>1, FS_EmptySet DEF Count
<1>5. SnapshotInOrder
  BY <1>3, <1>4 DEF SnapshotInOrder, SnapshotsPushed, ToSet
<1>6. QED
  BY <1>1, <1>2, <1>5 DEF IInv

(* every step keeps the types,                                             *)
LEMMA TypeStep == TypeOK /\ [Next]_vars => TypeOK'
<1> SUFFICES ASSUME TypeOK, [Next]_vars PROVE TypeOK'
  OBVIOUS
<1>1. CASE OnConnect
  <2>1. SnapshotEnvelope(pushed) \in Envelopes
    BY DEF SnapshotEnvelope, Envelopes
  <2>2. queue' \in Seq(Envelopes) /\ Len(queue') <= Capacity /\ logged' \in SUBSET Envelopes
    BY <1>1, <2>1, PushTypes DEF OnConnect
  <2>3. pushed' \in 0 .. SnapshotSize + 2
    BY <1>1 DEF OnConnect, Synced, TypeOK
  <2>4. QED
    BY <1>1, <2>2, <2>3 DEF OnConnect, TypeOK, pumpVars, endVars
<1>2. CASE LossPush
  <2>1. PICK code \in Codes : Push(code) /\ lossCode' = code
    BY <1>2 DEF LossPush
  <2>2. queue' \in Seq(Envelopes) /\ Len(queue') <= Capacity /\ logged' \in SUBSET Envelopes
    BY <2>1, PushTypes DEF Envelopes
  <2>3. QED
    BY <1>2, <2>1, <2>2 DEF LossPush, TypeOK, pumpVars
<1>3. CASE EndPush
  <2>1. queue' \in Seq(Envelopes) /\ Len(queue') <= Capacity /\ logged' \in SUBSET Envelopes
    BY <1>3, PushTypes DEF EndPush, Envelopes, Codes, FinalCodes
  <2>2. QED
    BY <1>3, <2>1 DEF EndPush, TypeOK, pumpVars
<1>4. CASE Write
  <2>1. wire' \in Seq(Envelopes) /\ queue' \in Seq(Envelopes) /\ Len(queue') <= Capacity
    <3>1. queue \in Seq(Envelopes) /\ wire \in Seq(Envelopes) /\ Len(queue) <= Capacity
      BY DEF TypeOK
    <3>2. wire' \in Seq(Envelopes) /\ queue' \in Seq(Envelopes) /\ Len(queue') <= Len(queue)
      BY <1>4, <3>1, WrittenInOrder DEF Write
    <3>3. QED
      BY <3>1, <3>2
  <2>2. QED
    BY <1>4, <2>1 DEF Write, TypeOK, endVars
<1>5. CASE WriteFail
  <2>1. queue \in Seq(Envelopes) /\ Len(queue) <= Capacity
    BY DEF TypeOK
  <2>2. queue' \in Seq(Envelopes) /\ Len(queue') <= Capacity
    BY <1>5, <2>1 DEF WriteFail
  <2>3. done' \in BOOLEAN
    <3>1. CASE pump = "select"
      BY <1>5, <3>1 DEF WriteFail, Cleanup
    <3>2. CASE pump # "select"
      BY <1>5, <3>2 DEF WriteFail, TypeOK
    <3>3. QED
      BY <3>1, <3>2
  <2>4. QED
    BY <1>5, <2>2, <2>3 DEF WriteFail, TypeOK, endVars
<1>6. CASE SeeDone \/ CloseFrame
  BY <1>6 DEF SeeDone, CloseFrame, TypeOK, queueVars, endVars
<1>7. CASE LossRequestClose \/ EndClaim
  BY <1>7 DEF LossRequestClose, CloseCodeOf, EndClaim, TypeOK, queueVars, pumpVars
<1>8. CASE LossCleanup \/ EndCleanup \/ UserDisconnect \/ ReadFail
  <2>1. done' = TRUE /\ ws' \in {"open", "left", "gone"} /\ UNCHANGED <<queueVars, pumpVars, pushed>>
        /\ UNCHANGED <<closeCode, lossCode>>
        /\ loss' \in {"none", "pushed", "stored", "over"}
        /\ ender' \in {"none", "claimed", "pushed", "over"}
    BY <1>8 DEF LossCleanup, EndCleanup, UserDisconnect, ReadFail, Cleanup, TypeOK, endVars
  <2>2. QED
    BY <2>1 DEF TypeOK, queueVars, pumpVars
<1>9. CASE BrowserGone
  BY <1>9 DEF BrowserGone, TypeOK, queueVars, pumpVars, endVars
<1>10. CASE UNCHANGED vars
  BY <1>10 DEF vars, queueVars, pumpVars, endVars, TypeOK
<1>11. QED
  BY <1>1, <1>2, <1>3, <1>4, <1>5, <1>6, <1>7, <1>8, <1>9, <1>10
  DEF Next, ReadGoroutine, EndWith, WritePump

----------------------------------------------------------------------------
(* The end of a session.                                                   *)

(* the reason for which the session is done,                               *)
LEMMA DoneStep == TypeOK /\ DoneHasReason /\ [Next]_vars => DoneHasReason'
<1> SUFFICES ASSUME TypeOK, DoneHasReason, [Next]_vars PROVE DoneHasReason'
  OBVIOUS
<1> USE DEF DoneHasReason, Synced
<1>1. CASE OnConnect
  BY <1>1 DEF OnConnect, pumpVars, endVars
<1>2. CASE LossPush
  BY <1>2 DEF LossPush, pumpVars
<1>3. CASE LossRequestClose
  BY <1>3 DEF LossRequestClose, pumpVars
<1>4. CASE LossCleanup
  BY <1>4 DEF LossCleanup, Cleanup, pumpVars
<1>5. CASE EndClaim
  BY <1>5 DEF EndClaim, pumpVars
<1>6. CASE EndPush
  BY <1>6 DEF EndPush, pumpVars
<1>7. CASE EndCleanup
  BY <1>7 DEF EndCleanup, Cleanup, pumpVars
<1>8. CASE BrowserGone \/ UserDisconnect \/ ReadFail
  BY <1>8 DEF BrowserGone, UserDisconnect, ReadFail, Cleanup, pumpVars, endVars
<1>9. CASE Write \/ SeeDone \/ CloseFrame
  BY <1>9 DEF Write, SeeDone, CloseFrame, endVars
<1>10. CASE WriteFail
  BY <1>10 DEF WriteFail, endVars
<1>11. CASE UNCHANGED vars
  BY <1>11 DEF vars, pumpVars, endVars
<1>12. QED
  BY <1>1, <1>2, <1>3, <1>4, <1>5, <1>6, <1>7, <1>8, <1>9, <1>10, <1>11
  DEF Next, ReadGoroutine, EndWith, WritePump

(* and the code of its close;                                              *)
LEMMA CodeStep == TypeOK /\ CodeOfTheEnd /\ [Next]_vars => CodeOfTheEnd'
<1> SUFFICES ASSUME TypeOK, CodeOfTheEnd, [Next]_vars PROVE CodeOfTheEnd'
  OBVIOUS
<1> USE DEF CodeOfTheEnd
<1>1. CASE LossPush
  BY <1>1 DEF LossPush
<1>2. CASE LossRequestClose
  BY <1>2 DEF LossRequestClose
<1>3. CASE LossCleanup
  BY <1>3 DEF LossCleanup
<1>4. CASE EndClaim
  BY <1>4 DEF EndClaim, CloseCodeOf
<1>5. CASE EndPush \/ EndCleanup
  BY <1>5 DEF EndPush, EndCleanup
<1>6. CASE UNCHANGED endVars
  BY <1>6 DEF endVars
<1>7. UNCHANGED endVars \/ LossPush \/ LossRequestClose \/ LossCleanup \/ EndClaim \/ EndWith
  BY DEF Next, ReadGoroutine, WritePump, OnConnect, BrowserGone, UserDisconnect, ReadFail,
         Write, WriteFail, SeeDone, CloseFrame, vars
<1>8. QED
  BY <1>1, <1>2, <1>3, <1>4, <1>5, <1>6, <1>7 DEF EndWith

(* As long as the browser is there, what it was told stays told.           *)
LEMMA ToldStays ==
    ASSUME TypeOK, [Next]_vars, ws' = "open"
    PROVE  \A C : Told(C) => Told(C)'
<1>1. CASE \E e \in Envelopes : Push(e) /\ wire' = wire
  BY <1>1, PushTells
<1>2. CASE UNCHANGED <<queueVars, wire>> \/ WritePump
  BY <1>2, NothingSaid DEF Told
<1>3. CASE OnConnect \/ LossPush \/ EndPush
  <2>1. \A i : SnapshotEnvelope(i) \in Envelopes
    BY DEF SnapshotEnvelope, Envelopes
  <2>2. \E e \in Envelopes : Push(e) /\ wire' = wire
    BY <1>3, <2>1 DEF OnConnect, LossPush, EndPush, pumpVars, Envelopes, Codes, FinalCodes
  <2>3. QED
    BY <1>1, <2>2
<1>4. QED
  BY <1>2, <1>3 DEF Next, ReadGoroutine, EndWith, LossRequestClose, LossCleanup, EndClaim,
    EndCleanup, BrowserGone, UserDisconnect, ReadFail, vars, pumpVars

(* A reason is pushed while done is open, but by the second of two ends.   *)
LEMMA ToldStep ==
    TypeOK /\ DoneHasReason /\ CodeOfTheEnd /\ EndIsTold /\ [Next]_vars => EndIsTold'
<1> SUFFICES ASSUME TypeOK, DoneHasReason, CodeOfTheEnd, EndIsTold, [Next]_vars, ws' = "open"
             PROVE  EndIsTold'
  BY DEF EndIsTold
<1>1. ws = "open"
  BY DEF Next, ReadGoroutine, EndWith, WritePump, OnConnect, LossPush, LossRequestClose,
    LossCleanup, EndClaim, EndPush, EndCleanup, BrowserGone, UserDisconnect, ReadFail,
    Write, WriteFail, SeeDone, CloseFrame, vars
<1>2. \A C : Told(C) => Told(C)'
  BY ToldStays
<1>3. Told(FinalCodes) => Told(Codes)
  BY DEF Told, Codes
<1>4. CASE LossPush
  <2>1. PICK code \in Codes : Push(code) /\ lossCode' = code
    BY <1>4 DEF LossPush
  <2>2. loss = "none" /\ loss' = "pushed" /\ ender' = ender /\ wire' = wire
    BY <1>4 DEF LossPush, pumpVars
  <2>3. code \in Envelopes
    BY DEF Envelopes
  <2>4. CASE done
    <3>1. ender = "over"
      BY <1>1, <2>2, <2>4 DEF DoneHasReason
    <3>2. Told(FinalCodes)' /\ Told(Codes)'
      BY <1>1, <1>2, <1>3, <2>2, <3>1 DEF EndIsTold
    <3>3. QED
      BY <3>2 DEF EndIsTold
  <2>5. CASE ~done
    <3>1. \A C : code \in C => Told(C)'
      BY <2>1, <2>2, <2>3, <2>5, PushTells
    <3>2. Told(Codes)' /\ (code \in FinalCodes => Told(FinalCodes)')
      BY <3>1
    <3>3. ender' \in {"pushed", "over"} => Told(FinalCodes)'
      BY <1>1, <1>2, <2>2 DEF EndIsTold
    <3>4. QED
      BY <2>1, <3>2, <3>3 DEF EndIsTold
  <2>6. QED
    BY <2>4, <2>5
<1>5. CASE EndPush
  <2>1. Push("session_takeover") /\ ender = "claimed" /\ ender' = "pushed" /\ loss' = loss
        /\ lossCode' = lossCode /\ wire' = wire
    BY <1>5 DEF EndPush, pumpVars
  <2>2. loss \in {"none", "pushed"} => ~done
    BY <1>1, <2>1 DEF DoneHasReason
  <2>3. loss \in {"none", "pushed"} => Told(FinalCodes)'
    BY <2>1, <2>2, PushTells DEF Envelopes, Codes, FinalCodes
  <2>4. QED
    BY <1>1, <1>2, <2>1, <2>3 DEF EndIsTold
<1>6. CASE EndClaim
  <2>1. loss' = loss /\ lossCode' = lossCode /\ ender = "none"
        /\ ender' = (IF closeCode = 0 THEN "claimed" ELSE "pushed")
    BY <1>6 DEF EndClaim
  <2>2. loss \in {"none", "pushed"} => ender' = "claimed"
    BY <2>1 DEF CodeOfTheEnd
  <2>3. QED
    BY <1>1, <1>2, <2>1, <2>2 DEF EndIsTold
<1>7. CASE LossRequestClose \/ LossCleanup \/ EndCleanup
  <2>1. /\ loss' \in {"none", "pushed"} => loss' = loss
        /\ loss' # "none" => loss # "none"
        /\ ender' \in {"pushed", "over"} => ender \in {"pushed", "over"}
        /\ lossCode' = lossCode
    BY <1>7 DEF LossRequestClose, LossCleanup, EndCleanup
  <2>2. QED
    BY <1>1, <1>2, <2>1 DEF EndIsTold
<1>8. CASE UNCHANGED endVars
  BY <1>1, <1>2, <1>8 DEF endVars, EndIsTold
<1>9. UNCHANGED endVars \/ LossPush \/ LossRequestClose \/ LossCleanup \/ EndClaim \/ EndWith
  BY DEF Next, ReadGoroutine, WritePump, OnConnect, BrowserGone, UserDisconnect, ReadFail,
         Write, WriteFail, SeeDone, CloseFrame, vars
<1>10. QED
  BY <1>4, <1>5, <1>6, <1>7, <1>8, <1>9 DEF EndWith

(* The frame carries the code that is stored once the queue is drained, so *)
(* its reason is on the wire, or its loss in the log.                      *)
LEMMA CloseStep ==
    TypeOK /\ DoneHasReason /\ CodeOfTheEnd /\ EndIsTold /\ CloseFrameExplained /\ [Next]_vars
      => CloseFrameExplained'
<1> SUFFICES ASSUME TypeOK, DoneHasReason, CodeOfTheEnd, EndIsTold, CloseFrameExplained,
                    [Next]_vars, ws' = "open"
             PROVE  CloseFrameExplained'
  BY DEF CloseFrameExplained
<1>1. ws = "open"
  BY DEF Next, ReadGoroutine, EndWith, WritePump, OnConnect, LossPush, LossRequestClose,
    LossCleanup, EndClaim, EndPush, EndCleanup, BrowserGone, UserDisconnect, ReadFail,
    Write, WriteFail, SeeDone, CloseFrame, vars
<1>2. CASE CloseFrame
  <2>1. done /\ frame' = closeCode /\ queue = <<>> /\ UNCHANGED <<wire, logged>>
    BY <1>2 DEF CloseFrame, DoneHasReason, queueVars
  <2>2. loss = "over" \/ ender = "over"
    BY <1>1, <2>1 DEF DoneHasReason
  <2>3. closeCode = 4001 => Told(FinalCodes)
    BY <1>1, <2>2 DEF CodeOfTheEnd, EndIsTold, CloseCodeOf, TypeOK
  <2>4. closeCode = 1011 => Told(Codes)
    BY <1>1, <2>2 DEF CodeOfTheEnd, EndIsTold, CloseCodeOf, TypeOK
  <2>5. Said = wire
    BY <2>1 DEF Said, TypeOK
  <2>6. QED
    BY <2>1, <2>3, <2>4, <2>5 DEF CloseFrameExplained, Told, Seen
<1>3. CASE frame' = frame
  <2>1. Seen \subseteq Seen'
    <3>1. CASE Write
      <4>1. wire \in Seq(Envelopes) /\ Head(queue) \in Envelopes
        BY <3>1 DEF Write, TypeOK
      <4>2. QED
        BY <3>1, <4>1, MembersOfAppend DEF Write, Seen
    <3>2. CASE wire' = wire
      BY <3>2 DEF Seen
    <3>3. QED
      BY <3>1, <3>2 DEF Next, ReadGoroutine, EndWith, WritePump, OnConnect, LossPush,
        LossRequestClose, LossCleanup, EndClaim, EndPush, EndCleanup, BrowserGone,
        UserDisconnect, ReadFail, WriteFail, SeeDone, CloseFrame, vars, pumpVars
  <2>2. logged \subseteq logged'
    BY DEF Next, ReadGoroutine, EndWith, WritePump, OnConnect, LossPush,
      LossRequestClose, LossCleanup, EndClaim, EndPush, EndCleanup, BrowserGone,
      UserDisconnect, ReadFail, Write, WriteFail, SeeDone, CloseFrame, vars, queueVars, Push
  <2>3. QED
    BY <1>1, <1>3, <2>1, <2>2 DEF CloseFrameExplained
<1>4. CloseFrame \/ frame' = frame
  BY DEF Next, ReadGoroutine, EndWith, WritePump, OnConnect, LossPush, LossRequestClose,
    LossCleanup, EndClaim, EndPush, EndCleanup, BrowserGone, UserDisconnect, ReadFail,
    Write, WriteFail, SeeDone, vars, pumpVars
<1>5. QED
  BY <1>2, <1>3, <1>4

----------------------------------------------------------------------------
(* The snapshot.                                                           *)

(* An envelope said last keeps the order: a channel or a user only while   *)
(* synced has not been said.                                               *)
LEMMA LastKeepsOrder ==
    ASSUME NEW S, NEW s \in Seq(S), NEW e \in S,
           \A i, j \in DOMAIN s : s[i] = "synced" /\ i < j => s[j] # "snapshot",
           e = "snapshot" => "synced" \notin ToSet(s)
    PROVE  \A i, j \in DOMAIN Append(s, e) :
             Append(s, e)[i] = "synced" /\ i < j => Append(s, e)[j] # "snapshot"
<1> TAKE i, j \in DOMAIN Append(s, e)
<1> HAVE Append(s, e)[i] = "synced" /\ i < j
<1>1. i \in DOMAIN s /\ s[i] = "synced"
  OBVIOUS
<1>2. CASE j \in DOMAIN s
  BY <1>1, <1>2
<1>3. CASE j \notin DOMAIN s
  <2>1. Append(s, e)[j] = e
    BY <1>3
  <2>2. e # "snapshot"
    BY <1>1 DEF ToSet
  <2>3. QED
    BY <2>1, <2>2
<1>4. QED
  BY <1>2, <1>3

(* OnConnect runs before the session can end, so what it pushes and cannot *)
(* say is logged.                                                          *)
LEMMA SnapshotStep ==
    TypeOK /\ DoneHasReason /\ SnapshotInOrder /\ [Next]_vars => SnapshotInOrder'
<1> SUFFICES ASSUME TypeOK, DoneHasReason, SnapshotInOrder, [Next]_vars, ws' = "open"
             PROVE  SnapshotInOrder'
  BY DEF SnapshotInOrder
<1>1. ws = "open"
  BY DEF Next, ReadGoroutine, EndWith, WritePump, OnConnect, LossPush, LossRequestClose,
    LossCleanup, EndClaim, EndPush, EndCleanup, BrowserGone, UserDisconnect, ReadFail,
    Write, WriteFail, SeeDone, CloseFrame, vars
<1>2. Said \in Seq(Envelopes)
  BY DEF TypeOK, Said
<1>3. Count(Said) \in Nat /\ pushed \in 0 .. SnapshotSize + 2
  BY <1>2, CountOfAppend DEF TypeOK, Envelopes
<1>4. CASE OnConnect
  <2> DEFINE e == SnapshotEnvelope(pushed)
  <2>1. ~Synced /\ Push(e) /\ pushed' = pushed + 1 /\ wire' = wire
    BY <1>4 DEF OnConnect, pumpVars
  <2>2. e \in Envelopes /\ (e = "synced" => Synced') /\ "synced" \notin ToSet(Said)
    BY <1>1, <1>3, <2>1 DEF SnapshotEnvelope, Envelopes, Synced, SnapshotInOrder
  <2>3. ~done
    BY <1>1, <2>1 DEF DoneHasReason
  <2>4. SnapshotsPushed' = IF e = "snapshot" THEN SnapshotsPushed + 1 ELSE SnapshotsPushed
    BY <1>3, <2>1 DEF SnapshotsPushed, SnapshotEnvelope, Synced
  <2>5. CASE Said' = Append(Said, e) /\ logged' = logged
    <3> HIDE DEF e
    <3>1. Count(Append(Said, e)) = IF e = "snapshot" THEN Count(Said) + 1 ELSE Count(Said)
      BY <1>2, <2>2, CountOfAppend
    <3>2. ToSet(Append(Said, e)) = ToSet(Said) \cup {e}
      BY <1>2, <2>2, MembersOfAppend
    <3>3. \A i, j \in DOMAIN Append(Said, e) :
            Append(Said, e)[i] = "synced" /\ i < j => Append(Said, e)[j] # "snapshot"
      BY <1>1, <1>2, <2>2, LastKeepsOrder DEF SnapshotInOrder
    <3>4. "snapshot" \in logged' \/ Count(Append(Said, e)) = SnapshotsPushed'
      BY <1>1, <2>4, <2>5, <3>1 DEF SnapshotInOrder
    <3>5. "synced" \in ToSet(Append(Said, e)) => Synced'
      BY <2>2, <3>2
    <3>6. QED
      BY <2>5, <3>3, <3>4, <3>5 DEF SnapshotInOrder
  <2>6. CASE Said' = Said /\ logged' = logged \cup {e}
    <3>1. "snapshot" \in logged' \/ Count(Said) = SnapshotsPushed'
      BY <1>1, <2>4, <2>6 DEF SnapshotInOrder
    <3>2. QED
      BY <1>1, <2>2, <2>6, <3>1 DEF SnapshotInOrder
  <2>7. QED
    BY <2>1, <2>2, <2>3, <2>5, <2>6, PushSays
<1>5. CASE LossPush \/ EndPush
  <2>1. PICK e \in Codes : Push(e) /\ wire' = wire /\ pushed' = pushed
    BY <1>5 DEF LossPush, EndPush, pumpVars, Codes, FinalCodes
  <2>2. e \in Envelopes /\ e \notin {"snapshot", "synced"}
    BY DEF Envelopes, Codes, FinalCodes
  <2>3. SnapshotsPushed' = SnapshotsPushed /\ (Synced => Synced')
    BY <2>1 DEF SnapshotsPushed, Synced
  <2>4. CASE Said' = Append(Said, e) /\ logged' = logged
    <3>1. Count(Append(Said, e)) = Count(Said)
      BY <1>2, <2>2, CountOfAppend
    <3>2. ToSet(Append(Said, e)) = ToSet(Said) \cup {e}
      BY <1>2, <2>2, MembersOfAppend
    <3>3. \A i, j \in DOMAIN Append(Said, e) :
            Append(Said, e)[i] = "synced" /\ i < j => Append(Said, e)[j] # "snapshot"
      BY <1>1, <1>2, <2>2, LastKeepsOrder DEF SnapshotInOrder
    <3>4. QED
      BY <1>1, <2>2, <2>3, <2>4, <3>1, <3>2, <3>3 DEF SnapshotInOrder
  <2>5. CASE Said' = Said /\ logged \subseteq logged'
    BY <1>1, <2>3, <2>5 DEF SnapshotInOrder
  <2>6. QED
    BY <2>1, <2>2, <2>4, <2>5, PushSays
<1>6. CASE UNCHANGED <<queueVars, wire, pushed>> \/ (WritePump /\ pushed' = pushed)
  <2>1. Said' = Said /\ logged' = logged
    BY <1>6, NothingSaid
  <2>2. pushed' = pushed
    BY <1>6
  <2>3. QED
    BY <1>1, <2>1, <2>2 DEF SnapshotInOrder, SnapshotsPushed, Synced
<1>7. QED
  BY <1>4, <1>5, <1>6 DEF Next, ReadGoroutine, EndWith, WritePump, LossRequestClose,
    LossCleanup, EndClaim, EndCleanup, BrowserGone, UserDisconnect, ReadFail,
    Write, WriteFail, SeeDone, CloseFrame, vars, pumpVars

----------------------------------------------------------------------------
(* Theorems.                                                               *)

(* so the invariant always holds.                                          *)
LEMMA Invariance == Spec => []IInv
<1>1. IInv /\ [Next]_vars => IInv'
  BY TypeStep, DoneStep, CodeStep, ToldStep, CloseStep, SnapshotStep DEF IInv
<1>2. QED
  BY InitInv, <1>1, PTL DEF Spec

(* Every state is of the declared types; the queue never holds more than   *)
(* the channel of server/internal/bridge/session.go can.                   *)
THEOREM TypeCorrect == Spec => []TypeOK
<1>1. IInv => TypeOK
  BY DEF IInv
<1>2. QED
  BY Invariance, <1>1, PTL

(* A close frame comes after its reason: whichever of OnDisconnect and     *)
(* endWith stores the close code, and in whatever order the two push,      *)
(* store and clean up, a browser that stayed was sent a final code before  *)
(* 4001 and some disconnected envelope before 1011, or push logged that it *)
(* dropped it.                                                             *)
THEOREM ClosesAreExplained == Spec => []CloseFrameExplained
<1>1. IInv => CloseFrameExplained
  BY DEF IInv
<1>2. QED
  BY Invariance, <1>1, PTL

(* What is written when synced is: every snapshot there is comes before it.*)
LEMMA SyncedSeesAll ==
    ASSUME TypeOK, ws = "open", SnapshotInOrder, "synced" \in Seen
    PROVE  SnapshotsSeen = Count(Said)
<1>1. wire \in Seq(Envelopes) /\ queue \in Seq(Envelopes)
  BY DEF TypeOK
<1>2. PICK i \in DOMAIN wire : wire[i] = "synced"
  BY DEF Seen, ToSet
<1>3. /\ DOMAIN wire \subseteq DOMAIN Said
      /\ \A j \in DOMAIN wire : Said[j] = wire[j]
      /\ \A j \in DOMAIN Said \ DOMAIN wire : i < j
  BY <1>1 DEF Said
<1>4. \A j \in DOMAIN Said \ DOMAIN wire : Said[j] # "snapshot"
  BY <1>2, <1>3 DEF SnapshotInOrder
<1>5. {j \in DOMAIN wire : wire[j] = "snapshot"} = {j \in DOMAIN Said : Said[j] = "snapshot"}
  BY <1>3, <1>4
<1>6. QED
  BY <1>5 DEF SnapshotsSeen, Count

(* Nothing is missing from the snapshot without a send_buffer_full in the  *)
(* log, for a snapshot and a queue of any size.                            *)
THEOREM SnapshotLossesAreLogged == Spec => []SnapshotLossIsLogged
<1>1. IInv => SnapshotLossIsLogged
  <2> SUFFICES ASSUME IInv, ws = "open", "synced" \in Seen, "snapshot" \notin logged
               PROVE  SnapshotsSeen = SnapshotSize
    BY DEF SnapshotLossIsLogged
  <2>1. SnapshotsSeen = Count(Said)
    BY SyncedSeesAll DEF IInv
  <2>2. "synced" \in ToSet(Said)
    BY DEF Seen, ToSet, Said, IInv, TypeOK
  <2>3. Synced /\ Count(Said) = SnapshotsPushed
    BY <2>2 DEF IInv, SnapshotInOrder
  <2>4. QED
    BY <2>1, <2>3 DEF Synced, SnapshotsPushed
<1>2. QED
  BY Invariance, <1>1, PTL
=============================================================================
