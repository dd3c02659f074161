------------------------- MODULE InviteSessionProofs -------------------------
(***************************************************************************)
(* Invites let one login in, are never lost by a dial, come from members   *)
(* only, and a resume token keeps its name: proofs for any sets of         *)
(* sessions, tokens and names, and any number of connects, of the          *)
(* invariants of InviteSession that TLC checks on two sockets.             *)
(***************************************************************************)
EXTENDS InviteSession, TLAPS

USE InviteAssumption

(* An invite in the hands of a dial is claimed, and has let nobody in.     *)
HeldIsClaimed ==
    \A s \in Sessions, t \in Tokens :
        Holds(s, t) => invites[t].claimed /\ logins[t] = 0

(* An invite that has let someone in stays claimed.                        *)
UsedStaysClaimed == \A t \in Tokens : logins[t] > 0 => invites[t].claimed

(* What createInvite remembers between its two steps may be stored.        *)
DraftIsMembers ==
    \A s \in Sessions :
        /\ draft[s].life = "valid" /\ ~draft[s].claimed
        /\ draft[s].by # "guest"
        /\ pc[s] = "creating" => draft[s].by = "member"
        /\ draft[s].by = "member" => draft[s].password = "typed"

(* The flags know a guest, and a password that was not typed marks one.    *)
FlagsKnowGuests ==
    \A s \in Sessions :
        /\ guest[s] => flags[s].invited
        /\ flags[s].synced /\ ~flags[s].invited => flags[s].password = "typed"

(* Credentials without an invite are the user's own, or carry a name that  *)
(* an invite let in before.                                                *)
TrustedNameIsInvited ==
    \A s \in Sessions :
        /\ dial[s].trusted /\ dial[s].invite = NoToken => dial[s].name \in invitedNames
        /\ pc[s] = "issuing" => dial[s].name \in invitedNames

(* A session can only revoke a token it was issued.                        *)
RevocableWasIssued ==
    \A s \in Sessions :
        resumeToken[s] # NoToken => resume[resumeToken[s]].life # "unborn"

(* The invariant has four parts, which lean on each other only in that the *)
(* types need DraftIsMembers and all of them need the types.               *)
Claims == InviteLogsInOnce /\ ClaimHasDial /\ HeldIsClaimed /\ UsedStaysClaimed

(* Whose an invite is.                                                     *)
Makers == InvitesAreMembersOwn /\ DraftIsMembers /\ FlagsKnowGuests

(* Which nickname a token keeps.                                           *)
NamesKept == ResumeKeepsName /\ TrustedNameIsInvited /\ RevocableWasIssued

(* The inductive invariant.                                                *)
IInv == TypeOK /\ Claims /\ Makers /\ NamesKept

----------------------------------------------------------------------------
(* The store's operations.                                                 *)

(* The fields of one record.                                               *)
LEMMA InviteFields ==
    ASSUME NEW i \in Invite, NEW l \in Lives
    PROVE  LET aged == [i EXCEPT !.life = l]
               freed == [i EXCEPT !.claimed = FALSE]
           IN  /\ aged \in Invite /\ aged.life = l /\ aged.claimed = i.claimed
               /\ aged.by = i.by /\ aged.password = i.password
               /\ freed \in Invite /\ freed.life = i.life /\ freed.claimed = FALSE
               /\ freed.by = i.by /\ freed.password = i.password
BY DEF Invite

(* The same of a dial.                                                     *)
LEMMA DialFields ==
    ASSUME NEW d \in Dial, NEW c \in {"idle", "awaited", "come"}
    PROVE  LET e == [d EXCEPT !.sync = c]
           IN  /\ e \in Dial /\ e.sync = c
               /\ e.trusted = d.trusted /\ e.invite = d.invite /\ e.name = d.name
BY DEF Dial

(* Records as they are made.                                               *)
LEMMA FreshFields ==
    /\ NoDraft \in Invite /\ NoDraft.life = "valid" /\ ~NoDraft.claimed /\ NoDraft.by = "bot"
    /\ NewInvite("bot", "stored") \in Invite /\ ~NewInvite("bot", "stored").claimed
    /\ \A b \in BOOLEAN, t \in Tokens \cup {NoToken}, u \in Names : Credentials(b, t, u) \in Dial
    /\ AnyName \in Names
BY DEF NoDraft, NewInvite, Invite, Lives, Passwords, Credentials, Dial, AnyName

(* A claim is given back of what is in the store, and of nothing else.     *)
LEMMA ReleasedOk ==
    ASSUME TypeOK, NEW t
    PROVE  /\ ReleasedInvites(t) \in [Tokens -> Invite]
           /\ \A x \in Tokens :
                 /\ ReleasedInvites(t)[x].life = invites[x].life
                 /\ ReleasedInvites(t)[x].by = invites[x].by
                 /\ ReleasedInvites(t)[x].password = invites[x].password
                 /\ x # t => ReleasedInvites(t)[x] = invites[x]
                 /\ ReleasedInvites(t)[x].claimed => invites[x].claimed
                 /\ x = t /\ InStore(t) => ~ReleasedInvites(t)[x].claimed
<1>1. CASE t \in Tokens /\ InStore(t)
    <2> DEFINE freed == [invites[t] EXCEPT !.claimed = FALSE]
    <2>1. invites[t] \in Invite /\ "valid" \in Lives
        BY <1>1 DEF TypeOK, Lives
    <2>2. /\ freed \in Invite /\ freed.life = invites[t].life /\ freed.claimed = FALSE
          /\ freed.by = invites[t].by /\ freed.password = invites[t].password
        BY <2>1, InviteFields
    <2>3. ReleasedInvites(t) = [invites EXCEPT ![t] = freed]
        BY <1>1 DEF ReleasedInvites
    <2> HIDE DEF freed
    <2>4. QED
        BY <1>1, <2>2, <2>3 DEF TypeOK
<1>2. CASE ~(t \in Tokens /\ InStore(t))
    BY <1>2 DEF ReleasedInvites, TypeOK
<1>3. QED
    BY <1>1, <1>2

(* What an invite keeps when its record ages or goes.                      *)
Aged(new, old) ==
    /\ new.claimed = old.claimed /\ new.by = old.by /\ new.password = old.password
    /\ new.life = old.life \/ (old.life # "unborn" /\ new.life \in {"expired", "deleted"})
    /\ new.life \in {"valid", "expired"} => old.life \in {"valid", "expired"}

(* A table of invites some of which have aged.                             *)
AgedTable(table) ==
    /\ table \in [Tokens -> Invite]
    /\ \A x \in Tokens : Aged(table[x], invites[x])

(* A deletion, an expiry and the cleaner's tick make invites age.          *)
LEMMA AgedOk ==
    ASSUME TypeOK
    PROVE  /\ \A t : AgedTable(DeletedInvites(t))
           /\ \A t \in Tokens : invites[t].life = "valid" =>
                 AgedTable([invites EXCEPT ![t].life = "expired"])
           /\ AgedTable(Swept(invites))
<1>1. invites \in [Tokens -> Invite] /\ {"valid", "expired", "deleted"} \subseteq Lives
    BY DEF TypeOK, Lives
<1>2. ASSUME NEW x \in Tokens, NEW l \in {"expired", "deleted"}, invites[x].life # "unborn",
             l = "expired" => invites[x].life = "valid"
      PROVE  [invites[x] EXCEPT !.life = l] \in Invite /\ Aged([invites[x] EXCEPT !.life = l], invites[x])
    <2> DEFINE aged == [invites[x] EXCEPT !.life = l]
    <2>1. invites[x] \in Invite /\ l \in Lives
        BY <1>1
    <2>2. /\ aged \in Invite /\ aged.life = l /\ aged.claimed = invites[x].claimed
          /\ aged.by = invites[x].by /\ aged.password = invites[x].password
        BY <2>1, InviteFields
    <2> HIDE DEF aged
    <2>3. aged \in Invite /\ Aged(aged, invites[x])
        BY <1>2, <2>2 DEF Aged
    <2>4. QED
        BY <2>3 DEF aged
<1>3. \A x \in Tokens : Aged(invites[x], invites[x])
    BY DEF Aged
<1>4. ASSUME NEW t \in Tokens, NEW l \in {"expired", "deleted"}, invites[t].life # "unborn",
             l = "expired" => invites[t].life = "valid"
      PROVE  AgedTable([invites EXCEPT ![t].life = l])
    <2> DEFINE aged == [invites[t] EXCEPT !.life = l]
    <2>1. aged \in Invite /\ Aged(aged, invites[t])
        BY <1>2, <1>4
    <2>2. [invites EXCEPT ![t].life = l] = [invites EXCEPT ![t] = aged]
        OBVIOUS
    <2> HIDE DEF aged
    <2>3. QED
        BY <1>1, <1>3, <2>1, <2>2 DEF AgedTable
<1>5. \A t : AgedTable(DeletedInvites(t))
    BY <1>1, <1>3, <1>4 DEF DeletedInvites, InStore, AgedTable
<1>6. AgedTable(Swept(invites))
    <2> DEFINE gone(x) == [invites[x] EXCEPT !.life = "deleted"]
    <2>1. \A x \in Tokens : invites[x].life = "expired" =>
             gone(x) \in Invite /\ Aged(gone(x), invites[x])
        BY <1>2
    <2>2. Swept(invites) =
             [x \in Tokens |-> IF invites[x].life = "expired" THEN gone(x) ELSE invites[x]]
        BY <1>1 DEF Swept
    <2> HIDE DEF gone
    <2>3. QED
        BY <1>1, <1>3, <2>1, <2>2 DEF AgedTable
<1>7. QED
    BY <1>4, <1>5, <1>6

----------------------------------------------------------------------------
(* Types.                                                                  *)

(* The initial state satisfies the invariant.                              *)
LEMMA InitInv == Init => IInv
<1> SUFFICES ASSUME Init PROVE IInv
    OBVIOUS
<1> DEFINE unborn == [NoDraft EXCEPT !.life = "unborn"]
<1>1. unborn \in Invite /\ unborn.life = "unborn" /\ ~unborn.claimed /\ unborn.by = "bot"
    <2>1. NoDraft \in Invite /\ "unborn" \in Lives
        BY FreshFields DEF Lives
    <2>2. QED
        BY <2>1, FreshFields, InviteFields
<1>2. NoDial \in Dial /\ ~NoDial.trusted
    <2>1. Credentials(FALSE, NoToken, AnyName) \in Dial /\ ~Credentials(FALSE, NoToken, AnyName).trusted
        BY FreshFields DEF Credentials
    <2>2. QED
        BY <2>1, DialFields DEF NoDial
<1>0. invites = [t \in Tokens |-> unborn]
    BY DEF Init, unborn
<1> HIDE DEF unborn
<1>3. TypeOK
    <2>1. invites \in [Tokens -> Invite]
        BY <1>0, <1>1
    <2>2. resume \in [ResumeTokens -> [life : Lives, name : Names]]
        BY FreshFields DEF Init, Lives
    <2>3. dial \in [Sessions -> Dial] /\ draft \in [Sessions -> Invite]
        BY <1>2, FreshFields DEF Init
    <2>4. flags \in [Sessions -> [synced : BOOLEAN, invited : BOOLEAN, password : Passwords]]
        BY DEF Init, NoFlags, Passwords
    <2>5. QED
        BY <1>0, <1>1, <2>1, <2>2, <2>3, <2>4 DEF Init, TypeOK
<1>4. InviteLogsInOnce /\ ClaimHasDial /\ HeldIsClaimed /\ UsedStaysClaimed
    BY <1>0, <1>1 DEF Init, InviteLogsInOnce, ClaimHasDial, HeldIsClaimed, UsedStaysClaimed, Holds
<1>5. InvitesAreMembersOwn /\ DraftIsMembers /\ FlagsKnowGuests
    BY <1>0, <1>1, FreshFields DEF Init, InvitesAreMembersOwn, DraftIsMembers, FlagsKnowGuests, NoFlags
<1>6. ResumeKeepsName /\ TrustedNameIsInvited /\ RevocableWasIssued
    BY <1>2 DEF Init, ResumeKeepsName, TrustedNameIsInvited, RevocableWasIssued
<1>7. QED
    BY <1>3, <1>4, <1>5, <1>6 DEF IInv, Claims, Makers, NamesKept

(* What markSynced stores.                                                 *)
LEMMA SyncedOk ==
    ASSUME TypeOK, NEW s \in Sessions
    PROVE  SyncedFlags(s) \in [synced : BOOLEAN, invited : BOOLEAN, password : Passwords]
<1>1. flags[s] \in [synced : BOOLEAN, invited : BOOLEAN, password : Passwords]
    BY DEF TypeOK
<1>2. dial[s].trusted \in BOOLEAN
    BY DEF TypeOK, Dial
<1>3. /\ (flags[s].invited \/ dial[s].trusted) \in BOOLEAN
      /\ (IF dial[s].trusted THEN "stored" ELSE "typed") \in Passwords
    BY <1>1, <1>2 DEF Passwords
<1>4. QED
    BY <1>3 DEF SyncedFlags

(* What has aged was handed out before.                                    *)
LEMMA AgedIsBorn ==
    ASSUME TypeOK, NEW x \in Tokens, Aged(invites'[x], invites[x])
    PROVE  invites'[x].claimed => invites'[x].life # "unborn"
BY DEF TypeOK, Aged

(* What cleanup does, in so far as types go.                               *)
LEMMA CleanupTypes ==
    ASSUME TypeOK, NEW s \in Sessions, Cleanup(s)
    PROVE  /\ invites' \in [Tokens -> Invite]
           /\ \A x \in Tokens : Aged(invites'[x], invites[x])
           /\ inviteToken' \in [Sessions -> Tokens \cup {NoToken}]
           /\ done' \in [Sessions -> BOOLEAN]
           /\ flags' \in [Sessions -> [synced : BOOLEAN, invited : BOOLEAN, password : Passwords]]
           /\ guest' \in [Sessions -> BOOLEAN]
<1>1. \A x \in Tokens : Aged(invites[x], invites[x])
    BY DEF Aged
<1>2. NoFlags \in [synced : BOOLEAN, invited : BOOLEAN, password : Passwords]
    BY DEF NoFlags, Passwords
<1>3. CASE done[s]
    BY <1>1, <1>3 DEF Cleanup, TypeOK
<1>4. CASE ~done[s]
    <2>1. AgedTable(invites')
        BY <1>4, AgedOk DEF Cleanup
    <2>2. QED
        <3>1. /\ inviteToken' = [inviteToken EXCEPT ![s] = NoToken]
              /\ done' = [done EXCEPT ![s] = TRUE]
              /\ flags' = [flags EXCEPT ![s] = NoFlags]
              /\ guest' = [guest EXCEPT ![s] = FALSE]
            BY <1>4 DEF Cleanup
        <3>2. QED
            BY <1>2, <2>1, <3>1 DEF TypeOK, AgedTable
<1>5. QED
    BY <1>3, <1>4

(* The connect command: the credentials have their types.                  *)
LEMMA DialledTypes ==
    ASSUME TypeOK, NEW s \in Sessions, NEW b \in BOOLEAN, NEW t \in Tokens \cup {NoToken},
           NEW u \in Names, Dialled(s, Credentials(b, t, u)),
           invites' \in [Tokens -> Invite], resume' = resume,
           \A x \in Tokens : invites'[x].claimed => invites'[x].life # "unborn"
    PROVE  TypeOK'
<1>1. Credentials(b, t, u) \in Dial
    BY FreshFields
<1>2. connects' \in 0 .. MaxConnects
    BY DEF Dialled, TypeOK
<1>3. QED
    BY <1>1, <1>2 DEF Dialled, TypeOK, sessionVars, historyVars

(* Every step of a session and of the store keeps the types.               *)
LEMMA TypeStep == TypeOK /\ DraftIsMembers /\ [Next]_vars => TypeOK'
<1> SUFFICES ASSUME TypeOK, DraftIsMembers, [Next]_vars PROVE TypeOK'
    OBVIOUS
<1> USE DEF storeVars, loopVars, sessionVars, historyVars
<1>1. ASSUME NEW s \in Sessions, Connect(s) PROVE TypeOK'
    <2>2. CASE ConnectByPassword(s)
        BY <2>2, FreshFields, DialledTypes DEF ConnectByPassword, TypeOK
    <2>3. ASSUME NEW u \in Names, NEW t \in Tokens, ConnectByInvite(s, u, t) PROVE TypeOK'
        <3> DEFINE taken == [invites[t] EXCEPT !.claimed = TRUE]
        <3>1. invites[t] \in Invite /\ invites[t].life = "valid"
            BY <2>3 DEF TypeOK, ConnectByInvite, Claimable
        <3>2. taken \in Invite /\ taken.life = "valid"
            BY <3>1 DEF Invite
        <3>3. invites' = [invites EXCEPT ![t] = taken]
            BY <2>3 DEF ConnectByInvite
        <3> HIDE DEF taken
        <3>4. /\ invites' \in [Tokens -> Invite]
              /\ \A x \in Tokens : invites'[x].claimed => invites'[x].life # "unborn"
            BY <3>2, <3>3 DEF TypeOK
        <3>5. QED
            BY <2>3, <3>4, DialledTypes DEF ConnectByInvite
    <2>4. ASSUME NEW u \in Names, NEW r \in ResumeTokens, ConnectByResume(s, u, r) PROVE TypeOK'
        BY <2>4, DialledTypes DEF ConnectByResume, Redeemable, TypeOK
    <2>5. QED
        BY <1>1, <2>2, <2>3, <2>4 DEF Connect
<1>2. ASSUME NEW s \in Sessions, ConnectFails(s) PROVE TypeOK'
    <2>1. /\ invites' \in [Tokens -> Invite]
          /\ \A x \in Tokens : invites'[x].claimed => invites'[x].life # "unborn"
        BY <1>2, ReleasedOk DEF ConnectFails, TypeOK
    <2>2. pc' \in [Sessions -> {"free", "dialing", "issuing", "creating"}]
        BY <1>2 DEF ConnectFails, TypeOK
    <2>3. QED
        BY <1>2, <2>1, <2>2 DEF ConnectFails, TypeOK
<1>3. ASSUME NEW s \in Sessions, MarkSynced(s) PROVE TypeOK'
    <2> DEFINE come == [dial[s] EXCEPT !.sync = "come"]
    <2>1. dial[s] \in Dial /\ dial[s].trusted \in BOOLEAN
        BY DEF TypeOK, Dial
    <2>2. come \in Dial
        BY <2>1, DialFields
    <2>3. dial' = [dial EXCEPT ![s] = come]
        BY <1>3 DEF MarkSynced
    <2> HIDE DEF come
    <2>4. dial' \in [Sessions -> Dial]
        BY <2>2, <2>3 DEF TypeOK
    <2>5. flags' \in [Sessions -> [synced : BOOLEAN, invited : BOOLEAN, password : Passwords]]
        BY <1>3, SyncedOk DEF MarkSynced, TypeOK
    <2>6. guest' \in [Sessions -> BOOLEAN]
        BY <1>3, <2>1 DEF MarkSynced, TypeOK
    <2>7. QED
        BY <1>3, <2>4, <2>5, <2>6 DEF MarkSynced, TypeOK
<1>4. ASSUME NEW s \in Sessions, ConnectSucceeds(s) PROVE TypeOK'
    <2>1. dial[s].invite \in Tokens \cup {NoToken} /\ dial[s].name \in Names
        BY DEF TypeOK, Dial
    <2>2. /\ inviteToken' \in [Sessions -> Tokens \cup {NoToken}]
          /\ pc' \in [Sessions -> {"free", "dialing", "issuing", "creating"}]
        BY <1>4, <2>1 DEF ConnectSucceeds, TypeOK
    <2>3. logins' \in [Tokens -> Nat] /\ invitedNames' \in SUBSET Names
        BY <1>4, <2>1 DEF ConnectSucceeds, TypeOK
    <2>4. QED
        BY <1>4, <2>2, <2>3 DEF ConnectSucceeds, TypeOK
<1>5. ASSUME NEW s \in Sessions, IssueResume(s) PROVE TypeOK'
    <2>1. dial[s].name \in Names /\ "valid" \in Lives
        BY DEF TypeOK, Dial, Lives
    <2>2. /\ resume' \in [ResumeTokens -> [life : Lives, name : Names]]
          /\ resumeToken' \in [Sessions -> ResumeTokens \cup {NoToken}]
        <3>1. CASE UNCHANGED <<resume, resumeToken>>
            BY <3>1 DEF TypeOK
        <3>2. ASSUME NEW r \in ResumeTokens,
                     resume' = [resume EXCEPT ![r] = [life |-> "valid", name |-> dial[s].name]],
                     resumeToken' = [resumeToken EXCEPT ![s] = r]
              PROVE  /\ resume' \in [ResumeTokens -> [life : Lives, name : Names]]
                     /\ resumeToken' \in [Sessions -> ResumeTokens \cup {NoToken}]
            BY <2>1, <3>2 DEF TypeOK
        <3>3. QED
            BY <1>5, <3>1, <3>2 DEF IssueResume
    <2>3. QED
        BY <1>5, <2>2 DEF IssueResume, TypeOK
<1>6. ASSUME NEW s \in Sessions, UserDisconnect(s) PROVE TypeOK'
    <2>1. resume' \in [ResumeTokens -> [life : Lives, name : Names]]
        BY <1>6 DEF UserDisconnect, RevokedResume, TypeOK, Lives
    <2>2. resumeToken' \in [Sessions -> ResumeTokens \cup {NoToken}]
        BY <1>6 DEF UserDisconnect, TypeOK
    <2>3. QED
        BY <1>6, <2>1, <2>2, CleanupTypes, AgedIsBorn DEF UserDisconnect, TypeOK
<1>7. ASSUME NEW s \in Sessions, SessionEnds(s) PROVE TypeOK'
    BY <1>7, CleanupTypes, AgedIsBorn DEF SessionEnds, TypeOK
<1>8. ASSUME NEW s \in Sessions, BrowserGone(s) PROVE TypeOK'
    BY <1>8 DEF BrowserGone, TypeOK
<1>9. ASSUME NEW s \in Sessions, CreateInvite(s) PROVE TypeOK'
    <2>1. flags[s].password \in Passwords
        BY DEF TypeOK
    <2>2. draft' \in [Sessions -> Invite]
        BY <1>9, <2>1 DEF CreateInvite, NewInvite, TypeOK, Invite, Lives
    <2>3. QED
        BY <1>9, <2>2 DEF CreateInvite, TypeOK
<1>10. ASSUME NEW s \in Sessions, StoreInvite(s) PROVE TypeOK'
    <2>1. draft[s] \in Invite /\ ~draft[s].claimed
        BY DEF TypeOK, DraftIsMembers
    <2>2. CASE UNCHANGED invites
        BY <1>10, <2>2, FreshFields DEF StoreInvite, TypeOK
    <2>3. ASSUME NEW t \in Tokens, invites' = [invites EXCEPT ![t] = draft[s]] PROVE TypeOK'
        <3>1. /\ invites' \in [Tokens -> Invite]
              /\ \A x \in Tokens : invites'[x].claimed => invites'[x].life # "unborn"
            BY <2>1, <2>3 DEF TypeOK
        <3>2. QED
            BY <1>10, <3>1, FreshFields DEF StoreInvite, TypeOK
    <2>4. QED
        BY <1>10, <2>2, <2>3 DEF StoreInvite, TypeOK
<1>11. ASSUME NEW t \in Tokens, BotCreates(t) PROVE TypeOK'
    BY <1>11, FreshFields DEF BotCreates, TypeOK
<1>12. ASSUME NEW t \in Tokens, Expire(t) PROVE TypeOK'
    <2>1. AgedTable(invites')
        BY <1>12, AgedOk DEF Expire
    <2>2. QED
        BY <1>12, <2>1, AgedIsBorn DEF Expire, TypeOK, AgedTable
<1>13. ASSUME NEW r \in ResumeTokens, ExpireResume(r) PROVE TypeOK'
    BY <1>13 DEF ExpireResume, TypeOK, Lives
<1>14. CASE Clean
    <2>1. AgedTable(invites')
        BY <1>14, AgedOk DEF Clean
    <2>2. resume' \in [ResumeTokens -> [life : Lives, name : Names]]
        BY <1>14 DEF Clean, Swept, TypeOK, Lives
    <2>3. QED
        BY <1>14, <2>1, <2>2, AgedIsBorn DEF Clean, TypeOK, AgedTable
<1>15. CASE UNCHANGED vars
    BY <1>15 DEF vars, TypeOK
<1>16. QED
    BY <1>1, <1>2, <1>3, <1>4, <1>5, <1>6, <1>7, <1>8, <1>9, <1>10, <1>11, <1>12, <1>13,
       <1>14, <1>15 DEF Next, SessionNext, StoreNext

----------------------------------------------------------------------------
(* Claims.                                                                 *)

(* A step that moves no claim from one hand to another keeps the claims,   *)
(* however records age and whatever new ones are stored.                   *)
LEMMA ClaimsKept ==
    ASSUME Claims, TypeOK, TypeOK',
           \A x \in Tokens : logins'[x] = logins[x],
           \A x \in Tokens : invites'[x].claimed <=> invites[x].claimed,
           \A x \in Tokens : InStore(x)' /\ invites[x].claimed => InStore(x),
           \A s \in Sessions, x \in Tokens : Holds(s, x)' <=> Holds(s, x)
    PROVE  Claims'
<1> USE DEF Claims
<1>1. InviteLogsInOnce' /\ UsedStaysClaimed'
    BY DEF InviteLogsInOnce, UsedStaysClaimed
<1>2. HeldIsClaimed'
    BY DEF HeldIsClaimed
<1>3. ClaimHasDial'
    <2> SUFFICES ASSUME NEW t \in Tokens
                 PROVE  /\ \A s, o \in Sessions : Holds(s, t)' /\ Holds(o, t)' => s = o
                        /\ InStore(t)' /\ invites'[t].claimed /\ logins'[t] = 0 =>
                              \E s \in Sessions : Holds(s, t)'
        BY DEF ClaimHasDial
    <2>1. \A s, o \in Sessions : Holds(s, t)' /\ Holds(o, t)' => s = o
        BY DEF ClaimHasDial
    <2>2. ASSUME InStore(t)', invites'[t].claimed, logins'[t] = 0
          PROVE  \E s \in Sessions : Holds(s, t)'
        <3>1. InStore(t) /\ invites[t].claimed /\ logins[t] = 0
            BY <2>2
        <3>2. QED
            BY <3>1 DEF ClaimHasDial
    <2>3. QED
        BY <2>1, <2>2
<1>4. QED
    BY <1>1, <1>2, <1>3

(* Claim: the token was claimed by no one, so no dial holds it yet.        *)
LEMMA ClaimTaken ==
    ASSUME Claims, TypeOK, TypeOK', NEW s \in Sessions, NEW u \in Names, NEW t \in Tokens,
           ConnectByInvite(s, u, t)
    PROVE  Claims'
<1> USE DEF Claims
<1>1. /\ pc[s] = "free" /\ pc' = [pc EXCEPT ![s] = "dialing"]
      /\ dial' = [dial EXCEPT ![s] = Credentials(TRUE, t, u)]
      /\ logins' = logins
      /\ ~invites[t].claimed /\ invites[t].life = "valid"
    BY DEF ConnectByInvite, Commanded, Claimable, Dialled, historyVars
<1>2. Credentials(TRUE, t, u).invite = t
    BY DEF Credentials
<1>3. /\ invites'[t].claimed /\ invites'[t].life = "valid"
      /\ \A x \in Tokens : x # t => invites'[x] = invites[x]
    BY <1>1 DEF ConnectByInvite, TypeOK, Invite
<1>4. \A o \in Sessions, x \in Tokens :
         Holds(o, x)' <=> (o = s /\ x = t) \/ (o # s /\ Holds(o, x))
    BY <1>1, <1>2 DEF Holds, TypeOK
<1>5. logins[t] = 0 /\ \A o \in Sessions : ~Holds(o, t)
    BY <1>1 DEF HeldIsClaimed, UsedStaysClaimed, TypeOK
<1>6. InviteLogsInOnce' /\ UsedStaysClaimed'
    BY <1>1, <1>3 DEF InviteLogsInOnce, UsedStaysClaimed
<1>7. HeldIsClaimed'
    BY <1>1, <1>3, <1>4, <1>5 DEF HeldIsClaimed
<1>8. ClaimHasDial'
    <2>1. ASSUME NEW x \in Tokens, x # t
          PROVE  /\ \A p, o \in Sessions : Holds(p, x)' /\ Holds(o, x)' => p = o
                 /\ InStore(x)' /\ invites'[x].claimed /\ logins'[x] = 0 =>
                       \E p \in Sessions : Holds(p, x)'
        <3>1. \A o \in Sessions : Holds(o, x)' <=> Holds(o, x)
            BY <1>1, <1>4, <2>1 DEF Holds
        <3>2. InStore(x)' <=> InStore(x)
            BY <1>3, <2>1 DEF InStore
        <3>3. QED
            BY <1>1, <1>3, <2>1, <3>1, <3>2 DEF ClaimHasDial
    <2>2. /\ \A p, o \in Sessions : Holds(p, t)' /\ Holds(o, t)' => p = o
          /\ Holds(s, t)'
        BY <1>4, <1>5
    <2>3. QED
        BY <2>1, <2>2 DEF ClaimHasDial
<1>9. QED
    BY <1>6, <1>7, <1>8

(* A dial that fails gives back the one claim it holds.                    *)
LEMMA ClaimReleased ==
    ASSUME Claims, TypeOK, TypeOK', NEW s \in Sessions, ConnectFails(s)
    PROVE  Claims'
<1> USE DEF Claims
<1> DEFINE t == dial[s].invite
<1>1. /\ pc[s] = "dialing" /\ pc' = [pc EXCEPT ![s] = "free"]
      /\ dial' = dial /\ logins' = logins
      /\ invites' = ReleasedInvites(t)
    BY DEF ConnectFails, historyVars
<1>2. \A x \in Tokens :
         /\ invites'[x].life = invites[x].life
         /\ x # t => invites'[x] = invites[x]
         /\ x = t /\ InStore(x) => ~invites'[x].claimed
    BY <1>1, ReleasedOk
<1>3. \A o \in Sessions, x \in Tokens : Holds(o, x)' <=> o # s /\ Holds(o, x)
    BY <1>1 DEF Holds, TypeOK
<1>4. \A x \in Tokens : InStore(x)' <=> InStore(x)
    BY <1>2 DEF InStore
<1>5. \A x \in Tokens : x = t => Holds(s, x) /\ logins[x] = 0
    BY <1>1 DEF Holds, HeldIsClaimed
<1>6. \A o \in Sessions, x \in Tokens : Holds(o, x)' => x # t
    BY <1>3, <1>5 DEF ClaimHasDial
<1>7. InviteLogsInOnce' /\ UsedStaysClaimed'
    BY <1>1, <1>2, <1>5 DEF InviteLogsInOnce, UsedStaysClaimed
<1>8. HeldIsClaimed'
    BY <1>1, <1>2, <1>3, <1>6 DEF HeldIsClaimed
<1>9. ClaimHasDial'
    <2> SUFFICES ASSUME NEW x \in Tokens
                 PROVE  /\ \A p, o \in Sessions : Holds(p, x)' /\ Holds(o, x)' => p = o
                        /\ InStore(x)' /\ invites'[x].claimed /\ logins'[x] = 0 =>
                              \E p \in Sessions : Holds(p, x)'
        BY DEF ClaimHasDial
    <2>1. \A p, o \in Sessions : Holds(p, x)' /\ Holds(o, x)' => p = o
        BY <1>3 DEF ClaimHasDial
    <2>2. ASSUME InStore(x)', invites'[x].claimed, logins'[x] = 0
          PROVE  \E p \in Sessions : Holds(p, x)'
        <3>1. x # t /\ InStore(x) /\ invites[x].claimed /\ logins[x] = 0
            BY <1>1, <1>2, <1>4, <2>2
        <3>2. PICK p \in Sessions : Holds(p, x)
            BY <3>1 DEF ClaimHasDial
        <3>3. p # s
            BY <3>1, <3>2 DEF Holds
        <3>4. QED
            BY <1>3, <3>2, <3>3
    <2>3. QED
        BY <2>1, <2>2
<1>10. QED
    BY <1>7, <1>8, <1>9

(* A dial that succeeds lets one login in, with a claim it alone holds.    *)
LEMMA ClaimUsed ==
    ASSUME Claims, TypeOK, TypeOK', NEW s \in Sessions, ConnectSucceeds(s)
    PROVE  Claims'
<1> USE DEF Claims
<1> DEFINE t == dial[s].invite
<1>1. /\ pc[s] = "dialing" /\ pc' = [pc EXCEPT ![s] = IF dial[s].trusted THEN "issuing" ELSE "free"]
      /\ dial' = dial /\ invites' = invites
      /\ logins' = [x \in Tokens |-> IF x = t THEN logins[x] + 1 ELSE logins[x]]
    BY DEF ConnectSucceeds, storeVars
<1>2. \A o \in Sessions, x \in Tokens : Holds(o, x)' <=> o # s /\ Holds(o, x)
    BY <1>1 DEF Holds, TypeOK
<1>3. \A x \in Tokens : InStore(x)' <=> InStore(x)
    BY <1>1 DEF InStore
<1>4. \A x \in Tokens : x = t => Holds(s, x) /\ invites[x].claimed /\ logins[x] = 0
    BY <1>1 DEF Holds, HeldIsClaimed
<1>5. \A o \in Sessions, x \in Tokens : Holds(o, x)' => x # t
    BY <1>2, <1>4 DEF ClaimHasDial
<1>6. InviteLogsInOnce' /\ UsedStaysClaimed'
    BY <1>1, <1>4 DEF InviteLogsInOnce, UsedStaysClaimed, TypeOK
<1>7. HeldIsClaimed'
    BY <1>1, <1>2, <1>5 DEF HeldIsClaimed
<1>8. ClaimHasDial'
    <2> SUFFICES ASSUME NEW x \in Tokens
                 PROVE  /\ \A p, o \in Sessions : Holds(p, x)' /\ Holds(o, x)' => p = o
                        /\ InStore(x)' /\ invites'[x].claimed /\ logins'[x] = 0 =>
                              \E p \in Sessions : Holds(p, x)'
        BY DEF ClaimHasDial
    <2>1. \A p, o \in Sessions : Holds(p, x)' /\ Holds(o, x)' => p = o
        BY <1>2 DEF ClaimHasDial
    <2>2. ASSUME InStore(x)', invites'[x].claimed, logins'[x] = 0
          PROVE  \E p \in Sessions : Holds(p, x)'
        <3>1. x # t /\ InStore(x) /\ invites[x].claimed /\ logins[x] = 0
            BY <1>1, <1>3, <1>4, <2>2 DEF TypeOK
        <3>2. PICK p \in Sessions : Holds(p, x)
            BY <3>1 DEF ClaimHasDial
        <3>3. p # s
            BY <3>1, <3>2 DEF Holds
        <3>4. QED
            BY <1>2, <3>2, <3>3
    <2>3. QED
        BY <2>1, <2>2
<1>9. QED
    BY <1>6, <1>7, <1>8
(* Every other step moves no claim.                                        *)
LEMMA ClaimStep ==
    ASSUME TypeOK, TypeOK', Claims, DraftIsMembers, [Next]_vars
    PROVE  Claims'
<1> USE DEF storeVars, loopVars, sessionVars, historyVars
<1> DEFINE Still ==
        /\ \A x \in Tokens : logins'[x] = logins[x]
        /\ \A s \in Sessions, x \in Tokens : Holds(s, x)' <=> Holds(s, x)
      SameClaims ==
        /\ \A x \in Tokens : invites'[x].claimed <=> invites[x].claimed
        /\ \A x \in Tokens : InStore(x)' /\ invites[x].claimed => InStore(x)
<1>1. Still /\ SameClaims => Claims'
    BY ClaimsKept
<1>2. invites' = invites => SameClaims
    BY DEF InStore
<1>3. (\A x \in Tokens : Aged(invites'[x], invites[x])) => SameClaims
    BY DEF Aged, InStore
<1>4. pc' = pc /\ dial' = dial /\ logins' = logins => Still
    BY DEF Holds
<1>5. ASSUME NEW s \in Sessions, Connect(s) PROVE Claims'
    <2>1. ASSUME NEW b, NEW u, Dialled(s, Credentials(b, NoToken, u)),
                 pc[s] = "free", UNCHANGED storeVars
          PROVE  Claims'
        <3>1. /\ pc' = [pc EXCEPT ![s] = "dialing"] /\ logins' = logins
              /\ dial' = [dial EXCEPT ![s] = Credentials(b, NoToken, u)]
              /\ Credentials(b, NoToken, u).invite = NoToken
            BY <2>1 DEF Dialled, Credentials
        <3>2. Still
            BY <2>1, <3>1 DEF Holds, TypeOK
        <3>3. QED
            BY <1>1, <1>2, <2>1, <3>2
    <2>2. CASE ConnectByPassword(s)
        BY <2>1, <2>2, FreshFields DEF ConnectByPassword, Commanded
    <2>3. ASSUME NEW u \in Names, NEW r \in ResumeTokens, ConnectByResume(s, u, r) PROVE Claims'
        BY <2>1, <2>3 DEF ConnectByResume, Commanded
    <2>4. QED
        BY <1>5, <2>2, <2>3, ClaimTaken DEF Connect
<1>6. ASSUME NEW s \in Sessions, MarkSynced(s) PROVE Claims'
    <2>1. \A o \in Sessions : dial'[o].invite = dial[o].invite
        <3>1. dial' = [dial EXCEPT ![s] = [dial[s] EXCEPT !.sync = "come"]] /\ dial[s] \in Dial
            BY <1>6 DEF MarkSynced, TypeOK
        <3>2. [dial[s] EXCEPT !.sync = "come"].invite = dial[s].invite
            BY <3>1, DialFields
        <3>3. QED
            BY <3>1, <3>2 DEF TypeOK
    <2>2. Still
        BY <1>6, <2>1 DEF MarkSynced, Holds
    <2>3. QED
        BY <1>1, <1>2, <1>6, <2>2 DEF MarkSynced
<1>7. ASSUME NEW s \in Sessions, IssueResume(s) PROVE Claims'
    <2>1. Still
        BY <1>7 DEF IssueResume, Holds, TypeOK
    <2>2. QED
        BY <1>1, <1>2, <1>7, <2>1 DEF IssueResume
<1>8. ASSUME NEW s \in Sessions, UserDisconnect(s) \/ SessionEnds(s) PROVE Claims'
    <2>1. Cleanup(s) /\ pc' = pc /\ dial' = dial /\ logins' = logins
        BY <1>8 DEF UserDisconnect, SessionEnds
    <2>2. QED
        BY <1>1, <1>3, <1>4, <2>1, CleanupTypes
<1>9. ASSUME NEW s \in Sessions, CreateInvite(s) PROVE Claims'
    <2>1. Still
        BY <1>9 DEF CreateInvite, Commanded, Holds, TypeOK
    <2>2. QED
        BY <1>1, <1>2, <1>9, <2>1 DEF CreateInvite
<1>10. ASSUME NEW s \in Sessions, StoreInvite(s) PROVE Claims'
    <2>1. Still
        BY <1>10 DEF StoreInvite, Holds, TypeOK
    <2>2. SameClaims
        <3>1. ASSUME NEW t \in Tokens, invites[t].life = "unborn",
                     invites' = [invites EXCEPT ![t] = draft[s]]
              PROVE  SameClaims
            BY <3>1 DEF TypeOK, DraftIsMembers, InStore
        <3>2. QED
            BY <1>2, <1>10, <3>1 DEF StoreInvite
    <2>3. QED
        BY <1>1, <2>1, <2>2
<1>11. ASSUME NEW t \in Tokens, BotCreates(t) PROVE Claims'
    <2>1. SameClaims
        BY <1>11, FreshFields DEF BotCreates, TypeOK, InStore
    <2>2. QED
        BY <1>1, <1>4, <1>11, <2>1 DEF BotCreates
<1>12. ASSUME AgedTable(invites'), pc' = pc, dial' = dial, logins' = logins PROVE Claims'
    BY <1>1, <1>3, <1>4, <1>12 DEF AgedTable
<1>13. ASSUME NEW t \in Tokens, Expire(t) PROVE Claims'
    BY <1>12, <1>13, AgedOk DEF Expire
<1>14. CASE Clean
    BY <1>12, <1>14, AgedOk DEF Clean
<1>15. ASSUME NEW s \in Sessions, BrowserGone(s) PROVE Claims'
    BY <1>1, <1>2, <1>4, <1>15 DEF BrowserGone
<1>16. ASSUME NEW r \in ResumeTokens, ExpireResume(r) PROVE Claims'
    BY <1>1, <1>2, <1>4, <1>16 DEF ExpireResume
<1>17. CASE UNCHANGED vars
    BY <1>1, <1>2, <1>4, <1>17 DEF vars
<1>18. QED
    BY <1>5, <1>6, <1>7, <1>8, <1>9, <1>10, <1>11, <1>13, <1>14, <1>15, <1>16, <1>17,
       ClaimReleased, ClaimUsed DEF Next, SessionNext, StoreNext

----------------------------------------------------------------------------
(* Makers.                                                                 *)

(* A step of the flags, or one that stores no invite.                      *)
LEMMA MakersKept ==
    ASSUME Makers, TypeOK,
           \A x \in Tokens :
              invites'[x].by = invites[x].by /\ invites'[x].password = invites[x].password
    PROVE  InvitesAreMembersOwn'
BY DEF Makers, InvitesAreMembersOwn

(* Who may invite typed the password, and what is stored was drafted so.   *)
LEMMA MakerStep ==
    ASSUME TypeOK, TypeOK', Makers, [Next]_vars
    PROVE  Makers'
<1> USE DEF storeVars, loopVars, sessionVars, historyVars
<1> DEFINE Same == \A x \in Tokens :
              invites'[x].by = invites[x].by /\ invites'[x].password = invites[x].password
      DraftsStay == draft' = draft /\ \A s \in Sessions : pc'[s] = "creating" => pc[s] = "creating"
      FlagsStay == flags' = flags /\ guest' = guest
<1>1. Same => InvitesAreMembersOwn'
    BY MakersKept
<1>2. DraftsStay => DraftIsMembers'
    BY DEF Makers, DraftIsMembers
<1>3. FlagsStay => FlagsKnowGuests'
    BY DEF Makers, FlagsKnowGuests
<1>4. (\A x \in Tokens : Aged(invites'[x], invites[x])) => Same
    BY DEF Aged
<1>5. ASSUME NEW s \in Sessions, Connect(s) PROVE Makers'
    <2>1. \E c : Dialled(s, c)
        BY <1>5 DEF Connect, ConnectByPassword, ConnectByInvite, ConnectByResume
    <2>2. DraftsStay /\ FlagsStay
        BY <2>1 DEF Dialled, TypeOK
    <2>3. Same
        <3>1. ASSUME NEW u \in Names, NEW t \in Tokens, ConnectByInvite(s, u, t) PROVE Same
            BY <3>1 DEF ConnectByInvite, TypeOK, Invite
        <3>2. QED
            BY <1>5, <3>1 DEF Connect, ConnectByPassword, ConnectByResume
    <2>4. QED
        BY <1>1, <1>2, <1>3, <2>2, <2>3 DEF Makers
<1>6. ASSUME NEW s \in Sessions, ConnectFails(s) PROVE Makers'
    <2>1. Same
        BY <1>6, ReleasedOk DEF ConnectFails
    <2>2. DraftsStay /\ FlagsStay
        BY <1>6 DEF ConnectFails, TypeOK
    <2>3. QED
        BY <1>1, <1>2, <1>3, <2>1, <2>2 DEF Makers
<1>7. ASSUME NEW s \in Sessions, MarkSynced(s) PROVE Makers'
    <2>1. Same /\ DraftsStay
        BY <1>7 DEF MarkSynced
    <2>2. FlagsKnowGuests'
        <3>1. CASE UNCHANGED <<flags, guest>>
            BY <1>3, <3>1
        <3>2. CASE /\ flags' = [flags EXCEPT ![s] = SyncedFlags(s)]
                   /\ guest' = [guest EXCEPT ![s] = guest[s] \/ dial[s].trusted]
            <4>1. /\ SyncedFlags(s).invited = (flags[s].invited \/ dial[s].trusted)
                  /\ ~dial[s].trusted => SyncedFlags(s).password = "typed"
                BY DEF SyncedFlags
            <4>2. guest[s] => flags[s].invited
                BY DEF Makers, FlagsKnowGuests
            <4>3. /\ guest'[s] => flags'[s].invited
                  /\ ~flags'[s].invited => flags'[s].password = "typed"
                BY <3>2, <4>1, <4>2 DEF TypeOK
            <4>4. QED
                BY <3>2, <4>3 DEF Makers, FlagsKnowGuests, TypeOK
        <3>3. QED
            BY <1>7, <3>1, <3>2 DEF MarkSynced
    <2>3. QED
        BY <1>1, <1>2, <2>1, <2>2 DEF Makers
<1>8. ASSUME NEW s \in Sessions, ConnectSucceeds(s) PROVE Makers'
    <2>1. Same /\ DraftsStay /\ FlagsStay
        BY <1>8 DEF ConnectSucceeds, TypeOK
    <2>2. QED
        BY <1>1, <1>2, <1>3, <2>1 DEF Makers
<1>9. ASSUME NEW s \in Sessions, IssueResume(s) PROVE Makers'
    <2>1. Same /\ DraftsStay /\ FlagsStay
        BY <1>9 DEF IssueResume, TypeOK
    <2>2. QED
        BY <1>1, <1>2, <1>3, <2>1 DEF Makers
<1>10. ASSUME NEW s \in Sessions, UserDisconnect(s) \/ SessionEnds(s) PROVE Makers'
    <2>1. Cleanup(s) /\ DraftsStay
        BY <1>10 DEF UserDisconnect, SessionEnds
    <2>2. Same
        BY <1>4, <2>1, CleanupTypes
    <2>3. FlagsKnowGuests'
        BY <2>1 DEF Cleanup, NoFlags, Makers, FlagsKnowGuests, TypeOK
    <2>4. QED
        BY <1>1, <1>2, <2>1, <2>2, <2>3 DEF Makers
<1>11. ASSUME NEW s \in Sessions, CreateInvite(s) PROVE Makers'
    <2>1. flags[s].password = "typed" /\ ~guest[s]
        BY <1>11 DEF CreateInvite, MayInvite, Makers, FlagsKnowGuests
    <2>2. draft' = [draft EXCEPT ![s] = NewInvite("member", "typed")]
        BY <1>11, <2>1 DEF CreateInvite
    <2>3. DraftIsMembers'
        BY <1>11, <2>2 DEF CreateInvite, NewInvite, Makers, DraftIsMembers, TypeOK
    <2>4. Same /\ FlagsStay
        BY <1>11 DEF CreateInvite
    <2>5. QED
        BY <1>1, <1>3, <2>3, <2>4 DEF Makers
<1>12. ASSUME NEW s \in Sessions, StoreInvite(s) PROVE Makers'
    <2>1. InvitesAreMembersOwn'
        <3>1. draft[s].by # "guest" /\ (draft[s].by = "member" => draft[s].password = "typed")
            BY DEF Makers, DraftIsMembers
        <3>2. ASSUME NEW t \in Tokens, invites' = [invites EXCEPT ![t] = draft[s]]
              PROVE  InvitesAreMembersOwn'
            BY <3>1, <3>2 DEF Makers, InvitesAreMembersOwn, TypeOK
        <3>3. QED
            BY <1>1, <1>12, <3>2 DEF StoreInvite
    <2>2. DraftIsMembers'
        BY <1>12, FreshFields DEF StoreInvite, Makers, DraftIsMembers, TypeOK
    <2>3. FlagsStay
        BY <1>12 DEF StoreInvite
    <2>4. QED
        BY <1>3, <2>1, <2>2, <2>3 DEF Makers
<1>13. ASSUME NEW t \in Tokens, BotCreates(t) PROVE Makers'
    <2>1. InvitesAreMembersOwn'
        BY <1>13 DEF BotCreates, NewInvite, Makers, InvitesAreMembersOwn, TypeOK
    <2>2. DraftsStay /\ FlagsStay
        BY <1>13 DEF BotCreates
    <2>3. QED
        BY <1>2, <1>3, <2>1, <2>2 DEF Makers
<1>14. ASSUME AgedTable(invites') \/ invites' = invites, UNCHANGED <<pc, draft, flags, guest>>
       PROVE  Makers'
    BY <1>1, <1>2, <1>3, <1>4, <1>14 DEF Makers, AgedTable
<1>15. ASSUME NEW t \in Tokens, Expire(t) PROVE Makers'
    BY <1>14, <1>15, AgedOk DEF Expire
<1>16. CASE Clean
    BY <1>14, <1>16, AgedOk DEF Clean
<1>17. ASSUME NEW s \in Sessions, BrowserGone(s) PROVE Makers'
    BY <1>14, <1>17 DEF BrowserGone
<1>18. ASSUME NEW r \in ResumeTokens, ExpireResume(r) PROVE Makers'
    BY <1>14, <1>18 DEF ExpireResume
<1>19. CASE UNCHANGED vars
    BY <1>14, <1>19 DEF vars
<1>20. QED
    BY <1>5, <1>6, <1>7, <1>8, <1>9, <1>10, <1>11, <1>12, <1>13, <1>15, <1>16, <1>17, <1>18, <1>19
       DEF Next, SessionNext, StoreNext

----------------------------------------------------------------------------
(* Names.                                                                  *)

(* Names that were let in stay on record, and every token issued or        *)
(* redeemed carries one of them.                                           *)
LEMMA NameStep ==
    ASSUME TypeOK, TypeOK', NamesKept, [Next]_vars
    PROVE  NamesKept'
<1> USE DEF storeVars, loopVars, sessionVars, historyVars
<1> DEFINE ResumeStays ==
        \A r \in ResumeTokens : resume'[r].name = resume[r].name /\
             (resume'[r].life = "unborn" <=> resume[r].life = "unborn")
      DialsStay == \A s \in Sessions :
             /\ dial'[s].trusted = dial[s].trusted /\ dial'[s].invite = dial[s].invite
             /\ dial'[s].name = dial[s].name
             /\ pc'[s] = "issuing" => pc[s] = "issuing"
<1>1. ResumeStays /\ invitedNames \subseteq invitedNames' => ResumeKeepsName'
    BY DEF NamesKept, ResumeKeepsName
<1>2. ResumeStays /\ resumeToken' = resumeToken => RevocableWasIssued'
    BY DEF NamesKept, RevocableWasIssued, TypeOK
<1>3. DialsStay /\ invitedNames \subseteq invitedNames' => TrustedNameIsInvited'
    BY DEF NamesKept, TrustedNameIsInvited
<1>4. ASSUME NEW s \in Sessions, Connect(s) PROVE NamesKept'
    <2>1. ASSUME NEW b, NEW t, NEW u, Dialled(s, Credentials(b, t, u)), resume' = resume,
                 b /\ t = NoToken => u \in invitedNames
          PROVE  NamesKept'
        <3>1. /\ pc' = [pc EXCEPT ![s] = "dialing"]
              /\ dial' = [dial EXCEPT ![s] = Credentials(b, t, u)]
              /\ invitedNames' = invitedNames /\ resumeToken' = resumeToken
            BY <2>1 DEF Dialled
        <3>2. /\ Credentials(b, t, u).trusted = b /\ Credentials(b, t, u).invite = t
              /\ Credentials(b, t, u).name = u
            BY DEF Credentials
        <3>3. TrustedNameIsInvited'
            BY <2>1, <3>1, <3>2 DEF NamesKept, TrustedNameIsInvited, TypeOK
        <3>4. QED
            BY <1>2, <1>1, <2>1, <3>1, <3>3 DEF NamesKept
    <2>2. CASE ConnectByPassword(s)
        BY <2>1, <2>2 DEF ConnectByPassword
    <2>3. ASSUME NEW u \in Names, NEW t \in Tokens, ConnectByInvite(s, u, t) PROVE NamesKept'
        BY <2>1, <2>3 DEF ConnectByInvite
    <2>4. ASSUME NEW u \in Names, NEW r \in ResumeTokens, ConnectByResume(s, u, r) PROVE NamesKept'
        <3>1. u \in invitedNames
            BY <2>4 DEF ConnectByResume, Redeemable, NamesKept, ResumeKeepsName
        <3>2. QED
            BY <2>1, <2>4, <3>1 DEF ConnectByResume, Redeemable
    <2>5. QED
        BY <1>4, <2>2, <2>3, <2>4 DEF Connect
<1>5. ASSUME NEW s \in Sessions, MarkSynced(s) PROVE NamesKept'
    <2>1. dial' = [dial EXCEPT ![s] = [dial[s] EXCEPT !.sync = "come"]] /\ dial[s] \in Dial
        BY <1>5 DEF MarkSynced, TypeOK
    <2>2. DialsStay
        <3> DEFINE come == [dial[s] EXCEPT !.sync = "come"]
        <3>1. come.trusted = dial[s].trusted /\ come.invite = dial[s].invite /\ come.name = dial[s].name
            BY <2>1, DialFields
        <3>2. dial' = [dial EXCEPT ![s] = come]
            BY <2>1
        <3> HIDE DEF come
        <3>3. QED
            BY <1>5, <3>1, <3>2 DEF MarkSynced, TypeOK
    <2>3. QED
        BY <1>2, <1>1, <1>3, <1>5, <2>2 DEF MarkSynced, NamesKept
<1>6. ASSUME NEW s \in Sessions, ConnectSucceeds(s) PROVE NamesKept'
    <2>1. /\ pc' = [pc EXCEPT ![s] = IF dial[s].trusted THEN "issuing" ELSE "free"]
          /\ dial' = dial /\ resume' = resume /\ resumeToken' = resumeToken
          /\ invitedNames' = IF dial[s].invite = NoToken THEN invitedNames
                             ELSE invitedNames \cup {dial[s].name}
        BY <1>6 DEF ConnectSucceeds
    <2>2. dial[s].trusted => dial[s].name \in invitedNames'
        BY <2>1 DEF NamesKept, TrustedNameIsInvited
    <2>3. TrustedNameIsInvited'
        BY <2>1, <2>2 DEF NamesKept, TrustedNameIsInvited, TypeOK
    <2>4. QED
        BY <1>2, <1>1, <2>1, <2>3 DEF NamesKept
<1>7. ASSUME NEW s \in Sessions, IssueResume(s) PROVE NamesKept'
    <2>1. DialsStay /\ invitedNames' = invitedNames
        BY <1>7 DEF IssueResume, TypeOK
    <2>2. ResumeKeepsName' /\ RevocableWasIssued'
        <3>1. dial[s].name \in invitedNames
            BY <1>7 DEF IssueResume, NamesKept, TrustedNameIsInvited
        <3>2. ASSUME NEW r \in ResumeTokens,
                     resume' = [resume EXCEPT ![r] = [life |-> "valid", name |-> dial[s].name]],
                     resumeToken' = [resumeToken EXCEPT ![s] = r]
              PROVE  ResumeKeepsName' /\ RevocableWasIssued'
            <4>1. ResumeKeepsName'
                BY <2>1, <3>1, <3>2 DEF NamesKept, ResumeKeepsName, TypeOK
            <4>2. RevocableWasIssued'
                BY <3>2 DEF NamesKept, RevocableWasIssued, TypeOK
            <4>3. QED
                BY <4>1, <4>2
        <3>3. CASE UNCHANGED <<resume, resumeToken>>
            BY <1>2, <1>1, <2>1, <3>3
        <3>4. QED
            BY <1>7, <3>2, <3>3 DEF IssueResume
    <2>3. QED
        BY <1>3, <2>1, <2>2 DEF NamesKept
<1>8. ASSUME NEW s \in Sessions, UserDisconnect(s) PROVE NamesKept'
    <2>1. DialsStay /\ invitedNames' = invitedNames
        BY <1>8 DEF UserDisconnect
    <2>2. /\ resume' = RevokedResume(resumeToken[s])
          /\ resumeToken' = [resumeToken EXCEPT ![s] = NoToken]
        BY <1>8 DEF UserDisconnect
    <2>3. ResumeStays
        <3>1. resumeToken[s] \in ResumeTokens => resume[resumeToken[s]].life # "unborn"
            BY DEF NamesKept, RevocableWasIssued
        <3>2. QED
            BY <2>2, <3>1 DEF RevokedResume, TypeOK
    <2>4. RevocableWasIssued'
        BY <2>2, <2>3 DEF NamesKept, RevocableWasIssued, TypeOK
    <2>5. QED
        BY <1>1, <1>3, <2>1, <2>3, <2>4 DEF NamesKept
<1>9. ASSUME UNCHANGED <<pc, dial, invitedNames, resumeToken>>, ResumeStays PROVE NamesKept'
    BY <1>2, <1>1, <1>3, <1>9 DEF NamesKept
<1>10. ASSUME NEW s \in Sessions, ConnectFails(s) \/ CreateInvite(s) \/ StoreInvite(s)
       PROVE  NamesKept'
    <2>1. ResumeStays /\ DialsStay /\ invitedNames' = invitedNames /\ resumeToken' = resumeToken
        BY <1>10 DEF ConnectFails, CreateInvite, StoreInvite, TypeOK
    <2>2. QED
        BY <1>2, <1>1, <1>3, <2>1 DEF NamesKept
<1>11. ASSUME NEW s \in Sessions, SessionEnds(s) \/ BrowserGone(s) PROVE NamesKept'
    BY <1>9, <1>11 DEF SessionEnds, BrowserGone
<1>12. ASSUME NEW t \in Tokens, BotCreates(t) \/ Expire(t) PROVE NamesKept'
    BY <1>9, <1>12 DEF BotCreates, Expire
<1>13. ASSUME NEW r \in ResumeTokens, ExpireResume(r) PROVE NamesKept'
    <2>1. ResumeStays
        BY <1>13 DEF ExpireResume, TypeOK
    <2>2. QED
        BY <1>9, <1>13, <2>1 DEF ExpireResume
<1>14. CASE Clean
    <2>1. ResumeStays
        BY <1>14 DEF Clean, Swept, TypeOK
    <2>2. QED
        BY <1>9, <1>14, <2>1 DEF Clean
<1>15. CASE UNCHANGED vars
    BY <1>9, <1>15 DEF vars
<1>16. QED
    BY <1>4, <1>5, <1>6, <1>7, <1>8, <1>10, <1>11, <1>12, <1>13, <1>14, <1>15
       DEF Next, SessionNext, StoreNext

----------------------------------------------------------------------------

(* The invariant holds always.                                             *)
LEMMA Invariance == Spec => []IInv
<1>1. IInv /\ [Next]_vars => IInv'
    <2> SUFFICES ASSUME IInv, [Next]_vars PROVE IInv'
        OBVIOUS
    <2>1. TypeOK'
        BY TypeStep DEF IInv, Makers
    <2>2. QED
        BY <2>1, ClaimStep, MakerStep, NameStep DEF IInv, Makers
<1>2. QED
    BY <1>1, InitInv, PTL DEF Spec

(* The store, the sessions' fields and the read loops keep their types,    *)
(* and only a token that was handed out is ever claimed (store.go).        *)
THEOREM TypeCorrect == Spec => []TypeOK
<1>1. IInv => TypeOK
    BY DEF IInv
<1>2. QED
    BY <1>1, Invariance, PTL

(* However claims, failed dials, cleanups, deletions and expiry interleave *)
(* an invite lets at most one login in (store.go, Claim and Release).      *)
THEOREM OneLoginPerInvite == Spec => []InviteLogsInOnce
<1>1. IInv => InviteLogsInOnce
    BY DEF IInv, Claims
<1>2. QED
    BY <1>1, Invariance, PTL

(* No claim is orphaned: a claimed invite that let nobody in is in the     *)
(* hands of exactly one dial (connectMumble's releases).                   *)
THEOREM ClaimsHaveDials == Spec => []ClaimHasDial
<1>1. IInv => ClaimHasDial
    BY DEF IInv, Claims
<1>2. QED
    BY <1>1, Invariance, PTL

(* Guests do not invite, also when they lost their flags between the two   *)
(* halves of createInvite, and web invites carry typed passwords.          *)
THEOREM MembersInvite == Spec => []InvitesAreMembersOwn
<1>1. IInv => InvitesAreMembersOwn
    BY DEF IInv, Makers
<1>2. QED
    BY <1>1, Invariance, PTL

(* A resume token names someone whom an invite once let in, through any    *)
(* chain of resumed sessions (handleConnect, IssueResume).                 *)
THEOREM ResumedNames == Spec => []ResumeKeepsName
<1>1. IInv => ResumeKeepsName
    BY DEF IInv, NamesKept
<1>2. QED
    BY <1>1, Invariance, PTL
=============================================================================
