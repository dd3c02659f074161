---------------------------- MODULE InviteSession ----------------------------
(***************************************************************************)
(* One-time invites and resume tokens: the store of server/internal/       *)
(* invite/store.go, and how the sessions of session.go claim, release,     *)
(* void, issue, redeem and revoke what it holds.                           *)
(*                                                                         *)
(* A session's read loop runs its commands one after the other and is      *)
(* inside connectMumble for the whole dial; markSynced (OnConnect) and     *)
(* cleanup come from other goroutines.  A socket may send several connect  *)
(* commands: handleConnect does not mind, and the invited flag is there    *)
(* for that case.  Time is abstract: a token may expire at any moment.     *)
(***************************************************************************)
EXTENDS Naturals, FiniteSets

CONSTANTS
    Sessions,
    Tokens,        \* invite tokens, random and never drawn twice
    ResumeTokens,  \* resume tokens, likewise
    Names,         \* user names
    MaxConnects,   \* bound on the connect commands of all sessions
    NoToken        \* the empty token

ASSUME InviteAssumption ==
    /\ NoToken \notin Tokens \cup ResumeTokens
    /\ Names # {}
    /\ MaxConnects \in Nat

VARIABLES
    invites,      \* Store.m
    resume,       \* Store.resume
    pc,           \* the read loop: "free", "dialing", "issuing", "creating"
    dial,         \* the last connect: its credentials, and how far it synced
    connects,     \* how many connect commands there have been
    draft,        \* what handleCreateInvite read before it let go of s.mu
    done,         \* cleanup has run
    inviteToken,  \* Session.inviteToken
    resumeToken,  \* Session.resumeToken
    flags,        \* synced, invited and serverPassword
    ws,           \* the browser: "open" or "gone"
    logins,       \* history: how many logins succeeded with the invite
    guest,        \* history: the session was synced as a guest
    invitedNames  \* history: names that logged in with an invite

storeVars == <<invites, resume>>
loopVars == <<pc, dial, connects, draft>>
sessionVars == <<done, inviteToken, resumeToken, flags>>
historyVars == <<logins, guest, invitedNames>>
vars == <<storeVars, loopVars, sessionVars, ws, historyVars>>

----------------------------------------------------------------------------
(* The store.  Creators are only recorded for the properties.              *)

Lives == {"unborn", "valid", "expired", "deleted"}

(* What a password is: typed by the user, kept by the store, or absent.    *)
Passwords == {"none", "typed", "stored"}

NewInvite(who, pw) ==
    [life |-> "valid", claimed |-> FALSE, by |-> who, password |-> pw]

(* Broken forms, which the properties must tell from the real ones.        *)
ClaimableTwice(t) == invites[t].life = "valid"
ClaimableUnknown(t) == invites[t].life # "expired" /\ ~invites[t].claimed
NotReleased(t) == invites

Claimable(t) == invites[t].life = "valid" /\ ~invites[t].claimed

InStore(t) == invites[t].life \in {"valid", "expired"}

Redeemable(r, u) == resume[r].life = "valid" /\ resume[r].name = u

(* Release: the record is still there, claimed no more.                    *)
ReleasedInvites(t) ==
    IF t \in Tokens /\ InStore(t)
    THEN [invites EXCEPT ![t].claimed = FALSE]
    ELSE invites

DeletedInvites(t) ==
    IF t \in Tokens /\ InStore(t)
    THEN [invites EXCEPT ![t].life = "deleted"]
    ELSE invites

RevokedResume(r) ==
    IF r \in ResumeTokens THEN [resume EXCEPT ![r].life = "deleted"] ELSE resume

----------------------------------------------------------------------------

NoFlags == [synced |-> FALSE, invited |-> FALSE, password |-> "none"]

AnyName == CHOOSE n \in Names : TRUE

(* The credentials of a connect: trusted when they come from the store.    *)
Credentials(trusted, t, u) ==
    [trusted |-> trusted, invite |-> t, name |-> u, sync |-> "awaited"]

NoDraft == NewInvite("bot", "none")

NoDial == [Credentials(FALSE, NoToken, AnyName) EXCEPT !.sync = "idle"]

Init ==
    /\ invites = [t \in Tokens |-> [NoDraft EXCEPT !.life = "unborn"]]
    /\ resume = [r \in ResumeTokens |-> [life |-> "unborn", name |-> AnyName]]
    /\ pc = [s \in Sessions |-> "free"]
    /\ dial = [s \in Sessions |-> NoDial]
    /\ connects = 0
    /\ draft = [s \in Sessions |-> NoDraft]
    /\ done = [s \in Sessions |-> FALSE]
    /\ inviteToken = [s \in Sessions |-> NoToken]
    /\ resumeToken = [s \in Sessions |-> NoToken]
    /\ flags = [s \in Sessions |-> NoFlags]
    /\ ws = [s \in Sessions |-> "open"]
    /\ logins = [t \in Tokens |-> 0]
    /\ guest = [s \in Sessions |-> FALSE]
    /\ invitedNames = {}

----------------------------------------------------------------------------
(* The connect command (handleConnect and connectMumble).                  *)

Commanded(s) == pc[s] = "free" /\ ws[s] # "gone"

Dialled(s, credentials) ==
    /\ connects < MaxConnects
    /\ connects' = connects + 1
    /\ pc' = [pc EXCEPT ![s] = "dialing"]
    /\ dial' = [dial EXCEPT ![s] = credentials]
    /\ UNCHANGED <<draft, sessionVars, ws, historyVars>>

(* The name of a member plays no part here.                                *)
ConnectByPassword(s) ==
    /\ Commanded(s)
    /\ Dialled(s, Credentials(FALSE, NoToken, AnyName))
    /\ UNCHANGED storeVars

(* Claim; a token that cannot be claimed is rejected and changes nothing.  *)
ConnectByInvite(s, u, t) ==
    /\ Commanded(s) /\ Claimable(t)
    /\ invites' = [invites EXCEPT ![t].claimed = TRUE]
    /\ Dialled(s, Credentials(TRUE, t, u))
    /\ UNCHANGED resume

(* A broken resume that goes by the token alone and takes the name asked   *)
(* for.                                                                    *)
ConnectByAnyResume(s, u, r) ==
    /\ Commanded(s) /\ resume[r].life = "valid"
    /\ Dialled(s, Credentials(TRUE, NoToken, u))
    /\ UNCHANGED storeVars

(* RedeemResume looks at the name asked for; the record's is used.         *)
ConnectByResume(s, u, r) ==
    /\ Commanded(s) /\ Redeemable(r, u)
    /\ Dialled(s, Credentials(TRUE, NoToken, resume[r].name))
    /\ UNCHANGED storeVars

(* connectMumble gives up: server override denied, address unresolved,     *)
(* nickname in use, no WebRTC peer, or a failed dial, which includes one   *)
(* that timed out after its ServerSync.                                    *)
ConnectFails(s) ==
    /\ pc[s] = "dialing"
    /\ invites' = ReleasedInvites(dial[s].invite)
    /\ pc' = [pc EXCEPT ![s] = "free"]
    /\ UNCHANGED <<resume, dial, connects, draft, sessionVars, ws, historyVars>>

(* A broken markSynced that forgets an earlier login as a guest.           *)
SyncedAnew(s) ==
    [synced   |-> TRUE,
     invited  |-> dial[s].trusted,
     password |-> IF dial[s].trusted THEN "stored" ELSE "typed"]

SyncedFlags(s) ==
    [synced   |-> TRUE,
     invited  |-> flags[s].invited \/ dial[s].trusted,
     password |-> IF dial[s].trusted THEN "stored" ELSE "typed"]

(* OnConnect, on the upstream's goroutine: markSynced looks neither at     *)
(* done nor at whether the dial has been given up meanwhile, and a server  *)
(* that does not tell us who we are gets no markSynced.  (The late sync of *)
(* an abandoned dial is forgotten when the next dial begins.)              *)
MarkSynced(s) ==
    /\ dial[s].sync = "awaited"
    /\ dial' = [dial EXCEPT ![s].sync = "come"]
    /\ \/ /\ flags' = [flags EXCEPT ![s] = SyncedFlags(s)]
          /\ guest' = [guest EXCEPT ![s] = @ \/ dial[s].trusted]
       \/ UNCHANGED <<flags, guest>>
    /\ UNCHANGED <<storeVars, pc, connects, draft, done, inviteToken, resumeToken,
                   ws, logins, invitedNames>>

(* The dial returned a client: the session keeps the invite to void it.    *)
ConnectSucceeds(s) ==
    LET t == dial[s].invite
    IN  /\ pc[s] = "dialing" /\ dial[s].sync = "come"
        /\ inviteToken' = [inviteToken EXCEPT ![s] = t]
        /\ pc' = [pc EXCEPT ![s] = IF dial[s].trusted THEN "issuing" ELSE "free"]
        /\ logins' = [x \in Tokens |-> IF x = t THEN logins[x] + 1 ELSE logins[x]]
        /\ invitedNames' = IF t = NoToken THEN invitedNames
                           ELSE invitedNames \cup {dial[s].name}
        /\ UNCHANGED <<storeVars, dial, connects, draft, done, resumeToken, flags, ws, guest>>

(* A guest is issued a resume token, unless no randomness can be had.      *)
IssueResume(s) ==
    /\ pc[s] = "issuing"
    /\ \/ \E r \in ResumeTokens :
             /\ resume[r].life = "unborn"
             /\ resume' = [resume EXCEPT ![r] = [life |-> "valid", name |-> dial[s].name]]
             /\ resumeToken' = [resumeToken EXCEPT ![s] = r]
       \/ UNCHANGED <<resume, resumeToken>>
    /\ pc' = [pc EXCEPT ![s] = "free"]
    /\ UNCHANGED <<invites, dial, connects, draft, done, inviteToken, flags, ws, historyVars>>

----------------------------------------------------------------------------
(* The end of a session.                                                   *)

(* cleanup: voids the session's invite and forgets its login.              *)
Cleanup(s) ==
    /\ done' = [done EXCEPT ![s] = TRUE]
    /\ IF done[s]
       THEN UNCHANGED <<invites, inviteToken, flags, guest>>
       ELSE /\ invites' = DeletedInvites(inviteToken[s])
            /\ inviteToken' = [inviteToken EXCEPT ![s] = NoToken]
            /\ flags' = [flags EXCEPT ![s] = NoFlags]
            /\ guest' = [guest EXCEPT ![s] = FALSE]

(* The disconnect command: the user leaves for good.                       *)
UserDisconnect(s) ==
    /\ Commanded(s)
    /\ resume' = RevokedResume(resumeToken[s])
    /\ resumeToken' = [resumeToken EXCEPT ![s] = NoToken]
    /\ Cleanup(s)
    /\ UNCHANGED <<loopVars, ws, logins, invitedNames>>

(* Every other way to end: a failed read or write once the browser is      *)
(* gone, OnDisconnect and endWith once the upstream had synced.            *)
SessionEnds(s) ==
    /\ ~done[s]
    /\ ws[s] = "gone" \/ flags[s].synced \/ dial[s].sync = "come"
    /\ Cleanup(s)
    /\ UNCHANGED <<resume, loopVars, resumeToken, ws, logins, invitedNames>>

BrowserGone(s) ==
    /\ ws[s] = "open"
    /\ ws' = [ws EXCEPT ![s] = "gone"]
    /\ UNCHANGED <<storeVars, loopVars, sessionVars, historyVars>>

----------------------------------------------------------------------------
(* Creating invites.                                                       *)

MayInvite(s) == flags[s].synced /\ ~flags[s].invited

(* createInvite: the flags and the password are read under the lock ...    *)
CreateInvite(s) ==
    /\ Commanded(s) /\ MayInvite(s)
    /\ draft' = [draft EXCEPT ![s] =
            NewInvite(IF guest[s] THEN "guest" ELSE "member", flags[s].password)]
    /\ pc' = [pc EXCEPT ![s] = "creating"]
    /\ UNCHANGED <<storeVars, dial, connects, sessionVars, ws, historyVars>>

(* ... and the invite is made after it is released, unless there is no     *)
(* randomness or no link for it.                                           *)
StoreInvite(s) ==
    /\ pc[s] = "creating"
    /\ \/ \E t \in Tokens :
             /\ invites[t].life = "unborn"
             /\ invites' = [invites EXCEPT ![t] = draft[s]]
       \/ UNCHANGED invites
    /\ pc' = [pc EXCEPT ![s] = "free"]
    /\ draft' = [draft EXCEPT ![s] = NoDraft]
    /\ UNCHANGED <<resume, dial, connects, sessionVars, ws, historyVars>>

(* POST /api/invites by the bot.                                           *)
BotCreates(t) ==
    /\ invites[t].life = "unborn"
    /\ invites' = [invites EXCEPT ![t] = NewInvite("bot", "stored")]
    /\ UNCHANGED <<resume, loopVars, sessionVars, ws, historyVars>>

----------------------------------------------------------------------------
(* Time.                                                                   *)

Expire(t) ==
    /\ invites[t].life = "valid"
    /\ invites' = [invites EXCEPT ![t].life = "expired"]
    /\ UNCHANGED <<resume, loopVars, sessionVars, ws, historyVars>>

ExpireResume(r) ==
    /\ resume[r].life = "valid"
    /\ resume' = [resume EXCEPT ![r].life = "expired"]
    /\ UNCHANGED <<invites, loopVars, sessionVars, ws, historyVars>>

(* The cleaner's tick deletes all that is expired.                         *)
Swept(table) ==
    [x \in DOMAIN table |->
        IF table[x].life = "expired" THEN [table[x] EXCEPT !.life = "deleted"] ELSE table[x]]

Clean ==
    /\ invites' = Swept(invites)
    /\ resume' = Swept(resume)
    /\ UNCHANGED <<loopVars, sessionVars, ws, historyVars>>

----------------------------------------------------------------------------

Connect(s) ==
    \/ ConnectByPassword(s)
    \/ \E u \in Names :
          \/ \E t \in Tokens : ConnectByInvite(s, u, t)
          \/ \E r \in ResumeTokens : ConnectByResume(s, u, r)

SessionNext(s) ==
    \/ Connect(s) \/ ConnectFails(s) \/ MarkSynced(s) \/ ConnectSucceeds(s)
    \/ IssueResume(s)
    \/ UserDisconnect(s) \/ SessionEnds(s) \/ BrowserGone(s)
    \/ CreateInvite(s) \/ StoreInvite(s)

StoreNext ==
    \/ \E t \in Tokens : BotCreates(t) \/ Expire(t)
    \/ \E r \in ResumeTokens : ExpireResume(r)
    \/ Clean

Next == StoreNext \/ \E s \in Sessions : SessionNext(s)

Spec == Init /\ [][Next]_vars

----------------------------------------------------------------------------

Invite ==
    [life : Lives, claimed : BOOLEAN, by : {"bot", "member", "guest"}, password : Passwords]

Dial ==
    [trusted : BOOLEAN, invite : Tokens \cup {NoToken}, name : Names,
     sync : {"idle", "awaited", "come"}]

(* Type invariant; only a token that was handed out is ever claimed.       *)
TypeOK ==
    /\ \A t \in Tokens : invites[t].claimed => invites[t].life # "unborn"
    /\ invites \in [Tokens -> Invite]
    /\ resume \in [ResumeTokens -> [life : Lives, name : Names]]
    /\ pc \in [Sessions -> {"free", "dialing", "issuing", "creating"}]
    /\ dial \in [Sessions -> Dial]
    /\ connects \in 0 .. MaxConnects
    /\ draft \in [Sessions -> Invite]
    /\ done \in [Sessions -> BOOLEAN]
    /\ inviteToken \in [Sessions -> Tokens \cup {NoToken}]
    /\ resumeToken \in [Sessions -> ResumeTokens \cup {NoToken}]
    /\ flags \in [Sessions -> [synced : BOOLEAN, invited : BOOLEAN, password : Passwords]]
    /\ ws \in [Sessions -> {"open", "gone"}]
    /\ logins \in [Tokens -> Nat]
    /\ guest \in [Sessions -> BOOLEAN]
    /\ invitedNames \in SUBSET Names

(* An invite lets one login in, however claims, failed dials, cleanups and *)
(* expiry interleave (store.go, Claim and Release).  A login counts when   *)
(* its dial has returned to connectMumble.                                 *)
InviteLogsInOnce == \A t \in Tokens : logins[t] <= 1

(* A claim is never orphaned: an invite is in the hands of one dial at a   *)
(* time, and one that is taken but has not let anyone in is held by a dial *)
(* that will use it or give it back.                                       *)
Holds(s, t) == pc[s] = "dialing" /\ dial[s].invite = t

(* connectMumble gives every claim back that it does not use.              *)
ClaimHasDial ==
    \A t \in Tokens :
        /\ \A s, o \in Sessions : Holds(s, t) /\ Holds(o, t) => s = o
        /\ InStore(t) /\ invites[t].claimed /\ logins[t] = 0 =>
              \E s \in Sessions : Holds(s, t)

(* Guests do not invite, and an invite made on the web carries a password  *)
(* its maker typed, never one that came out of the store.                  *)
InvitesAreMembersOwn ==
    \A t \in Tokens :
        /\ invites[t].by # "guest"
        /\ invites[t].by = "member" => invites[t].password = "typed"

(* Resuming cannot change the name: whoever holds a resume token logs in   *)
(* under a name that an invite once let in.                                *)
ResumeKeepsName ==
    \A r \in ResumeTokens :
        resume[r].life # "unborn" => resume[r].name \in invitedNames
=============================================================================
