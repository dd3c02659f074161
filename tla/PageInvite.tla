----------------------------- MODULE PageInvite -----------------------------
(***************************************************************************)
(* Invitations on the page: a member's request for a link and its dialog   *)
(* (src/src/store/appStore.ts, components/InviteDialog.tsx), and a guest's *)
(* way in and back in through a link: the forms and screens shown in each  *)
(* connection state (pages/InvitePage.tsx, components/ConnectScreen.tsx,   *)
(* components/SessionEnded.tsx, App.tsx) and the credential that           *)
(* buildConnectEnvelope replays.                                           *)
(*                                                                         *)
(* An invite lets one login in; a resume token arrives after synced, holds *)
(* for five minutes, and is revoked by a goodbye.                          *)
(*                                                                         *)
(* Left out: the texts of links and errors, and when the connection drops  *)
(* (WebClient).                                                            *)
(***************************************************************************)
EXTENDS Naturals, Sequences

CONSTANT MaxTries   \* bound: things the user does or that go wrong

ASSUME TriesAssumption == MaxTries \in Nat

VARIABLES
  conn,     \* the store's connState
  page,     \* the route, the invite's check, the store's credentials
  form,     \* ConnectScreen's fields
  invite,   \* the store's invite request
  dialog,   \* AppShell's inviteOpen
  asked,    \* requests under way at the proxy, oldest first
  spent,    \* the guest's invite has let someone in
  trail,    \* history the properties speak of
  tries

inviteVars == <<conn, page, form, invite, dialog, asked, spent, trail, tries>>

Idle == [status |-> "idle", link |-> 0, pending |-> FALSE, timer |-> FALSE]

InviteInit ==
  /\ conn = "idle"
  /\ page \in [route : {"home", "invite"}, check : {"checking"}, token : {FALSE},
               creds : {FALSE}, resume : {"none"}, issued : {FALSE}]
  /\ form = [name |-> FALSE, host |-> "", port |-> "ok", prefill |-> page.route = "home"]
  /\ invite = Idle /\ dialog = FALSE /\ asked = <<>> /\ spent = FALSE /\ tries = 0
  /\ trail = [latest |-> 0, abandoned |-> FALSE, resubmitted |-> FALSE, early |-> FALSE,
              stolen |-> FALSE, void |-> FALSE, refused |-> FALSE]

Tries == tries < MaxTries /\ tries' = tries + 1
Guest == page.route = "invite"

------------------------------------------------------------------------------
(* Screens *)

\* HomeFlow
HomeFlow ==
  CASE conn = "ended" -> "ended"
    [] conn \in {"idle", "failed", "connecting"} -> "connect"
    [] conn = "connected" -> "loading"
    [] OTHER -> "main"

\* InvitePage: unlike HomeFlow it shows the form while reconnecting.
InvitePage ==
  CASE conn = "ended" -> "ended"
    [] conn # "ended" /\ page.token /\ conn = "ready" -> "main"
    [] conn # "ended" /\ page.token /\ conn = "connected" -> "loading"
    [] conn # "ended" /\ page.token /\ conn \notin {"idle", "ready", "connected"} -> "connect"
    [] OTHER -> IF page.check = "valid" THEN "connect" ELSE page.check

Screen == IF Guest THEN InvitePage ELSE HomeFlow

------------------------------------------------------------------------------
(* The invite request *)

\* connect's reset, if it left the dialog's status to the next answer.
AbandonedSilently == invite' = [invite EXCEPT !.pending = FALSE, !.timer = FALSE]

\* connect, retryAfterEnd, disconnect, endSession, resetInvite.
Abandoned == invite' = Idle

\* What the history keeps of a request that is given up before its answer.
GivenUp(t) == [t EXCEPT !.abandoned = @ \/ invite.pending]

\* failInvite
FailInvite ==
  invite' = IF invite.pending
            THEN [status |-> "error", link |-> 0, pending |-> FALSE, timer |-> FALSE]
            ELSE invite

\* createInvite: refused at once, or sent. open: the WebSocket is.
CreateInvite(open) ==
  IF invite.pending THEN UNCHANGED <<invite, asked, trail>>
  ELSE IF conn # "ready" \/ Guest \/ ~open
  THEN /\ invite' = [invite EXCEPT !.status = "error", !.link = 0]
       /\ UNCHANGED <<asked, trail>>
  ELSE /\ invite' = [status |-> "loading", link |-> 0, pending |-> TRUE, timer |-> TRUE]
       /\ asked' = Append(asked, trail.latest + 1)
       /\ trail' = [trail EXCEPT !.latest = @ + 1]

\* TopBar's button, shown to members who are connected, opens and asks at once.
OpenInvite ==
  /\ Screen = "main" /\ conn = "ready" /\ ~page.token /\ ~dialog /\ Tries
  /\ dialog' = TRUE
  /\ \E open \in BOOLEAN : CreateInvite(open)
  /\ UNCHANGED <<conn, page, form, spent>>

\* InviteDialog's one button: generate, or try again; disabled while loading.
InviteDialog ==
  /\ dialog /\ Screen = "main" /\ invite.status \in {"idle", "error"} /\ Tries
  /\ \E open \in BOOLEAN : CreateInvite(open)
  /\ UNCHANGED <<conn, page, form, dialog, spent>>

CloseInvite ==
  /\ dialog /\ Tries /\ dialog' = FALSE
  /\ Abandoned /\ trail' = GivenUp(trail)
  /\ UNCHANGED <<conn, page, form, asked, spent>>

\* The timeout of ten seconds.
InviteTimeout ==
  /\ invite.timer /\ Tries
  /\ trail' = GivenUp(trail) /\ FailInvite
  /\ UNCHANGED <<conn, page, form, dialog, asked, spent>>

\* invite and inviteError answer whatever request is pending.
InviteAnswered ==
  /\ asked # <<>> /\ asked' = Tail(asked)
  /\ \/ invite' = IF invite.pending
                  THEN [status |-> "ready", link |-> Head(asked), pending |-> FALSE, timer |-> FALSE]
                  ELSE invite
     \/ FailInvite
  /\ UNCHANGED <<conn, page, form, dialog, spent, trail, tries>>

------------------------------------------------------------------------------
(* Getting in *)

\* InvitePage's fetch: the invite can still be claimed, or not, or no answer.
Checked ==
  /\ Guest /\ page.check = "checking"
  /\ \/ page' = [page EXCEPT !.check = IF spent THEN "invalid" ELSE "valid"]
     \/ page' = [page EXCEPT !.check = "invalid"]
  /\ UNCHANGED <<conn, form, invite, dialog, asked, spent, trail, tries>>

\* ConnectScreen's fetch of the default server puts it into the form whatever
\* was typed meanwhile.
Prefilled ==
  /\ form.prefill /\ ~Guest
  /\ form' \in {[form EXCEPT !.prefill = FALSE],
                [form EXCEPT !.prefill = FALSE, !.host = "default", !.port = "ok"]}
  /\ UNCHANGED <<conn, page, invite, dialog, asked, spent, trail, tries>>

Types ==
  /\ Screen = "connect"
  /\ \/ form' = [form EXCEPT !.name = ~@]
     \/ ~Guest /\ form' = [form EXCEPT !.host = "typed"]
     \/ ~Guest /\ form' \in {[form EXCEPT !.port = p] : p \in {"ok", "invalid"}}
  /\ UNCHANGED <<conn, page, invite, dialog, asked, spent, trail, tries>>

\* ConnectScreen: what the submit button and the form's handler allow.
CanSubmit ==
  /\ Screen = "connect" /\ form.name
  /\ conn \notin {"connecting", "connected"} /\ form.port = "ok"

\* connect: the resume token of an earlier session is forgotten.
SubmitForm ==
  /\ CanSubmit /\ Tries
  /\ conn' = "connecting"
  /\ page' = [page EXCEPT !.token = Guest, !.creds = TRUE, !.resume = "none", !.issued = FALSE]
  /\ Abandoned
  /\ trail' = [GivenUp(trail) EXCEPT !.resubmitted = @ \/ (Guest /\ spent)]
  /\ UNCHANGED <<form, dialog, asked, spent>>

\* buildConnectEnvelope as if the invite always went along.
ReplayedInvite == IF ~Guest THEN "password" ELSE "invite"

\* buildConnectEnvelope: the resume token before the invite.
Replayed ==
  CASE page.resume # "none" -> "resume"
    [] page.resume = "none" /\ Guest -> "invite"
    [] OTHER -> "password"

Acceptable ==
  CASE Replayed = "resume" -> page.resume = "good"
    [] Replayed = "invite" -> ~spent
    [] OTHER -> TRUE

\* The proxy answers: connected, or reject.
EntryAccepted ==
  /\ conn \in {"connecting", "reconnecting"} /\ page.creds /\ Acceptable
  /\ conn' = "connected"
  /\ spent' = (spent \/ Replayed = "invite")
  /\ page' = [page EXCEPT !.issued = FALSE]
  /\ dialog' = FALSE   \* the layout is taken down
  /\ UNCHANGED <<form, invite, asked, trail, tries>>

LoginRejected ==
  /\ conn \in {"connecting", "reconnecting"} /\ page.creds
  /\ conn' = "failed"
  /\ \/ /\ ~Acceptable /\ UNCHANGED tries
        /\ trail' = [trail EXCEPT !.refused = TRUE, !.void = @ \/ page.resume = "void"]
     \/ Tries /\ UNCHANGED trail   \* for another reason: name, password, server
  /\ UNCHANGED <<page, form, invite, dialog, asked, spent>>

EntrySynced ==
  /\ conn = "connected" /\ conn' = "ready"
  /\ UNCHANGED <<page, form, invite, dialog, asked, spent, trail, tries>>

\* resume_token comes once the dial has returned, after synced.
ResumeToken ==
  /\ conn = "ready" /\ Guest /\ ~page.issued
  /\ page' = [page EXCEPT !.resume = "good", !.issued = TRUE]
  /\ UNCHANGED <<conn, form, invite, dialog, asked, spent, trail, tries>>

ResumeExpires ==
  /\ page.resume = "good" /\ Tries
  /\ page' = [page EXCEPT !.resume = "void"]
  /\ UNCHANGED <<conn, form, invite, dialog, asked, spent, trail>>

\* Someone else uses the link first.
InviteStolen ==
  /\ Guest /\ ~spent /\ Tries /\ spent' = TRUE
  /\ trail' = [trail EXCEPT !.stolen = TRUE]
  /\ UNCHANGED <<conn, page, form, invite, dialog, asked>>

------------------------------------------------------------------------------
(* Losing the session *)

\* What the history keeps of a guest's session lost before its resume token.
LostEarly(t) ==
  [t EXCEPT !.early = @ \/ (Guest /\ conn \in {"connected", "ready"} /\ page.resume = "none")]

\* beginReconnect; answers on the lost socket are lost.
LinkDrops ==
  /\ conn \in {"connecting", "connected", "ready"} /\ Tries
  /\ conn' = "reconnecting" /\ asked' = <<>>
  /\ FailInvite
  /\ trail' = LostEarly([trail EXCEPT !.abandoned = @ /\ invite.status = "ready"])
  /\ UNCHANGED <<page, form, dialog, spent>>

RetriesEnd ==
  /\ conn = "reconnecting" /\ Tries /\ conn' = "failed"
  /\ UNCHANGED <<page, form, invite, dialog, asked, spent, trail>>

\* dispose's goodbye may reach the proxy, which revokes the resume token.
Goodbye(p) == {p, [p EXCEPT !.resume = IF @ = "good" THEN "void" ELSE @]}

\* endSession
SessionEnds ==
  /\ conn \in {"connecting", "connected", "ready", "reconnecting"} /\ Tries
  /\ conn' = "ended" /\ asked' = <<>> /\ dialog' = FALSE
  /\ page' \in Goodbye(page)
  /\ Abandoned
  /\ trail' = LostEarly([trail EXCEPT !.abandoned = FALSE])
  /\ UNCHANGED <<form, spent>>

\* SessionEnded: retry, unless the name is taken or banned; change the name.
SessionEnded ==
  /\ Screen = "ended" /\ Tries
  /\ \/ conn' = "connecting" /\ UNCHANGED page
     \/ /\ conn' = "idle"
        /\ page' = [page EXCEPT !.token = FALSE, !.creds = FALSE, !.resume = "none"]
  /\ Abandoned
  /\ UNCHANGED <<form, dialog, asked, spent, trail>>

\* AccountMenu's disconnect.  The address becomes "/" behind the router's back:
\* the invite page stays.
LogOut ==
  /\ Screen = "main" /\ Tries
  /\ conn' = "idle" /\ asked' = <<>> /\ dialog' = FALSE
  /\ page' = [page EXCEPT !.token = FALSE, !.creds = FALSE, !.resume = "none"]
  /\ Abandoned /\ trail' = [trail EXCEPT !.abandoned = FALSE]
  /\ UNCHANGED <<form, spent>>

------------------------------------------------------------------------------
InviteNext ==
  \/ OpenInvite \/ InviteDialog \/ CloseInvite \/ InviteTimeout \/ InviteAnswered
  \/ Checked \/ Prefilled \/ Types \/ SubmitForm
  \/ EntryAccepted \/ LoginRejected \/ EntrySynced \/ ResumeToken \/ ResumeExpires \/ InviteStolen
  \/ LinkDrops \/ RetriesEnd \/ SessionEnds \/ SessionEnded \/ LogOut

InviteSpec == InviteInit /\ [][InviteNext]_inviteVars

------------------------------------------------------------------------------
(* Properties *)

InviteTypeOK ==
  /\ conn \in {"idle", "connecting", "connected", "ready", "reconnecting", "failed", "ended"}
  /\ page \in [route : {"home", "invite"}, check : {"checking", "valid", "invalid"},
               token : BOOLEAN, creds : BOOLEAN, resume : {"none", "good", "void"},
               issued : BOOLEAN]
  /\ form \in [name : BOOLEAN, host : {"", "typed", "default"}, port : {"ok", "invalid"},
               prefill : BOOLEAN]
  /\ invite.status \in {"idle", "loading", "ready", "error"} /\ dialog \in BOOLEAN

\* The dialog never spins without a request whose answer or timeout will stop
\* it, across reconnects, ends and new logins; and the link it shows is the
\* answer to the last request, unless an earlier one on the same connection was
\* given up, whose late answer is taken for it.
InviteDialogIsTrue ==
  /\ (invite.status = "loading") = invite.pending
  /\ invite.timer = invite.pending
  /\ invite.status = "ready" => invite.link = trail.latest \/ trail.abandoned

\* A guest is turned away only for a cause: the link was used by another, the
\* form was submitted again with the used link (which InvitePage offers while
\* it reconnects and after a logout), the connection was lost before the resume
\* token came, or the token had expired or been revoked.
GuestIsLetBackIn ==
  Guest /\ trail.refused =>
    trail.resubmitted \/ trail.stolen \/ trail.early \/ trail.void
=============================================================================
