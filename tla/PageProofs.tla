----------------------------- MODULE PageProofs -----------------------------
(***************************************************************************)
(* What the parts of the page keep, for any number of tries, drafts,       *)
(* channels, users and events on the way: invitations and a guest's way    *)
(* back in (PageInvite), the frame with its drawers and shortcuts          *)
(* (PageShell), the composer and the log (PageChat), the roster and the    *)
(* unread dots (PageRoster), the pictures (PageViewer). The voice path's   *)
(* proofs are in VoiceProofs; what the page makes of its messages and      *)
(* lists is in PageLayoutProofs. The parts share no state; each has its    *)
(* invariant and its theorems, and at the end the whole page has them all. *)
(*                                                                         *)
(* The longest argument is that of RosterIsMurmurs, which speaks of a page *)
(* at rest only.  Its invariant says of every user and channel, the last   *)
(* news of which the send queue took, what the page will show once the     *)
(* wire is empty: what the last envelope about it says or, without one,    *)
(* what is shown already.                                                  *)
(***************************************************************************)
EXTENDS MCPage, VoiceProofs, PageLayoutProofs, FiniteSetTheorems, SequenceTheorems, TLAPS

------------------------------------------------------------------------------
(* Invitations: PageInvite *)

\* The records of PageInvite: where the visitor is and what the browser keeps of
\* him,
Page == [route : {"home", "invite"}, check : {"checking", "valid", "invalid"},
         token : BOOLEAN, creds : BOOLEAN, resume : {"none", "good", "void"},
         issued : BOOLEAN]

\* what the join form holds,
Form == [name : BOOLEAN, host : {"", "typed", "default"}, port : {"ok", "invalid"},
         prefill : BOOLEAN]

\* the member's request for a link,
Request == [status : {"idle", "loading", "ready", "error"}, link : Nat,
            pending : BOOLEAN, timer : BOOLEAN]

\* and the history.
Trail == [latest : Nat, abandoned : BOOLEAN, resubmitted : BOOLEAN, early : BOOLEAN,
          stolen : BOOLEAN, void : BOOLEAN, refused : BOOLEAN]

\* Types strong enough for the invariant.
InviteTypes ==
  /\ conn \in {"idle", "connecting", "connected", "ready", "reconnecting", "failed", "ended"}
  /\ page \in Page /\ form \in Form /\ invite \in Request /\ dialog \in BOOLEAN
  /\ asked \in Seq(Nat) /\ spent \in BOOLEAN /\ trail \in Trail

\* Where no request was given up before its answer, the pending one is the only
\* one under way; and an ended session has none.
AskedIsPending ==
  /\ ~trail.abandoned => asked = (IF invite.pending THEN <<trail.latest>> ELSE <<>>)
  /\ conn = "ended" => asked = <<>> /\ ~invite.pending

\* A guest whose link is used up, and who has nothing but the link, is in; unless
\* there is a cause for which he may be turned away.
InWithoutToken ==
  Guest /\ spent /\ page.creds /\ page.resume = "none" =>
    \/ trail.resubmitted \/ trail.stolen \/ trail.early
    \/ conn \in {"connected", "ready"}

\* The inductive invariant, with the types: of the guest's way in, and of the
\* member's request.
EntryInv == InWithoutToken /\ GuestIsLetBackIn
RequestInv == InviteDialogIsTrue /\ AskedIsPending

\* Nothing is requested after a reset.
LEMMA IdleFields ==
  Idle \in Request /\ Idle.status = "idle" /\ Idle.pending = FALSE /\ Idle.timer = FALSE
BY DEF Idle, Request

\* A request that is given up is remembered.
LEMMA GivenUpFields ==
  ASSUME trail \in Trail, invite.pending \in BOOLEAN
  PROVE  /\ GivenUp(trail) \in Trail
         /\ GivenUp(trail).abandoned = (trail.abandoned \/ invite.pending)
         /\ GivenUp(trail).latest = trail.latest
         /\ GivenUp(trail).resubmitted = trail.resubmitted /\ GivenUp(trail).early = trail.early
         /\ GivenUp(trail).stolen = trail.stolen /\ GivenUp(trail).void = trail.void
         /\ GivenUp(trail).refused = trail.refused
<1>1. PICK b \in BOOLEAN : b = (trail.abandoned \/ invite.pending)
  OBVIOUS
<1>2. GivenUp(trail) = [trail EXCEPT !.abandoned = b]
  BY <1>1 DEF GivenUp
<1> QED
  BY <1>1, <1>2 DEF Trail

\* failInvite ends the request that is pending, with an error.
LEMMA FailFields ==
  ASSUME InviteTypes, InviteDialogIsTrue, FailInvite
  PROVE  /\ invite' \in Request /\ invite'.pending = FALSE /\ invite'.timer = FALSE
         /\ invite'.status # "loading"
         /\ invite'.status = "ready" => ~invite.pending /\ invite' = invite
<1>1. CASE invite.pending
  <2>1. invite' = [status |-> "error", link |-> 0, pending |-> FALSE, timer |-> FALSE]
    BY <1>1 DEF FailInvite
  <2> QED
    BY <2>1 DEF Request
<1>2. CASE ~invite.pending
  <2>1. invite' = invite
    BY <1>2 DEF FailInvite
  <2> QED
    BY <1>2, <2>1 DEF InviteTypes, InviteDialogIsTrue, Request
<1> QED
  BY <1>1, <1>2

\* A step that leaves the way in alone.
LEMMA SameEntry ==
  ASSUME EntryInv, UNCHANGED <<conn, page, spent>>,
         trail'.resubmitted = trail.resubmitted, trail'.stolen = trail.stolen,
         trail'.early = trail.early, trail'.void = trail.void, trail'.refused = trail.refused
  PROVE  EntryInv'
BY DEF EntryInv, InWithoutToken, GuestIsLetBackIn, Guest

\* createInvite asks only when no request is pending.
LEMMA CreateKeepsInv ==
  ASSUME InviteTypes, RequestInv, EntryInv, NEW open \in BOOLEAN, CreateInvite(open),
         dialog' \in BOOLEAN, UNCHANGED <<conn, page, form, spent>>
  PROVE  InviteTypes' /\ RequestInv' /\ EntryInv'
<1> USE DEF InviteTypes, RequestInv, InviteDialogIsTrue, AskedIsPending
<1>1. CASE UNCHANGED <<invite, asked, trail>>
  BY <1>1, SameEntry
<1>2. CASE ~invite.pending /\ (conn # "ready" \/ Guest \/ ~open)
  <2>1. invite' = [invite EXCEPT !.status = "error", !.link = 0] /\ UNCHANGED <<asked, trail>>
    BY <1>2 DEF CreateInvite
  <2>2. /\ invite' \in Request /\ invite'.status = "error"
        /\ invite'.pending = invite.pending /\ invite'.timer = invite.timer
    BY <2>1 DEF Request
  <2>3. EntryInv'
    BY <2>1, SameEntry
  <2> QED
    BY <1>2, <2>1, <2>2, <2>3
<1>3. CASE ~invite.pending /\ ~(conn # "ready" \/ Guest \/ ~open)
  <2>1. /\ invite' = [status |-> "loading", link |-> 0, pending |-> TRUE, timer |-> TRUE]
        /\ asked' = Append(asked, trail.latest + 1)
        /\ trail' = [trail EXCEPT !.latest = trail.latest + 1] /\ conn = "ready"
    BY <1>3 DEF CreateInvite
  <2>2. trail.latest + 1 \in Nat
    BY DEF Trail
  <2>3. /\ trail' \in Trail /\ trail'.latest = trail.latest + 1
        /\ trail'.abandoned = trail.abandoned
        /\ trail'.resubmitted = trail.resubmitted /\ trail'.early = trail.early
        /\ trail'.stolen = trail.stolen /\ trail'.void = trail.void
        /\ trail'.refused = trail.refused
    BY <2>1, <2>2 DEF Trail
  <2>4. /\ invite' \in Request /\ invite'.status = "loading"
        /\ invite'.pending = TRUE /\ invite'.timer = TRUE
    BY <2>1 DEF Request
  <2>5. asked' \in Seq(Nat)
    BY <2>1, <2>2
  <2>6. ~trail.abandoned => asked' = <<trail'.latest>>
    <3>1. SUFFICES ASSUME ~trail.abandoned PROVE asked' = <<trail.latest + 1>>
      BY <2>3
    <3>2. asked = <<>>
      BY <1>3, <3>1
    <3> QED
      BY <2>1, <3>2
  <2>7. EntryInv'
    BY <2>3, SameEntry
  <2> QED
    BY <2>1, <2>3, <2>4, <2>5, <2>6, <2>7
<1> QED
  BY <1>1, <1>2, <1>3 DEF CreateInvite

\* The dialog's buttons, the timeout, and an answer.
LEMMA RequestsKeepInv ==
  ASSUME InviteTypes, RequestInv, EntryInv,
         OpenInvite \/ InviteDialog \/ CloseInvite \/ InviteTimeout \/ InviteAnswered
  PROVE  InviteTypes' /\ RequestInv' /\ EntryInv'
<1>1. CASE OpenInvite \/ InviteDialog
  <2>1. PICK open \in BOOLEAN : CreateInvite(open)
    BY <1>1 DEF OpenInvite, InviteDialog
  <2>2. dialog' \in BOOLEAN /\ UNCHANGED <<conn, page, form, spent>>
    BY <1>1 DEF OpenInvite, InviteDialog, InviteTypes
  <2> QED
    BY <2>1, <2>2, CreateKeepsInv
<1>fail. ASSUME FailInvite
         PROVE  /\ invite' \in Request /\ invite'.pending = FALSE /\ invite'.timer = FALSE
                /\ invite'.status # "loading"
                /\ invite'.status = "ready" => ~invite.pending /\ invite' = invite
  BY <1>fail, FailFields DEF RequestInv
<1> USE DEF InviteTypes, RequestInv, InviteDialogIsTrue, AskedIsPending
<1>2. invite.pending \in BOOLEAN /\ invite.timer \in BOOLEAN /\ trail.abandoned \in BOOLEAN
  BY DEF Request, Trail
<1>3. CASE CloseInvite
  <2>1. /\ dialog' = FALSE /\ invite' = Idle /\ trail' = GivenUp(trail)
        /\ UNCHANGED <<conn, page, form, asked, spent>>
    BY <1>3 DEF CloseInvite, Abandoned
  <2>2. EntryInv'
    BY <1>2, <2>1, GivenUpFields, SameEntry
  <2> QED
    BY <1>2, <2>1, <2>2, GivenUpFields, IdleFields
<1>4. CASE InviteTimeout
  <2>1. /\ FailInvite /\ trail' = GivenUp(trail) /\ invite.pending
        /\ UNCHANGED <<conn, page, form, dialog, asked, spent>>
    BY <1>2, <1>4 DEF InviteTimeout
  <2>2. EntryInv'
    BY <1>2, <2>1, GivenUpFields, SameEntry
  <2> QED
    BY <1>2, <1>fail, <2>1, <2>2, GivenUpFields
<1>5. CASE InviteAnswered
  <2>1. /\ asked # <<>> /\ asked' = Tail(asked)
        /\ UNCHANGED <<conn, page, form, dialog, spent, trail>>
    BY <1>5 DEF InviteAnswered
  <2>2. asked' \in Seq(Nat) /\ Head(asked) \in Nat
    BY <2>1
  <2>3. EntryInv'
    BY <2>1, SameEntry
  <2>4. ~trail.abandoned => invite.pending /\ Head(asked) = trail.latest /\ asked' = <<>>
    <3>1. CASE ~trail.abandoned /\ invite.pending
      <4>1. asked = <<trail.latest>>
        BY <3>1
      <4> QED
        BY <2>1, <3>1, <4>1
    <3> QED
      BY <1>2, <2>1, <3>1
  <2>5. conn # "ended"
    BY <2>1
  <2>6. CASE invite.pending /\ invite' = [status |-> "ready", link |-> Head(asked),
                                         pending |-> FALSE, timer |-> FALSE]
    <3>1. invite' \in Request /\ invite'.status = "ready" /\ invite'.link = Head(asked)
          /\ invite'.pending = FALSE /\ invite'.timer = FALSE
      BY <2>2, <2>6 DEF Request
    <3> QED
      BY <2>1, <2>2, <2>3, <2>4, <2>5, <3>1
  <2>7. CASE ~invite.pending /\ invite' = invite
    BY <2>1, <2>2, <2>3, <2>4, <2>5, <2>7
  <2>8. CASE FailInvite
    BY <1>2, <1>fail, <2>1, <2>2, <2>3, <2>4, <2>5, <2>8
  <2> QED
    BY <1>2, <1>5, <2>6, <2>7, <2>8 DEF InviteAnswered
<1> QED
  BY <1>1, <1>3, <1>4, <1>5

\* A step of entry that leaves the request alone, and does not end the session.
LEMMA SameRequest ==
  ASSUME RequestInv, UNCHANGED <<invite, asked>>, conn' = conn \/ conn' # "ended",
         trail'.latest = trail.latest, trail'.abandoned = trail.abandoned
  PROVE  RequestInv'
BY DEF RequestInv, InviteDialogIsTrue, AskedIsPending

\* What a guest fills in, and what the proxy answers before there is a session.
LEMMA EntryKeepsInv ==
  ASSUME InviteTypes, RequestInv, EntryInv,
         \/ Checked \/ Prefilled \/ Types \/ EntryAccepted \/ LoginRejected \/ EntrySynced
         \/ ResumeToken \/ ResumeExpires \/ InviteStolen \/ RetriesEnd
  PROVE  InviteTypes' /\ RequestInv' /\ EntryInv'
<1>1. UNCHANGED <<invite, asked>> /\ (conn' = conn \/ conn' # "ended")
  BY DEF Checked, Prefilled, Types, EntryAccepted, LoginRejected, EntrySynced,
         ResumeToken, ResumeExpires, InviteStolen, RetriesEnd
<1>2. CASE UNCHANGED trail
  <2>1. RequestInv'
    BY <1>1, <1>2, SameRequest
  <2> USE DEF InviteTypes
  <2>2. CASE Checked
    <3>1. PICK c \in {"valid", "invalid"} : page' = [page EXCEPT !.check = c]
      BY <2>2 DEF Checked
    <3>2. /\ page' \in Page /\ page'.route = page.route /\ page'.creds = page.creds
          /\ page'.resume = page.resume
      BY <3>1 DEF Page
    <3> QED
      BY <1>1, <1>2, <2>1, <2>2, <3>2
         DEF Checked, EntryInv, InWithoutToken, GuestIsLetBackIn, Guest
  <2>3. CASE Prefilled \/ Types
    <3>1. form' \in Form
      <4>1. [form EXCEPT !.name = ~form.name] \in Form
        BY DEF Form
      <4>2. CASE Prefilled
        <5>1. form' \in {[form EXCEPT !.prefill = FALSE],
                         [form EXCEPT !.prefill = FALSE, !.host = "default", !.port = "ok"]}
          BY <4>2 DEF Prefilled
        <5> QED
          BY <5>1 DEF Form
      <4>3. CASE Types
        <5>1. \/ form' = [form EXCEPT !.name = ~form.name]
              \/ form' = [form EXCEPT !.host = "typed"]
              \/ form' \in {[form EXCEPT !.port = p] : p \in {"ok", "invalid"}}
          BY <4>3 DEF Types
        <5>2. CASE form' = [form EXCEPT !.name = ~form.name]
          BY <4>1, <5>2
        <5>3. CASE form' = [form EXCEPT !.host = "typed"]
          BY <5>3 DEF Form
        <5>4. CASE form' \in {[form EXCEPT !.port = p] : p \in {"ok", "invalid"}}
          BY <5>4 DEF Form
        <5> QED
          BY <5>1, <5>2, <5>3, <5>4
      <4> QED
        BY <2>3, <4>2, <4>3
    <3>2. UNCHANGED <<conn, page, dialog, spent>>
      BY <2>3 DEF Prefilled, Types
    <3>3. EntryInv'
      BY <1>2, <3>2, SameEntry
    <3> QED
      BY <1>1, <1>2, <2>1, <3>1, <3>2, <3>3
  <2>4. CASE EntryAccepted
    <3>1. /\ page' = [page EXCEPT !.issued = FALSE] /\ conn' = "connected"
          /\ spent' = (spent \/ Replayed = "invite") /\ dialog' = FALSE /\ form' = form
      BY <2>4 DEF EntryAccepted
    <3>2. /\ page' \in Page /\ page'.route = page.route
      BY <3>1 DEF Page
    <3>3. spent' \in BOOLEAN
      BY <3>1
    <3> QED
      BY <1>1, <1>2, <2>1, <3>1, <3>2, <3>3
         DEF EntryInv, InWithoutToken, GuestIsLetBackIn, Guest
  <2>5. CASE LoginRejected \/ EntrySynced \/ RetriesEnd
    BY <1>1, <1>2, <2>1, <2>5
       DEF LoginRejected, EntrySynced, RetriesEnd, EntryInv, InWithoutToken, GuestIsLetBackIn, Guest
  <2>6. CASE ResumeToken \/ ResumeExpires
    <3>1. PICK r \in {"good", "void"}, i \in BOOLEAN :
            page' = [page EXCEPT !.resume = r, !.issued = i]
      <4>1. CASE ResumeToken
        BY <4>1 DEF ResumeToken
      <4>2. CASE ResumeExpires
        <5>1. page' = [page EXCEPT !.resume = "void", !.issued = page.issued]
          BY <4>2 DEF ResumeExpires, Page
        <5> QED
          BY <5>1 DEF Page
      <4> QED
        BY <2>6, <4>1, <4>2
    <3>2. page' \in Page /\ page'.route = page.route /\ page'.resume # "none"
      BY <3>1 DEF Page
    <3>3. UNCHANGED <<conn, form, dialog, spent>>
      BY <2>6 DEF ResumeToken, ResumeExpires
    <3> QED
      BY <1>1, <1>2, <2>1, <3>2, <3>3 DEF EntryInv, InWithoutToken, GuestIsLetBackIn, Guest
  <2>7. CASE InviteStolen
    <3>1. trail' = [trail EXCEPT !.stolen = TRUE] /\ spent' = TRUE
          /\ UNCHANGED <<conn, page, form, dialog>>
      BY <2>7 DEF InviteStolen
    <3>2. trail'.stolen = TRUE
      BY <3>1 DEF Trail
    <3> QED
      BY <1>1, <1>2, <2>1, <3>1, <3>2 DEF EntryInv, InWithoutToken, GuestIsLetBackIn, Guest
  <2> QED
    BY <2>2, <2>3, <2>4, <2>5, <2>6, <2>7
<1>3. CASE InviteStolen
  <2>1. /\ trail' = [trail EXCEPT !.stolen = TRUE] /\ spent' = TRUE
        /\ UNCHANGED <<conn, page, form, dialog>>
    BY <1>3 DEF InviteStolen
  <2>2. /\ trail' \in Trail /\ trail'.stolen = TRUE
        /\ trail'.latest = trail.latest /\ trail'.abandoned = trail.abandoned
    BY <2>1 DEF InviteTypes, Trail
  <2>3. RequestInv'
    BY <1>1, <2>2, SameRequest
  <2> QED
    BY <1>1, <2>1, <2>2, <2>3
       DEF InviteTypes, EntryInv, InWithoutToken, GuestIsLetBackIn, Guest
<1>4. CASE LoginRejected /\ ~(UNCHANGED trail)
  <2>1. /\ conn \in {"connecting", "reconnecting"} /\ page.creds /\ conn' = "failed" /\ ~Acceptable
        /\ trail' = [trail EXCEPT !.refused = TRUE, !.void = @ \/ page.resume = "void"]
        /\ UNCHANGED <<page, form, dialog, spent>>
    BY <1>4 DEF LoginRejected
  <2>2. PICK v \in BOOLEAN : v = (trail.void \/ page.resume = "void")
    OBVIOUS
  <2>3. trail' = [trail EXCEPT !.refused = TRUE, !.void = v]
    BY <2>1, <2>2
  <2>4. /\ trail' \in Trail /\ trail'.refused = TRUE /\ trail'.void = v
        /\ trail'.latest = trail.latest /\ trail'.abandoned = trail.abandoned
        /\ trail'.resubmitted = trail.resubmitted /\ trail'.early = trail.early
        /\ trail'.stolen = trail.stolen
    BY <2>2, <2>3 DEF InviteTypes, Trail
  <2>5. RequestInv'
    BY <1>1, <2>4, SameRequest
  <2>6. Guest => page.resume = "void" \/ (page.resume = "none" /\ spent)
    BY <2>1 DEF Acceptable, Replayed, InviteTypes, Page
  <2> QED
    BY <1>1, <2>1, <2>2, <2>4, <2>5, <2>6
       DEF InviteTypes, EntryInv, InWithoutToken, GuestIsLetBackIn, Guest
<1> QED
  BY <1>2, <1>3, <1>4
     DEF Checked, Prefilled, Types, EntryAccepted, EntrySynced, ResumeToken, ResumeExpires,
         RetriesEnd

\* The form: what was pending is given up, and a guest whose link is used up has
\* brought it upon himself.
LEMMA SubmitKeepsInv ==
  ASSUME InviteTypes, RequestInv, EntryInv, SubmitForm
  PROVE  InviteTypes' /\ RequestInv' /\ EntryInv'
<1> USE DEF InviteTypes
<1>1. invite.pending \in BOOLEAN /\ trail.abandoned \in BOOLEAN
  BY DEF Request, Trail
<1>2. /\ conn' = "connecting" /\ invite' = Idle
      /\ page' = [page EXCEPT !.token = Guest, !.creds = TRUE, !.resume = "none", !.issued = FALSE]
      /\ UNCHANGED <<form, dialog, asked, spent>>
  BY DEF SubmitForm, Abandoned
<1>3. page' \in Page /\ page'.route = page.route
  BY <1>2 DEF Page, Guest
<1>4. PICK b \in BOOLEAN : b = (GivenUp(trail).resubmitted \/ (Guest /\ spent))
  OBVIOUS
<1>5. trail' = [GivenUp(trail) EXCEPT !.resubmitted = b]
  BY <1>4 DEF SubmitForm
<1>6. /\ trail' \in Trail /\ trail'.resubmitted = b
      /\ trail'.abandoned = (trail.abandoned \/ invite.pending)
      /\ trail'.latest = trail.latest /\ trail'.early = trail.early
      /\ trail'.stolen = trail.stolen /\ trail'.void = trail.void
      /\ trail'.refused = trail.refused
  <2> DEFINE t == GivenUp(trail)
  <2>1. t \in Trail /\ t.abandoned = (trail.abandoned \/ invite.pending)
        /\ t.latest = trail.latest /\ t.early = trail.early
        /\ t.stolen = trail.stolen /\ t.void = trail.void /\ t.refused = trail.refused
    BY <1>1, GivenUpFields
  <2>2. trail' = [t EXCEPT !.resubmitted = b]
    BY <1>5
  <2> HIDE DEF t
  <2> QED
    BY <2>1, <2>2 DEF Trail
<1>7. RequestInv'
  BY <1>1, <1>2, <1>6, IdleFields DEF RequestInv, InviteDialogIsTrue, AskedIsPending
<1>8. EntryInv'
  BY <1>2, <1>3, <1>4, <1>6, GivenUpFields, <1>1
     DEF EntryInv, InWithoutToken, GuestIsLetBackIn, Guest
<1> QED
  BY <1>2, <1>3, <1>6, <1>7, <1>8, IdleFields

\* A session that is lost before its token came is remembered.
LEMMA LostEarlyFields ==
  ASSUME NEW t \in Trail
  PROVE  /\ LostEarly(t) \in Trail /\ LostEarly(t).latest = t.latest
         /\ LostEarly(t).abandoned = t.abandoned /\ LostEarly(t).resubmitted = t.resubmitted
         /\ LostEarly(t).stolen = t.stolen /\ LostEarly(t).void = t.void
         /\ LostEarly(t).refused = t.refused
         /\ LostEarly(t).early =
              (t.early \/ (Guest /\ conn \in {"connected", "ready"} /\ page.resume = "none"))
<1>1. PICK b \in BOOLEAN :
        b = (t.early \/ (Guest /\ conn \in {"connected", "ready"} /\ page.resume = "none"))
  OBVIOUS
<1>2. LostEarly(t) = [t EXCEPT !.early = b]
  BY <1>1 DEF LostEarly
<1> QED
  BY <1>1, <1>2 DEF Trail

\* What is on the screen after an end: nothing else shows that screen.
LEMMA EndedScreen == ASSUME InviteTypes, Screen = "ended" PROVE conn = "ended"
BY DEF Screen, HomeFlow, InvitePage, InviteTypes, Page

\* The link drops, the session ends, its end is answered, the user logs out.
LEMMA LossKeepsInv ==
  ASSUME InviteTypes, RequestInv, EntryInv,
         LinkDrops \/ SessionEnds \/ SessionEnded \/ LogOut
  PROVE  InviteTypes' /\ RequestInv' /\ EntryInv'
<1>fail. ASSUME FailInvite
         PROVE  /\ invite' \in Request /\ invite'.pending = FALSE /\ invite'.timer = FALSE
                /\ invite'.status # "loading"
                /\ invite'.status = "ready" => ~invite.pending /\ invite' = invite
  BY <1>fail, FailFields DEF RequestInv
<1>screen. Screen = "ended" => conn = "ended"
  BY EndedScreen
<1> USE DEF InviteTypes
<1>1. CASE LinkDrops
  <2>1. /\ conn \in {"connecting", "connected", "ready"} /\ conn' = "reconnecting" /\ asked' = <<>>
        /\ FailInvite /\ UNCHANGED <<page, form, dialog, spent>>
    BY <1>1 DEF LinkDrops
  <2>2. PICK b \in BOOLEAN : b = (trail.abandoned /\ invite.status = "ready")
    OBVIOUS
  <2> DEFINE t == [trail EXCEPT !.abandoned = b]
  <2>3. trail' = LostEarly(t)
    BY <1>1, <2>2 DEF LinkDrops
  <2>4. /\ t \in Trail /\ t.abandoned = b /\ t.latest = trail.latest
        /\ t.resubmitted = trail.resubmitted /\ t.early = trail.early /\ t.stolen = trail.stolen
        /\ t.void = trail.void /\ t.refused = trail.refused
    BY <2>2 DEF Trail
  <2> HIDE DEF t
  <2>5. RequestInv'
    <3>1. trail'.latest = trail.latest /\ trail'.abandoned = b
      BY <2>3, <2>4, LostEarlyFields
    <3>2. CASE invite'.status = "ready"
      BY <1>fail, <2>1, <2>2, <3>1, <3>2 DEF RequestInv, InviteDialogIsTrue, AskedIsPending
    <3>3. CASE invite'.status # "ready"
      BY <1>fail, <2>1, <3>3 DEF RequestInv, InviteDialogIsTrue, AskedIsPending
    <3> QED
      BY <3>2, <3>3
  <2>6. EntryInv'
    BY <2>1, <2>3, <2>4, LostEarlyFields DEF EntryInv, InWithoutToken, GuestIsLetBackIn, Guest
  <2> QED
    BY <1>fail, <2>1, <2>3, <2>4, <2>5, <2>6, LostEarlyFields
<1>2. CASE SessionEnds
  <2>1. /\ conn' = "ended" /\ asked' = <<>> /\ dialog' = FALSE /\ invite' = Idle
        /\ page' \in Goodbye(page) /\ UNCHANGED <<form, spent>>
        /\ conn \in {"connecting", "connected", "ready", "reconnecting"}
    BY <1>2 DEF SessionEnds, Abandoned
  <2>2. /\ page' \in Page /\ page'.route = page.route /\ page'.creds = page.creds
        /\ (page'.resume = "none") = (page.resume = "none")
    <3>1. CASE page' = page
      BY <3>1
    <3>2. CASE page' = [page EXCEPT !.resume = IF @ = "good" THEN "void" ELSE @]
      <4>1. PICK r \in {"none", "good", "void"} : r = IF page.resume = "good" THEN "void" ELSE page.resume
        BY DEF Page
      <4>2. page' = [page EXCEPT !.resume = r]
        BY <3>2, <4>1
      <4> QED
        BY <4>1, <4>2 DEF Page
    <3> QED
      BY <2>1, <3>1, <3>2 DEF Goodbye
  <2> DEFINE t == [trail EXCEPT !.abandoned = FALSE]
  <2>3. trail' = LostEarly(t)
    BY <1>2 DEF SessionEnds
  <2>4. /\ t \in Trail /\ t.abandoned = FALSE /\ t.latest = trail.latest
        /\ t.resubmitted = trail.resubmitted /\ t.early = trail.early /\ t.stolen = trail.stolen
        /\ t.void = trail.void /\ t.refused = trail.refused
    BY DEF Trail
  <2> HIDE DEF t
  <2>5. RequestInv'
    BY <2>1, IdleFields DEF RequestInv, InviteDialogIsTrue, AskedIsPending
  <2>6. EntryInv'
    BY <2>1, <2>2, <2>3, <2>4, LostEarlyFields
       DEF EntryInv, InWithoutToken, GuestIsLetBackIn, Guest
  <2> QED
    <3>1. trail' \in Trail
      BY <2>3, <2>4, LostEarlyFields
    <3>2. asked' \in Seq(Nat)
      BY <2>1
    <3> QED
      BY <2>1, <2>2, <2>5, <2>6, <3>1, <3>2, IdleFields
<1>3. CASE SessionEnded
  <2>1. /\ conn = "ended" /\ invite' = Idle /\ UNCHANGED <<form, dialog, asked, spent, trail>>
        /\ conn' \in {"connecting", "idle"}
    BY <1>3, <1>screen DEF SessionEnded, Abandoned
  <2>2. RequestInv'
    BY <2>1, IdleFields DEF RequestInv, InviteDialogIsTrue, AskedIsPending
  <2>3. page' \in Page /\ page'.route = page.route /\ (page' = page \/ ~page'.creds)
    <3>1. CASE page' = page
      BY <3>1
    <3>2. CASE page' = [page EXCEPT !.token = FALSE, !.creds = FALSE, !.resume = "none"]
      BY <3>2 DEF Page
    <3> QED
      BY <1>3, <3>1, <3>2 DEF SessionEnded
  <2>4. EntryInv'
    BY <2>1, <2>3 DEF EntryInv, InWithoutToken, GuestIsLetBackIn, Guest
  <2> QED
    BY <2>1, <2>2, <2>3, <2>4, IdleFields
<1>4. CASE LogOut
  <2>1. /\ conn' = "idle" /\ asked' = <<>> /\ dialog' = FALSE /\ invite' = Idle
        /\ UNCHANGED <<form, spent>> /\ trail' = [trail EXCEPT !.abandoned = FALSE]
        /\ page' = [page EXCEPT !.token = FALSE, !.creds = FALSE, !.resume = "none"]
    BY <1>4 DEF LogOut, Abandoned
  <2>2. page' \in Page /\ page'.route = page.route /\ ~page'.creds
    BY <2>1 DEF Page
  <2>3. /\ trail' \in Trail /\ trail'.resubmitted = trail.resubmitted
        /\ trail'.early = trail.early /\ trail'.stolen = trail.stolen
        /\ trail'.void = trail.void /\ trail'.refused = trail.refused
    BY <2>1 DEF Trail
  <2>4. RequestInv'
    BY <2>1, IdleFields DEF RequestInv, InviteDialogIsTrue, AskedIsPending
  <2>5. EntryInv'
    BY <2>1, <2>2, <2>3 DEF EntryInv, InWithoutToken, GuestIsLetBackIn, Guest
  <2> QED
    <3>1. asked' \in Seq(Nat)
      BY <2>1
    <3> QED
      BY <2>1, <2>2, <2>3, <2>4, <2>5, <3>1, IdleFields
<1> QED
  BY <1>1, <1>2, <1>3, <1>4

\* A page that has just been opened has asked for nothing.
LEMMA InviteInitInv == ASSUME InviteInit PROVE InviteTypes /\ RequestInv /\ EntryInv
<1> USE DEF InviteInit
<1>1. page \in Page
  BY DEF Page
<1>2. form \in Form
  <2>1. (page.route = "home") \in BOOLEAN
    OBVIOUS
  <2> QED
    BY <2>1 DEF Form
<1>3. trail \in Trail /\ ~trail.abandoned /\ ~trail.refused
  BY DEF Trail
<1>4. asked \in Seq(Nat)
  <2>1. asked = <<>>
    OBVIOUS
  <2> HIDE DEF InviteInit
  <2> QED
    BY <2>1
<1>5. InviteTypes
  BY <1>1, <1>2, <1>3, <1>4, IdleFields DEF InviteTypes
<1>6. RequestInv
  BY IdleFields DEF RequestInv, InviteDialogIsTrue, AskedIsPending
<1> QED
  BY <1>3, <1>5, <1>6 DEF EntryInv, InWithoutToken, GuestIsLetBackIn

\* Steps that leave the invariant's variables alone.
LEMMA InviteStutters ==
  ASSUME InviteTypes, RequestInv, EntryInv, UNCHANGED inviteVars
  PROVE  InviteTypes' /\ RequestInv' /\ EntryInv'
BY DEF inviteVars, InviteTypes, RequestInv, InviteDialogIsTrue, AskedIsPending,
       EntryInv, InWithoutToken, GuestIsLetBackIn, Guest

\* The invariant of invitations and entry.
THEOREM InviteInvHolds == InviteSpec => [](InviteTypes /\ RequestInv /\ EntryInv)
<1>1. InviteTypes /\ RequestInv /\ EntryInv /\ [InviteNext]_inviteVars
        => (InviteTypes /\ RequestInv /\ EntryInv)'
  BY RequestsKeepInv, EntryKeepsInv, SubmitKeepsInv, LossKeepsInv, InviteStutters DEF InviteNext
<1> QED
  BY <1>1, InviteInitInv, PTL DEF InviteSpec

\* The request, the forms and the credentials keep to their values
\* (appStore.ts, ConnectScreen.tsx).
THEOREM InviteTypeCorrect == InviteSpec => []InviteTypeOK
<1>1. InviteTypes => InviteTypeOK
  BY DEF InviteTypes, InviteTypeOK, Page, Form, Request
<1> QED
  BY <1>1, InviteInvHolds, PTL

\* The dialog never spins for a request that nothing will answer, and shows the
\* link of the last one unless an earlier was given up (appStore.ts,
\* createInvite, failInvite, resetInvite).
THEOREM DialogIsTrue == InviteSpec => []InviteDialogIsTrue
<1>1. RequestInv => InviteDialogIsTrue
  BY DEF RequestInv
<1> QED
  BY <1>1, InviteInvHolds, PTL

\* A guest is refused only for a cause he, another or the clock gave
\* (appStore.ts, buildConnectEnvelope; InvitePage.tsx).
THEOREM GuestsComeBack == InviteSpec => []GuestIsLetBackIn
<1>1. EntryInv => GuestIsLetBackIn
  BY DEF EntryInv
<1> QED
  BY <1>1, InviteInvHolds, PTL

------------------------------------------------------------------------------
(* The frame: PageShell *)

\* Whatever may lie over the page.
Overlays == Drawers \cup Lazy \cup Alerts

\* Two overlays, the reset's alert not counted, have an excuse.
Excused == \A x, y \in over \ {"reset"} : x # y => notes.hidden

\* The inductive invariant of the frame.
FrameInv == FrameTypeOK /\ SharedBindingHasReset /\ Excused

\* Two more elements leave a set finite.
LEMMA TwoAdded ==
  ASSUME NEW S, IsFiniteSet(S), NEW x, NEW y
  PROVE  IsFiniteSet(S \cup {x, y})
<1>1. IsFiniteSet(S \cup {x})
  BY FS_AddElement
<1>2. IsFiniteSet((S \cup {x}) \cup {y})
  BY <1>1, FS_AddElement
<1>3. (S \cup {x}) \cup {y} = S \cup {x, y}
  OBVIOUS
<1> QED
  BY <1>2, <1>3

\* There are finitely many overlays.
LEMMA OverlaysFinite == ASSUME NEW S \in SUBSET Overlays PROVE IsFiniteSet(S)
<1>1. IsFiniteSet({} \cup {"channels", "members"})
  BY FS_EmptySet, TwoAdded
<1>2. IsFiniteSet(({} \cup {"channels", "members"}) \cup {"settings", "help"})
  BY <1>1, TwoAdded
<1>3. IsFiniteSet((({} \cup {"channels", "members"}) \cup {"settings", "help"})
                    \cup {"invite", "viewer"})
  BY <1>2, TwoAdded
<1>4. IsFiniteSet(((({} \cup {"channels", "members"}) \cup {"settings", "help"})
                     \cup {"invite", "viewer"}) \cup {"logout", "reset"})
  BY <1>3, TwoAdded
<1>5. ((({} \cup {"channels", "members"}) \cup {"settings", "help"})
                     \cup {"invite", "viewer"}) \cup {"logout", "reset"} = Overlays
  BY DEF Overlays, Drawers, Lazy, Alerts
<1> QED
  BY <1>4, <1>5, FS_Subset

\* A finite set with two elements has more than one.
LEMMA TwoAreMore ==
  ASSUME NEW S, IsFiniteSet(S), NEW x \in S, NEW y \in S, x # y
  PROVE  Cardinality(S) > 1
<1>1. IsFiniteSet({x}) /\ Cardinality({x}) = 1
  BY FS_Singleton
<1>2. IsFiniteSet({x} \cup {y}) /\ Cardinality({x} \cup {y}) = 2
  <2>1. y \notin {x}
    OBVIOUS
  <2> QED
    BY <1>1, <2>1, FS_AddElement
<1>3. Cardinality({x} \cup {y}) <= Cardinality(S)
  <2>1. {x} \cup {y} \in SUBSET S
    OBVIOUS
  <2> QED
    BY <2>1, FS_Subset
<1>4. Cardinality(S) \in Nat
  BY FS_CardinalityType
<1> QED
  BY <1>2, <1>3, <1>4

\* A finite set with more than one element has two.
LEMMA MoreAreTwo ==
  ASSUME NEW S, IsFiniteSet(S), Cardinality(S) > 1
  PROVE  \E x, y \in S : x # y
<1>1. S # {}
  BY FS_EmptySet
<1>2. PICK x : x \in S
  BY <1>1
<1>3. S # {x}
  BY FS_Singleton
<1> QED
  BY <1>2, <1>3

\* What is asked for while something else is not on the screen, or is not looked
\* at, has an excuse.
LEMMA AskedExcused ==
  ASSUME FrameTypeOK, NEW others \in SUBSET over, NEW o \in Overlays, Asked(others, o),
         \A p \in others \ {o, "reset"} : ~OnScreen(p) \/ p \in {"viewer", "logout"}
  PROVE  /\ over' = others \cup {o} /\ over' \subseteq Overlays
         /\ notes' \in [alone : SUBSET Actions, hidden : BOOLEAN]
         /\ notes'.alone = notes.alone
         /\ Excused'
<1>1. PICK h \in BOOLEAN :
        h = (notes.hidden \/ \E p \in others \ {o} : ~OnScreen(p) \/ p \in {"viewer", "logout"})
  OBVIOUS
<1>2. notes' = [notes EXCEPT !.hidden = h] /\ over' = others \cup {o}
  BY <1>1 DEF Asked
<1>3. /\ notes' \in [alone : SUBSET Actions, hidden : BOOLEAN]
      /\ notes'.alone = notes.alone /\ notes'.hidden = h
  BY <1>2 DEF FrameTypeOK
<1>4. Excused'
  <2>1. SUFFICES ASSUME NEW x \in over' \ {"reset"}, NEW y \in over' \ {"reset"}, x # y
                 PROVE  h
    BY <1>3 DEF Excused
  <2>2. PICK p \in others \ {o, "reset"} : TRUE
    BY <1>2, <2>1
  <2> QED
    BY <1>1, <2>2
<1> QED
  BY <1>2, <1>3, <1>4 DEF FrameTypeOK, Overlays

\* An overlay that goes leaves the others with their excuse.
LEMMA CloseExcused ==
  ASSUME FrameTypeOK, Excused, NEW o, over' = over \ {o},
         notes' = [notes EXCEPT !.hidden = @ /\ Cardinality(over \ {o}) > 1]
  PROVE  /\ notes' \in [alone : SUBSET Actions, hidden : BOOLEAN]
         /\ notes'.alone = notes.alone
         /\ Excused'
<1>1. PICK h \in BOOLEAN : h = (notes.hidden /\ Cardinality(over \ {o}) > 1)
  OBVIOUS
<1>2. notes' = [notes EXCEPT !.hidden = h]
  BY <1>1
<1>3. /\ notes' \in [alone : SUBSET Actions, hidden : BOOLEAN]
      /\ notes'.alone = notes.alone /\ notes'.hidden = h
  BY <1>2 DEF FrameTypeOK
<1>4. IsFiniteSet(over \ {o})
  BY OverlaysFinite DEF FrameTypeOK, Overlays
<1>5. Excused'
  <2>1. SUFFICES ASSUME NEW x \in over' \ {"reset"}, NEW y \in over' \ {"reset"}, x # y
                 PROVE  h
    BY <1>3 DEF Excused
  <2>2. notes.hidden
    BY <2>1 DEF Excused
  <2>3. Cardinality(over \ {o}) > 1
    BY <1>4, <2>1, TwoAreMore
  <2> QED
    BY <1>1, <2>2, <2>3
<1> QED
  BY <1>3, <1>5

\* Clicks on the page, keys and swipes open overlays; none is on the screen then
\* but those that edgeSwipe and hasOpenDialog do not look at.
LEMMA OpeningKeepsInv ==
  ASSUME FrameInv, PageClick \/ KeyPress \/ SwipeUp
  PROVE  FrameInv'
<1>1. ASSUME NEW others \in SUBSET over, NEW o \in Overlays \ {"reset"}, Asked(others, o),
             \A p \in others \ {o, "reset"} : ~OnScreen(p) \/ p \in {"viewer", "logout"},
             over \ others \subseteq Drawers, UNCHANGED <<loaded, bindings>>,
             start' \in {"none", "left", "right"},
             settings' \in [tab : Tabs, recording : Actions \cup {"none"}],
             settings' = settings \/ o = "settings"
      PROVE  FrameInv'
  <2>1. /\ over' = others \cup {o} /\ over' \subseteq Overlays
        /\ notes' \in [alone : SUBSET Actions, hidden : BOOLEAN]
        /\ notes'.alone = notes.alone /\ Excused'
    BY <1>1, AskedExcused DEF FrameInv
  <2>2. "settings" \notin over' => settings' = Closed /\ "reset" \notin over'
    BY <1>1, <2>1 DEF Drawers, FrameInv, FrameTypeOK
  <2>3. FrameTypeOK'
    BY <1>1, <2>1, <2>2 DEF FrameInv, FrameTypeOK, Overlays
  <2>4. SharedBindingHasReset'
    BY <1>1, <2>1 DEF FrameInv, SharedBindingHasReset
  <2> QED
    BY <2>1, <2>3, <2>4 DEF FrameInv
<1>2. /\ \A o \in {"channels", "members", "settings", "help", "invite", "viewer", "logout"} :
           o \in Overlays \ {"reset"}
      /\ {"channels"} \subseteq Drawers /\ {"members"} \subseteq Drawers
  BY DEF Overlays, Drawers, Lazy, Alerts
<1>3. /\ start \in {"none", "left", "right"}
      /\ settings \in [tab : Tabs, recording : Actions \cup {"none"}]
      /\ over \subseteq Overlays
  BY DEF FrameInv, FrameTypeOK, Overlays
<1>4. ASSUME OpenChannels \/ OpenMembers, UNCHANGED <<loaded, bindings, settings>>,
             start' \in {"none", "left", "right"},
             \A p \in over \ {"channels", "members", "reset"} :
               ~OnScreen(p) \/ p \in {"viewer", "logout"},
             \A p \in over \cap Drawers : ~OnScreen(p)
      PROVE  FrameInv'
  <2>1. CASE OpenChannels
    <3>1. over \ {"members"} \in SUBSET over /\ Asked(over \ {"members"}, "channels")
          /\ over \ (over \ {"members"}) \subseteq Drawers
      BY <2>1, <1>2 DEF OpenChannels
    <3> QED
      BY <1>1, <1>2, <1>3, <1>4, <3>1
  <2>2. CASE OpenMembers
    <3>1. over \ {"channels"} \in SUBSET over /\ Asked(over \ {"channels"}, "members")
          /\ over \ (over \ {"channels"}) \subseteq Drawers
      BY <2>2, <1>2 DEF OpenMembers
    <3> QED
      BY <1>1, <1>2, <1>3, <1>4, <3>1
  <2> QED
    BY <1>4, <2>1, <2>2
<1>5. ASSUME NEW o \in {"settings", "help", "invite", "viewer", "logout"}, Asked(over, o),
             UNCHANGED <<loaded, bindings, start>>,
             \A p \in over \ {o, "reset"} : ~OnScreen(p) \/ p \in {"viewer", "logout"},
             settings' \in [tab : Tabs, recording : Actions \cup {"none"}],
             settings' = settings \/ o = "settings"
      PROVE  FrameInv'
  <2>1. over \in SUBSET over /\ over \ over \subseteq Drawers /\ o \in Overlays \ {"reset"}
    BY <1>2
  <2> QED
    BY <1>1, <1>3, <1>5, <2>1
<1>6. CASE PageClick
  <2>1. \A p \in over : ~OnScreen(p)
    BY <1>6 DEF PageClick, Modal
  <2>2. UNCHANGED <<loaded, bindings, start>>
    BY <1>6 DEF PageClick
  <2>3. CASE (OpenChannels \/ OpenMembers) /\ UNCHANGED settings
    BY <1>3, <1>4, <2>1, <2>2, <2>3
  <2>4. CASE \E o \in {"invite", "viewer", "logout"} : Asked(over, o) /\ UNCHANGED settings
    BY <1>3, <1>5, <2>1, <2>2, <2>4
  <2>5. CASE \E tab \in {"audio", "voice"} :
               /\ Asked(over, "settings")
               /\ settings' = IF "settings" \in over /\ settings.tab = tab THEN settings
                              ELSE [Closed EXCEPT !.tab = tab]
    <3>1. settings' \in [tab : Tabs, recording : Actions \cup {"none"}]
      BY <1>3, <2>5 DEF Closed, Tabs
    <3> QED
      BY <1>5, <2>1, <2>2, <2>5, <3>1
  <2> QED
    BY <1>6, <2>3, <2>4, <2>5 DEF PageClick
<1>7. CASE KeyPress
  <2>1. \A p \in over \ Alerts : ~OnScreen(p)
    BY <1>7 DEF KeyPress, HasOpenDialog
  <2>2. /\ \A p \in over \ {"reset", "logout"} : ~OnScreen(p)
        /\ \A p \in over \cap Drawers : ~OnScreen(p)
    BY <2>1 DEF Alerts, Drawers
  <2>3. UNCHANGED <<loaded, settings, bindings, start>> /\ (Asked(over, "help") \/ OpenMembers)
    BY <1>7 DEF KeyPress
  <2> QED
    BY <1>3, <1>4, <1>5, <2>2, <2>3
<1>8. CASE SwipeUp
  <2>1. start' = "none" /\ UNCHANGED <<loaded, settings, bindings>>
    BY <1>8 DEF SwipeUp
  <2>2. CASE ~Disabled /\ (OpenChannels \/ OpenMembers)
    <3>1. /\ \A p \in over \ {"reset"} : p \in {"viewer", "logout"}
          /\ \A p \in over \cap Drawers : ~OnScreen(p)
      BY <1>3, <2>2 DEF Disabled, Overlays, Drawers, Lazy, Alerts
    <3> QED
      BY <1>4, <2>1, <2>2, <3>1
  <2>3. CASE UNCHANGED <<over, notes>>
    BY <2>1, <2>3 DEF FrameInv, FrameTypeOK, SharedBindingHasReset, Excused
  <2> QED
    BY <1>8, <2>2, <2>3 DEF SwipeUp
<1> QED
  BY <1>6, <1>7, <1>8

\* What is closed, fetched, left, or only touched.
LEMMA ClosingKeepsInv ==
  ASSUME FrameInv,
         \/ LeavesMain \/ Reload \/ SwipeDown \/ SwipeCancel \/ AskReset
         \/ \E o \in Lazy : Arrives(o)
         \/ \E o \in Drawers \cup Lazy \cup Alerts : Close(o)
  PROVE  FrameInv'
<1>1. CASE LeavesMain \/ Reload
  <2>1. /\ over' = {} /\ settings' = Closed /\ start' = "none" /\ UNCHANGED bindings
        /\ loaded' \subseteq Lazy /\ notes' = [notes EXCEPT !.hidden = FALSE]
    BY <1>1 DEF LeavesMain, Reload, FrameInv, FrameTypeOK
  <2>2. notes' \in [alone : SUBSET Actions, hidden : BOOLEAN] /\ notes'.alone = notes.alone
    BY <2>1 DEF FrameInv, FrameTypeOK
  <2>3. FrameTypeOK'
    BY <2>1, <2>2 DEF FrameInv, FrameTypeOK, Closed, Tabs
  <2> QED
    BY <2>1, <2>2, <2>3 DEF FrameInv, SharedBindingHasReset, Excused
<1>2. CASE SwipeDown \/ SwipeCancel \/ \E o \in Lazy : Arrives(o)
  <2>1. /\ UNCHANGED <<over, settings, bindings, notes>> /\ loaded' \subseteq Lazy
        /\ start' \in {"none", "left", "right"}
    BY <1>2 DEF SwipeDown, SwipeCancel, Arrives, FrameInv, FrameTypeOK
  <2> QED
    BY <2>1 DEF FrameInv, FrameTypeOK, SharedBindingHasReset, Excused
<1>3. CASE AskReset
  <2>1. /\ over' = over \cup {"reset"} /\ "settings" \in over
        /\ UNCHANGED <<loaded, settings, bindings, start, notes>>
    BY <1>3 DEF AskReset, OnScreen
  <2>2. FrameTypeOK'
    BY <2>1 DEF FrameInv, FrameTypeOK, Alerts
  <2> QED
    BY <2>1, <2>2 DEF FrameInv, SharedBindingHasReset, Excused
<1>4. CASE \E o \in Drawers \cup Lazy \cup Alerts : Close(o)
  <2>1. PICK o : Close(o)
    BY <1>4
  <2>2. /\ over' = over \ {o} /\ UNCHANGED <<loaded, bindings, start>>
        /\ notes' = [notes EXCEPT !.hidden = @ /\ Cardinality(over \ {o}) > 1]
        /\ settings' = (IF o = "settings" THEN Closed ELSE settings)
        /\ o = "settings" => "reset" \notin over
    BY <2>1 DEF Close
  <2>3. /\ notes' \in [alone : SUBSET Actions, hidden : BOOLEAN]
        /\ notes'.alone = notes.alone /\ Excused'
    BY <2>2, CloseExcused DEF FrameInv
  <2>4. settings' \in [tab : Tabs, recording : Actions \cup {"none"}]
    BY <2>2 DEF FrameInv, FrameTypeOK, Closed, Tabs
  <2>5. FrameTypeOK'
    BY <2>2, <2>3, <2>4 DEF FrameInv, FrameTypeOK
  <2>6. SharedBindingHasReset'
    BY <2>2, <2>3 DEF FrameInv, SharedBindingHasReset
  <2> QED
    BY <2>3, <2>5, <2>6 DEF FrameInv
<1> QED
  BY <1>1, <1>2, <1>3, <1>4

\* The defaults are keys of the page, and no two are the same.
LEMMA DefaultsDiffer ==
  /\ Default \in [Actions -> Combos]
  /\ \A a, b \in Actions : a # b => Default[a] # Default[b]
<1>1. Default \in [Actions -> {Default[a] : a \in Actions}]
  BY DEF Default, Actions
<1>2. \A a, b \in Actions : a # b => Default[a] # Default[b]
  BY DEF Default, Actions
<1> QED
  BY <1>1, <1>2, ShellAssumption

\* Recording and resetting in the settings dialog, which stays on the screen.
LEMMA SettingsKeepInv ==
  ASSUME FrameInv,
         \/ \E a \in Edited : Record(a) \/ ResetOne(a)
         \/ \E c \in Combos \cup {"escape"} : RecordedKey(c)
         \/ ResetEverything \/ ChangeTab
  PROVE  FrameInv'
<1>1. Edited \subseteq Actions
  BY ShellAssumption
<1>2. "none" \notin Actions
  BY DEF Actions
<1>3. CASE ChangeTab \/ \E a \in Edited : Record(a)
  <2>1. /\ UNCHANGED <<over, loaded, bindings, start, notes>> /\ "settings" \in over
        /\ settings' \in [tab : Tabs, recording : Actions \cup {"none"}]
    <3>1. CASE ChangeTab
      BY <3>1 DEF ChangeTab, OnScreen
    <3>2. CASE \E a \in Edited : Record(a)
      <4>1. PICK a \in Actions : Record(a)
        BY <1>1, <3>2
      <4>2. PICK r \in Actions \cup {"none"} : settings' = [settings EXCEPT !.recording = r]
        BY <4>1 DEF Record
      <4> QED
        BY <4>1, <4>2 DEF Record, InSettings, OnScreen, FrameInv, FrameTypeOK
    <3> QED
      BY <1>3, <3>1, <3>2
  <2> QED
    BY <2>1 DEF FrameInv, FrameTypeOK, SharedBindingHasReset, Excused
<1>4. CASE \E a \in Edited : ResetOne(a)
  <2>1. PICK a \in Actions : ResetOne(a)
    BY <1>1, <1>4
  <2>2. /\ bindings' = [bindings EXCEPT ![a] = Default[a]]
        /\ notes' = [notes EXCEPT !.alone = notes.alone \cup {a}]
        /\ UNCHANGED <<over, loaded, settings, start>>
    BY <2>1 DEF ResetOne
  <2>3. /\ notes' \in [alone : SUBSET Actions, hidden : BOOLEAN]
        /\ notes'.alone = notes.alone \cup {a} /\ notes'.hidden = notes.hidden
    BY <2>2 DEF FrameInv, FrameTypeOK
  <2>4. bindings' \in [Actions -> Combos] /\ \A b \in Actions \ {a} : bindings'[b] = bindings[b]
    BY <2>2, DefaultsDiffer DEF FrameInv, FrameTypeOK
  <2>5. FrameTypeOK'
    BY <2>2, <2>3, <2>4 DEF FrameInv, FrameTypeOK
  <2>6. SharedBindingHasReset'
    BY <2>3, <2>4 DEF FrameInv, SharedBindingHasReset
  <2>7. Excused'
    BY <2>2, <2>3 DEF FrameInv, Excused
  <2> QED
    BY <2>5, <2>6, <2>7 DEF FrameInv
<1>5. CASE \E c \in Combos \cup {"escape"} : RecordedKey(c)
  <2>1. PICK c \in Combos \cup {"escape"} : RecordedKey(c)
    BY <1>5
  <2> DEFINE a == settings.recording
  <2>2. /\ a \in Actions /\ settings' = [settings EXCEPT !.recording = "none"]
        /\ "settings" \in over /\ UNCHANGED <<over, loaded, start>>
    BY <2>1 DEF RecordedKey, InSettings, OnScreen, FrameInv, FrameTypeOK
  <2>3. settings' \in [tab : Tabs, recording : Actions \cup {"none"}]
    BY <2>2 DEF FrameInv, FrameTypeOK
  <2>4. CASE c = "escape"
    <3>1. UNCHANGED <<bindings, notes>>
      BY <2>1, <2>4 DEF RecordedKey
    <3> QED
      BY <2>2, <2>3, <3>1 DEF FrameInv, FrameTypeOK, SharedBindingHasReset, Excused
  <2>5. CASE c # "escape"
    <3>1. /\ bindings' = [bindings EXCEPT ![a] = c]
          /\ notes' = [notes EXCEPT !.alone = notes.alone \ {a}]
          /\ ShortcutIssue(c, a) = "none"
      BY <2>1, <2>5 DEF RecordedKey
    <3>2. \A b \in Actions \ {a} : bindings[b] # c
      BY <3>1 DEF ShortcutIssue
    <3>3. /\ notes' \in [alone : SUBSET Actions, hidden : BOOLEAN]
          /\ notes'.alone = notes.alone \ {a} /\ notes'.hidden = notes.hidden
      BY <3>1 DEF FrameInv, FrameTypeOK
    <3> HIDE DEF a
    <3>4. /\ bindings' \in [Actions -> Combos] /\ bindings'[a] = c
          /\ \A b \in Actions \ {a} : bindings'[b] = bindings[b]
      BY <2>2, <2>5, <3>1 DEF FrameInv, FrameTypeOK
    <3>5. FrameTypeOK'
      BY <2>2, <2>3, <3>3, <3>4 DEF FrameInv, FrameTypeOK
    <3>6. SharedBindingHasReset'
      BY <2>2, <3>2, <3>3, <3>4 DEF FrameInv, SharedBindingHasReset
    <3>7. Excused'
      BY <2>2, <3>3 DEF FrameInv, Excused
    <3> QED
      BY <3>5, <3>6, <3>7 DEF FrameInv
  <2> QED
    BY <2>4, <2>5
<1>6. CASE ResetEverything
  <2>1. /\ over' = over \ {"reset"} /\ bindings' = Default
        /\ notes' = [notes EXCEPT !.alone = {}] /\ UNCHANGED <<loaded, settings, start>>
    BY <1>6 DEF ResetEverything
  <2>2. notes' \in [alone : SUBSET Actions, hidden : BOOLEAN] /\ notes'.hidden = notes.hidden
    BY <2>1 DEF FrameInv, FrameTypeOK
  <2>3. FrameTypeOK'
    BY <2>1, <2>2, DefaultsDiffer DEF FrameInv, FrameTypeOK
  <2>4. SharedBindingHasReset'
    BY <2>1, DefaultsDiffer DEF SharedBindingHasReset
  <2>5. Excused'
    BY <2>1, <2>2 DEF FrameInv, Excused
  <2> QED
    BY <2>3, <2>4, <2>5 DEF FrameInv
<1> QED
  BY <1>3, <1>4, <1>5, <1>6

\* The invariant of the frame.
THEOREM FrameInvHolds == FrameSpec => []FrameInv
<1>1. FrameInit => FrameInv
  BY DefaultsDiffer
     DEF FrameInit, FrameInv, FrameTypeOK, SharedBindingHasReset, Excused, Closed, Tabs
<1>2. FrameInv /\ [FrameNext]_frameVars => FrameInv'
  <2>1. FrameInv /\ FrameNext => FrameInv'
    BY OpeningKeepsInv, ClosingKeepsInv, SettingsKeepInv DEF FrameNext
  <2>2. FrameInv /\ UNCHANGED frameVars => FrameInv'
    BY DEF frameVars, FrameInv, FrameTypeOK, SharedBindingHasReset, Excused
  <2> QED
    BY <2>1, <2>2
<1> QED
  BY <1>1, <1>2, PTL DEF FrameSpec

\* Overlays, tab and shortcuts keep to their values, and the settings dialog
\* keeps nothing while it is shut (AppShell.tsx, SettingsDialog.tsx).
THEOREM FrameTypeCorrect == FrameSpec => []FrameTypeOK
<1>1. FrameInv => FrameTypeOK
  BY DEF FrameInv
<1> QED
  BY <1>1, FrameInvHolds, PTL

\* Recording never gives two actions the same keys; only the reset of one can
\* (shortcuts.ts, shortcutIssue; shortcutStore.ts, resetBinding).
THEOREM SharingNeedsReset == FrameSpec => []SharedBindingHasReset
<1>1. FrameInv => SharedBindingHasReset
  BY DEF FrameInv
<1> QED
  BY <1>1, FrameInvHolds, PTL

\* However overlays are asked for, fetched and closed, two are up together only
\* for one of the two known reasons (AppShell.tsx, disabled).
THEOREM OneOverlayAtATime == FrameSpec => []OneOverlay
<1>1. FrameInv => OneOverlay
  <2>1. SUFFICES ASSUME FrameInv, Cardinality(over \ {"reset"}) > 1 PROVE notes.hidden
    BY DEF OneOverlay
  <2>2. over \ {"reset"} \in SUBSET Overlays
    BY <2>1 DEF FrameInv, FrameTypeOK, Overlays
  <2>3. IsFiniteSet(over \ {"reset"})
    BY <2>2, OverlaysFinite
  <2>4. PICK x, y \in over \ {"reset"} : x # y
    BY <2>1, <2>3, MoreAreTwo
  <2> QED
    BY <2>1, <2>4 DEF FrameInv, Excused
<1> QED
  BY <1>1, FrameInvHolds, PTL
------------------------------------------------------------------------------
(* The composer and the log: PageChat *)

\* What is in the composer, or goes with an image.
Words == Drafts \cup {Empty}

\* What may befall a draft.
Marks == {"begun", "erased", "both", "dropped", "unnoticed", "strayed", "posted", "twice",
          "wiped", "relaid", "toobig", "cutoff"}

\* How words leave the page.
Causes == {"posted", "erased", "dropped", "unnoticed", "relaid", "wiped"}

\* The records of PageChat: the chat area,
Chat == [link : {"ready", "reconnecting", "syncing", "out"}, open : BOOLEAN,
         login : 0..MaxLogins, layout : 0..MaxLogins, here : BOOLEAN]

\* the composer in it,
Composer == [draft : Words, since : 0..MaxLogins, busy : BOOLEAN]

\* and an image on its way, with the words taken along.
Image == [words : Words, login : 0..MaxLogins, layout : 0..MaxLogins]

\* Types strong enough for the invariant.
ChatTypes ==
  /\ chat \in Chat /\ chat.login <= chat.layout
  /\ composer \in Composer
  /\ sending \in Seq(Image) /\ Len(sending) <= MaxImages
  /\ fate \in [Drafts -> SUBSET Marks]

\* The connection is there.
Linked == chat.link \in {"syncing", "ready"}

\* A draft is of a layout that is shown and of its login, and nothing has taken it
\* away yet; a spinner waits for an image of that layout.
DraftIsNew ==
  /\ composer.draft # Empty =>
       /\ Mounted /\ composer.since = chat.login
       /\ fate[composer.draft] # {} /\ "posted" \notin fate[composer.draft]
  /\ composer.busy =>
       Mounted /\ \E i \in DOMAIN sending : sending[i].layout = chat.layout

\* Words under way with an image are known; they are in the composer too only in
\* the layout they were taken from, whoever sends them again is remembered, and so
\* is that the connection they were written on is not there any more.
TakenAlong ==
  \A i \in DOMAIN sending : LET w == sending[i].words IN
    w # Empty =>
      /\ fate[w] # {}
      /\ composer.draft = w => sending[i].layout = chat.layout
      /\ "posted" \in fate[w] => "both" \in fate[w]
      /\ \A j \in DOMAIN sending : j # i /\ sending[j].words = w => "both" \in fate[w]
      /\ ~Linked \/ sending[i].login # chat.login => "cutoff" \in fate[w]

\* The inductive invariant of the composer.
ChatInv == ChatTypes /\ DraftIsNew /\ TakenAlong /\ PostGoesWhereWritten

\* The inductive invariant of the log: no more is kept than the code keeps.
LogInv == log \in Seq(Message) /\ Len(log) <= Kept

\* Words are drafts, or none.
LEMMA WordsAreDrafts == Empty \notin Drafts /\ \A w \in Words : w # Empty => w \in Drafts
BY ChatAssumption DEF Words, Empty

\* A mark is added to one draft.
LEMMA NotedAt ==
  ASSUME NEW f \in [Drafts -> SUBSET Marks], NEW w \in Words, NEW what \in SUBSET Marks
  PROVE  /\ Noted(f, w, what) \in [Drafts -> SUBSET Marks]
         /\ \A v \in Drafts : Noted(f, w, what)[v] = IF v = w THEN f[v] \cup what ELSE f[v]
<1>1. CASE w = Empty
  BY <1>1, WordsAreDrafts DEF Noted
<1>2. CASE w # Empty
  <2>1. w \in Drafts
    BY <1>2, WordsAreDrafts
  <2>2. Noted(f, w, what) = [f EXCEPT ![w] = f[w] \cup what]
    BY <1>2 DEF Noted
  <2>3. f[w] \cup what \in SUBSET Marks
    BY <2>1
  <2> QED
    BY <2>1, <2>2, <2>3
<1> QED
  BY <1>1, <1>2

\* What a sending notes at the words it carries: that, and posted twice if they were
\* posted before.
Again(f, w, what) == what \cup (IF "posted" \in what \cap f[w] THEN {"twice"} ELSE {})

LEMMA CarriesAt ==
  ASSUME NEW f \in [Drafts -> SUBSET Marks], NEW w \in Words, NEW what \in SUBSET Marks
  PROVE  /\ Carries(f, w, what) \in [Drafts -> SUBSET Marks]
         /\ \A v \in Drafts : v # w => Carries(f, w, what)[v] = f[v]
         /\ w # Empty => Carries(f, w, what)[w] = f[w] \cup Again(f, w, what)
<1>1. CASE w = Empty
  BY <1>1, WordsAreDrafts DEF Carries
<1>2. CASE w # Empty
  <2> DEFINE m == Again(f, w, what)
  <2>1. m \in SUBSET Marks
    BY DEF Again, Marks
  <2>2. Carries(f, w, what) = Noted(f, w, m)
    BY <1>2 DEF Carries, Again
  <2> HIDE DEF m
  <2>3. /\ Noted(f, w, m) \in [Drafts -> SUBSET Marks]
        /\ \A v \in Drafts : Noted(f, w, m)[v] = IF v = w THEN f[v] \cup m ELSE f[v]
    BY <2>1, NotedAt
  <2>4. w \in Drafts
    BY <1>2, WordsAreDrafts
  <2> QED
    BY <2>2, <2>3, <2>4 DEF m
<1> QED
  BY <1>1, <1>2

\* What sending may come to: words go out under their own login or another, or not
\* at all; they are dropped, or stray, only without their connection.
LEMMA OutcomesAre ==
  ASSUME NEW login, NEW what \in Outcomes(login)
  PROVE  /\ what \in SUBSET {"posted", "strayed", "dropped", "unnoticed"}
         /\ what \cap {"posted", "dropped", "unnoticed"} # {}
         /\ what \cap {"dropped", "strayed"} # {} => ~Linked \/ login # chat.login
<1>1. \A now : /\ OutUnder(login, now) \in SUBSET {"posted", "strayed"}
               /\ "posted" \in OutUnder(login, now)
               /\ "strayed" \in OutUnder(login, now) => now # login
  BY DEF OutUnder
<1>2. CASE chat.link \in {"syncing", "ready"}
  <2>1. what = IF chat.open THEN OutUnder(login, chat.login) ELSE {"unnoticed"}
    BY <1>2 DEF Outcomes
  <2>2. CASE chat.open
    BY <1>1, <2>1, <2>2
  <2>3. CASE ~chat.open
    BY <2>1, <2>3
  <2> QED
    BY <2>2, <2>3
<1>3. CASE ~(chat.link \in {"syncing", "ready"})
  <2>1. what = {"dropped"} \/ \E now : what = OutUnder(login, now)
    BY <1>3 DEF Outcomes
  <2> QED
    BY <1>1, <1>3, <2>1 DEF Linked
<1> QED
  BY <1>2, <1>3

\* The words that images carry are cut off, and no others.
LEMMA CutOffAt ==
  ASSUME ChatInv
  PROVE  /\ CutOff(fate) \in [Drafts -> SUBSET Marks]
         /\ \A v \in Drafts :
              /\ CutOff(fate)[v] = fate[v] \/ CutOff(fate)[v] = fate[v] \cup {"cutoff"}
              /\ fate[v] = {} => CutOff(fate)[v] = {}
              /\ Carried(v) => "cutoff" \in CutOff(fate)[v]
<1>1. fate \in [Drafts -> SUBSET Marks]
  BY DEF ChatInv, ChatTypes
<1>2. \A v \in Drafts : CutOff(fate)[v] = fate[v] \cup (IF Carried(v) THEN {"cutoff"} ELSE {})
  BY DEF CutOff
<1>3. CutOff(fate) \in [Drafts -> SUBSET Marks]
  <2>1. \A v \in Drafts : fate[v] \cup (IF Carried(v) THEN {"cutoff"} ELSE {}) \in SUBSET Marks
    BY <1>1 DEF Marks
  <2> QED
    BY <2>1 DEF CutOff
<1>4. ASSUME NEW v \in Drafts, Carried(v)
      PROVE  fate[v] # {}
  BY <1>4, WordsAreDrafts DEF Carried, ChatInv, TakenAlong
<1> QED
  BY <1>2, <1>3, <1>4

\* A finite sequence with one element taken out.
LEMMA RemovedAt ==
  ASSUME NEW S, NEW s \in Seq(S), NEW i \in DOMAIN s
  PROVE  /\ RemoveAt(s, i) \in Seq(S) /\ Len(RemoveAt(s, i)) = Len(s) - 1
         /\ \A j \in DOMAIN RemoveAt(s, i) :
              /\ j < i => j \in DOMAIN s /\ j # i /\ RemoveAt(s, i)[j] = s[j]
              /\ ~(j < i) => j + 1 \in DOMAIN s /\ j + 1 # i /\ RemoveAt(s, i)[j] = s[j + 1]
         /\ \A k \in DOMAIN s : k # i =>
              \E j \in DOMAIN RemoveAt(s, i) : RemoveAt(s, i)[j] = s[k]
<1>1. i \in 1..Len(s) /\ Len(s) \in Nat
  OBVIOUS
<1> DEFINE a == SubSeq(s, 1, i - 1)
           b == SubSeq(s, i + 1, Len(s))
<1>2. a \in Seq(S) /\ Len(a) = i - 1 /\ \A j \in 1..(i - 1) : a[j] = s[j]
  BY <1>1
<1>3. b \in Seq(S) /\ Len(b) = Len(s) - i /\ \A j \in 1..(Len(s) - i) : b[j] = s[i + j]
  BY <1>1
<1>4. RemoveAt(s, i) = a \o b
  BY DEF RemoveAt
<1> HIDE DEF a, b
<1>5. a \o b \in Seq(S) /\ Len(a \o b) = Len(s) - 1
  BY <1>1, <1>2, <1>3
<1>6. \A j \in 1..(Len(s) - 1) : (a \o b)[j] = IF j < i THEN s[j] ELSE s[j + 1]
  <2>1. SUFFICES ASSUME NEW j \in 1..(Len(s) - 1)
                 PROVE  (a \o b)[j] = IF j < i THEN s[j] ELSE s[j + 1]
    OBVIOUS
  <2>2. CASE j < i
    BY <1>1, <1>2, <1>3, <2>2
  <2>3. CASE ~(j < i)
    <3>1. (a \o b)[j] = b[j - Len(a)]
      <4>1. Len(a) \in Nat /\ Len(b) \in Nat /\ j > Len(a) /\ j \in 1..(Len(a) + Len(b))
        BY <1>1, <1>2, <1>3, <2>3
      <4>2. a \in Seq(S) /\ b \in Seq(S)
        BY <1>2, <1>3
      <4> QED
        BY <4>1, <4>2
    <3>2. j - Len(a) = j - i + 1 /\ j - i + 1 \in 1..(Len(s) - i) /\ i + (j - i + 1) = j + 1
      BY <1>1, <1>2, <2>3
    <3> QED
      BY <1>3, <2>3, <3>1, <3>2
  <2> QED
    BY <2>2, <2>3
<1>7. DOMAIN (a \o b) = 1..(Len(s) - 1)
  BY <1>5
<1>8. DOMAIN s = 1..Len(s)
  OBVIOUS
<1>9. ASSUME NEW j \in 1..(Len(s) - 1)
      PROVE  /\ j < i => j \in DOMAIN s /\ j # i /\ (a \o b)[j] = s[j]
             /\ ~(j < i) => j + 1 \in DOMAIN s /\ j + 1 # i /\ (a \o b)[j] = s[j + 1]
  <2>1. CASE j < i
    <3>1. j \in 1..Len(s) /\ j # i
      BY <1>1, <2>1
    <3> QED
      BY <1>6, <1>8, <2>1, <3>1
  <2>2. CASE ~(j < i)
    <3>1. j + 1 \in 1..Len(s) /\ j + 1 # i
      BY <1>1, <2>2
    <3> QED
      BY <1>6, <1>8, <2>2, <3>1
  <2> QED
    BY <2>1, <2>2
<1>10. ASSUME NEW k \in 1..Len(s), k # i
       PROVE  \E j \in 1..(Len(s) - 1) : (a \o b)[j] = s[k]
  <2>1. CASE k < i
    <3>1. k \in 1..(Len(s) - 1)
      BY <1>1, <2>1
    <3> QED
      BY <1>6, <2>1, <3>1
  <2>2. CASE k > i
    <3>1. k - 1 \in 1..(Len(s) - 1) /\ ~(k - 1 < i) /\ (k - 1) + 1 = k
      BY <1>1, <1>10, <2>2
    <3> QED
      BY <1>6, <3>1
  <2>3. k < i \/ k > i
    BY <1>1, <1>10
  <2> QED
    BY <2>1, <2>2, <2>3
<1> QED
  BY <1>4, <1>5, <1>7, <1>8, <1>9, <1>10

\* An image that comes back is within its budget, and has a length.
LEMMA PreparedFits ==
  ASSUME NEW w \in Words, NEW data \in Prepared[Budget(w)]
  PROVE  data \in Nat /\ (data # 0 => data <= Budget(w))
<1>1. Budget(w) \in {Budget(v) : v \in Drafts \cup {Empty}}
  BY DEF Words
<1>2. PICK size \in [Range(Encodings) -> Sizes] : data = imageToMessageDataUrl(size, Budget(w))
  BY <1>1 DEF Prepared
<1> DEFINE fitting == {i \in DOMAIN Encodings : size[Encodings[i]] <= Budget(w)}
<1>3. DOMAIN Encodings = 1..4
  BY DEF Encodings
<1>4. CASE fitting = {}
  BY <1>2, <1>4 DEF imageToMessageDataUrl
<1>5. CASE fitting # {}
  <2>1. \E x \in fitting : \A y \in fitting : x <= y
    <3>1. fitting \subseteq {1, 2, 3, 4}
      BY <1>3
    <3>2. fitting # {}
      BY <1>5
    <3> HIDE DEF fitting
    <3>3. CASE 1 \in fitting
      BY <3>1, <3>3
    <3>4. CASE 1 \notin fitting /\ 2 \in fitting
      BY <3>1, <3>4
    <3>5. CASE 1 \notin fitting /\ 2 \notin fitting /\ 3 \in fitting
      BY <3>1, <3>5
    <3>6. CASE 1 \notin fitting /\ 2 \notin fitting /\ 3 \notin fitting
      <4>1. PICK x : x \in fitting
        BY <3>2
      <4>2. fitting = {4}
        BY <3>1, <3>6, <4>1
      <4> QED
        BY <4>2
    <3> QED
      BY <3>3, <3>4, <3>5, <3>6
  <2>2. Min(fitting) \in fitting
    BY <2>1 DEF Min
  <2>3. data = size[Encodings[Min(fitting)]]
    BY <1>2, <1>5 DEF imageToMessageDataUrl
  <2>4. Encodings[Min(fitting)] \in Range(Encodings)
    BY <2>2 DEF Range
  <2> QED
    BY <2>2, <2>3, <2>4, ChatAssumption
<1> QED
  BY <1>4, <1>5

\* The connection moves on, and the layout stays.
LEMMA MovesKeepChat ==
  ASSUME ChatInv, Moves \/ SocketCloses \/ Synced
  PROVE  ChatInv'
<1>1. /\ UNCHANGED <<composer, sending, fate>> /\ chat' \in Chat
      /\ chat'.login = chat.login /\ chat'.layout = chat.layout /\ (Mounted => Mounted')
      /\ Linked' = Linked
  <2>1. UNCHANGED <<composer, sending, fate>>
    BY DEF Moves, SocketCloses, Synced
  <2>2. CASE Moves
    BY <2>1, <2>2 DEF Moves, ChatInv, ChatTypes, Chat, Mounted, Linked
  <2>3. CASE SocketCloses
    BY <2>1, <2>3 DEF SocketCloses, ChatInv, ChatTypes, Chat, Mounted, Linked
  <2>4. CASE Synced
    BY <2>1, <2>4 DEF Synced, ChatInv, ChatTypes, Chat, Mounted, Linked
  <2> QED
    BY <2>2, <2>3, <2>4
<1> QED
  BY <1>1 DEF ChatInv, ChatTypes, DraftIsNew, TakenAlong, PostGoesWhereWritten

\* The connection is lost: what is on its way with images is cut off from it.
LEMMA LossKeepsChat == ASSUME ChatInv, BeginsReconnect PROVE ChatInv'
<1> USE DEF ChatInv, ChatTypes
<1>1. /\ UNCHANGED <<composer, sending>> /\ chat' \in Chat
      /\ chat'.login = chat.login /\ chat'.layout = chat.layout /\ Mounted'
  BY DEF BeginsReconnect, Chat, Mounted
<1>2. fate' = CutOff(fate)
  BY DEF BeginsReconnect
<1>3. /\ fate' \in [Drafts -> SUBSET Marks]
      /\ \A v \in Drafts : /\ fate'[v] = fate[v] \/ fate'[v] = fate[v] \cup {"cutoff"}
                           /\ fate[v] = {} => fate'[v] = {}
                           /\ Carried(v) => "cutoff" \in fate'[v]
  BY <1>2, CutOffAt
<1>4. DraftIsNew'
  BY <1>1, <1>3 DEF DraftIsNew, Composer, Words
<1>5. TakenAlong'
  <2>1. ASSUME NEW i \in DOMAIN sending, sending[i].words # Empty
        PROVE  sending[i].words \in Drafts /\ Carried(sending[i].words)
    <3>1. sending[i] \in Image
      OBVIOUS
    <3> QED
      BY <2>1, <3>1, WordsAreDrafts DEF Image, Carried
  <2> QED
    BY <1>1, <1>3, <2>1 DEF TakenAlong
<1>6. PostGoesWhereWritten'
  BY <1>1, <1>3 DEF PostGoesWhereWritten
<1> QED
  BY <1>1, <1>3, <1>4, <1>5, <1>6

\* The layout goes, and its draft with it.
LEMMA RelaidKeepsChat ==
  ASSUME ChatInv, LoggedInAgain \/ SessionOver
  PROVE  ChatInv'
<1> USE DEF ChatInv, ChatTypes
<1>1. composer' = NewComposer /\ UNCHANGED sending
  BY DEF LoggedInAgain, SessionOver
<1>2. chat' \in Chat /\ chat'.login <= chat'.layout
  <2>1. CASE LoggedInAgain
    <3>1. PICK n \in {0, 1} : n = IF chat.link = "out" THEN 1 ELSE 0
      OBVIOUS
    <3>2. chat.layout < MaxLogins
      BY <2>1 DEF LoggedInAgain
    <3>3. chat.layout + 1 \in 0..MaxLogins /\ chat.login + n \in 0..MaxLogins
          /\ chat.login + n <= chat.layout + 1
      BY <3>1, <3>2, ChatAssumption DEF Chat
    <3>4. chat' = [chat EXCEPT !.link = "syncing", !.open = TRUE, !.layout = chat.layout + 1,
                               !.login = chat.login + n]
      BY <2>1, <3>1 DEF LoggedInAgain
    <3> QED
      BY <3>3, <3>4 DEF Chat
  <2>2. CASE SessionOver
    BY <2>2 DEF SessionOver, Chat
  <2> QED
    BY <2>1, <2>2
<1>3. NewComposer \in Composer /\ NewComposer.draft = Empty /\ NewComposer.busy = FALSE
  BY ChatAssumption DEF NewComposer, Composer, Words
<1>4. composer.draft \in Words
  BY DEF Composer
\* The history before the draft is noted: that of the words cut off, when the
\* connection is given up.
<1>5. PICK f \in [Drafts -> SUBSET Marks] :
        /\ fate' = Noted(f, composer.draft, {"relaid"})
        /\ \A v \in Drafts : /\ f[v] = fate[v] \/ f[v] = fate[v] \cup {"cutoff"}
                             /\ fate[v] = {} => f[v] = {}
                             /\ Carried(v) => "cutoff" \in f[v]
  <2>1. CASE LoggedInAgain
    <3>1. fate' = Noted(fate, composer.draft, {"relaid"}) /\ ~Linked
      BY <2>1 DEF LoggedInAgain, Linked
    <3>2. ASSUME NEW v \in Drafts, Carried(v)
          PROVE  "cutoff" \in fate[v]
      BY <3>1, <3>2, WordsAreDrafts DEF Carried, TakenAlong
    <3> QED
      BY <3>1, <3>2
  <2>2. CASE SessionOver
    <3>1. fate' = Noted(CutOff(fate), composer.draft, {"relaid"})
      BY <2>2 DEF SessionOver
    <3> QED
      BY <3>1, CutOffAt
  <2> QED
    BY <2>1, <2>2
<1>6. /\ fate' \in [Drafts -> SUBSET Marks]
      /\ \A v \in Drafts : fate'[v] = IF v = composer.draft THEN f[v] \cup {"relaid"} ELSE f[v]
  <2> DEFINE what == {"relaid"}
  <2>1. what \in SUBSET Marks
    BY DEF Marks
  <2> HIDE DEF what
  <2>2. /\ Noted(f, composer.draft, what) \in [Drafts -> SUBSET Marks]
        /\ \A v \in Drafts : Noted(f, composer.draft, what)[v] =
             IF v = composer.draft THEN f[v] \cup what ELSE f[v]
    BY <1>4, <2>1, NotedAt
  <2> QED
    BY <1>5, <2>2 DEF what
<1>7. DraftIsNew'
  BY <1>1, <1>3 DEF DraftIsNew
<1>8. TakenAlong'
  <2>1. ASSUME NEW i \in DOMAIN sending, sending[i].words # Empty
        PROVE  sending[i].words \in Drafts /\ Carried(sending[i].words)
    <3>1. sending[i] \in Image
      OBVIOUS
    <3> QED
      BY <2>1, <3>1, WordsAreDrafts DEF Image, Carried
  <2>2. \A v \in Drafts : /\ fate[v] # {} => fate'[v] # {}
                          /\ "posted" \in fate'[v] => "posted" \in fate[v]
                          /\ "both" \in fate[v] => "both" \in fate'[v]
                          /\ Carried(v) => "cutoff" \in fate'[v]
    <3>1. ASSUME NEW v \in Drafts
          PROVE  /\ f[v] = fate[v] \/ f[v] = fate[v] \cup {"cutoff"}
                 /\ Carried(v) => "cutoff" \in f[v]
                 /\ fate'[v] = f[v] \/ fate'[v] = f[v] \cup {"relaid"}
      BY <1>5, <1>6
    <3> QED
      BY <3>1
  <2>3. composer'.draft = Empty
    BY <1>1, <1>3
  <2> QED
    BY <1>1, <2>1, <2>2, <2>3 DEF TakenAlong
<1>9. PostGoesWhereWritten'
  <2>1. ASSUME NEW v \in Drafts
        PROVE  /\ fate'[v] \cap {"dropped", "strayed"} # {} => "cutoff" \in fate'[v]
               /\ "twice" \in fate'[v] => "both" \in fate'[v]
               /\ fate'[v] # {} => fate'[v] \cap Causes # {}
               /\ "toobig" \in fate'[v] => v \in Special \/ Limit < Floor + Overhead + Length(v)
    <3>1. /\ fate[v] \cap {"dropped", "strayed"} # {} => "cutoff" \in fate[v]
          /\ "twice" \in fate[v] => "both" \in fate[v]
          /\ fate[v] # {} => composer.draft = v \/ fate[v] \cap Causes # {}
          /\ "toobig" \in fate[v] => v \in Special \/ Limit < Floor + Overhead + Length(v)
      BY DEF PostGoesWhereWritten, Causes
    <3>2. CASE v = composer.draft
      <4>1. fate'[v] = f[v] \cup {"relaid"}
        BY <1>6, <3>2
      <4>2. f[v] = fate[v] \/ f[v] = fate[v] \cup {"cutoff"}
        BY <1>5
      <4> QED
        BY <3>1, <4>1, <4>2 DEF Causes
    <3>3. CASE v # composer.draft
      <4>1. fate'[v] = f[v]
        BY <1>6, <3>3
      <4> QED
        BY <1>5, <3>1, <3>3, <4>1 DEF Causes
    <3> QED
      BY <3>2, <3>3
  <2> QED
    BY <2>1 DEF PostGoesWhereWritten, Causes
<1> QED
  BY <1>1, <1>2, <1>3, <1>6, <1>7, <1>8, <1>9

\* The draft leaves the composer, erased or sent; if an image carries it too,
\* sending it is remembered.
LEMMA DraftLeaves ==
  ASSUME ChatInv, NEW w \in Drafts, w = composer.draft, UNCHANGED <<chat, sending>>,
         composer' = Emptied(composer),
         NEW what \in SUBSET {"erased", "posted", "unnoticed", "both"},
         what \cap {"erased", "posted", "unnoticed"} # {},
         "posted" \in what /\ Carried(w) => "both" \in what,
         fate' = Noted(fate, w, what)
  PROVE  ChatInv'
<1> USE DEF ChatInv, ChatTypes
<1>1. w \in Words /\ what \in SUBSET Marks /\ Empty \in Words
  BY DEF Words, Marks
<1>2. /\ fate' \in [Drafts -> SUBSET Marks] /\ fate'[w] = fate[w] \cup what
      /\ \A v \in Drafts : v # w => fate'[v] = fate[v]
  <2>1. /\ Noted(fate, w, what) \in [Drafts -> SUBSET Marks]
        /\ \A v \in Drafts : Noted(fate, w, what)[v] = IF v = w THEN fate[v] \cup what ELSE fate[v]
    BY ONLY <1>1, fate \in [Drafts -> SUBSET Marks], NotedAt
  <2> QED
    BY <2>1
<1>3. composer' \in Composer /\ composer'.draft = Empty /\ composer'.busy = composer.busy
  <2>1. composer' = [composer EXCEPT !.draft = Empty, !.since = 0]
    BY DEF Emptied
  <2>2. 0 \in 0..MaxLogins
    BY ChatAssumption
  <2> QED
    BY <1>1, <2>1, <2>2 DEF Composer
<1>4. DraftIsNew'
  BY <1>3 DEF DraftIsNew, Mounted
<1>5. TakenAlong'
  <2>1. SUFFICES ASSUME NEW i \in DOMAIN sending, sending[i].words # Empty
                 PROVE  /\ fate'[sending[i].words] # {}
                        /\ "posted" \in fate'[sending[i].words] => "both" \in fate'[sending[i].words]
                        /\ \A j \in DOMAIN sending : j # i /\ sending[j].words = sending[i].words
                             => "both" \in fate'[sending[i].words]
                        /\ ~Linked \/ sending[i].login # chat.login
                             => "cutoff" \in fate'[sending[i].words]
    BY <1>3 DEF TakenAlong, Linked
  <2>2. sending[i].words \in Drafts
    <3>1. sending[i] \in Image
      OBVIOUS
    <3> QED
      BY <2>1, <3>1, WordsAreDrafts DEF Image
  <2>3. CASE sending[i].words = w
    <3>1. Carried(w)
      BY <2>3 DEF Carried
    <3>2. "posted" \notin fate[w]
      BY <2>1, <2>3 DEF DraftIsNew
    <3> QED
      BY <1>2, <2>1, <2>3, <3>1, <3>2 DEF TakenAlong
  <2>4. CASE sending[i].words # w
    BY <1>2, <2>1, <2>2, <2>4 DEF TakenAlong
  <2> QED
    BY <2>3, <2>4
<1>6. PostGoesWhereWritten'
  <2>1. w # Empty
    BY WordsAreDrafts
  <2>2. "posted" \notin fate[w]
    BY <2>1 DEF DraftIsNew
  <2>3. /\ fate'[w] \cap {"dropped", "strayed"} # {} => "cutoff" \in fate'[w]
        /\ "twice" \in fate'[w] => "both" \in fate'[w]
        /\ fate'[w] \cap Causes # {}
        /\ "toobig" \in fate'[w] => "toobig" \in fate[w]
    BY <1>2 DEF PostGoesWhereWritten, Causes
  <2>4. \A v \in Drafts : v # w => fate'[v] = fate[v] /\ composer.draft # v
    BY <1>2
  <2> QED
    BY <2>3, <2>4 DEF PostGoesWhereWritten, Causes
<1> QED
  BY <1>2, <1>3, <1>4, <1>5, <1>6

\* A draft is begun only with words that nothing is known of.
LEMMA TypingKeepsChat == ASSUME ChatInv, TypesDraft PROVE ChatInv'
<1>1. CanPost /\ UNCHANGED <<chat, sending>>
  BY DEF TypesDraft
<1>2. CASE /\ composer.draft # Empty
           /\ composer' = Emptied(composer)
           /\ fate' = Noted(fate, composer.draft, {"erased"})
  <2>1. composer.draft \in Drafts
    BY <1>2, WordsAreDrafts DEF ChatInv, ChatTypes, Composer
  <2> DEFINE what == {"erased"}
  <2>2. /\ what \in SUBSET {"erased", "posted", "unnoticed", "both"}
        /\ what \cap {"erased", "posted", "unnoticed"} # {} /\ "posted" \notin what
    OBVIOUS
  <2>3. fate' = Noted(fate, composer.draft, what)
    BY <1>2
  <2> HIDE DEF what
  <2> QED
    BY <1>1, <1>2, <2>1, <2>2, <2>3, DraftLeaves
<1>3. ASSUME NEW w \in Drafts, composer.draft = Empty, fate[w] = {},
             composer' = [composer EXCEPT !.draft = w, !.since = chat.login],
             fate' = Noted(fate, w, {"begun"})
      PROVE  ChatInv'
  <2> USE DEF ChatInv, ChatTypes
  <2>1. w \in Words /\ w # Empty
    BY WordsAreDrafts DEF Words
  <2>2. /\ fate' \in [Drafts -> SUBSET Marks] /\ fate'[w] = {"begun"}
        /\ \A v \in Drafts : v # w => fate'[v] = fate[v]
    <3> DEFINE what == {"begun"}
    <3>1. what \in SUBSET Marks
      BY DEF Marks
    <3> HIDE DEF what
    <3>2. /\ Noted(fate, w, what) \in [Drafts -> SUBSET Marks]
          /\ \A v \in Drafts : Noted(fate, w, what)[v] = IF v = w THEN fate[v] \cup what ELSE fate[v]
      BY <2>1, <3>1, NotedAt
    <3> QED
      BY <1>3, <3>2 DEF what
  <2>3. /\ composer' \in Composer /\ composer'.draft = w /\ composer'.busy = composer.busy
        /\ composer'.since = chat.login
    BY <1>3, <2>1 DEF Composer, Chat
  <2>4. DraftIsNew'
    <3>1. Mounted /\ Mounted'
      BY <1>1 DEF Mounted, CanPost
    <3>2. fate'[w] # {} /\ "posted" \notin fate'[w]
      BY <2>2
    <3> QED
      BY <1>1, <2>3, <3>1, <3>2 DEF DraftIsNew
  <2>5. TakenAlong'
    <3>1. SUFFICES ASSUME NEW i \in DOMAIN sending, sending[i].words # Empty
                   PROVE  sending[i].words # w /\ fate'[sending[i].words] = fate[sending[i].words]
      BY <1>1, <2>3 DEF TakenAlong, Linked
    <3>2. sending[i] \in Image
      OBVIOUS
    <3>3. sending[i].words \in Drafts
      BY <3>1, <3>2, WordsAreDrafts DEF Image
    <3> QED
      BY <1>3, <2>2, <3>1, <3>3 DEF TakenAlong
  <2>6. PostGoesWhereWritten'
    <3>1. \A v \in Drafts : v # composer.draft
      BY <1>3, WordsAreDrafts
    <3> QED
      BY <2>2, <2>3, <3>1 DEF PostGoesWhereWritten
  <2> QED
    BY <1>1, <2>2, <2>3, <2>4, <2>5, <2>6
<1> QED
  BY <1>2, <1>3 DEF TypesDraft

\* What is submitted goes out on the connection it was written on, or is lost with
\* a socket whose close event is still to come.
LEMMA SubmitKeepsChat == ASSUME ChatInv, Submit PROVE ChatInv'
<1> DEFINE w == composer.draft
<1>1. CanPost /\ w # Empty /\ UNCHANGED <<chat, sending>> /\ composer' = Emptied(composer)
  BY DEF Submit
<1>2. w \in Drafts
  BY <1>1, WordsAreDrafts DEF ChatInv, ChatTypes, Composer
<1>3. PICK out \in Outcomes(composer.since) :
        fate' = Carries(fate, w, out \cup (IF Carried(w) THEN {"both"} ELSE {}))
  BY DEF Submit
<1>4. Linked /\ composer.since = chat.login /\ "posted" \notin fate[w]
  BY <1>1 DEF CanPost, Mounted, Linked, ChatInv, DraftIsNew
<1>5. /\ out \in SUBSET {"posted", "unnoticed"}
      /\ out \cap {"erased", "posted", "unnoticed"} # {}
  BY <1>4, OutcomesAre
<1> DEFINE what == out \cup (IF Carried(w) THEN {"both"} ELSE {})
<1>6. /\ what \in SUBSET {"erased", "posted", "unnoticed", "both"}
      /\ what \cap {"erased", "posted", "unnoticed"} # {}
      /\ Carried(w) => "both" \in what
  BY <1>5
<1>7. fate' = Carries(fate, w, what)
  BY <1>3
<1> HIDE DEF what
<1>8. fate' = Noted(fate, w, what)
  <2>1. what \cup (IF "posted" \in what \cap fate[w] THEN {"twice"} ELSE {}) = what
    BY <1>4
  <2> QED
    BY <1>1, <1>7, <2>1 DEF Carries
<1> HIDE DEF w
<1>9. w = composer.draft
  BY DEF w
<1> QED
  BY <1>1, <1>2, <1>6, <1>8, <1>9, DraftLeaves

\* An image takes along the words that are in the composer.
LEMMA SendingKeepsChat == ASSUME ChatInv, SendImage PROVE ChatInv'
<1> DEFINE w == composer.draft
           image == [words |-> w, login |-> chat.login, layout |-> chat.layout]
<1>1. /\ CanPost /\ UNCHANGED chat /\ Len(sending) < MaxImages
      /\ sending' = Append(sending, image)
      /\ composer' = [composer EXCEPT !.busy = TRUE]
  BY DEF SendImage
<1>2. /\ chat \in Chat /\ composer \in Composer /\ sending \in Seq(Image)
      /\ fate \in [Drafts -> SUBSET Marks] /\ chat.login <= chat.layout
  BY DEF ChatInv, ChatTypes
<1>3. w \in Words /\ image \in Image /\ image.words = w
      /\ image.layout = chat.layout /\ image.login = chat.login
  BY <1>2 DEF Composer, Chat, Image
<1>4. /\ composer' \in Composer /\ composer'.draft = w /\ composer'.since = composer.since
      /\ Mounted /\ Linked
  BY <1>1, <1>2 DEF Composer, CanPost, Mounted, Linked
<1>5. PICK what \in SUBSET {"both"} : what = (IF Carried(w) THEN {"both"} ELSE {})
  OBVIOUS
<1>6. fate' = Noted(fate, w, what)
  BY <1>5 DEF SendImage
<1>7. what \in SUBSET Marks
  BY <1>5 DEF Marks
<1>8. /\ fate' \in [Drafts -> SUBSET Marks]
      /\ \A v \in Drafts : fate'[v] = IF v = w THEN fate[v] \cup what ELSE fate[v]
  <2> HIDE DEF w
  <2>1. /\ Noted(fate, w, what) \in [Drafts -> SUBSET Marks]
        /\ \A v \in Drafts : Noted(fate, w, what)[v] = IF v = w THEN fate[v] \cup what ELSE fate[v]
    <3>1. fate \in [Drafts -> SUBSET Marks]
      BY <1>2
    <3>2. w \in Words
      BY <1>3
    <3> QED
      BY ONLY <3>1, <3>2, <1>7, NotedAt
  <2> QED
    BY <1>6, <2>1
<1>9. /\ sending' \in Seq(Image) /\ Len(sending') = Len(sending) + 1
      /\ Len(sending') <= MaxImages /\ sending'[Len(sending) + 1] = image
      /\ \A i \in 1..Len(sending) : sending'[i] = sending[i]
      /\ DOMAIN sending' = 1..(Len(sending) + 1) /\ DOMAIN sending = 1..Len(sending)
      /\ Len(sending) \in Nat
  <2> HIDE DEF image, w
  <2> QED
    BY <1>1, <1>2, <1>3, ChatAssumption
<1> HIDE DEF image, w
<1>10. DraftIsNew'
  <2>1. Len(sending) + 1 \in DOMAIN sending' /\ sending'[Len(sending) + 1].layout = chat'.layout
    BY <1>1, <1>3, <1>9
  <2>2. Mounted'
    BY <1>1, <1>4 DEF Mounted
  <2>3. w # Empty => /\ composer'.since = chat'.login
                     /\ fate'[w] # {} /\ "posted" \notin fate'[w]
    <3>1. w # Empty => w \in Drafts
      BY <1>3, WordsAreDrafts
    <3>2. w # Empty => composer.since = chat.login /\ fate[w] # {} /\ "posted" \notin fate[w]
      BY DEF ChatInv, DraftIsNew, w
    <3> QED
      BY <1>1, <1>4, <1>5, <1>8, <3>1, <3>2
  <2> QED
    BY <1>4, <2>1, <2>2, <2>3 DEF DraftIsNew
<1>11. TakenAlong'
  <2>1. \A v \in Drafts : /\ fate[v] # {} => fate'[v] # {}
                          /\ "posted" \in fate'[v] => "posted" \in fate[v]
                          /\ "both" \in fate[v] => "both" \in fate'[v]
                          /\ "cutoff" \in fate[v] => "cutoff" \in fate'[v]
                          /\ v = w /\ Carried(w) => "both" \in fate'[v]
    BY <1>5, <1>8
  <2>2. \A i \in 1..Len(sending) : sending[i].words = w => Carried(w)
    BY <1>9 DEF Carried
  <2>3. \A i \in 1..Len(sending) : sending[i].words # Empty => sending[i].words \in Drafts
    <3>1. \A i \in 1..Len(sending) : sending[i] \in Image
      BY <1>2
    <3> QED
      BY <3>1, WordsAreDrafts DEF Image
  <2>4. ASSUME NEW i \in 1..Len(sending), sending[i].words # Empty,
               NEW j \in 1..(Len(sending) + 1), j # i, sending'[j].words = sending[i].words
        PROVE  "both" \in fate'[sending[i].words]
    <3>1. CASE j = Len(sending) + 1
      BY <1>3, <1>9, <2>1, <2>2, <2>3, <2>4, <3>1
    <3>2. CASE j # Len(sending) + 1
      <4>1. j \in 1..Len(sending)
        BY <1>9, <3>2
      <4> QED
        BY <1>9, <2>1, <2>3, <2>4, <4>1 DEF ChatInv, TakenAlong
    <3> QED
      BY <3>1, <3>2
  <2>5. ASSUME NEW i \in 1..Len(sending), sending[i].words # Empty
        PROVE  /\ fate'[sending[i].words] # {}
               /\ composer.draft = sending[i].words => sending[i].layout = chat.layout
               /\ "posted" \in fate'[sending[i].words] => "both" \in fate'[sending[i].words]
               /\ sending[i].login # chat.login => "cutoff" \in fate'[sending[i].words]
    BY <1>9, <2>1, <2>3, <2>5 DEF ChatInv, TakenAlong
  <2>6. ASSUME w # Empty
        PROVE  /\ fate'[w] # {} /\ "posted" \notin fate'[w]
               /\ \A j \in 1..Len(sending) : sending[j].words = w => "both" \in fate'[w]
    <3>1. w \in Drafts
      BY <1>3, <2>6, WordsAreDrafts
    <3>2. fate[w] # {} /\ "posted" \notin fate[w]
      BY <2>6 DEF ChatInv, DraftIsNew, w
    <3> QED
      BY <2>1, <2>2, <3>1, <3>2
  <2>7. ASSUME NEW i \in DOMAIN sending', sending'[i].words # Empty
        PROVE  /\ fate'[sending'[i].words] # {}
               /\ composer'.draft = sending'[i].words => sending'[i].layout = chat'.layout
               /\ "posted" \in fate'[sending'[i].words] => "both" \in fate'[sending'[i].words]
               /\ \A j \in DOMAIN sending' :
                    j # i /\ sending'[j].words = sending'[i].words
                      => "both" \in fate'[sending'[i].words]
               /\ sending'[i].login # chat'.login => "cutoff" \in fate'[sending'[i].words]
    <3>1. CASE i \in 1..Len(sending)
      <4>1. sending'[i] = sending[i] /\ w = composer.draft
        BY <1>9, <3>1 DEF w
      <4> QED
        BY <1>1, <1>4, <1>9, <2>4, <2>5, <2>7, <3>1, <4>1
    <3>2. CASE i = Len(sending) + 1
      <4>1. /\ sending'[i].words = w /\ sending'[i].layout = chat'.layout
            /\ sending'[i].login = chat'.login
        BY <1>1, <1>3, <1>9, <3>2
      <4>2. \A j \in DOMAIN sending' : j # i => j \in 1..Len(sending) /\ sending'[j] = sending[j]
        BY <1>9, <3>2
      <4> QED
        BY <2>6, <2>7, <4>1, <4>2
    <3> QED
      BY <1>9, <3>1, <3>2
  <2>8. Linked'
    BY <1>1, <1>4 DEF Linked
  <2> QED
    BY <2>7, <2>8 DEF TakenAlong
<1>12. PostGoesWhereWritten'
  <2>1. ASSUME NEW v \in Drafts
        PROVE  /\ fate'[v] \cap {"dropped", "strayed"} # {} => "cutoff" \in fate'[v]
               /\ "twice" \in fate'[v] => "both" \in fate'[v]
               /\ "toobig" \in fate'[v] => v \in Special \/ Limit < Floor + Overhead + Length(v)
    <3>1. fate'[v] = fate[v] \/ fate'[v] = fate[v] \cup {"both"}
      BY <1>5, <1>8
    <3> QED
      BY <3>1 DEF ChatInv, PostGoesWhereWritten
  <2>2. ASSUME NEW v \in Drafts, fate'[v] # {}, composer'.draft # v
        PROVE  fate'[v] \cap Causes # {}
    <3>1. fate'[v] = fate[v] /\ composer.draft # v
      BY <1>4, <1>8, <2>2 DEF w
    <3> QED
      BY <2>2, <3>1 DEF ChatInv, PostGoesWhereWritten, Causes
  <2> QED
    BY <2>1, <2>2 DEF PostGoesWhereWritten, Causes
<1> QED
  BY <1>1, <1>2, <1>4, <1>8, <1>9, <1>10, <1>11, <1>12 DEF ChatInv, ChatTypes

\* A message that fits its budget is too long for the server only if letters have
\* to be escaped, or an image is granted more than there is.
LEMMA TooBigOnlyIf ==
  ASSUME NEW w \in Drafts, NEW data \in Nat, data <= Budget(w),
         LengthEscaped(w) + Tags + data > Limit, w \notin Special
  PROVE  Limit < Floor + Overhead + Length(w)
<1>1. Length(w) = 1 /\ LengthEscaped(w) = 1
  BY WordsAreDrafts DEF Length, LengthEscaped
<1>2. Limit \in Nat /\ Floor \in Nat /\ Overhead \in Nat /\ Tags \in 0..Overhead
  BY ChatAssumption
<1>3. CASE Limit - Overhead - 1 > Floor
  <2>1. data <= Limit - Overhead - 1
    BY <1>1, <1>3 DEF Budget
  <2> QED
    BY <1>1, <1>2, <2>1
<1>4. CASE ~(Limit - Overhead - 1 > Floor)
  <2>1. data <= Floor
    BY <1>1, <1>4 DEF Budget
  <2> QED
    BY <1>1, <1>2, <2>1
<1> QED
  BY <1>3, <1>4

\* The words u leave with what that comes to, and what is typed meanwhile goes if it
\* is of the same layout: what the step does to the history, and what comes of it.
Out(u, gone, what) ==
  fate' = Carries(IF gone /\ composer.draft # u
                  THEN Noted(fate, composer.draft, {"wiped"}) ELSE fate, u, what)

FateOnceOut(u, gone, what) ==
  /\ fate' \in [Drafts -> SUBSET Marks]
  /\ \A v \in Drafts : v # u =>
       fate'[v] = IF gone /\ composer.draft = v THEN fate[v] \cup {"wiped"} ELSE fate[v]
  /\ u # Empty => fate'[u] = fate[u] \cup Again(fate, u, what)

\* What happens to each draft when a message goes out with the words u.
LEMMA MessageGoesOut ==
  ASSUME fate \in [Drafts -> SUBSET Marks], NEW u \in Words, composer.draft \in Words,
         NEW gone \in BOOLEAN, NEW what \in SUBSET Marks, Out(u, gone, what)
  PROVE  FateOnceOut(u, gone, what)
<1> USE DEF Out, FateOnceOut
<1> DEFINE wiped == IF gone /\ composer.draft # u
                    THEN Noted(fate, composer.draft, {"wiped"}) ELSE fate
<1>1. /\ wiped \in [Drafts -> SUBSET Marks]
      /\ \A v \in Drafts : v # u =>
           wiped[v] = IF gone /\ composer.draft = v THEN fate[v] \cup {"wiped"} ELSE fate[v]
      /\ u # Empty => wiped[u] = fate[u]
  <2> DEFINE wipe == {"wiped"}
             d == composer.draft
  <2>1. wipe \in SUBSET Marks
    BY DEF Marks
  <2> HIDE DEF wipe, d
  <2>2. d \in Words
    BY DEF d
  <2>3. /\ Noted(fate, d, wipe) \in [Drafts -> SUBSET Marks]
        /\ \A v \in Drafts : Noted(fate, d, wipe)[v] = IF v = d THEN fate[v] \cup wipe ELSE fate[v]
    BY ONLY <2>1, <2>2, fate \in [Drafts -> SUBSET Marks], NotedAt
  <2>4. CASE gone /\ d # u
    <3>1. wiped = Noted(fate, d, wipe)
      BY <2>4 DEF d, wipe
    <3>2. u # Empty => u \in Drafts
      BY WordsAreDrafts
    <3> HIDE DEF wiped
    <3> QED
      BY <2>3, <2>4, <3>1, <3>2 DEF wipe, d
  <2>5. CASE ~(gone /\ d # u)
    <3>1. wiped = fate
      BY <2>5 DEF d
    <3> HIDE DEF wiped
    <3> QED
      BY <2>5, <3>1 DEF d
  <2> QED
    BY <2>4, <2>5
<1>2. fate' = Carries(wiped, u, what)
  OBVIOUS
<1> HIDE DEF wiped
<1>3. /\ Carries(wiped, u, what) \in [Drafts -> SUBSET Marks]
      /\ \A v \in Drafts : v # u => Carries(wiped, u, what)[v] = wiped[v]
      /\ u # Empty => Carries(wiped, u, what)[u] = wiped[u] \cup Again(wiped, u, what)
  BY ONLY <1>1, u \in Words, what \in SUBSET Marks, CarriesAt
<1>4. u # Empty => Again(wiped, u, what) = Again(fate, u, what)
  BY <1>1 DEF Again
<1> QED
  BY <1>1, <1>2, <1>3, <1>4

\* An image is prepared: its message goes out, or does not, and the composer it
\* came from is emptied if it is still there.
LEMMA PreparedKeepsChat == ASSUME ChatInv, ImagePrepared PROVE ChatInv'
<1> DEFINE same(s) == s.layout = chat.layout /\ Mounted
<1> DEFINE Prepares(i, data, out) ==
             LET s == sending[i]
                 wiped == IF same(s) /\ composer.draft # s.words
                          THEN Noted(fate, composer.draft, {"wiped"}) ELSE fate
             IN /\ sending' = RemoveAt(sending, i)
                /\ composer' = IF ~same(s) THEN composer
                               ELSE IF data = 0 THEN [composer EXCEPT !.busy = FALSE]
                               ELSE [Emptied(composer) EXCEPT !.busy = FALSE]
                /\ fate' = IF data = 0 THEN fate
                           ELSE Carries(wiped, s.words, out \cup
                                  (IF LengthEscaped(s.words) + Tags + data > Limit
                                   THEN {"toobig"} ELSE {}))
                /\ UNCHANGED <<chat, log>>
<1>0. PICK i \in DOMAIN sending :
        \E data \in Prepared[Budget(sending[i].words)], out \in Outcomes(sending[i].login) :
          Prepares(i, data, out)
  BY DEF ImagePrepared
<1>1. PICK data \in Prepared[Budget(sending[i].words)], out \in Outcomes(sending[i].login) :
        Prepares(i, data, out)
  BY <1>0
<1> DEFINE u == sending[i].words
           here == same(sending[i])
<1>2. /\ chat \in Chat /\ composer \in Composer /\ sending \in Seq(Image)
      /\ fate \in [Drafts -> SUBSET Marks] /\ chat.login <= chat.layout
  BY DEF ChatInv, ChatTypes
<1>3. UNCHANGED <<chat, log>> /\ Mounted' = Mounted
  BY <1>1 DEF Mounted
<1>4. sending[i] \in Image /\ u \in Words /\ (u # Empty => u \in Drafts)
  <2>1. sending[i] \in Image
    BY <1>2
  <2> QED
    BY <2>1, WordsAreDrafts DEF Image
<1>5. data \in Nat /\ (data # 0 => data <= Budget(u))
  BY <1>4, PreparedFits
<1>6. sending' \in Seq(Image) /\ Len(sending') <= MaxImages
  <2>1. sending' \in Seq(Image) /\ Len(sending') = Len(sending) - 1
    BY <1>1, <1>2, RemovedAt
  <2>2. Len(sending) \in Nat /\ Len(sending) <= MaxImages
    BY <1>2 DEF ChatInv, ChatTypes
  <2> QED
    BY <2>1, <2>2, ChatAssumption
<1>7. \A j \in DOMAIN sending' :
        /\ j < i => j \in DOMAIN sending /\ j # i /\ sending'[j] = sending[j]
        /\ ~(j < i) => j + 1 \in DOMAIN sending /\ j + 1 # i /\ sending'[j] = sending[j + 1]
  BY <1>1, <1>2, RemovedAt
<1>8. \A k \in DOMAIN sending : k # i => \E j \in DOMAIN sending' : sending'[j] = sending[k]
  BY <1>1, <1>2, RemovedAt
\* What the composer and the history are afterwards.
<1>9. /\ composer' \in Composer
      /\ composer'.busy => composer.busy /\ ~here
      /\ composer'.draft # Empty =>
           composer'.draft = composer.draft /\ composer'.since = composer.since
      /\ data = 0 \/ ~here => composer'.draft = composer.draft
      /\ data # 0 /\ here => composer'.draft = Empty
  <2>1. CASE ~here
    BY <1>1, <1>2, <2>1
  <2>2. CASE here /\ data = 0
    <3>1. composer' = [composer EXCEPT !.busy = FALSE]
      BY <1>1, <2>2
    <3> HIDE DEF here
    <3> QED
      BY <1>2, <2>2, <3>1 DEF Composer
  <2>3. CASE here /\ data # 0
    <3>1. composer' = [Emptied(composer) EXCEPT !.busy = FALSE]
      BY <1>1, <2>3
    <3>2. Emptied(composer) \in Composer /\ Emptied(composer).draft = Empty
      <4>1. Empty \in Words /\ 0 \in 0..MaxLogins
        BY ChatAssumption DEF Words
      <4> QED
        BY <1>2, <4>1 DEF Emptied, Composer
    <3> HIDE DEF here
    <3> QED
      BY <1>2, <2>3, <3>1, <3>2 DEF Composer
  <2> QED
    BY <2>1, <2>2, <2>3
<1>10. data = 0 => fate' = fate
  BY <1>1
<1>11. ASSUME data # 0
       PROVE  /\ fate' \in [Drafts -> SUBSET Marks]
              /\ \A v \in Drafts : v # u =>
                   fate'[v] = IF here /\ composer.draft = v
                              THEN fate[v] \cup {"wiped"} ELSE fate[v]
              /\ u # Empty =>
                   \E big \in SUBSET {"toobig"} :
                     /\ fate'[u] = fate[u] \cup Again(fate, u, out \cup big)
                     /\ big # {} => LengthEscaped(u) + Tags + data > Limit
  <2>1. PICK gone \in BOOLEAN : gone = here
    OBVIOUS
  <2>2. PICK big \in SUBSET {"toobig"} :
          big = IF LengthEscaped(u) + Tags + data > Limit THEN {"toobig"} ELSE {}
    OBVIOUS
  <2> DEFINE what == out \cup big
  <2>3. Out(u, gone, what)
    BY <1>1, <1>11, <2>1, <2>2 DEF Out
  <2>4. composer.draft \in Words /\ what \in SUBSET Marks
    BY <1>2, OutcomesAre DEF Composer, Marks
  <2> HIDE DEF u, here, what
  <2>5. FateOnceOut(u, gone, what)
    <3>1. fate \in [Drafts -> SUBSET Marks] /\ u \in Words
      BY <1>2, <1>4 DEF u
    <3> QED
      BY <2>3, <2>4, <3>1, MessageGoesOut
  <2>6. big # {} => LengthEscaped(u) + Tags + data > Limit
    BY <2>2
  <2> QED
    BY <2>1, <2>5, <2>6 DEF FateOnceOut, what
<1>12. fate' \in [Drafts -> SUBSET Marks]
  BY <1>2, <1>10, <1>11
<1> HIDE DEF u, here, Prepares
\* A draft that is still there is not among the words that went out.
<1>13. ASSUME composer'.draft # Empty
       PROVE  /\ composer.draft # Empty /\ composer'.draft \in Drafts
              /\ fate'[composer'.draft] = fate[composer'.draft]
  <2>1. composer.draft # Empty /\ composer'.draft = composer.draft /\ (data = 0 \/ ~here)
    BY <1>9, <1>13
  <2>2. composer.draft \in Drafts
    BY <1>2, <2>1, WordsAreDrafts DEF Composer
  <2>3. CASE data = 0
    BY <1>10, <2>1, <2>2, <2>3
  <2>4. CASE data # 0
    <3>1. ~here /\ Mounted
      BY <2>1, <2>4 DEF ChatInv, DraftIsNew
    <3>2. sending[i].layout # chat.layout
      BY <3>1 DEF here
    <3>3. composer.draft # u
      BY <2>1, <3>2 DEF ChatInv, TakenAlong, u
    <3> QED
      BY <1>11, <2>1, <2>2, <2>4, <3>1, <3>3
  <2> QED
    BY <2>3, <2>4
<1>14. DraftIsNew'
  <2>1. composer'.draft # Empty =>
          /\ Mounted' /\ composer'.since = chat'.login
          /\ fate'[composer'.draft] # {} /\ "posted" \notin fate'[composer'.draft]
    BY <1>3, <1>9, <1>13 DEF ChatInv, DraftIsNew
  <2>2. ASSUME composer'.busy
        PROVE  Mounted' /\ \E j \in DOMAIN sending' : sending'[j].layout = chat'.layout
    <3>1. composer.busy /\ ~here
      BY <1>9, <2>2
    <3>2. Mounted
      BY <3>1 DEF ChatInv, DraftIsNew
    <3>3. PICK k \in DOMAIN sending : sending[k].layout = chat.layout
      BY <3>1 DEF ChatInv, DraftIsNew
    <3>4. sending[i].layout # chat.layout
      BY <3>1, <3>2 DEF here
    <3>5. k # i
      BY <3>3, <3>4
    <3>6. PICK j \in DOMAIN sending' : sending'[j] = sending[k]
      BY <1>8, <3>5
    <3> QED
      BY <1>3, <3>2, <3>3, <3>6
  <2> QED
    BY <2>1, <2>2 DEF DraftIsNew
\* Of the drafts that images carry: nothing is forgotten.
<1>15. ASSUME NEW v \in Drafts
       PROVE  /\ fate[v] # {} => fate'[v] # {}
              /\ "both" \in fate[v] => "both" \in fate'[v]
              /\ "cutoff" \in fate[v] => "cutoff" \in fate'[v]
              /\ "posted" \in fate'[v] => "posted" \in fate[v] \/ v = u
  <2>1. CASE data = 0
    BY <1>10, <2>1
  <2>2. CASE data # 0 /\ v # u
    BY <1>11, <2>2
  <2>3. CASE data # 0 /\ v = u
    <3>1. u # Empty
      BY <2>3, WordsAreDrafts
    <3> QED
      BY <1>11, <2>3, <3>1
  <2> QED
    BY <2>1, <2>2, <2>3
<1>16. TakenAlong'
  <2>1. ASSUME NEW j \in DOMAIN sending', sending'[j].words # Empty
        PROVE  LET w == sending'[j].words IN
               /\ fate'[w] # {}
               /\ composer'.draft = w => sending'[j].layout = chat'.layout
               /\ "posted" \in fate'[w] => "both" \in fate'[w]
               /\ \A l \in DOMAIN sending' :
                    l # j /\ sending'[l].words = w => "both" \in fate'[w]
               /\ ~Linked \/ sending'[j].login # chat'.login => "cutoff" \in fate'[w]
    <3> DEFINE At(n) == IF n < i THEN n ELSE n + 1
    <3>1. PICK k : k = At(j) /\ k \in DOMAIN sending /\ k # i /\ sending'[j] = sending[k]
      BY <1>7
    <3> DEFINE w == sending[k].words
    <3>2. w # Empty /\ sending'[j].words = w /\ w \in Drafts
      <4>1. sending[k] \in Image
        BY <1>2, <3>1
      <4> QED
        BY <2>1, <3>1, <4>1, WordsAreDrafts DEF Image
    <3>3. /\ fate[w] # {} /\ (composer.draft = w => sending[k].layout = chat.layout)
          /\ "posted" \in fate[w] => "both" \in fate[w]
          /\ \A l \in DOMAIN sending : l # k /\ sending[l].words = w => "both" \in fate[w]
          /\ ~Linked \/ sending[k].login # chat.login => "cutoff" \in fate[w]
      BY <3>1, <3>2 DEF ChatInv, TakenAlong
    <3>4. w = u => "both" \in fate[w]
      BY <3>1, <3>3 DEF u
    <3>5. ASSUME NEW l \in DOMAIN sending', l # j, sending'[l].words = w
          PROVE  "both" \in fate[w]
      <4>1. PICK n : n = At(l) /\ n \in DOMAIN sending /\ n # i /\ sending'[l] = sending[n]
        BY <1>7
      <4>2. l \in Nat /\ j \in Nat /\ i \in Nat
        BY <1>2, <1>6
      <4>3. n # k
        BY <3>1, <3>5, <4>1, <4>2
      <4> QED
        BY <3>3, <3>5, <4>1, <4>3
    <3>6. composer'.draft = w => composer.draft = w
      BY <1>9, <3>2
    <3> HIDE DEF w
    <3>7. /\ fate'[w] # {} /\ ("both" \in fate[w] => "both" \in fate'[w])
          /\ "posted" \in fate'[w] => "both" \in fate'[w]
          /\ "cutoff" \in fate[w] => "cutoff" \in fate'[w]
      BY <1>15, <3>2, <3>3, <3>4
    <3> QED
      BY <1>3, <3>1, <3>2, <3>3, <3>5, <3>6, <3>7
  <2>2. Linked' = Linked
    BY <1>3 DEF Linked
  <2> QED
    BY <2>1, <2>2 DEF TakenAlong
<1>17. PostGoesWhereWritten'
  <2>1. ASSUME NEW v \in Drafts
        PROVE  /\ fate'[v] \cap {"dropped", "strayed"} # {} => "cutoff" \in fate'[v]
               /\ "twice" \in fate'[v] => "both" \in fate'[v]
               /\ fate'[v] # {} => composer'.draft = v
                                   \/ fate'[v] \cap Causes # {}
               /\ "toobig" \in fate'[v] => v \in Special \/ Limit < Floor + Overhead + Length(v)
    <3>1. /\ fate[v] \cap {"dropped", "strayed"} # {} => "cutoff" \in fate[v]
          /\ "twice" \in fate[v] => "both" \in fate[v]
          /\ fate[v] # {} => composer.draft = v
                             \/ fate[v] \cap Causes # {}
          /\ "toobig" \in fate[v] => v \in Special \/ Limit < Floor + Overhead + Length(v)
      BY DEF ChatInv, PostGoesWhereWritten, Causes
    <3>2. CASE data = 0
      BY <1>9, <1>10, <3>1, <3>2
    <3>3. CASE data # 0 /\ v # u
      <4>1. CASE here /\ composer.draft = v
        <5>1. fate'[v] = fate[v] \cup {"wiped"}
          BY <1>11, <3>3, <4>1
        <5> QED
          BY <3>1, <5>1 DEF Causes
      <4>2. CASE ~(here /\ composer.draft = v)
        <5>1. fate'[v] = fate[v] /\ (composer.draft = v => composer'.draft = v)
          BY <1>9, <1>11, <3>3, <4>2
        <5> QED
          BY <3>1, <5>1
      <4> QED
        BY <4>1, <4>2
    <3>4. CASE data # 0 /\ v = u
      <4>1. u # Empty
        BY <3>4, WordsAreDrafts
      <4>2. PICK big \in SUBSET {"toobig"} :
              /\ fate'[v] = fate[v] \cup Again(fate, v, out \cup big)
              /\ big # {} => LengthEscaped(v) + Tags + data > Limit
        BY <1>11, <3>4, <4>1
      <4>3. /\ "posted" \in fate[v] => "both" \in fate[v]
            /\ ~Linked \/ sending[i].login # chat.login => "cutoff" \in fate[v]
        BY <3>4, <4>1 DEF ChatInv, TakenAlong, u
      <4>4. big # {} => v \in Special \/ Limit < Floor + Overhead + Length(v)
        BY <1>5, <3>4, <4>2, TooBigOnlyIf
      <4>5. /\ out \in SUBSET {"posted", "strayed", "dropped", "unnoticed"}
            /\ out \cap {"posted", "dropped", "unnoticed"} # {}
            /\ out \cap {"dropped", "strayed"} # {} => ~Linked \/ sending[i].login # chat.login
        BY OutcomesAre
      <4>6. PICK more \in SUBSET {"twice"} :
              /\ fate'[v] = fate[v] \cup out \cup big \cup more
              /\ more # {} => "posted" \in fate[v]
        <5>1. PICK more \in SUBSET {"twice"} :
                more = IF "posted" \in (out \cup big) \cap fate[v] THEN {"twice"} ELSE {}
          OBVIOUS
        <5> QED
          BY <4>2, <5>1 DEF Again
      <4>7. fate'[v] \cap {"dropped", "strayed"} # {} => "cutoff" \in fate'[v]
        BY <3>1, <4>3, <4>5, <4>6
      <4>8. "twice" \in fate'[v] => "both" \in fate'[v]
        BY <3>1, <4>3, <4>5, <4>6
      <4>9. fate'[v] \cap Causes # {}
        BY <4>5, <4>6 DEF Causes
      <4>10. "toobig" \in fate'[v] => "toobig" \in fate[v] \/ big # {}
        BY <4>5, <4>6
      <4> QED
        BY <3>1, <4>4, <4>7, <4>8, <4>9, <4>10
    <3> QED
      BY <3>2, <3>3, <3>4
  <2> QED
    BY <2>1 DEF PostGoesWhereWritten, Causes
<1> QED
  BY <1>2, <1>3, <1>6, <1>9, <1>12, <1>14, <1>16, <1>17 DEF ChatInv, ChatTypes

\* The log keeps the last messages.
LEMMA LogKeepsLast == ASSUME LogInv, LogNext PROVE LogInv'
<1>1. PICK x : x \in Message /\ log' = (IF Len(Append(log, x)) > Kept
                                      THEN Tail(Append(log, x)) ELSE Append(log, x))
  <2>1. PICK u \in Senders \cup {System}, at \in Stamps, blank \in BOOLEAN :
          /\ blank => u = System
          /\ log' = (IF Len(Append(log, [sender |-> u, time |-> at, blank |-> blank])) > Kept
                     THEN Tail(Append(log, [sender |-> u, time |-> at, blank |-> blank]))
                     ELSE Append(log, [sender |-> u, time |-> at, blank |-> blank]))
    BY DEF LogNext, TextComes
  <2>2. [sender |-> u, time |-> at, blank |-> blank] \in Message
    <3>1. [sender |-> u, time |-> at, blank |-> blank]
            \in [sender : Senders \cup {System}, time : Stamps, blank : BOOLEAN]
      OBVIOUS
    <3> QED
      BY <2>1, <3>1 DEF Message
  <2> QED
    BY <2>1, <2>2
<1>2. log \in Seq(Message) /\ Len(log) \in Nat /\ Len(log) <= Kept /\ Kept \in Nat
  BY ChatAssumption DEF LogInv
<1>3. Append(log, x) \in Seq(Message) /\ Len(Append(log, x)) = Len(log) + 1
  BY <1>1, <1>2
<1>4. Tail(Append(log, x)) \in Seq(Message) /\ Len(Tail(Append(log, x))) = Len(log)
  BY <1>2, <1>3
<1> QED
  BY <1>1, <1>2, <1>3, <1>4 DEF LogInv

\* The invariant of the composer, and that of the log, which share nothing.
THEOREM ChatInvHolds == ChatSpec => [](ChatInv /\ LogInv)
<1>1. ChatInit => ChatInv /\ LogInv
  <2> SUFFICES ASSUME ChatInit PROVE ChatInv /\ LogInv
    OBVIOUS
  <2> USE DEF ChatInit
  <2>1. chat \in Chat /\ chat.login = 0 /\ chat.layout = 0
    BY ChatAssumption DEF Chat
  <2>2. NewComposer \in Composer /\ NewComposer.draft = Empty /\ NewComposer.busy = FALSE
    BY ChatAssumption DEF NewComposer, Composer, Words
  <2>3. fate \in [Drafts -> SUBSET Marks] /\ \A v \in Drafts : fate[v] = {}
    OBVIOUS
  <2>4. sending = <<>> /\ log = <<>> /\ composer = NewComposer
    OBVIOUS
  <2> HIDE DEF ChatInit
  <2>5. /\ sending \in Seq(Image) /\ Len(sending) = 0 /\ DOMAIN sending = {}
        /\ log \in Seq(Message) /\ Len(log) = 0
    BY <2>4
  <2>6. ChatTypes /\ DraftIsNew /\ TakenAlong
    BY <2>1, <2>2, <2>3, <2>4, <2>5, ChatAssumption DEF ChatTypes, DraftIsNew, TakenAlong
  <2>7. PostGoesWhereWritten
    BY <2>3 DEF PostGoesWhereWritten
  <2> QED
    BY <2>5, <2>6, <2>7, ChatAssumption DEF ChatInv, LogInv
<1>2. ChatInv /\ LogInv /\ [ComposerNext \/ LogNext]_chatVars => (ChatInv /\ LogInv)'
  <2> SUFFICES ASSUME ChatInv, LogInv, [ComposerNext \/ LogNext]_chatVars
               PROVE  ChatInv' /\ LogInv'
    OBVIOUS
  <2>1. CASE ComposerNext
    <3>1. UNCHANGED log
      BY <2>1 DEF ComposerNext, TypesDraft, Submit, PickImage, PasteOrDrop, SendImage,
                  ImagePrepared, Moves, SocketCloses, BeginsReconnect, LoggedInAgain, Synced,
                  SessionOver
    <3>2. ChatInv'
      BY <2>1, TypingKeepsChat, SubmitKeepsChat, SendingKeepsChat, PreparedKeepsChat,
         MovesKeepChat, LossKeepsChat, RelaidKeepsChat DEF ComposerNext, PickImage, PasteOrDrop
    <3> QED
      BY <3>1, <3>2 DEF LogInv
  <2>2. CASE LogNext \/ UNCHANGED chatVars
    <3>1. UNCHANGED <<chat, composer, sending, fate>>
      BY <2>2 DEF LogNext, chatVars
    <3>2. ChatInv'
      BY <3>1 DEF ChatInv, ChatTypes, DraftIsNew, TakenAlong, PostGoesWhereWritten, Mounted, Linked
    <3>3. LogInv'
      BY <2>2, LogKeepsLast DEF chatVars, LogInv
    <3> QED
      BY <3>2, <3>3
  <2> QED
    BY <2>1, <2>2
<1> QED
  BY <1>1, <1>2, PTL DEF ChatSpec

\* The composer keeps to its values, spins only for an image of its own layout,
\* and no more images and messages are kept than may be (ChatArea.tsx).
THEOREM ChatTypeCorrect == ChatSpec => []ChatTypeOK
<1>1. ChatInv /\ LogInv => ChatTypeOK
  BY DEF ChatInv, ChatTypes, DraftIsNew, LogInv, ChatTypeOK, Chat, Composer, Words
<1> QED
  BY <1>1, ChatInvHolds, PTL

\* Whatever the log holds, every message of it with something to show has its row,
\* in order, under the divider of its own day, and goes without its author exactly
\* when it continues what the message above says (groupMessages, ChatArea.tsx).
THEOREM MessagesHaveTheirRows == ChatSpec => []MessagesAreShown
<1>1. ChatInv /\ LogInv => MessagesAreShown
  BY LayoutIsRight DEF LogInv
<1> QED
  BY <1>1, ChatInvHolds, PTL

\* Whatever is typed, sent, prepared and lost meanwhile, words go out under the login
\* they were written in and once; only those cut off from their connection with an
\* image are dropped or go out under another, and none disappear without one of the
\* causes named (ChatArea.tsx, sendImage, submit, canPost; mumbleClient.ts, send).
THEOREM PostsGoWhereWritten == ChatSpec => []PostGoesWhereWritten
<1>1. ChatInv => PostGoesWhereWritten
  BY DEF ChatInv
<1> QED
  BY <1>1, ChatInvHolds, PTL
------------------------------------------------------------------------------
(* The roster, the messages and their dots: PageRoster *)

\* The states of the connection.
Links == {"idle", "connecting", "connected", "ready", "reconnecting", "failed", "ended"}

\* The records of PageRoster: the store's fields,
Store == [self : BOOLEAN, selfChannel : Channels, current : Channels, selected : Channels,
          channels : SUBSET Channels, users : [Users -> Channels \cup {Gone}],
          messages : [Channels -> 0..History], desired : Channels, needRestore : BOOLEAN]

\* the layout's,
Shell == [mounted : BOOLEAN, view : Channels, read : [Channels -> 0..History]]

\* what the proxy may send,
Envelopes ==
  [type : {"connected", "synced"}] \cup [type : {"channel", "channelRemove"}, channel : Channels]
  \cup [type : {"user"}, user : Users, channel : Channels] \cup [type : {"userRemove"}, user : Users]
  \cup [type : {"textMessage"}, channel : Channels \cup {Gone}]

\* and the history.
Past == [ghosts : SUBSET (Channels \cup Others), refused : BOOLEAN,
         unseen : SUBSET Channels, relaid : SUBSET Channels,
         lostUsers : SUBSET Users, lostChannels : SUBSET Channels]

\* Types strong enough for the invariant.
RosterTypes ==
  /\ link \in Links /\ store \in Store /\ shell \in Shell /\ past \in Past
  /\ murmur \in [channels : SUBSET Channels, at : [Users -> Channels \cup {Gone}]]
  /\ wire \in Seq(Envelopes) /\ upward \in Seq([type : {"join"}, channel : Channels])

\* A channel that may be viewed.
InTree(s, c) == s.channels = {} \/ ~s.self \/ c \in s.channels

\* What is viewed has been seen; what was not seen is there; what was read is
\* counted from where the layout was laid.
ShellInv ==
  /\ shell.mounted = Shown(link)
  /\ shell.mounted => InTree(store, shell.view) \/ shell.view = store.selfChannel
  /\ shell.view \notin past.unseen
  /\ \A c \in past.unseen : store.messages[c] > 0
  /\ ~shell.mounted => shell.read = NoCount
  /\ shell.mounted => \A c \in Channels : shell.read[c] <= store.messages[c]
  /\ UnreadDotIsTrue

\* The snapshot is still to come.
Fresh == wire # <<>> /\ wire[1].type = "connected"

\* Which connection the wire is of: connected comes first, and once.
WireInv ==
  /\ ~Online => wire = <<>> /\ upward = <<>>
  /\ Online => link \in {"connecting", "reconnecting", "connected", "ready"}
  /\ Online => (Fresh <=> link \in {"connecting", "reconnecting"})
  /\ link \in {"connected", "ready"} => Online /\ store.self
  /\ \A i \in DOMAIN wire : i > 1 => wire[i].type # "connected"

\* What tells of a user, and what of a channel.
UserNews(u) == {e \in Envelopes : e.type \in {"user", "userRemove"} /\ e.user = u}
ChannelNews(c) == {e \in Envelopes : e.type \in {"channel", "channelRemove"} /\ e.channel = c}

\* The last in a sequence that is of a set, and a sequence that has none of it.
LastOf(w, A, i) == w[i] \in A /\ \A j \in DOMAIN w : j > i => w[j] \notin A
NoneOf(w, A) == \A i \in DOMAIN w : w[i] \notin A

\* Where an envelope puts its user.
Place(e) == IF e.type = "user" THEN e.channel ELSE Gone

\* A place that is Murmur's, or that of a user who was kicked.
Agrees(u, c) == c = murmur.at[u] \/ (murmur.at[u] = Gone /\ u \in Others \cap past.ghosts)

\* A channel that is shown as it is at Murmur, or kept by a connect.
Matches(c) == (c \in store.channels <=> c \in murmur.channels) \/ c \in past.ghosts \ murmur.channels

\* Of whom the queue lost no news: the last that the wire says of a user is true; of
\* whom it says nothing, the page is right, or will be once connected is handled.
UsersTold ==
  Online =>
    \A u \in Users \ past.lostUsers :
      /\ \A i \in DOMAIN wire : LastOf(wire, UserNews(u), i) => Agrees(u, Place(wire[i]))
      /\ NoneOf(wire, UserNews(u)) /\ Fresh => murmur.at[u] = Gone
      /\ NoneOf(wire, UserNews(u)) /\ ~Fresh => Agrees(u, store.users[u])

\* The same of channels.
ChannelsTold ==
  Online =>
    \A c \in Channels \ past.lostChannels :
      /\ \A i \in DOMAIN wire :
           LastOf(wire, ChannelNews(c), i) => (wire[i].type = "channel" <=> c \in murmur.channels)
      /\ NoneOf(wire, ChannelNews(c)) /\ Fresh => c \notin murmur.channels
      /\ NoneOf(wire, ChannelNews(c)) /\ ~Fresh => Matches(c)

\* One's own channel, of which the wire says nothing and the queue lost nothing, is
\* Murmur's, the one asked for last, or a move to it was refused.
OwnTold ==
  Online /\ ~Fresh /\ NoneOf(wire, UserNews(Me)) /\ Me \notin past.lostUsers =>
    \/ store.current = murmur.at[Me] \/ past.refused
    \/ upward # <<>> /\ store.current = upward[Len(upward)].channel

\* What the wire, the commands and the page's own roster make up between them.
ToldInv == WireInv /\ UsersTold /\ ChannelsTold /\ OwnTold

\* No channel is Gone, and oneself is nobody else.
LEMMA RosterFacts ==
  /\ Root \in Channels /\ Gone \notin Channels /\ Me \notin Others /\ Me \in Users
  /\ Others \subseteq Users /\ History \in Nat /\ History > 0
  /\ NoCount \in [Channels -> 0..History] /\ Nobody \in [Users -> Channels \cup {Gone}]
  /\ NoStore \in Store
<1>1. /\ Root \in Channels /\ Gone \notin Channels /\ Me \notin Others /\ Me \in Users
      /\ Others \subseteq Users /\ History \in Nat /\ History > 0
  BY RosterAssumption DEF Users
<1>2. NoCount \in [Channels -> 0..History] /\ Nobody \in [Users -> Channels \cup {Gone}]
  BY <1>1 DEF NoCount, Nobody
<1> QED
  BY <1>1, <1>2 DEF NoStore, Store

\* What React makes of a change of the store.
LEMMA BecomesShell ==
  ASSUME shell \in Shell, NEW l \in Links, NEW s \in Store, NEW p \in Past, Becomes(l, s, p)
  PROVE  /\ link' = l /\ store' = s /\ shell' \in Shell /\ shell'.mounted = Shown(l)
         /\ ~Shown(l) => shell'.view = shell.view /\ shell'.read = NoCount
         /\ Shown(l) =>
              /\ InTree(s, shell'.view) \/ shell'.view = s.selfChannel
              /\ shell'.read = ReadUpTo(s, shell, shell'.view)
              /\ shell.mounted /\ s.selected = store.selected /\ s.selfChannel = store.selfChannel
                   /\ s.self = store.self
                   /\ (InTree(s, shell.view) \/ shell.view = s.selfChannel)
                 => shell'.view = shell.view
<1>1. link' = l /\ store' = s /\ shell' = Settled(l, store, s)
  BY DEF Becomes
<1>2. CASE ~Shown(l)
  <2>1. shell' = [shell EXCEPT !.mounted = FALSE, !.read = NoCount]
    BY <1>1, <1>2 DEF Settled
  <2>2. NoCount \in [Channels -> 0..History]
    BY RosterFacts
  <2>3. shell' \in Shell /\ shell'.mounted = FALSE /\ shell'.view = shell.view
        /\ shell'.read = NoCount
    BY <2>1, <2>2 DEF Shell
  <2>4. Shown(l) = FALSE
    BY <1>2 DEF Shown
  <2> QED
    BY <1>1, <2>3, <2>4
<1>3. CASE Shown(l)
  <2>1. PICK moved \in BOOLEAN :
          moved = (\/ ~shell.mounted
                   \/ s.selected # store.selected \/ s.selfChannel # store.selfChannel
                   \/ s.self # store.self)
    OBVIOUS
  <2> DEFINE followed == Followed(s, moved, shell.view)
  <2>2. shell' = [mounted |-> TRUE, view |-> followed, read |-> ReadUpTo(s, shell, followed)]
    BY <1>1, <1>3, <2>1 DEF Settled
  <2>3. /\ followed \in Channels
        /\ InTree(s, followed) \/ followed = s.selfChannel
        /\ ~moved /\ (InTree(s, shell.view) \/ shell.view = s.selfChannel) => followed = shell.view
    <3> DEFINE v == IF ~InTree(s, shell.view) THEN s.selfChannel
                    ELSE IF moved THEN s.selected ELSE shell.view
    <3>1. followed = IF InTree(s, v) THEN v ELSE s.selfChannel
      BY DEF Followed, InTree
    <3>2. s.selfChannel \in Channels /\ s.selected \in Channels /\ shell.view \in Channels
      BY DEF Store, Shell
    <3>3. v \in {s.selfChannel, s.selected, shell.view}
      OBVIOUS
    <3>4. ~moved /\ (InTree(s, shell.view) \/ shell.view = s.selfChannel) => v = shell.view
      OBVIOUS
    <3> HIDE DEF v, followed
    <3> QED
      BY <3>1, <3>2, <3>3, <3>4
  <2> HIDE DEF followed
  <2>4. ReadUpTo(s, shell, followed) \in [Channels -> 0..History]
    BY DEF ReadUpTo, Store, Shell
  <2>5. shell' \in Shell /\ shell'.mounted = TRUE /\ shell'.view = followed
        /\ shell'.read = ReadUpTo(s, shell, followed)
    BY <2>2, <2>3, <2>4 DEF Shell
  <2> QED
    BY <1>1, <1>3, <2>1, <2>3, <2>5
<1> QED
  BY <1>2, <1>3

\* What the history keeps of it.
LEMMA BecomesPast ==
  ASSUME shell \in Shell, NEW l \in Links, NEW s \in Store, NEW p \in Past, Becomes(l, s, p)
  PROVE  /\ past' \in Past /\ past'.ghosts = p.ghosts /\ past'.refused = p.refused
         /\ past'.lostUsers = p.lostUsers /\ past'.lostChannels = p.lostChannels
         /\ ~Shown(l) => past'.unseen = p.unseen /\ past'.relaid = p.relaid
         /\ Shown(l) =>
              /\ past'.unseen = p.unseen \ {shell'.view}
              /\ shell.mounted => past'.relaid = p.relaid \ {shell'.view}
              /\ ~shell.mounted =>
                   past'.relaid = {c \in Channels : s.messages[c] > 0} \ {shell'.view}
<1>1. shell'.mounted = Shown(l) /\ shell' \in Shell
  BY BecomesShell
<1> DEFINE seen == IF shell'.mounted THEN {shell'.view} ELSE {}
           base == IF shell'.mounted /\ ~shell.mounted
                   THEN {c \in Channels : s.messages[c] > 0} ELSE p.relaid
<1>2. past' = [p EXCEPT !.unseen = p.unseen \ seen, !.relaid = base \ seen]
  BY DEF Becomes, Seen
<1>3. p.unseen \ seen \in SUBSET Channels /\ base \ seen \in SUBSET Channels
  BY DEF Past
<1>4. /\ past' \in Past /\ past'.ghosts = p.ghosts /\ past'.refused = p.refused
      /\ past'.lostUsers = p.lostUsers /\ past'.lostChannels = p.lostChannels
      /\ past'.unseen = p.unseen \ seen /\ past'.relaid = base \ seen
  <2> HIDE DEF seen, base
  <2> QED
    BY <1>2, <1>3 DEF Past
<1>5. CASE ~Shown(l)
  BY <1>1, <1>4, <1>5
<1>6. CASE Shown(l)
  BY <1>1, <1>4, <1>6
<1> QED
  BY <1>4, <1>5, <1>6

\* A change that brings no message.
LEMMA ShellKept ==
  ASSUME shell \in Shell, store \in Store, past \in Past, ShellInv,
         NEW l \in Links, NEW s \in Store, NEW p \in Past, Becomes(l, s, p),
         s.messages = store.messages, p.unseen = past.unseen, p.relaid = past.relaid
  PROVE  ShellInv'
<1>1. /\ link' = l /\ store' = s /\ shell' \in Shell /\ shell'.mounted = Shown(l)
      /\ ~Shown(l) => shell'.view = shell.view /\ shell'.read = NoCount
      /\ Shown(l) =>
           /\ InTree(s, shell'.view) \/ shell'.view = s.selfChannel
           /\ shell'.read = ReadUpTo(s, shell, shell'.view)
  BY BecomesShell
<1>2. /\ past' \in Past
      /\ ~Shown(l) => past'.unseen = p.unseen /\ past'.relaid = p.relaid
      /\ Shown(l) =>
           /\ past'.unseen = p.unseen \ {shell'.view}
           /\ shell.mounted => past'.relaid = p.relaid \ {shell'.view}
           /\ ~shell.mounted =>
                past'.relaid = {c \in Channels : s.messages[c] > 0} \ {shell'.view}
  BY BecomesPast
<1>3. s.messages \in [Channels -> 0..History] /\ shell.view \in Channels
      /\ past.unseen \subseteq Channels
  BY DEF Store, Shell, Past
<1>4. \A c \in Channels : NoCount[c] = 0
  BY DEF NoCount
<1>5. CASE ~Shown(l)
  BY <1>1, <1>2, <1>3, <1>5 DEF ShellInv, UnreadDotIsTrue
<1>6. CASE Shown(l)
  <2>1. \A c \in Channels :
          shell'.read[c] = IF c \in {shell'.view, shell.view} THEN s.messages[c] ELSE shell.read[c]
    BY <1>1, <1>6 DEF ReadUpTo
  <2>2. \A c \in Channels : shell.read[c] <= s.messages[c] /\ shell.read[c] \in 0..History
    BY <1>3, <1>4, RosterFacts DEF ShellInv, Shell
  <2>3. \A c \in Channels : shell'.read[c] <= s.messages[c]
    BY <1>3, <2>1, <2>2
  <2>4. ASSUME NEW c \in Channels \ {shell'.view}
        PROVE  /\ c \in Unread(store, shell)' => c \in past'.unseen \cup past'.relaid
               /\ c \in past'.unseen /\ s.messages[c] < History => c \in Unread(store, shell)'
    <3>1. c \in Unread(store, shell)' <=> s.messages[c] > shell'.read[c]
      BY <1>1, <2>4 DEF Unread
    <3>2. c \in past'.unseen <=> c \in past.unseen
      BY <1>2, <1>6, <2>4
    <3>3. CASE c = shell.view
      BY <1>3, <2>1, <3>1, <3>2, <3>3 DEF ShellInv
    <3>4. CASE c # shell.view /\ shell.mounted
      <4>1. c \in Unread(store, shell) <=> s.messages[c] > shell.read[c]
        BY <3>4 DEF Unread
      <4>2. c \in past'.relaid <=> c \in past.relaid
        BY <1>2, <1>6, <2>4, <3>4
      <4> QED
        BY <2>1, <2>4, <3>1, <3>2, <3>4, <4>1, <4>2 DEF ShellInv, UnreadDotIsTrue
    <3>5. CASE c # shell.view /\ ~shell.mounted
      <4>1. shell'.read[c] = 0
        BY <1>4, <2>1, <2>4, <3>5 DEF ShellInv
      <4>2. s.messages[c] > 0 => c \in past'.relaid
        BY <1>2, <1>6, <2>4, <3>5
      <4>3. c \in past.unseen => s.messages[c] > 0
        BY DEF ShellInv
      <4> QED
        BY <3>1, <3>2, <4>1, <4>2, <4>3
    <3> QED
      BY <3>3, <3>4, <3>5
  <2>5. UnreadDotIsTrue'
    BY <1>1, <1>6, <2>4 DEF UnreadDotIsTrue
  <2> QED
    BY <1>1, <1>2, <1>3, <1>6, <2>3, <2>5 DEF ShellInv
<1> QED
  BY <1>5, <1>6

\* A message comes: to the layout, or while there is none.
LEMMA ShellKeptByText ==
  ASSUME shell \in Shell, store \in Store, past \in Past, link \in Links, ShellInv,
         NEW c \in Channels, NEW s \in Store, NEW p \in Past,
         s = TextMessage(store, c), Becomes(link, s, p), p.relaid = past.relaid,
         p.unseen = past.unseen \cup (IF shell.mounted THEN {c} ELSE {})
  PROVE  ShellInv'
<1>1. /\ s.selected = store.selected /\ s.selfChannel = store.selfChannel /\ s.self = store.self
      /\ s.channels = store.channels /\ s.messages \in [Channels -> 0..History]
      /\ store.messages \in [Channels -> 0..History]
      /\ s.messages[c] = (IF store.messages[c] < History THEN store.messages[c] + 1
                          ELSE store.messages[c])
      /\ \A d \in Channels : d # c => s.messages[d] = store.messages[d]
  BY DEF TextMessage, Store
<1>2. /\ shell.read \in [Channels -> 0..History] /\ shell.view \in Channels
      /\ past.unseen \subseteq Channels
  BY DEF Shell, Past
<1>3. \A d \in Channels : store.messages[d] <= s.messages[d]
  BY <1>1
<1>4. s.messages[c] > 0 /\ \A d \in past.unseen : s.messages[d] > 0
  <2>1. \A d \in past.unseen : store.messages[d] > 0
    BY DEF ShellInv
  <2> QED
    BY <1>1, <1>2, <1>3, <2>1, RosterFacts
<1>5. CASE ~shell.mounted
  <2>1. ~Shown(link)
    BY <1>5 DEF ShellInv, Shown
  <2>2. /\ link' = link /\ store' = s /\ shell'.mounted = Shown(link)
        /\ shell'.view = shell.view /\ shell'.read = NoCount
    BY <2>1, BecomesShell
  <2>3. past'.unseen = past.unseen
    <3>1. past'.unseen = p.unseen
      BY <2>1, BecomesPast
    <3>2. p.unseen = past.unseen
      BY <1>5
    <3> QED
      BY <3>1, <3>2
  <2>4. ~shell'.mounted /\ shell'.mounted = Shown(link')
    BY <2>1, <2>2 DEF Shown
  <2> QED
    BY <1>4, <2>2, <2>3, <2>4 DEF ShellInv, UnreadDotIsTrue
<1>6. CASE shell.mounted
  <2>1. Shown(link)
    BY <1>6 DEF ShellInv, Shown
  <2>2. InTree(s, shell.view) \/ shell.view = s.selfChannel
    BY <1>1, <1>6 DEF ShellInv, InTree
  <2>3. /\ link' = link /\ store' = s /\ shell' \in Shell /\ shell'.mounted = Shown(link)
        /\ shell'.read = ReadUpTo(s, shell, shell'.view) /\ shell'.view = shell.view
    BY <1>1, <1>6, <2>1, <2>2, BecomesShell
  <2>4. /\ past' \in Past /\ past'.unseen = (past.unseen \cup {c}) \ {shell.view}
        /\ past'.relaid = past.relaid \ {shell.view}
    <3>1. /\ past' \in Past /\ past'.unseen = p.unseen \ {shell'.view}
          /\ past'.relaid = p.relaid \ {shell'.view}
      BY <1>6, <2>1, BecomesPast
    <3> QED
      BY <1>6, <2>3, <3>1
  <2>5. \A d \in Channels : shell.read[d] <= store.messages[d]
    BY <1>6 DEF ShellInv
  <2>6. \A d \in Channels : shell'.read[d] = IF d = shell.view THEN s.messages[d] ELSE shell.read[d]
    BY <2>3 DEF ReadUpTo
  <2>7. \A d \in Channels : shell'.read[d] <= s.messages[d]
    BY <1>1, <1>2, <1>3, <2>5, <2>6
  <2>8. \A d \in past'.unseen : s.messages[d] > 0
    BY <1>4, <2>4
  <2>9. ASSUME NEW d \in Channels \ {shell.view}
        PROVE  /\ d \in Unread(store, shell)' => d \in past'.unseen \cup past'.relaid
               /\ d \in past'.unseen /\ s.messages[d] < History => d \in Unread(store, shell)'
    <3>1. d \in Unread(store, shell)' <=> s.messages[d] > shell.read[d]
      BY <2>3, <2>6, <2>9 DEF Unread
    <3>2. CASE d = c
      <4>1. d \in past'.unseen
        BY <2>4, <2>9, <3>2
      <4>2. s.messages[d] < History => s.messages[d] > shell.read[d]
        BY <1>1, <1>2, <2>5, <3>2, RosterFacts
      <4> QED
        BY <3>1, <4>1, <4>2
    <3>3. CASE d # c
      <4>1. d \in Unread(store, shell) <=> s.messages[d] > shell.read[d]
        BY <1>1, <2>9, <3>3 DEF Unread
      <4>2. (d \in past'.unseen <=> d \in past.unseen) /\ (d \in past'.relaid <=> d \in past.relaid)
        BY <2>4, <2>9, <3>3
      <4>3. store.messages[d] = s.messages[d]
        BY <1>1, <3>3
      <4> QED
        BY <1>6, <2>9, <3>1, <4>1, <4>2, <4>3 DEF ShellInv, UnreadDotIsTrue
    <3> QED
      BY <3>2, <3>3
  <2>10. UnreadDotIsTrue'
    BY <2>3, <2>9 DEF UnreadDotIsTrue
  <2>11. shell'.mounted = Shown(link') /\ shell'.mounted
    BY <2>1, <2>3 DEF Shown
  <2> QED
    BY <2>2, <2>3, <2>4, <2>7, <2>8, <2>10, <2>11 DEF ShellInv
<1> QED
  BY <1>5, <1>6

\* Logging out unmounts the layout, and forgets the messages with their dots.
LEMMA ShellKeptByLeaving ==
  ASSUME shell \in Shell, NEW s \in Store, NEW p \in Past, p.unseen = {}, Becomes("idle", s, p)
  PROVE  ShellInv'
<1>1. ~Shown("idle") /\ "idle" \in Links
  BY DEF Shown, Links
<1>2. link' = "idle" /\ shell'.mounted = FALSE /\ shell'.read = NoCount /\ past'.unseen = {}
  <2>1. link' = "idle" /\ shell'.mounted = Shown("idle") /\ shell'.read = NoCount
    BY <1>1, BecomesShell
  <2>2. past'.unseen = {}
    BY <1>1, BecomesPast
  <2>3. Shown("idle") = FALSE
    BY <1>1 DEF Shown
  <2> QED
    BY <2>1, <2>2, <2>3
<1>3. Shown(link') = FALSE
  BY <1>2 DEF Shown
<1> QED
  BY <1>2, <1>3 DEF ShellInv, UnreadDotIsTrue

\* What an envelope holds.
LEMMA EnvelopeFields ==
  ASSUME NEW e \in Envelopes
  PROVE  /\ e.type \in {"connected", "synced", "channel", "channelRemove", "user", "userRemove",
                        "textMessage"}
         /\ e.type \in {"channel", "channelRemove"} => e.channel \in Channels
         /\ e.type = "user" => e.user \in Users /\ e.channel \in Channels
         /\ e.type = "userRemove" => e.user \in Users
         /\ e.type = "textMessage" => e.channel \in Channels \cup {Gone}
<1>1. CASE e \in [type : {"connected", "synced"}]
  BY <1>1
<1>2. CASE e \in [type : {"channel", "channelRemove"}, channel : Channels]
  BY <1>2
<1>3. CASE e \in [type : {"user"}, user : Users, channel : Channels]
  BY <1>3
<1>4. CASE e \in [type : {"userRemove"}, user : Users]
  BY <1>4
<1>5. CASE e \in [type : {"textMessage"}, channel : Channels \cup {Gone}]
  BY <1>5
<1> QED
  BY <1>1, <1>2, <1>3, <1>4, <1>5 DEF Envelopes

\* The head of the wire, and what is behind it.
LEMMA WireHead ==
  ASSUME RosterTypes, wire # <<>>
  PROVE  /\ Head(wire) = wire[1] /\ 1 \in DOMAIN wire /\ Head(wire) \in Envelopes
         /\ Tail(wire) \in Seq(Envelopes) /\ Len(Tail(wire)) = Len(wire) - 1
         /\ DOMAIN wire = 1..Len(wire) /\ DOMAIN Tail(wire) = 1..(Len(wire) - 1)
         /\ \A i \in 1..(Len(wire) - 1) : Tail(wire)[i] = wire[i + 1]
         /\ Len(wire) \in Nat /\ Len(wire) > 0
BY DEF RosterTypes

\* Nothing more is lost, and nothing lost is told again.
LossesStay == UNCHANGED <<past.lostUsers, past.lostChannels>>

\* A step that keeps the types, and that React follows.
LEMMA BecomesTypes ==
  ASSUME RosterTypes, NEW l \in Links, NEW s \in Store, NEW p \in Past, Becomes(l, s, p),
         murmur' \in [channels : SUBSET Channels, at : [Users -> Channels \cup {Gone}]],
         wire' \in Seq(Envelopes), upward' \in Seq([type : {"join"}, channel : Channels])
  PROVE  /\ RosterTypes' /\ link' = l /\ store' = s
         /\ past'.ghosts = p.ghosts /\ past'.refused = p.refused
         /\ past'.lostUsers = p.lostUsers /\ past'.lostChannels = p.lostChannels
<1>1. shell \in Shell
  BY DEF RosterTypes
<1> QED
  BY <1>1, BecomesShell, BecomesPast DEF RosterTypes

\* connected.
LEMMA HandlesConnected ==
  ASSUME RosterTypes, ShellInv, HandleMessage, Head(wire).type = "connected"
  PROVE  /\ RosterTypes' /\ ShellInv' /\ LossesStay /\ link' = "connected" /\ store'.self
         /\ UNCHANGED <<upward, murmur>> /\ wire' = Tail(wire) /\ wire # <<>>
         /\ link = "reconnecting" =>
              store'.users = Nobody /\ store'.channels = {} /\ past'.ghosts = past.ghosts
         /\ link # "reconnecting" =>
              /\ store'.users = store.users /\ store'.channels = store.channels
              /\ past'.ghosts = past.ghosts \cup store.channels
                                  \cup {u \in Others : store.users[u] # Gone}
<1>0. /\ link \in Links /\ store \in Store /\ shell \in Shell /\ past \in Past
      /\ murmur \in [channels : SUBSET Channels, at : [Users -> Channels \cup {Gone}]]
      /\ upward \in Seq([type : {"join"}, channel : Channels])
  BY DEF RosterTypes
<1>1. wire # <<>> /\ wire' = Tail(wire) /\ UNCHANGED <<upward, murmur>>
  BY DEF HandleMessage
<1> DEFINE g == IF link = "reconnecting" THEN past.ghosts
                ELSE past.ghosts \cup store.channels \cup {u \in Others : store.users[u] # Gone}
           p == [past EXCEPT !.refused = FALSE, !.ghosts = g]
           s == Connected(store)
<1>2. Becomes("connected", s, p)
  BY DEF HandleMessage
<1>3. /\ s \in Store /\ s.self = TRUE /\ s.messages = store.messages
      /\ s.users = (IF link = "reconnecting" THEN Nobody ELSE store.users)
      /\ s.channels = (IF link = "reconnecting" THEN {} ELSE store.channels)
  <2> DEFINE t == [store EXCEPT !.self = TRUE, !.selfChannel = Root, !.current = Root,
                                !.selected = Root]
  <2>1. /\ t \in Store /\ t.self = TRUE /\ t.messages = store.messages
        /\ t.users = store.users /\ t.channels = store.channels
    BY <1>0, RosterFacts DEF Store
  <2>2. s = IF link = "reconnecting"
            THEN [t EXCEPT !.needRestore = TRUE, !.channels = {}, !.users = Nobody] ELSE t
    BY DEF Connected
  <2> HIDE DEF t, s
  <2>3. CASE link = "reconnecting"
    <3>1. s = [t EXCEPT !.needRestore = TRUE, !.channels = {}, !.users = Nobody]
      BY <2>2, <2>3
    <3>2. Nobody \in [Users -> Channels \cup {Gone}]
      BY RosterFacts
    <3> QED
      BY <2>1, <2>3, <3>1, <3>2 DEF Store
  <2>4. CASE link # "reconnecting"
    BY <2>1, <2>2, <2>4
  <2> QED
    BY <2>3, <2>4
<1>4. g \in SUBSET (Channels \cup Others)
  BY <1>0 DEF Past, Store
<1>5. /\ p \in Past /\ p.ghosts = g /\ p.unseen = past.unseen /\ p.relaid = past.relaid
      /\ p.lostUsers = past.lostUsers /\ p.lostChannels = past.lostChannels
  <2> HIDE DEF g
  <2> QED
    BY <1>0, <1>4 DEF Past
<1> HIDE DEF s, p, g
<1>6. "connected" \in Links
  BY DEF Links
<1>7. ShellInv'
  BY <1>0, <1>2, <1>3, <1>5, <1>6, ShellKept
<1>8. /\ RosterTypes' /\ link' = "connected" /\ store' = s /\ past'.ghosts = p.ghosts
      /\ LossesStay
  BY <1>0, <1>1, <1>2, <1>3, <1>5, <1>6, WireHead, BecomesTypes DEF LossesStay
<1> QED
  BY <1>1, <1>3, <1>5, <1>7, <1>8 DEF g

\* synced, and the way back to the channel of before.
LEMMA HandlesSynced ==
  ASSUME RosterTypes, ShellInv, HandleMessage, Head(wire).type = "synced"
  PROVE  /\ RosterTypes' /\ ShellInv' /\ LossesStay /\ link' = "ready" /\ UNCHANGED murmur
         /\ wire' = Tail(wire) /\ wire # <<>>
         /\ store'.self = store.self /\ store'.users = store.users
         /\ store'.channels = store.channels
         /\ past'.ghosts = past.ghosts /\ past'.refused = past.refused
         /\ \/ upward' = upward /\ store'.current = store.current
            \/ \E c \in Channels : /\ upward' = Append(upward, [type |-> "join", channel |-> c])
                                   /\ store'.current = c
<1>0. /\ link \in Links /\ store \in Store /\ shell \in Shell /\ past \in Past
      /\ murmur \in [channels : SUBSET Channels, at : [Users -> Channels \cup {Gone}]]
      /\ upward \in Seq([type : {"join"}, channel : Channels])
  BY DEF RosterTypes
<1>1. wire # <<>> /\ wire' = Tail(wire) /\ UNCHANGED murmur /\ "ready" \in Links
  BY DEF HandleMessage, Links
<1>2. ASSUME NEW s \in Store, Becomes("ready", s, past), s.messages = store.messages,
             upward' \in Seq([type : {"join"}, channel : Channels])
      PROVE  /\ RosterTypes' /\ ShellInv' /\ LossesStay /\ link' = "ready" /\ store' = s
             /\ past'.ghosts = past.ghosts /\ past'.refused = past.refused
  <2>1. ShellInv'
    BY <1>0, <1>1, <1>2, ShellKept
  <2> QED
    BY <1>0, <1>1, <1>2, <2>1, WireHead, BecomesTypes DEF LossesStay
<1>3. CASE /\ Becomes("ready", [store EXCEPT !.needRestore = FALSE], past) /\ UNCHANGED upward
  <2> DEFINE s == [store EXCEPT !.needRestore = FALSE]
  <2>1. /\ s \in Store /\ s.messages = store.messages /\ s.self = store.self
        /\ s.users = store.users /\ s.channels = store.channels /\ s.current = store.current
    BY <1>0 DEF Store
  <2> HIDE DEF s
  <2>2. Becomes("ready", s, past)
    BY <1>3 DEF s
  <2> QED
    BY <1>0, <1>1, <1>2, <1>3, <2>1, <2>2
<1>4. CASE /\ Becomes("ready", [Joined(store, store.desired) EXCEPT !.needRestore = FALSE], past)
           /\ upward' = Append(upward, [type |-> "join", channel |-> store.desired])
  <2> DEFINE s == [Joined(store, store.desired) EXCEPT !.needRestore = FALSE]
             c == store.desired
  <2>1. c \in Channels
    BY <1>0 DEF Store
  <2>2. /\ s \in Store /\ s.messages = store.messages /\ s.self = store.self
        /\ s.users = store.users /\ s.channels = store.channels /\ s.current = c
    BY <1>0, <2>1 DEF Store, Joined
  <2> HIDE DEF s, c
  <2>3. Becomes("ready", s, past) /\ upward' = Append(upward, [type |-> "join", channel |-> c])
    BY <1>4 DEF s, c
  <2>4. upward' \in Seq([type : {"join"}, channel : Channels])
    <3>1. [type |-> "join", channel |-> c] \in [type : {"join"}, channel : Channels]
      BY <2>1
    <3> QED
      BY <1>0, <2>3, <3>1
  <2> QED
    BY <1>1, <1>2, <2>1, <2>2, <2>3, <2>4
<1> QED
  BY <1>3, <1>4 DEF HandleMessage

\* A change of the roster that keeps the connection.
LEMMA HandlesChange ==
  ASSUME RosterTypes, ShellInv, wire # <<>>, wire' = Tail(wire), UNCHANGED <<upward, murmur>>,
         NEW s \in Store, s.messages = store.messages, NEW p \in Past, p.unseen = past.unseen,
         p.relaid = past.relaid, p.lostUsers = past.lostUsers,
         p.lostChannels = past.lostChannels, Becomes(link, s, p)
  PROVE  /\ RosterTypes' /\ ShellInv' /\ LossesStay /\ link' = link /\ store' = s
         /\ past'.ghosts = p.ghosts /\ past'.refused = p.refused
<1>1. /\ link \in Links /\ store \in Store /\ shell \in Shell /\ past \in Past
      /\ murmur' \in [channels : SUBSET Channels, at : [Users -> Channels \cup {Gone}]]
      /\ upward' \in Seq([type : {"join"}, channel : Channels])
      /\ wire' \in Seq(Envelopes)
  BY WireHead DEF RosterTypes
<1>2. ShellInv'
  BY <1>1, ShellKept
<1> QED
  BY <1>1, <1>2, BecomesTypes DEF LossesStay

\* channel and channelRemove.
LEMMA HandlesChannel ==
  ASSUME RosterTypes, ShellInv, HandleMessage, Head(wire).type \in {"channel", "channelRemove"}
  PROVE  /\ RosterTypes' /\ ShellInv' /\ LossesStay /\ UNCHANGED <<link, murmur, upward>>
         /\ wire' = Tail(wire) /\ wire # <<>>
         /\ store'.self = store.self /\ store'.users = store.users
         /\ store'.current = store.current
         /\ past'.ghosts = past.ghosts /\ past'.refused = past.refused
         /\ store'.channels = IF Head(wire).type = "channel"
                              THEN store.channels \cup {Head(wire).channel}
                              ELSE store.channels \ {Head(wire).channel}
<1>0. store \in Store /\ past \in Past
  BY DEF RosterTypes
<1>1. wire # <<>> /\ wire' = Tail(wire) /\ UNCHANGED murmur
  BY DEF HandleMessage
<1>2. Head(wire).channel \in Channels
  BY <1>1, WireHead, EnvelopeFields
<1> DEFINE cs == IF Head(wire).type = "channel" THEN store.channels \cup {Head(wire).channel}
                 ELSE store.channels \ {Head(wire).channel}
           s == [store EXCEPT !.channels = cs]
<1>3. Becomes(link, s, past) /\ UNCHANGED upward
  BY DEF HandleMessage
<1>4. cs \in SUBSET Channels
  BY <1>0, <1>2 DEF Store
<1>5. /\ s \in Store /\ s.messages = store.messages /\ s.self = store.self
      /\ s.users = store.users /\ s.channels = cs /\ s.current = store.current
  <2> HIDE DEF cs
  <2> QED
    BY <1>0, <1>4 DEF Store
<1> HIDE DEF s
<1>6. /\ RosterTypes' /\ ShellInv' /\ LossesStay /\ link' = link /\ store' = s
      /\ past'.ghosts = past.ghosts /\ past'.refused = past.refused
  BY <1>0, <1>1, <1>3, <1>5, HandlesChange
<1> QED
  BY <1>1, <1>3, <1>5, <1>6

\* user and userRemove.
LEMMA HandlesUser ==
  ASSUME RosterTypes, ShellInv, HandleMessage, Head(wire).type \in {"user", "userRemove"}
  PROVE  /\ RosterTypes' /\ ShellInv' /\ LossesStay /\ UNCHANGED <<link, murmur, upward>>
         /\ wire' = Tail(wire) /\ wire # <<>>
         /\ store'.self = store.self /\ store'.channels = store.channels
         /\ past'.ghosts = past.ghosts
         /\ Head(wire).user \in Users
         /\ store'.users = [store.users EXCEPT ![Head(wire).user] = Place(Head(wire))]
         /\ (Head(wire).type = "user" /\ Head(wire).user = Me /\ store.self
              => store'.current = Head(wire).channel)
         /\ ~(Head(wire).type = "user" /\ Head(wire).user = Me)
              => store'.current = store.current /\ past'.refused = past.refused
<1>0. store \in Store /\ past \in Past
  BY DEF RosterTypes
<1>1. wire # <<>> /\ wire' = Tail(wire) /\ UNCHANGED murmur
  BY DEF HandleMessage
<1> DEFINE e == Head(wire)
<1>2. /\ e \in Envelopes /\ e.user \in Users /\ Place(e) \in Channels \cup {Gone}
      /\ e.type = "user" => e.channel \in Channels
  BY <1>1, WireHead, EnvelopeFields DEF Place
<1>3. CASE e.type = "user"
  <2> DEFINE c == e.channel
             t == [store EXCEPT !.users = [store.users EXCEPT ![e.user] = c]]
             s == UserEnvelope(store, e.user, c)
  <2>1. Becomes(link, s, [past EXCEPT !.refused = @ /\ e.user # Me]) /\ UNCHANGED upward
    BY <1>3 DEF HandleMessage
  <2>2. PICK r \in BOOLEAN : r = (past.refused /\ e.user # Me)
    OBVIOUS
  <2> DEFINE p == [past EXCEPT !.refused = r]
  <2>3. /\ p \in Past /\ p.unseen = past.unseen /\ p.relaid = past.relaid
        /\ p.ghosts = past.ghosts /\ p.refused = r
        /\ p.lostUsers = past.lostUsers /\ p.lostChannels = past.lostChannels
    BY <1>0, <2>2 DEF Past
  <2>4. Becomes(link, s, p)
    BY <2>1, <2>2
  <2>5. [store.users EXCEPT ![e.user] = c] \in [Users -> Channels \cup {Gone}]
    BY <1>0, <1>2, <1>3 DEF Store
  <2>6. /\ t \in Store /\ t.messages = store.messages /\ t.self = store.self
        /\ t.users = [store.users EXCEPT ![e.user] = c] /\ t.channels = store.channels
        /\ t.current = store.current
    BY <1>0, <2>5 DEF Store
  <2>7. s = IF e.user = Me /\ store.self
            THEN [t EXCEPT !.current = c, !.selected = c, !.selfChannel = c] ELSE t
    BY DEF UserEnvelope
  <2> HIDE DEF t, s, p
  <2>8. /\ s \in Store /\ s.messages = store.messages /\ s.self = store.self
        /\ s.users = [store.users EXCEPT ![e.user] = c] /\ s.channels = store.channels
        /\ e.user = Me /\ store.self => s.current = c
        /\ e.user # Me => s.current = store.current
    <3>1. CASE e.user = Me /\ store.self
      BY <1>2, <1>3, <2>6, <2>7, <3>1 DEF Store
    <3>2. CASE ~(e.user = Me /\ store.self)
      BY <2>6, <2>7, <3>2
    <3> QED
      BY <3>1, <3>2
  <2>9. /\ RosterTypes' /\ ShellInv' /\ LossesStay /\ link' = link /\ store' = s
        /\ past'.ghosts = p.ghosts /\ past'.refused = p.refused
    BY <1>1, <2>1, <2>3, <2>4, <2>8, HandlesChange
  <2>10. Place(e) = c /\ UNCHANGED upward
    BY <1>3, <2>1 DEF Place
  <2>11. e.user # Me => past'.refused = past.refused
    <3>1. e.user # Me => r = past.refused
      BY <1>0, <2>2 DEF Past
    <3> QED
      BY <2>3, <2>9, <3>1
  <2> HIDE DEF c, e
  <2>12. /\ store'.self = store.self /\ store'.channels = store.channels
         /\ store'.users = [store.users EXCEPT ![e.user] = Place(e)]
         /\ e.user = Me /\ store.self => store'.current = c
         /\ e.user # Me => store'.current = store.current
    BY <2>8, <2>9, <2>10
  <2> QED
    BY <1>1, <1>2, <1>3, <2>3, <2>9, <2>10, <2>11, <2>12 DEF c, e
<1>4. CASE e.type = "userRemove"
  <2> DEFINE s == [store EXCEPT !.users = [store.users EXCEPT ![e.user] = Gone]]
  <2>1. Becomes(link, s, past) /\ UNCHANGED upward
    BY <1>4 DEF HandleMessage
  <2>2. [store.users EXCEPT ![e.user] = Gone] \in [Users -> Channels \cup {Gone}]
    BY <1>0, <1>2 DEF Store
  <2>3. /\ s \in Store /\ s.messages = store.messages /\ s.self = store.self
        /\ s.users = [store.users EXCEPT ![e.user] = Gone] /\ s.channels = store.channels
        /\ s.current = store.current
    BY <1>0, <2>2 DEF Store
  <2> HIDE DEF s
  <2>4. /\ RosterTypes' /\ ShellInv' /\ LossesStay /\ link' = link /\ store' = s
        /\ past'.ghosts = past.ghosts /\ past'.refused = past.refused
    BY <1>0, <1>1, <2>1, <2>3, HandlesChange
  <2> QED
    BY <1>1, <1>2, <1>4, <2>1, <2>3, <2>4 DEF Place
<1> QED
  BY <1>3, <1>4

\* textMessage.
LEMMA HandlesText ==
  ASSUME RosterTypes, ShellInv, HandleMessage, Head(wire).type = "textMessage"
  PROVE  /\ RosterTypes' /\ ShellInv' /\ LossesStay /\ UNCHANGED <<link, murmur, upward>>
         /\ wire' = Tail(wire) /\ wire # <<>>
         /\ store'.self = store.self /\ store'.users = store.users
         /\ store'.current = store.current /\ store'.channels = store.channels
         /\ past'.ghosts = past.ghosts /\ past'.refused = past.refused
<1>0. /\ store \in Store /\ past \in Past /\ shell \in Shell /\ link \in Links
      /\ murmur \in [channels : SUBSET Channels, at : [Users -> Channels \cup {Gone}]]
      /\ upward \in Seq([type : {"join"}, channel : Channels])
  BY DEF RosterTypes
<1>1. wire # <<>> /\ wire' = Tail(wire) /\ UNCHANGED <<murmur, upward>>
  BY DEF HandleMessage
<1> DEFINE more(c) == past.unseen \cup (IF shell.mounted THEN {c} ELSE {})
<1>2. PICK c \in Channels :
        Becomes(link, TextMessage(store, c), [past EXCEPT !.unseen = more(c)])
  <2> DEFINE e == Head(wire)
             c == IF e.channel = Gone THEN store.selfChannel ELSE e.channel
  <2>1. e.channel \in Channels \cup {Gone}
    BY <1>1, WireHead, EnvelopeFields
  <2>2. c \in Channels
    BY <1>0, <2>1 DEF Store
  <2>3. Becomes(link, TextMessage(store, c), [past EXCEPT !.unseen = more(c)])
    BY DEF HandleMessage
  <2> QED
    BY <2>2, <2>3
<1> DEFINE s == TextMessage(store, c)
           seen == more(c)
           p == [past EXCEPT !.unseen = seen]
<1>3. /\ s \in Store /\ s.self = store.self /\ s.users = store.users
      /\ s.channels = store.channels /\ s.current = store.current
  <2> DEFINE n == IF store.messages[c] < History THEN store.messages[c] + 1 ELSE store.messages[c]
  <2>1. n \in 0..History
    <3>1. store.messages[c] \in 0..History
      BY <1>0 DEF Store
    <3> QED
      BY <3>1, RosterFacts
  <2>2. [store.messages EXCEPT ![c] = n] \in [Channels -> 0..History]
    BY <1>0, <2>1 DEF Store
  <2>3. s = [store EXCEPT !.messages = [store.messages EXCEPT ![c] = n]]
    BY DEF TextMessage
  <2> HIDE DEF n, s
  <2> QED
    BY <1>0, <2>2, <2>3 DEF Store
<1>4. /\ p \in Past /\ p.ghosts = past.ghosts /\ p.refused = past.refused
      /\ p.lostUsers = past.lostUsers /\ p.lostChannels = past.lostChannels
      /\ p.unseen = seen /\ p.relaid = past.relaid
  <2>1. seen \in SUBSET Channels
    BY <1>0 DEF Past
  <2> HIDE DEF seen
  <2> QED
    BY <1>0, <2>1 DEF Past
<1>5. Becomes(link, s, p)
  BY <1>2
<1>6. p.unseen = past.unseen \cup (IF shell.mounted THEN {c} ELSE {})
  BY <1>4
<1> HIDE DEF p, seen, more
<1>7. ShellInv'
  BY <1>0, <1>3, <1>4, <1>5, <1>6, ShellKeptByText
<1> HIDE DEF s
<1>8. /\ RosterTypes' /\ LossesStay /\ link' = link /\ store' = s
      /\ past'.ghosts = p.ghosts /\ past'.refused = p.refused
  BY <1>0, <1>1, <1>3, <1>4, <1>5, WireHead, BecomesTypes DEF LossesStay
<1> QED
  BY <1>1, <1>3, <1>4, <1>7, <1>8

\* A step that leaves the page alone, and of the history what is seen.
LEMMA ShellStays ==
  ASSUME ShellInv, UNCHANGED <<link, store, shell>>, past'.unseen = past.unseen,
         past'.relaid = past.relaid
  PROVE  ShellInv'
BY DEF ShellInv, UnreadDotIsTrue, Unread, Shown, InTree

\* A step of the page that leaves the wire and Murmur alone.
LEMMA PageSteps ==
  ASSUME RosterTypes, ShellInv, UNCHANGED <<murmur, wire>>, NEW l \in Links, NEW s \in Store,
         upward' \in Seq([type : {"join"}, channel : Channels]), Becomes(l, s, past),
         s.messages = store.messages
  PROVE  /\ RosterTypes' /\ ShellInv' /\ LossesStay /\ link' = l /\ store' = s
         /\ past'.ghosts = past.ghosts /\ past'.refused = past.refused
<1>1. /\ store \in Store /\ shell \in Shell /\ past \in Past
      /\ murmur' \in [channels : SUBSET Channels, at : [Users -> Channels \cup {Gone}]]
      /\ wire' \in Seq(Envelopes)
  BY DEF RosterTypes
<1>2. ShellInv'
  BY <1>1, ShellKept
<1> QED
  BY <1>1, <1>2, BecomesTypes DEF LossesStay

\* connect, retryAfterEnd: nobody is online.
LEMMA ConnectsFacts ==
  ASSUME RosterTypes, ShellInv, WireInv, Connects
  PROVE  RosterTypes' /\ ShellInv' /\ ~Online /\ link' = "connecting"
         /\ UNCHANGED <<murmur, wire, upward>>
<1>0. store \in Store /\ upward \in Seq([type : {"join"}, channel : Channels])
  BY DEF RosterTypes
<1>1. UNCHANGED <<murmur, wire, upward>> /\ "connecting" \in Links /\ ~Online
  BY DEF Connects, Links, WireInv
<1>2. PICK b \in BOOLEAN : b = (store.self /\ link # "ended")
  OBVIOUS
<1> DEFINE s == [store EXCEPT !.needRestore = FALSE, !.self = b]
<1>3. Becomes("connecting", s, past)
  BY <1>2 DEF Connects
<1>4. s \in Store /\ s.messages = store.messages
  BY <1>0 DEF Store
<1> QED
  BY <1>0, <1>1, <1>3, <1>4, PageSteps

\* scheduleNextAttempt gives up: nobody is online.
LEMMA GivesUpFacts ==
  ASSUME RosterTypes, ShellInv, GivesUp
  PROVE  RosterTypes' /\ ShellInv' /\ ~Online /\ link' = "failed"
         /\ UNCHANGED <<murmur, wire, upward>>
BY PageSteps DEF GivesUp, Links, RosterTypes

\* selectChannel.
LEMMA SelectFacts ==
  ASSUME RosterTypes, ShellInv, NEW c \in Channels, Select(c)
  PROVE  /\ RosterTypes' /\ ShellInv' /\ LossesStay /\ UNCHANGED <<link, murmur, wire, upward>>
         /\ store'.self = store.self /\ store'.users = store.users
         /\ store'.current = store.current /\ store'.channels = store.channels
         /\ past'.ghosts = past.ghosts /\ past'.refused = past.refused
<1> DEFINE s == [store EXCEPT !.selected = c]
<1>1. UNCHANGED <<murmur, wire, upward>> /\ Becomes(link, s, past)
  BY DEF Select
<1>2. link \in Links /\ upward' \in Seq([type : {"join"}, channel : Channels])
  BY <1>1 DEF RosterTypes
<1>3. /\ s \in Store /\ s.messages = store.messages /\ s.self = store.self
      /\ s.users = store.users /\ s.current = store.current /\ s.channels = store.channels
  BY DEF RosterTypes, Store
<1> HIDE DEF s
<1>4. /\ RosterTypes' /\ ShellInv' /\ LossesStay /\ link' = link /\ store' = s
      /\ past'.ghosts = past.ghosts /\ past'.refused = past.refused
  BY <1>1, <1>2, <1>3, PageSteps
<1> QED
  BY <1>1, <1>3, <1>4

\* joinChannel: the page moves, and asks Murmur if it can.
LEMMA JoinFacts ==
  ASSUME RosterTypes, ShellInv, NEW c \in Channels, Join(c)
  PROVE  /\ RosterTypes' /\ ShellInv' /\ LossesStay /\ UNCHANGED <<link, murmur, wire>>
         /\ store'.self = store.self /\ store'.users = store.users
         /\ store'.current = c /\ store'.channels = store.channels
         /\ past'.ghosts = past.ghosts /\ past'.refused = past.refused
         /\ upward' = (IF Online /\ link = "ready"
                       THEN Append(upward, [type |-> "join", channel |-> c]) ELSE upward)
         /\ link \in {"ready", "reconnecting"}
<1> DEFINE s == Joined(store, c)
           cmd == [type |-> "join", channel |-> c]
<1>1. /\ UNCHANGED <<murmur, wire>> /\ Becomes(link, s, past) /\ shell.mounted
      /\ upward' = IF Online /\ link = "ready" THEN Append(upward, cmd) ELSE upward
  BY DEF Join, Sent
<1>2. link \in Links /\ upward \in Seq([type : {"join"}, channel : Channels])
  BY DEF RosterTypes
<1>3. cmd \in [type : {"join"}, channel : Channels]
  OBVIOUS
<1>4. /\ s \in Store /\ s.messages = store.messages /\ s.self = store.self
      /\ s.users = store.users /\ s.current = c /\ s.channels = store.channels
  BY DEF RosterTypes, Store, Joined
<1> HIDE DEF s, cmd
<1>5. upward' \in Seq([type : {"join"}, channel : Channels])
  <2>1. Append(upward, cmd) \in Seq([type : {"join"}, channel : Channels])
    BY <1>2, <1>3
  <2> QED
    BY <1>1, <1>2, <2>1
<1>6. /\ RosterTypes' /\ ShellInv' /\ LossesStay /\ link' = link /\ store' = s
      /\ past'.ghosts = past.ghosts /\ past'.refused = past.refused
  BY <1>1, <1>2, <1>4, <1>5, PageSteps
<1>7. link \in {"ready", "reconnecting"}
  BY <1>1 DEF ShellInv, Shown
<1> QED
  BY <1>1, <1>4, <1>6, <1>7 DEF cmd

\* Whoever is unplugged is gone from Murmur, and nothing is on the way.
LEMMA UnpluggedFacts ==
  ASSUME RosterTypes, Unplugged
  PROVE  /\ murmur' \in [channels : SUBSET Channels, at : [Users -> Channels \cup {Gone}]]
         /\ wire' = <<>> /\ upward' = <<>> /\ ~Online'
         /\ wire' \in Seq(Envelopes)
         /\ upward' \in Seq([type : {"join"}, channel : Channels])
<1>1. [murmur.at EXCEPT ![Me] = Gone] \in [Users -> Channels \cup {Gone}]
  BY DEF RosterTypes
<1>2. murmur' = [murmur EXCEPT !.at = [murmur.at EXCEPT ![Me] = Gone]]
  BY DEF Unplugged
<1>3. /\ murmur' \in [channels : SUBSET Channels, at : [Users -> Channels \cup {Gone}]]
      /\ murmur'.at = [murmur.at EXCEPT ![Me] = Gone]
  BY <1>1, <1>2 DEF RosterTypes
<1>4. murmur'.at[Me] = Gone
  BY <1>3, RosterFacts DEF RosterTypes
<1> QED
  BY <1>3, <1>4 DEF Unplugged, Online

\* The three ways to leave the connection.
LEMMA LettingGo ==
  ASSUME RosterTypes, ShellInv, Dropped \/ Ends \/ Leaves
  PROVE  /\ RosterTypes' /\ ShellInv' /\ ~Online' /\ wire' = <<>> /\ upward' = <<>>
         /\ link' \in {"reconnecting", "ended", "idle"}
<1>0. store \in Store /\ shell \in Shell /\ past \in Past
  BY DEF RosterTypes
<1>1. Unplugged /\ {"reconnecting", "ended", "idle"} \subseteq Links
  BY DEF Dropped, Ends, Leaves, Links
<1>2. ASSUME NEW l \in {"reconnecting", "ended", "idle"}, NEW s \in Store, NEW p \in Past,
             Becomes(l, s, p), ShellInv'
      PROVE  RosterTypes' /\ link' = l
  BY <1>1, <1>2, UnpluggedFacts, BecomesTypes
<1> DEFINE q == Unlost(past)
<1>2a. /\ q \in Past /\ q.unseen = past.unseen /\ q.relaid = past.relaid
  BY <1>0 DEF Past, Unlost
<1>3. CASE Dropped
  <2> DEFINE d == IF store.self THEN store.selfChannel ELSE store.current
             s == IF link = "reconnecting" THEN store ELSE [store EXCEPT !.desired = d]
  <2>1. Becomes("reconnecting", s, q)
    BY <1>3 DEF Dropped
  <2>2. d \in Channels
    BY <1>0 DEF Store
  <2>3. s \in Store /\ s.messages = store.messages
    <3> HIDE DEF d
    <3> QED
      BY <1>0, <2>2 DEF Store
  <2> HIDE DEF s, q
  <2>4. ShellInv'
    BY <1>0, <1>1, <1>2a, <2>1, <2>3, ShellKept
  <2> QED
    BY <1>1, <1>2, <1>2a, <2>1, <2>3, <2>4, UnpluggedFacts
<1>4. CASE Ends
  <2> DEFINE s == [store EXCEPT !.channels = {}, !.users = Nobody, !.needRestore = FALSE]
             p == [q EXCEPT !.ghosts = {}]
  <2>1. Becomes("ended", s, p)
    BY <1>4 DEF Ends
  <2>2. s \in Store /\ s.messages = store.messages
    <3>1. Nobody \in [Users -> Channels \cup {Gone}]
      BY RosterFacts
    <3> QED
      BY <1>0, <3>1 DEF Store
  <2>3. p \in Past /\ p.unseen = past.unseen /\ p.relaid = past.relaid
    <3> HIDE DEF q
    <3> QED
      BY <1>2a DEF Past
  <2> HIDE DEF s, p, q
  <2>4. ShellInv'
    BY <1>0, <1>1, <2>1, <2>2, <2>3, ShellKept
  <2> QED
    BY <1>1, <1>2, <2>1, <2>2, <2>3, <2>4, UnpluggedFacts
<1>5. CASE Leaves
  <2> DEFINE s == [NoStore EXCEPT !.current = store.current, !.selfChannel = store.selfChannel,
                                  !.desired = store.desired]
             p == [q EXCEPT !.ghosts = {}, !.unseen = {}]
  <2>1. Becomes("idle", s, p)
    BY <1>5 DEF Leaves
  <2>2. s \in Store
    BY <1>0, RosterFacts DEF Store
  <2>3. p \in Past /\ p.unseen = {}
    <3> HIDE DEF q
    <3> QED
      BY <1>2a DEF Past
  <2> HIDE DEF s, p, q
  <2>4. ShellInv'
    BY <1>0, <2>1, <2>2, <2>3, ShellKeptByLeaving
  <2> QED
    BY <1>1, <1>2, <2>1, <2>2, <2>3, <2>4, UnpluggedFacts
<1> QED
  BY <1>3, <1>4, <1>5

\* What the last of a set is once a sequence is longer, or shorter by its head.
LEMMA LastOfAppend ==
  ASSUME NEW S, NEW w \in Seq(S), NEW e, NEW A
  PROVE  /\ Append(w, e)[Len(w) + 1] = e /\ DOMAIN Append(w, e) = 1..Len(w) + 1
         /\ \A i \in 1..Len(w) : Append(w, e)[i] = w[i]
         /\ e \in A => /\ ~NoneOf(Append(w, e), A)
                       /\ \A i \in DOMAIN Append(w, e) :
                            LastOf(Append(w, e), A, i) => i = Len(w) + 1
         /\ e \notin A => /\ NoneOf(Append(w, e), A) <=> NoneOf(w, A)
                          /\ \A i \in DOMAIN Append(w, e) :
                               LastOf(Append(w, e), A, i) => i \in DOMAIN w /\ LastOf(w, A, i)
<1> DEFINE v == Append(w, e)
<1>1. /\ DOMAIN v = 1..Len(w) + 1 /\ DOMAIN w = 1..Len(w) /\ v[Len(w) + 1] = e
      /\ \A i \in 1..Len(w) : v[i] = w[i]
      /\ Len(w) \in Nat
  OBVIOUS
<1> HIDE DEF v
<1>2. ASSUME e \in A
      PROVE  ~NoneOf(v, A) /\ \A i \in DOMAIN v : LastOf(v, A, i) => i = Len(w) + 1
  BY <1>1, <1>2 DEF NoneOf, LastOf
<1>3. ASSUME e \notin A
      PROVE  /\ NoneOf(v, A) <=> NoneOf(w, A)
             /\ \A i \in DOMAIN v : LastOf(v, A, i) => i \in DOMAIN w /\ LastOf(w, A, i)
  <2>1. \A i \in DOMAIN v : i \in DOMAIN w \/ i = Len(w) + 1
    BY <1>1
  <2>2. NoneOf(v, A) <=> NoneOf(w, A)
    BY <1>1, <1>3, <2>1 DEF NoneOf
  <2>3. ASSUME NEW i \in DOMAIN v, LastOf(v, A, i)
        PROVE  i \in DOMAIN w /\ LastOf(w, A, i)
    BY <1>1, <1>3, <2>1, <2>3 DEF LastOf
  <2> QED
    BY <2>2, <2>3
<1> QED
  BY <1>1, <1>2, <1>3 DEF v

\* The same of a sequence without its head.
LEMMA LastOfTail ==
  ASSUME NEW S, NEW w \in Seq(S), w # <<>>, NEW A
  PROVE  /\ DOMAIN w = 1..Len(w) /\ DOMAIN Tail(w) = 1..(Len(w) - 1) /\ Len(w) \in Nat
         /\ \A i \in DOMAIN Tail(w) : i + 1 \in DOMAIN w /\ Tail(w)[i] = w[i + 1]
         /\ \A i \in DOMAIN Tail(w) : LastOf(Tail(w), A, i) => LastOf(w, A, i + 1)
         /\ NoneOf(Tail(w), A) => NoneOf(w, A) \/ LastOf(w, A, 1)
         /\ NoneOf(w, A) => NoneOf(Tail(w), A)
<1> DEFINE v == Tail(w)
<1>1. /\ DOMAIN w = 1..Len(w) /\ DOMAIN v = 1..(Len(w) - 1) /\ Len(w) \in Nat
      /\ \A i \in 1..(Len(w) - 1) : v[i] = w[i + 1]
  OBVIOUS
<1> HIDE DEF v
<1>2. \A i \in DOMAIN v : i + 1 \in DOMAIN w /\ v[i] = w[i + 1]
  BY <1>1
<1>3. \A j \in DOMAIN w : j # 1 => j - 1 \in DOMAIN v /\ v[j - 1] = w[j]
  BY <1>1
<1>4. ASSUME NEW i \in DOMAIN v, LastOf(v, A, i)
      PROVE  LastOf(w, A, i + 1)
  <2>1. w[i + 1] \in A
    BY <1>2, <1>4 DEF LastOf
  <2>2. ASSUME NEW j \in DOMAIN w, j > i + 1
        PROVE  w[j] \notin A
    <3>1. j - 1 \in DOMAIN v /\ v[j - 1] = w[j] /\ j - 1 > i
      BY <1>1, <1>3, <2>2
    <3> QED
      BY <1>4, <3>1 DEF LastOf
  <2> QED
    BY <2>1, <2>2 DEF LastOf
<1>5. ASSUME NoneOf(v, A)
      PROVE  NoneOf(w, A) \/ LastOf(w, A, 1)
  <2>1. \A j \in DOMAIN w : j # 1 => w[j] \notin A
    BY <1>3, <1>5 DEF NoneOf
  <2> QED
    BY <1>1, <2>1 DEF NoneOf, LastOf
<1>6. NoneOf(w, A) => NoneOf(v, A)
  BY <1>2 DEF NoneOf
<1> QED
  BY <1>1, <1>2, <1>4, <1>5, <1>6 DEF v

\* An envelope is on its way, or lost; whose losses the history keeps.
PushedOrLost(env, lost) ==
  /\ wire' = IF lost THEN wire ELSE Append(wire, env)
  /\ \A u \in Users : IF env \in UserNews(u) THEN u \in past'.lostUsers <=> lost
                      ELSE u \in past'.lostUsers <=> u \in past.lostUsers
  /\ \A c \in Channels : IF env \in ChannelNews(c) THEN c \in past'.lostChannels <=> lost
                         ELSE c \in past'.lostChannels <=> c \in past.lostChannels

\* The history remembers whose last news was lost, and nothing else changes in it.
LEMMA RemembersFacts ==
  ASSUME NEW env \in Envelopes, NEW p \in Past, NEW lost \in BOOLEAN,
         NEW q, q = Remembers(p, env, lost)
  PROVE  /\ q \in Past /\ q.ghosts = p.ghosts /\ q.refused = p.refused
         /\ q.unseen = p.unseen /\ q.relaid = p.relaid
         /\ \A u \in Users : IF env \in UserNews(u) THEN u \in q.lostUsers <=> lost
                             ELSE u \in q.lostUsers <=> u \in p.lostUsers
         /\ \A c \in Channels : IF env \in ChannelNews(c) THEN c \in q.lostChannels <=> lost
                                ELSE c \in q.lostChannels <=> c \in p.lostChannels
<1>1. CASE env.type \in {"user", "userRemove"}
  <2> DEFINE U == IF lost THEN p.lostUsers \cup {env.user} ELSE p.lostUsers \ {env.user}
  <2>1. q = [p EXCEPT !.lostUsers = U]
    BY <1>1 DEF Remembers
  <2>2. env.user \in Users
    BY <1>1, EnvelopeFields
  <2>3. U \in SUBSET Users /\ \A u \in Users : IF u = env.user THEN u \in U <=> lost
                                              ELSE u \in U <=> u \in p.lostUsers
    BY <2>2 DEF Past
  <2> HIDE DEF U
  <2>4. /\ q \in Past /\ q.ghosts = p.ghosts /\ q.refused = p.refused
        /\ q.unseen = p.unseen /\ q.relaid = p.relaid
        /\ q.lostUsers = U /\ q.lostChannels = p.lostChannels
    BY <2>1, <2>3 DEF Past
  <2>5. /\ \A u \in Users : env \in UserNews(u) <=> u = env.user
        /\ \A c \in Channels : env \notin ChannelNews(c)
    BY <1>1 DEF UserNews, ChannelNews
  <2> QED
    BY <2>3, <2>4, <2>5
<1>2. CASE env.type \in {"channel", "channelRemove"}
  <2> DEFINE C == IF lost THEN p.lostChannels \cup {env.channel}
                  ELSE p.lostChannels \ {env.channel}
  <2>1. q = [p EXCEPT !.lostChannels = C]
    BY <1>2 DEF Remembers
  <2>2. env.channel \in Channels
    BY <1>2, EnvelopeFields
  <2>3. C \in SUBSET Channels /\ \A c \in Channels : IF c = env.channel THEN c \in C <=> lost
                                                    ELSE c \in C <=> c \in p.lostChannels
    BY <2>2 DEF Past
  <2> HIDE DEF C
  <2>4. /\ q \in Past /\ q.ghosts = p.ghosts /\ q.refused = p.refused
        /\ q.unseen = p.unseen /\ q.relaid = p.relaid
        /\ q.lostUsers = p.lostUsers /\ q.lostChannels = C
    BY <2>1, <2>3 DEF Past
  <2>5. /\ \A c \in Channels : env \in ChannelNews(c) <=> c = env.channel
        /\ \A u \in Users : env \notin UserNews(u)
    BY <1>2 DEF UserNews, ChannelNews
  <2> QED
    BY <2>3, <2>4, <2>5
<1>3. CASE env.type \notin {"user", "userRemove", "channel", "channelRemove"}
  <2>1. q = p
    BY <1>3 DEF Remembers
  <2>2. /\ \A u \in Users : env \notin UserNews(u)
        /\ \A c \in Channels : env \notin ChannelNews(c)
    BY <1>3 DEF UserNews, ChannelNews
  <2> QED
    BY <2>1, <2>2
<1> QED
  BY <1>1, <1>2, <1>3

\* The proxy tells of something to those who are online, or loses it.
LEMMA ToldFacts ==
  ASSUME RosterTypes, NEW env \in Envelopes, NEW p \in Past, Told(env, p),
         p.lostUsers = past.lostUsers, p.lostChannels = past.lostChannels
  PROVE  /\ wire' \in Seq(Envelopes) /\ past' \in Past
         /\ past'.ghosts = p.ghosts /\ past'.refused = p.refused
         /\ past'.unseen = p.unseen /\ past'.relaid = p.relaid
         /\ Online => \E lost \in BOOLEAN : PushedOrLost(env, lost)
         /\ ~Online => wire' = wire
<1>1. wire \in Seq(Envelopes) /\ Append(wire, env) \in Seq(Envelopes)
  BY DEF RosterTypes
<1>2. ASSUME NEW lost \in BOOLEAN, past' = Remembers(p, env, lost),
             wire' = IF lost THEN wire ELSE Append(wire, env)
      PROVE  /\ wire' \in Seq(Envelopes) /\ past' \in Past
             /\ past'.ghosts = p.ghosts /\ past'.refused = p.refused
             /\ past'.unseen = p.unseen /\ past'.relaid = p.relaid
             /\ PushedOrLost(env, lost)
  <2>1. PICK q : q = past'
    OBVIOUS
  <2>2. q = Remembers(p, env, lost)
    BY <1>2, <2>1
  <2>3. /\ q \in Past /\ q.ghosts = p.ghosts /\ q.refused = p.refused
        /\ q.unseen = p.unseen /\ q.relaid = p.relaid
        /\ \A u \in Users : IF env \in UserNews(u) THEN u \in q.lostUsers <=> lost
                            ELSE u \in q.lostUsers <=> u \in p.lostUsers
        /\ \A c \in Channels : IF env \in ChannelNews(c) THEN c \in q.lostChannels <=> lost
                               ELSE c \in q.lostChannels <=> c \in p.lostChannels
    BY <2>2, RemembersFacts
  <2> QED
    BY <1>1, <1>2, <2>1, <2>3 DEF PushedOrLost
<1>3. CASE ~Online /\ UNCHANGED wire /\ past' = p
  BY <1>1, <1>3
<1>4. CASE Online /\ wire' = Append(wire, env) /\ past' = Remembers(p, env, FALSE)
  BY <1>2, <1>4
<1>5. CASE Online /\ UNCHANGED wire /\ past' = Remembers(p, env, TRUE)
  BY <1>2, <1>5
<1> QED
  BY <1>3, <1>4, <1>5 DEF Told

\* What a step behind the page's back changes.
LEMMA BehindFacts ==
  ASSUME RosterTypes, ShellInv, UNCHANGED <<link, store, shell>>,
         past' \in Past, past'.unseen = past.unseen, past'.relaid = past.relaid,
         murmur' \in [channels : SUBSET Channels, at : [Users -> Channels \cup {Gone}]],
         wire' \in Seq(Envelopes), upward' \in Seq([type : {"join"}, channel : Channels])
  PROVE  RosterTypes' /\ ShellInv'
BY ShellStays DEF RosterTypes

\* The snapshot of a login, but for synced: connected, channels, users.
Snapshot(cs, us, at) ==
  <<[type |-> "connected"]>>
  \o [i \in DOMAIN cs |-> [type |-> "channel", channel |-> cs[i]]]
  \o [i \in DOMAIN us |-> [type |-> "user", user |-> us[i], channel |-> at[us[i]]]]

\* What is at which place of it, synced at its end or not.
LaidOut(w, n, m, cs, us, at) ==
  /\ w \in Seq(Envelopes) /\ DOMAIN w \in {1..(n + m + 1), 1..(n + m + 2)}
  /\ w[1] = [type |-> "connected"]
  /\ \A i \in 1..n : w[i + 1] = [type |-> "channel", channel |-> cs[i]]
  /\ \A i \in 1..m : w[n + 1 + i] = [type |-> "user", user |-> us[i], channel |-> at[us[i]]]
  /\ n + m + 2 \in DOMAIN w => w[n + m + 2] = [type |-> "synced"]

\* A snapshot is laid out as written.
LEMMA SnapshotFacts ==
  ASSUME NEW n \in Nat, NEW m \in Nat, NEW cs \in [1..n -> Channels], NEW us \in [1..m -> Users],
         NEW at, \A i \in 1..m : at[us[i]] \in Channels, NEW w,
         \/ w = Snapshot(cs, us, at) \/ w = Snapshot(cs, us, at) \o <<[type |-> "synced"]>>
  PROVE  LaidOut(w, n, m, cs, us, at)
<1> DEFINE a == <<[type |-> "connected"]>>
           b == [i \in DOMAIN cs |-> [type |-> "channel", channel |-> cs[i]]]
           c == [i \in DOMAIN us |-> [type |-> "user", user |-> us[i], channel |-> at[us[i]]]]
           d == <<[type |-> "synced"]>>
<1>1. a \in Seq(Envelopes) /\ Len(a) = 1 /\ a[1] = [type |-> "connected"]
  BY DEF Envelopes
<1>2. d \in Seq(Envelopes) /\ Len(d) = 1 /\ d[1] = [type |-> "synced"]
  BY DEF Envelopes
<1>3. /\ b \in Seq(Envelopes) /\ Len(b) = n
      /\ \A i \in 1..n : b[i] = [type |-> "channel", channel |-> cs[i]]
  <2>1. DOMAIN cs = 1..n
    OBVIOUS
  <2>2. \A i \in 1..n : [type |-> "channel", channel |-> cs[i]] \in Envelopes
    BY DEF Envelopes
  <2>3. b \in [1..n -> Envelopes]
    BY <2>1, <2>2
  <2>4. b \in Seq(Envelopes)
    BY <2>3, SeqDef
  <2> QED
    BY <2>1, <2>3, <2>4, LenProperties
<1>4. /\ c \in Seq(Envelopes) /\ Len(c) = m
      /\ \A i \in 1..m : c[i] = [type |-> "user", user |-> us[i], channel |-> at[us[i]]]
  <2>1. DOMAIN us = 1..m
    OBVIOUS
  <2>2. \A i \in 1..m : [type |-> "user", user |-> us[i], channel |-> at[us[i]]] \in Envelopes
    BY DEF Envelopes
  <2>3. c \in [1..m -> Envelopes]
    BY <2>1, <2>2
  <2>4. c \in Seq(Envelopes)
    BY <2>3, SeqDef
  <2> QED
    BY <2>1, <2>3, <2>4, LenProperties
<1>5. Snapshot(cs, us, at) = (a \o b) \o c /\ (w = Snapshot(cs, us, at) \/ w = Snapshot(cs, us, at) \o d)
  BY DEF Snapshot
<1> HIDE DEF a, b, c, d
<1> DEFINE ab == a \o b
           abc == ab \o c
<1>6. /\ ab \in Seq(Envelopes) /\ Len(ab) = n + 1 /\ ab[1] = a[1]
      /\ \A i \in 1..n : ab[i + 1] = b[i]
  <2>1. /\ ab \in Seq(Envelopes) /\ Len(ab) = Len(a) + Len(b)
        /\ \A i \in 1..(Len(a) + Len(b)) : ab[i] = IF i <= Len(a) THEN a[i] ELSE b[i - Len(a)]
    BY <1>1, <1>3, ConcatProperties
  <2> HIDE DEF ab
  <2> QED
    BY <1>1, <1>3, <2>1
<1> HIDE DEF ab
<1>7. /\ abc \in Seq(Envelopes) /\ Len(abc) = n + 1 + m
      /\ \A i \in 1..(n + 1) : abc[i] = ab[i]
      /\ \A i \in 1..m : abc[n + 1 + i] = c[i]
  <2>1. /\ abc \in Seq(Envelopes) /\ Len(abc) = Len(ab) + Len(c)
        /\ \A i \in 1..(Len(ab) + Len(c)) : abc[i] = IF i <= Len(ab) THEN ab[i] ELSE c[i - Len(ab)]
    BY <1>4, <1>6, ConcatProperties
  <2> HIDE DEF abc
  <2> QED
    BY <1>4, <1>6, <2>1
<1> HIDE DEF abc
<1>8. w = abc \/ w = abc \o d
  BY <1>5 DEF ab, abc
<1>9. /\ w \in Seq(Envelopes) /\ DOMAIN w \in {1..(n + m + 1), 1..(n + m + 2)}
      /\ \A i \in 1..(n + 1 + m) : w[i] = abc[i]
      /\ n + m + 2 \in DOMAIN w => w[n + m + 2] = d[1]
  <2>1. CASE w = abc
    <3>1. DOMAIN w = 1..(n + m + 1) /\ n + m + 2 \notin 1..(n + m + 1)
      BY <1>7, <2>1
    <3> QED
      BY <1>7, <2>1, <3>1
  <2>2. CASE w = abc \o d
    <3> DEFINE v == abc \o d
    <3>1. /\ v \in Seq(Envelopes) /\ Len(v) = Len(abc) + Len(d)
          /\ \A i \in 1..(Len(abc) + Len(d)) :
               v[i] = IF i <= Len(abc) THEN abc[i] ELSE d[i - Len(abc)]
      BY <1>2, <1>7, ConcatProperties
    <3>2. w = v
      BY <2>2
    <3> HIDE DEF v
    <3>3. \A i \in 1..(n + 1 + m) : w[i] = abc[i]
      BY <1>2, <1>7, <3>1, <3>2
    <3>4. w[n + m + 2] = d[(n + m + 2) - (n + 1 + m)] /\ (n + m + 2) - (n + 1 + m) = 1
      BY <1>2, <1>7, <3>1, <3>2
    <3>5. w \in Seq(Envelopes) /\ DOMAIN w = 1..(n + m + 2)
      BY <1>2, <1>7, <3>1, <3>2
    <3> QED
      BY <3>3, <3>4, <3>5
  <2> QED
    BY <1>8, <2>1, <2>2
<1>10. w[1] = a[1]
  <2>1. 1 \in 1..(n + 1) /\ 1 \in 1..(n + 1 + m)
    OBVIOUS
  <2> QED
    BY <1>6, <1>7, <1>9, <2>1
<1>11. \A i \in 1..n : w[i + 1] = b[i]
  BY <1>6, <1>7, <1>9
<1>12. \A i \in 1..m : w[n + 1 + i] = c[i]
  <2> TAKE i \in 1..m
  <2>1. n + 1 + i \in 1..(n + 1 + m)
    OBVIOUS
  <2> QED
    BY <1>7, <1>9, <2>1
<1> QED
  BY <1>1, <1>2, <1>3, <1>4, <1>9, <1>10, <1>11, <1>12 DEF LaidOut

\* A sequence that has every member of a set, and no other.
Lists(f, S, T) ==
  \E n \in Nat : /\ f \in [1..n -> T]
                 /\ \A i \in 1..n : f[i] \in S
                 /\ \A x \in S : \E i \in 1..n : f[i] = x

\* SetToSeqs gives such sequences.
LEMMA Listing ==
  ASSUME NEW T, NEW S, S \subseteq T, IsFiniteSet(S), NEW f, f \in SetToSeqs(S)
  PROVE  Lists(f, S, T)
<1> DEFINE n == Cardinality(S)
<1>1. n \in Nat
  BY FS_CardinalityType
<1>2. f \in [1..n -> S] /\ \A i, j \in 1..n : i # j => f[i] # f[j]
  BY DEF SetToSeqs
<1>3. f \in Injection(1..n, S)
  BY <1>2 DEF Injection, IsInjective
<1>4. Cardinality(1..n) = n
  <2> HIDE DEF n
  <2>1. Cardinality(1..n) = IF 1 > n THEN 0 ELSE n - 1 + 1
    BY <1>1, FS_Interval
  <2> QED
    BY <1>1, <2>1
<1>5. f \in Surjection(1..n, S)
  BY <1>3, <1>4, FS_Injection
<1> HIDE DEF n
<1>6. \A x \in S : \E i \in 1..n : f[i] = x
  BY <1>5 DEF Surjection
<1>7. f \in [1..n -> T] /\ \A i \in 1..n : f[i] \in S
  BY <1>2
<1> QED
  BY <1>1, <1>6, <1>7 DEF Lists

\* The wire after a login: of what is listed, only what the queue lost is missing.
Snapped(n, m, cs, us) ==
  /\ \/ wire' = Snapshot(cs, us, murmur'.at)
     \/ wire' = Snapshot(cs, us, murmur'.at) \o <<[type |-> "synced"]>>
  /\ \A i \in 1..n : cs[i] \in murmur'.channels
  /\ \A c \in murmur'.channels \ past'.lostChannels : \E i \in 1..n : cs[i] = c
  /\ \A i \in 1..m : murmur'.at[us[i]] \in Channels
  /\ \A u \in Users \ past'.lostUsers : murmur'.at[u] # Gone => \E i \in 1..m : us[i] = u

\* The proxy logs in, and lists all that is there, but for what is lost.
LEMMA LoginFacts ==
  ASSUME RosterTypes, ShellInv, LoginAccepted
  PROVE  /\ RosterTypes' /\ ShellInv' /\ Online'
         /\ UNCHANGED <<link, store, shell, upward>> /\ link \in {"connecting", "reconnecting"}
         /\ \E n \in Nat, m \in Nat :
              \E cs \in [1..n -> Channels], us \in [1..m -> Users] : Snapped(n, m, cs, us)
<1>0. /\ past \in Past /\ upward \in Seq([type : {"join"}, channel : Channels])
      /\ murmur \in [channels : SUBSET Channels, at : [Users -> Channels \cup {Gone}]]
  BY DEF RosterTypes
<1>1. UNCHANGED <<link, store, shell, upward>> /\ link \in {"connecting", "reconnecting"}
  BY DEF LoginAccepted
<1> DEFINE At(c) == [murmur.at EXCEPT ![Me] = c]
           There(at) == {u \in Users : at[u] # Gone}
           first(cs) == <<[type |-> "connected"]>>
                        \o [i \in DOMAIN cs |-> [type |-> "channel", channel |-> cs[i]]]
           all(cs, us, at) ==
             first(cs)
             \o [i \in DOMAIN us |-> [type |-> "user", user |-> us[i], channel |-> at[us[i]]]]
           Does(at, there, told, met, cs, us) ==
             /\ told = murmur.channels \/ Full(first(cs))
             /\ met = there \/ Full(all(cs, us, at))
             /\ murmur' = [murmur EXCEPT !.at = at]
             /\ \/ wire' = all(cs, us, at) \o <<[type |-> "synced"]>>
                \/ Full(all(cs, us, at)) /\ wire' = all(cs, us, at)
             /\ past' = [past EXCEPT !.ghosts = IF link = "reconnecting" THEN {} ELSE past.ghosts,
                                     !.lostChannels = murmur.channels \ told,
                                     !.lostUsers = there \ met]
<1>2. PICK c \in murmur.channels :
        \E told \in SUBSET murmur.channels, met \in SUBSET There(At(c)) :
          \E cs \in SetToSeqs(told), us \in SetToSeqs(met) :
            Does(At(c), There(At(c)), told, met, cs, us)
  BY Zenon DEF LoginAccepted
<1> DEFINE at == At(c)
           S == There(at)
<1>3. PICK told \in SUBSET murmur.channels, met \in SUBSET S :
        \E cs \in SetToSeqs(told), us \in SetToSeqs(met) : Does(at, S, told, met, cs, us)
  BY <1>2
<1> HIDE DEF Does
<1>4a. PICK cs \in SetToSeqs(told), us \in SetToSeqs(met) : Does(at, S, told, met, cs, us)
  BY <1>3
<1> HIDE DEF At, There, at, S
<1> DEFINE g == IF link = "reconnecting" THEN {} ELSE past.ghosts
<1>4. /\ murmur' = [murmur EXCEPT !.at = at]
      /\ \/ wire' = Snapshot(cs, us, at)
         \/ wire' = Snapshot(cs, us, at) \o <<[type |-> "synced"]>>
      /\ past' = [past EXCEPT !.ghosts = g, !.lostChannels = murmur.channels \ told,
                              !.lostUsers = S \ met]
  <2>1. all(cs, us, at) = Snapshot(cs, us, at)
    BY DEF Snapshot
  <2> HIDE DEF all
  <2> QED
    BY <1>4a, <2>1, Zenon DEF Does
<1> HIDE DEF all, first
<1>5. at \in [Users -> Channels \cup {Gone}] /\ at[Me] = c /\ c \in Channels
  BY <1>0, RosterFacts DEF at, At
<1>6. S \in SUBSET Users /\ \A u \in Users : u \in S <=> at[u] # Gone
  BY DEF S, There
<1>7. g \in SUBSET (Channels \cup Others)
  BY <1>0 DEF Past
<1> HIDE DEF g
<1>8. /\ murmur' \in [channels : SUBSET Channels, at : [Users -> Channels \cup {Gone}]]
      /\ murmur'.at = at /\ murmur'.channels = murmur.channels
  BY <1>0, <1>4, <1>5
<1>9. /\ past' \in Past /\ past'.unseen = past.unseen /\ past'.relaid = past.relaid
      /\ past'.lostChannels = murmur.channels \ told /\ past'.lostUsers = S \ met
  <2> DEFINE lc == murmur.channels \ told
             lu == S \ met
  <2>1. lc \in SUBSET Channels /\ lu \in SUBSET Users
    BY <1>0, <1>6
  <2>2. past' = [past EXCEPT !.ghosts = g, !.lostChannels = lc, !.lostUsers = lu]
    BY <1>4
  <2> HIDE DEF lc, lu
  <2>3. /\ past' \in Past /\ past'.unseen = past.unseen /\ past'.relaid = past.relaid
        /\ past'.lostChannels = lc /\ past'.lostUsers = lu
    BY <1>0, <1>7, <2>1, <2>2 DEF Past
  <2> QED
    BY <2>3 DEF lc, lu
<1>10. IsFiniteSet(told) /\ told \subseteq Channels
  BY <1>0, FS_Subset, RosterAssumption
<1>11. IsFiniteSet(met) /\ met \subseteq Users
  <2>1. IsFiniteSet(Users)
    BY RosterAssumption, FS_AddElement DEF Users
  <2>2. met \subseteq Users
    BY <1>6
  <2> QED
    BY <2>1, <2>2, FS_Subset
<1>12. PICK n \in Nat : /\ cs \in [1..n -> Channels]
                        /\ \A i \in 1..n : cs[i] \in told
                        /\ \A x \in told : \E i \in 1..n : cs[i] = x
  <2>1. cs \in SetToSeqs(told)
    OBVIOUS
  <2>2. Lists(cs, told, Channels)
    BY <1>10, <2>1, Listing
  <2> QED
    BY <2>2 DEF Lists
<1>13. PICK m \in Nat : /\ us \in [1..m -> Users]
                        /\ \A i \in 1..m : us[i] \in met
                        /\ \A x \in met : \E i \in 1..m : us[i] = x
  <2>1. us \in SetToSeqs(met)
    OBVIOUS
  <2>2. Lists(us, met, Users)
    BY <1>11, <2>1, Listing
  <2> QED
    BY <2>2 DEF Lists
<1>14. \A i \in 1..m : at[us[i]] \in Channels
  <2> TAKE i \in 1..m
  <2>1. us[i] \in Users /\ at[us[i]] # Gone
    BY <1>6, <1>13
  <2> QED
    BY <1>5, <2>1
<1>15. wire' \in Seq(Envelopes)
  <2>1. PICK w : w = wire'
    OBVIOUS
  <2>2. LaidOut(w, n, m, cs, us, at)
    BY <1>4, <1>12, <1>13, <1>14, <2>1, SnapshotFacts
  <2> QED
    BY <2>1, <2>2 DEF LaidOut
<1>16. Online'
  BY <1>5, <1>8, RosterFacts DEF Online
<1>17. RosterTypes' /\ ShellInv'
  BY <1>0, <1>1, <1>8, <1>9, <1>15, BehindFacts
<1>18. Snapped(n, m, cs, us)
  <2>1. \/ wire' = Snapshot(cs, us, murmur'.at)
        \/ wire' = Snapshot(cs, us, murmur'.at) \o <<[type |-> "synced"]>>
    BY <1>4, <1>8
  <2>2. \A x \in murmur'.channels \ past'.lostChannels : \E i \in 1..n : cs[i] = x
    BY <1>8, <1>9, <1>12
  <2>3. \A u \in Users \ past'.lostUsers : murmur'.at[u] # Gone => \E i \in 1..m : us[i] = u
    BY <1>6, <1>8, <1>9, <1>13
  <2>4. /\ \A i \in 1..n : cs[i] \in murmur'.channels
        /\ \A i \in 1..m : murmur'.at[us[i]] \in Channels
    BY <1>8, <1>12, <1>14
  <2> QED
    BY <2>1, <2>2, <2>3, <2>4 DEF Snapped
<1>19. cs \in [1..n -> Channels] /\ us \in [1..m -> Users] /\ n \in Nat /\ m \in Nat
  BY <1>12, <1>13
<1> QED
  BY ONLY <1>1, <1>16, <1>17, <1>18, <1>19

\* A step of Murmur of which the proxy tells the truth, if the queue takes it.
TrulyTold(env) ==
  /\ UNCHANGED <<link, store, shell>> /\ (Online' <=> Online)
  /\ Online => \E lost \in BOOLEAN : PushedOrLost(env, lost)
  /\ ~Online => wire' = wire
  /\ upward' = upward \/ (Online /\ env \in UserNews(Me))
  /\ env.type # "connected"
  /\ past.ghosts \subseteq past'.ghosts /\ (past.refused => past'.refused)
  /\ \A u \in Users : IF env \in UserNews(u) THEN Online => Agrees(u, Place(env))'
                      ELSE murmur'.at[u] = murmur.at[u]
  /\ \A c \in Channels : IF env \in ChannelNews(c)
                         THEN env.type = "channel" <=> c \in murmur'.channels
                         ELSE c \in murmur'.channels <=> c \in murmur.channels

\* A step behind the page's back that changes nobody's place and no channel but
\* of what it tells: its types, and what is seen.
LEMMA TellingFacts ==
  ASSUME RosterTypes, ShellInv, NEW env \in Envelopes, NEW p \in Past, Told(env, p),
         UNCHANGED <<link, store, shell, upward>>,
         p.unseen = past.unseen, p.relaid = past.relaid,
         p.lostUsers = past.lostUsers, p.lostChannels = past.lostChannels,
         murmur' \in [channels : SUBSET Channels, at : [Users -> Channels \cup {Gone}]]
  PROVE  /\ RosterTypes' /\ ShellInv' /\ past'.ghosts = p.ghosts /\ past'.refused = p.refused
         /\ Online => \E lost \in BOOLEAN : PushedOrLost(env, lost)
         /\ ~Online => wire' = wire
<1>1. upward' \in Seq([type : {"join"}, channel : Channels])
  BY DEF RosterTypes
<1>2. /\ wire' \in Seq(Envelopes) /\ past' \in Past
      /\ past'.ghosts = p.ghosts /\ past'.refused = p.refused
      /\ past'.unseen = p.unseen /\ past'.relaid = p.relaid
      /\ Online => \E lost \in BOOLEAN : PushedOrLost(env, lost)
      /\ ~Online => wire' = wire
  BY ToldFacts
<1>3. RosterTypes' /\ ShellInv'
  BY <1>1, <1>2, BehindFacts
<1> QED
  BY <1>2, <1>3

\* Someone moves, comes or leaves: it is truly told.
LEMMA UserMovesFacts ==
  ASSUME RosterTypes, ShellInv, NEW u \in Users, NEW c \in Channels \cup {Gone}, UserMoves(u, c)
  PROVE  RosterTypes' /\ ShellInv' /\ \E env \in Envelopes : TrulyTold(env)
<1>0. /\ murmur \in [channels : SUBSET Channels, at : [Users -> Channels \cup {Gone}]]
      /\ past \in Past
  BY DEF RosterTypes
<1> DEFINE env == IF c = Gone THEN [type |-> "userRemove", user |-> u]
                  ELSE [type |-> "user", user |-> u, channel |-> c]
           at == [murmur.at EXCEPT ![u] = c]
<1>1. /\ env \in Envelopes /\ env.type \in {"user", "userRemove"} /\ env.user = u
      /\ Place(env) = c
  <2>1. CASE c = Gone
    BY <2>1 DEF Envelopes, Place
  <2>2. CASE c # Gone
    BY <2>2 DEF Envelopes, Place
  <2> QED
    BY <2>1, <2>2
<1>2. at \in [Users -> Channels \cup {Gone}] /\ at[u] = c
      /\ \A v \in Users : v # u => at[v] = murmur.at[v]
  BY <1>0
<1>3. /\ Told(env, past) /\ UNCHANGED <<link, store, shell, upward>>
      /\ murmur' = [murmur EXCEPT !.at = at] /\ (u = Me => Online /\ c \in murmur.channels)
  BY DEF UserMoves
<1> HIDE DEF env, at
<1>4. /\ murmur' \in [channels : SUBSET Channels, at : [Users -> Channels \cup {Gone}]]
      /\ murmur'.at = at /\ murmur'.channels = murmur.channels
  BY <1>0, <1>2, <1>3
<1>5. /\ RosterTypes' /\ ShellInv' /\ past'.ghosts = past.ghosts /\ past'.refused = past.refused
      /\ Online => \E lost \in BOOLEAN : PushedOrLost(env, lost)
      /\ ~Online => wire' = wire
  BY <1>0, <1>1, <1>3, <1>4, TellingFacts
<1>6. Online' <=> Online
  <2>1. CASE u = Me
    <3>1. c # Gone
      BY <1>0, <1>3, <2>1, RosterFacts
    <3> QED
      BY <1>2, <1>3, <1>4, <2>1, <3>1 DEF Online
  <2>2. CASE u # Me
    BY <1>2, <1>4, <2>2, RosterFacts DEF Online
  <2> QED
    BY <2>1, <2>2
<1>7. \A v \in Users : IF env \in UserNews(v) THEN Agrees(v, Place(env))'
                       ELSE murmur'.at[v] = murmur.at[v]
  BY <1>1, <1>2, <1>4 DEF UserNews, Agrees, Place
<1>8. \A d \in Channels : env \notin ChannelNews(d)
  BY <1>1 DEF ChannelNews
<1>9. TrulyTold(env)
  <2>1. env.type # "connected"
    BY <1>1
  <2>2. past.ghosts \subseteq past'.ghosts /\ (past.refused => past'.refused)
    BY <1>5
  <2>3. \A v \in Users : IF env \in UserNews(v) THEN Online => Agrees(v, Place(env))'
                         ELSE murmur'.at[v] = murmur.at[v]
    BY <1>7
  <2> QED
    BY <1>3, <1>4, <1>5, <1>6, <1>8, <2>1, <2>2, <2>3 DEF TrulyTold
<1> QED
  BY <1>1, <1>5, <1>9

\* A kick is told as what it is not, and the user is from then on a ghost.
LEMMA UserKickedFacts ==
  ASSUME RosterTypes, ShellInv, NEW u \in Others, UserKicked(u)
  PROVE  RosterTypes' /\ ShellInv' /\ \E env \in Envelopes : TrulyTold(env)
<1>0. /\ murmur \in [channels : SUBSET Channels, at : [Users -> Channels \cup {Gone}]]
      /\ past \in Past /\ u \in Users /\ u # Me
  BY RosterFacts DEF RosterTypes
<1>1. PICK env \in Envelopes : /\ env = [type |-> "user", user |-> u, channel |-> murmur.at[u]]
                              /\ env.type = "user" /\ env.user = u
  <2>1. murmur.at[u] \in Channels
    BY <1>0 DEF UserKicked
  <2> DEFINE x == [type |-> "user", user |-> u, channel |-> murmur.at[u]]
  <2>2. x \in Envelopes /\ x.type = "user" /\ x.user = u
    BY <1>0, <2>1 DEF Envelopes
  <2> QED
    BY <2>2
<1> DEFINE at == [murmur.at EXCEPT ![u] = Gone]
           g == IF Online THEN past.ghosts \cup {u} ELSE past.ghosts
           p == IF Online THEN [past EXCEPT !.ghosts = past.ghosts \cup {u}] ELSE past
<1>2. at \in [Users -> Channels \cup {Gone}] /\ at[u] = Gone
      /\ \A v \in Users : v # u => at[v] = murmur.at[v]
  BY <1>0
<1>3. /\ Told(env, p) /\ UNCHANGED <<link, store, shell, upward>>
      /\ murmur' = [murmur EXCEPT !.at = at]
  BY <1>1 DEF UserKicked
<1>4. /\ p \in Past /\ p.ghosts = g /\ p.refused = past.refused
      /\ p.unseen = past.unseen /\ p.relaid = past.relaid
      /\ p.lostUsers = past.lostUsers /\ p.lostChannels = past.lostChannels
  <2>1. CASE Online
    <3>1. past.ghosts \cup {u} \in SUBSET (Channels \cup Others)
      BY <1>0 DEF Past
    <3> QED
      BY <1>0, <2>1, <3>1 DEF Past
  <2>2. CASE ~Online
    BY <1>0, <2>2
  <2> QED
    BY <2>1, <2>2
<1>5. past.ghosts \subseteq g /\ (Online => u \in g)
  OBVIOUS
<1> HIDE DEF at, g, p
<1>6. /\ murmur' \in [channels : SUBSET Channels, at : [Users -> Channels \cup {Gone}]]
      /\ murmur'.at = at /\ murmur'.channels = murmur.channels
  BY <1>0, <1>2, <1>3
<1>7. /\ RosterTypes' /\ ShellInv' /\ past'.ghosts = g /\ past'.refused = past.refused
      /\ Online => \E lost \in BOOLEAN : PushedOrLost(env, lost)
      /\ ~Online => wire' = wire
  BY <1>1, <1>3, <1>4, <1>6, TellingFacts
<1>8. Online' <=> Online
  BY <1>0, <1>2, <1>6, RosterFacts DEF Online
<1>9. \A v \in Users : IF env \in UserNews(v) THEN Online => Agrees(v, Place(env))'
                       ELSE murmur'.at[v] = murmur.at[v]
  BY <1>1, <1>2, <1>5, <1>6, <1>7 DEF UserNews, Agrees
<1>10. \A d \in Channels : env \notin ChannelNews(d)
  BY <1>1 DEF ChannelNews
<1>11. TrulyTold(env)
  <2>1. env.type # "connected"
    BY <1>1
  <2> QED
    BY <1>3, <1>5, <1>6, <1>7, <1>8, <1>9, <1>10, <2>1 DEF TrulyTold
<1> QED
  BY <1>1, <1>7, <1>11

\* A channel comes or goes: it is truly told.
LEMMA ChannelTellingFacts ==
  ASSUME RosterTypes, ShellInv, NEW c \in Channels, ChannelAdded(c) \/ ChannelRemoved(c)
  PROVE  RosterTypes' /\ ShellInv' /\ \E env \in Envelopes : TrulyTold(env)
<1>0. /\ murmur \in [channels : SUBSET Channels, at : [Users -> Channels \cup {Gone}]]
      /\ past \in Past
  BY DEF RosterTypes
<1>1. PICK env \in Envelopes, cs \in SUBSET Channels :
        /\ env.type \in {"channel", "channelRemove"} /\ env.channel = c
        /\ env.type = "channel" <=> c \in cs
        /\ \A d \in Channels : d # c => (d \in cs <=> d \in murmur.channels)
        /\ Told(env, past) /\ murmur' = [murmur EXCEPT !.channels = cs]
  <2>1. CASE ChannelAdded(c)
    <3> DEFINE env == [type |-> "channel", channel |-> c]
               cs == murmur.channels \cup {c}
    <3>1. env \in Envelopes /\ cs \in SUBSET Channels
      BY <1>0 DEF Envelopes
    <3> QED
      BY <2>1, <3>1 DEF ChannelAdded
  <2>2. CASE ChannelRemoved(c)
    <3> DEFINE env == [type |-> "channelRemove", channel |-> c]
               cs == murmur.channels \ {c}
    <3>1. env \in Envelopes /\ cs \in SUBSET Channels
      BY <1>0 DEF Envelopes
    <3> QED
      BY <2>2, <3>1 DEF ChannelRemoved
  <2> QED
    BY <2>1, <2>2
<1>2. UNCHANGED <<link, store, shell, upward>>
  BY DEF ChannelAdded, ChannelRemoved
<1>3. /\ murmur' \in [channels : SUBSET Channels, at : [Users -> Channels \cup {Gone}]]
      /\ murmur'.at = murmur.at /\ murmur'.channels = cs
  BY <1>0, <1>1
<1>4. /\ RosterTypes' /\ ShellInv' /\ past'.ghosts = past.ghosts /\ past'.refused = past.refused
      /\ Online => \E lost \in BOOLEAN : PushedOrLost(env, lost)
      /\ ~Online => wire' = wire
  BY <1>0, <1>1, <1>2, <1>3, TellingFacts
<1>5. \A d \in Channels : env \in ChannelNews(d) <=> d = c
  BY <1>1 DEF ChannelNews
<1>6. \A v \in Users : env \notin UserNews(v)
  BY <1>1 DEF UserNews
<1>7. Online' <=> Online
  BY <1>3 DEF Online
<1>8. TrulyTold(env)
  <2>1. env.type # "connected"
    BY <1>1
  <2>2. \A d \in Channels : IF env \in ChannelNews(d)
                            THEN env.type = "channel" <=> d \in murmur'.channels
                            ELSE d \in murmur'.channels <=> d \in murmur.channels
    BY <1>1, <1>3, <1>5
  <2>3. past.ghosts \subseteq past'.ghosts /\ (past.refused => past'.refused)
    BY <1>4
  <2> QED
    BY <1>1, <1>2, <1>3, <1>4, <1>6, <1>7, <2>1, <2>2, <2>3 DEF TrulyTold
<1> QED
  BY <1>4, <1>8

\* A text changes nothing that is told of users and channels.
LEMMA TextArrivesFacts ==
  ASSUME RosterTypes, ShellInv, NEW c \in Channels \cup {Gone}, TextArrives(c)
  PROVE  RosterTypes' /\ ShellInv' /\ \E env \in Envelopes : TrulyTold(env)
<1>0. /\ murmur \in [channels : SUBSET Channels, at : [Users -> Channels \cup {Gone}]]
      /\ past \in Past
  BY DEF RosterTypes
<1> DEFINE env == [type |-> "textMessage", channel |-> c]
<1>1. env \in Envelopes /\ env.type = "textMessage"
  BY DEF Envelopes
<1>2. Told(env, past) /\ UNCHANGED <<link, store, shell, murmur, upward>>
  BY DEF TextArrives
<1> HIDE DEF env
<1>3. /\ RosterTypes' /\ ShellInv' /\ past'.ghosts = past.ghosts /\ past'.refused = past.refused
      /\ Online => \E lost \in BOOLEAN : PushedOrLost(env, lost)
      /\ ~Online => wire' = wire
  <2>1. murmur' \in [channels : SUBSET Channels, at : [Users -> Channels \cup {Gone}]]
    BY <1>0, <1>2
  <2> QED
    BY <1>0, <1>1, <1>2, <2>1, TellingFacts
<1>4. TrulyTold(env)
  <2>1. (\A v \in Users : env \notin UserNews(v)) /\ (\A d \in Channels : env \notin ChannelNews(d))
    BY <1>1 DEF UserNews, ChannelNews
  <2>2. Online' <=> Online
    BY <1>2 DEF Online
  <2> QED
    BY <1>1, <1>2, <1>3, <2>1, <2>2 DEF TrulyTold
<1> QED
  BY <1>1, <1>3, <1>4

\* The proxy carries out a join, or Murmur refuses it.
LEMMA CommandFacts ==
  ASSUME RosterTypes, ShellInv, WireInv, Command
  PROVE  /\ RosterTypes' /\ ShellInv' /\ UNCHANGED <<link, store, shell>>
         /\ upward # <<>> /\ upward' = Tail(upward) /\ past'.ghosts = past.ghosts
         /\ \/ /\ murmur'.at = murmur.at /\ murmur'.channels = murmur.channels /\ wire' = wire
               /\ LossesStay
               /\ past'.refused \/ (past' = past /\ Head(upward).channel = murmur.at[Me])
            \/ \E env \in Envelopes : TrulyTold(env)
<1>0. /\ murmur \in [channels : SUBSET Channels, at : [Users -> Channels \cup {Gone}]]
      /\ past \in Past /\ wire \in Seq(Envelopes)
      /\ upward \in Seq([type : {"join"}, channel : Channels])
  BY DEF RosterTypes
<1>1. upward # <<>> /\ upward' = Tail(upward) /\ UNCHANGED <<link, store, shell>>
  BY DEF Command
<1>2. Online
  BY <1>1 DEF WireInv
<1> DEFINE to == Head(upward).channel
<1>3. to \in Channels /\ upward' \in Seq([type : {"join"}, channel : Channels])
  <2>1. Head(upward) \in [type : {"join"}, channel : Channels]
        /\ Tail(upward) \in Seq([type : {"join"}, channel : Channels])
    <3> DEFINE R == [type : {"join"}, channel : Channels]
    <3>1. upward \in Seq(R) /\ upward # <<>>
      BY <1>0, <1>1
    <3> HIDE DEF R
    <3>2. Head(upward) \in R /\ Tail(upward) \in Seq(R)
      BY <3>1
    <3> QED
      BY <3>2 DEF R
  <2> QED
    BY <1>1, <2>1
<1> HIDE DEF to
<1>4. CASE /\ murmur' = [murmur EXCEPT !.at[Me] = to]
           /\ IF to = murmur.at[Me] THEN UNCHANGED <<wire, past>>
              ELSE Told([type |-> "user", user |-> Me, channel |-> to], past)
  <2> DEFINE at == [murmur.at EXCEPT ![Me] = to]
  <2>1. at \in [Users -> Channels \cup {Gone}] /\ at[Me] = to
        /\ \A v \in Users : v # Me => at[v] = murmur.at[v]
    BY <1>0, <1>3, RosterFacts
  <2>2. murmur' = [murmur EXCEPT !.at = at]
    BY <1>4
  <2>3. to = murmur.at[Me] => at = murmur.at
    BY <1>0
  <2> HIDE DEF at
  <2>4. /\ murmur' \in [channels : SUBSET Channels, at : [Users -> Channels \cup {Gone}]]
        /\ murmur'.at = at /\ murmur'.channels = murmur.channels
    BY <1>0, <2>1, <2>2
  <2>5. CASE to = murmur.at[Me]
    <3>1. wire' = wire /\ wire' \in Seq(Envelopes) /\ past' = past /\ past' \in Past
      BY <1>0, <1>4, <2>5
    <3>2. RosterTypes' /\ ShellInv'
      BY <1>1, <1>3, <2>4, <3>1, BehindFacts
    <3> QED
      BY <1>1, <2>3, <2>4, <2>5, <3>1, <3>2 DEF to, LossesStay
  <2>6. CASE to # murmur.at[Me]
    <3>1. PICK env \in Envelopes : /\ env = [type |-> "user", user |-> Me, channel |-> to]
                                  /\ env.type = "user" /\ env.user = Me /\ env.channel = to
      <4> DEFINE x == [type |-> "user", user |-> Me, channel |-> to]
      <4>1. x \in Envelopes /\ x.type = "user" /\ x.user = Me /\ x.channel = to
        BY <1>3, RosterFacts DEF Envelopes
      <4> QED
        BY <4>1
    <3>2. Told(env, past)
      BY <1>4, <2>6, <3>1
    <3>3. /\ wire' \in Seq(Envelopes) /\ past' \in Past
          /\ past'.ghosts = past.ghosts /\ past'.refused = past.refused
          /\ past'.unseen = past.unseen /\ past'.relaid = past.relaid
          /\ Online => \E lost \in BOOLEAN : PushedOrLost(env, lost)
          /\ ~Online => wire' = wire
      BY <1>0, <3>2, ToldFacts
    <3>3a. RosterTypes' /\ ShellInv'
      BY <1>1, <1>3, <2>4, <3>3, BehindFacts
    <3>4. \A v \in Users : IF env \in UserNews(v) THEN Agrees(v, Place(env))'
                           ELSE murmur'.at[v] = murmur.at[v]
      <4>1. Place(env) = to /\ \A v \in Users : env \in UserNews(v) => v = Me
        BY <3>1 DEF Place, UserNews
      <4>2. Agrees(Me, Place(env))'
        BY <2>1, <2>4, <4>1 DEF Agrees, Place
      <4>3. \A v \in Users : v # Me => murmur'.at[v] = murmur.at[v]
        BY <2>1, <2>4
      <4> QED
        BY <3>1, <4>1, <4>2, <4>3 DEF UserNews
    <3>5. env \in UserNews(Me) /\ \A d \in Channels : env \notin ChannelNews(d)
      BY <3>1 DEF UserNews, ChannelNews
    <3>6. Online'
      BY <1>3, <2>1, <2>4, RosterFacts DEF Online
    <3>7. TrulyTold(env)
      <4>1. env.type # "connected"
        BY <3>1
      <4>2. past.ghosts \subseteq past'.ghosts /\ (past.refused => past'.refused)
        BY <3>3
      <4> QED
        BY <1>1, <1>2, <2>4, <3>3, <3>4, <3>5, <3>6, <4>1, <4>2 DEF TrulyTold
    <3> QED
      BY <1>1, <3>1, <3>3, <3>3a, <3>7
  <2> QED
    BY <2>5, <2>6
<1>5. CASE past' = [past EXCEPT !.refused = TRUE] /\ UNCHANGED <<murmur, wire>>
  <2>1. /\ past' \in Past /\ past'.ghosts = past.ghosts /\ past'.refused = TRUE
        /\ past'.unseen = past.unseen /\ past'.relaid = past.relaid /\ LossesStay
    BY <1>0, <1>5 DEF Past, LossesStay
  <2>2. RosterTypes' /\ ShellInv'
    BY <1>0, <1>1, <1>3, <1>5, <2>1, BehindFacts
  <2> QED
    BY <1>1, <1>5, <2>1, <2>2
<1> QED
  BY <1>4, <1>5 DEF Command, to

\* What the wire says is true after a step that is truly told.
LEMMA ToldGrows ==
  ASSUME RosterTypes, ToldInv, NEW env \in Envelopes, TrulyTold(env)
  PROVE  ToldInv'
<1>0. wire \in Seq(Envelopes)
  BY DEF RosterTypes
<1>1. /\ UNCHANGED <<link, store, shell>> /\ (Online' <=> Online)
      /\ Online => \E lost \in BOOLEAN : PushedOrLost(env, lost)
      /\ ~Online => wire' = wire
      /\ upward' = upward \/ (Online /\ env \in UserNews(Me))
      /\ env.type # "connected"
      /\ past.ghosts \subseteq past'.ghosts /\ (past.refused => past'.refused)
  BY DEF TrulyTold
<1>2. CASE ~Online
  <2>1. wire' = <<>> /\ upward' = <<>>
    BY <1>1, <1>2 DEF ToldInv, WireInv
  <2> QED
    BY <1>1, <1>2, <2>1 DEF ToldInv, WireInv, UsersTold, ChannelsTold, OwnTold
<1>3. CASE Online /\ PushedOrLost(env, TRUE)
  <2>1. wire' = wire /\ (Fresh' <=> Fresh)
    BY <1>3 DEF PushedOrLost, Fresh
  <2>2. WireInv'
    BY <1>1, <1>3, <2>1 DEF ToldInv, WireInv
  <2>3. ASSUME NEW u \in Users, u \notin past'.lostUsers
        PROVE  /\ env \notin UserNews(u) /\ u \notin past.lostUsers
               /\ murmur'.at[u] = murmur.at[u]
               /\ \A c : Agrees(u, c) => Agrees(u, c)'
    <3>1. env \notin UserNews(u) /\ u \notin past.lostUsers
      BY <1>3, <2>3 DEF PushedOrLost
    <3>2. murmur'.at[u] = murmur.at[u]
      BY <3>1 DEF TrulyTold
    <3> QED
      BY <1>1, <3>1, <3>2 DEF Agrees
  <2>4. ASSUME NEW c \in Channels, c \notin past'.lostChannels
        PROVE  /\ c \notin past.lostChannels /\ (c \in murmur'.channels <=> c \in murmur.channels)
               /\ Matches(c) => Matches(c)'
    <3>1. env \notin ChannelNews(c) /\ c \notin past.lostChannels
      BY <1>3, <2>4 DEF PushedOrLost
    <3>2. c \in murmur'.channels <=> c \in murmur.channels
      BY <3>1 DEF TrulyTold
    <3> QED
      BY <1>1, <3>1, <3>2 DEF Matches
  <2>5. UsersTold'
    <3> SUFFICES ASSUME NEW u \in Users, u \notin past'.lostUsers
                 PROVE  /\ \A i \in DOMAIN wire' :
                             LastOf(wire', UserNews(u), i) => Agrees(u, Place(wire[i]))'
                        /\ NoneOf(wire', UserNews(u)) /\ Fresh' => murmur'.at[u] = Gone
                        /\ NoneOf(wire', UserNews(u)) /\ ~Fresh' => Agrees(u, store.users[u])'
      BY DEF UsersTold, UserNews
    <3>1. /\ \A i \in DOMAIN wire : LastOf(wire, UserNews(u), i) => Agrees(u, Place(wire[i]))
          /\ NoneOf(wire, UserNews(u)) /\ Fresh => murmur.at[u] = Gone
          /\ NoneOf(wire, UserNews(u)) /\ ~Fresh => Agrees(u, store.users[u])
      BY <1>3, <2>3 DEF ToldInv, UsersTold
    <3>2. \A i \in DOMAIN wire : Agrees(u, Place(wire[i])) => Agrees(u, Place(wire[i]))'
      <4> TAKE i \in DOMAIN wire
      <4>1. Place(wire'[i]) = Place(wire[i])
        BY <2>1 DEF Place
      <4> QED
        BY <1>1, <2>3, <4>1 DEF Agrees, Place
    <3>3. Agrees(u, store.users[u]) => Agrees(u, store.users[u])'
      BY <1>1, <2>3 DEF Agrees
    <3> QED
      BY <2>1, <2>3, <3>1, <3>2, <3>3
  <2>6. ChannelsTold'
    <3> SUFFICES ASSUME NEW c \in Channels, c \notin past'.lostChannels
                 PROVE  /\ \A i \in DOMAIN wire' :
                             LastOf(wire', ChannelNews(c), i)
                               => (wire'[i].type = "channel" <=> c \in murmur'.channels)
                        /\ NoneOf(wire', ChannelNews(c)) /\ Fresh' => c \notin murmur'.channels
                        /\ NoneOf(wire', ChannelNews(c)) /\ ~Fresh' => Matches(c)'
      BY DEF ChannelsTold, ChannelNews
    <3>1. /\ \A i \in DOMAIN wire :
               LastOf(wire, ChannelNews(c), i) => (wire[i].type = "channel" <=> c \in murmur.channels)
          /\ NoneOf(wire, ChannelNews(c)) /\ Fresh => c \notin murmur.channels
          /\ NoneOf(wire, ChannelNews(c)) /\ ~Fresh => Matches(c)
      BY <1>3, <2>4 DEF ToldInv, ChannelsTold
    <3> QED
      BY <2>1, <2>4, <3>1
  <2>7. OwnTold'
    <3> SUFFICES ASSUME ~Fresh', NoneOf(wire', UserNews(Me)), Me \notin past'.lostUsers
                 PROVE  \/ store'.current = murmur'.at[Me] \/ past'.refused
                        \/ upward' # <<>> /\ store'.current = upward'[Len(upward')].channel
      BY DEF OwnTold, UserNews
    <3>1. /\ env \notin UserNews(Me) /\ Me \notin past.lostUsers
          /\ murmur'.at[Me] = murmur.at[Me]
      BY <2>3, RosterFacts
    <3>2. \/ store.current = murmur.at[Me] \/ past.refused
          \/ upward # <<>> /\ store.current = upward[Len(upward)].channel
      BY <1>3, <2>1, <3>1 DEF ToldInv, OwnTold
    <3> QED
      BY <1>1, <3>1, <3>2
  <2> QED
    BY <2>2, <2>5, <2>6, <2>7 DEF ToldInv
<1>4. CASE Online /\ PushedOrLost(env, FALSE)
  <2>1. wire' = Append(wire, env)
    BY <1>4 DEF PushedOrLost
  <2>2. /\ wire'[Len(wire) + 1] = env /\ DOMAIN wire' = 1..Len(wire) + 1
        /\ \A i \in 1..Len(wire) : wire'[i] = wire[i]
        /\ Len(wire) \in Nat /\ DOMAIN wire = 1..Len(wire)
        /\ wire # <<>> <=> Len(wire) > 0
    BY <1>0, <2>1
  <2>3. ASSUME NEW A
        PROVE  /\ env \in A => /\ ~NoneOf(wire', A)
                               /\ \A i \in DOMAIN wire' : LastOf(wire', A, i) => i = Len(wire) + 1
               /\ env \notin A =>
                    /\ NoneOf(wire', A) <=> NoneOf(wire, A)
                    /\ \A i \in DOMAIN wire' :
                         LastOf(wire', A, i) => i \in DOMAIN wire /\ LastOf(wire, A, i)
    BY <1>0, <2>1, LastOfAppend
  <2>4. Fresh' <=> Fresh
    <3>1. wire' # <<>>
      BY <1>0, <2>1
    <3>2. CASE wire = <<>>
      <4>1. wire'[1] = env
        BY <2>2, <3>2
      <4> QED
        BY <1>1, <3>1, <3>2, <4>1 DEF Fresh
    <3>3. CASE wire # <<>>
      BY <2>2, <3>1, <3>3 DEF Fresh
    <3> QED
      BY <3>2, <3>3
  <2>5. WireInv'
    <3>1. \A i \in DOMAIN wire' : i \in DOMAIN wire \/ i = Len(wire) + 1
      BY <2>2
    <3>2. \A i \in DOMAIN wire' : i > 1 => wire'[i].type # "connected"
      BY <1>1, <2>2, <3>1 DEF ToldInv, WireInv
    <3>3. link \in {"connected", "ready"} => store.self
      BY DEF ToldInv, WireInv
    <3>4. /\ link \in {"connecting", "reconnecting", "connected", "ready"}
          /\ Fresh <=> link \in {"connecting", "reconnecting"}
      BY <1>4 DEF ToldInv, WireInv
    <3>5. link' = link /\ store' = store /\ Online'
      BY <1>1, <1>4
    <3> QED
      BY <2>4, <3>2, <3>3, <3>4, <3>5 DEF WireInv
  <2>6. UsersTold'
    <3> SUFFICES ASSUME NEW u \in Users, u \notin past'.lostUsers
                 PROVE  /\ \A i \in DOMAIN wire' :
                             LastOf(wire', UserNews(u), i) => Agrees(u, Place(wire[i]))'
                        /\ NoneOf(wire', UserNews(u)) /\ Fresh' => murmur'.at[u] = Gone
                        /\ NoneOf(wire', UserNews(u)) /\ ~Fresh' => Agrees(u, store.users[u])'
      BY DEF UsersTold, UserNews
    <3>1. IF env \in UserNews(u) THEN Agrees(u, Place(env))' ELSE murmur'.at[u] = murmur.at[u]
      BY <1>4 DEF TrulyTold
    <3>2. CASE env \in UserNews(u)
      <4>1. ASSUME NEW i \in DOMAIN wire', LastOf(wire', UserNews(u), i)
            PROVE  Agrees(u, Place(wire[i]))'
        <5>1. wire'[i] = env
          BY <2>2, <2>3, <3>2, <4>1
        <5> QED
          BY <3>1, <3>2, <5>1 DEF Agrees, Place
      <4> QED
        BY <2>3, <3>2, <4>1
    <3>3. CASE env \notin UserNews(u)
      <4>0. u \notin past.lostUsers
        BY <1>4, <3>3 DEF PushedOrLost
      <4>1. murmur'.at[u] = murmur.at[u] /\ store' = store
        BY <1>1, <3>1, <3>3
      <4>2. ASSUME NEW i \in DOMAIN wire', LastOf(wire', UserNews(u), i)
            PROVE  Agrees(u, Place(wire[i]))'
        <5>1. i \in DOMAIN wire /\ LastOf(wire, UserNews(u), i) /\ wire'[i] = wire[i]
          BY <2>2, <2>3, <3>3, <4>2
        <5>2. Agrees(u, Place(wire[i]))
          BY <1>4, <4>0, <5>1 DEF ToldInv, UsersTold
        <5> QED
          BY <1>1, <4>1, <5>1, <5>2 DEF Agrees, Place
      <4>3. NoneOf(wire', UserNews(u)) => NoneOf(wire, UserNews(u))
        BY <2>3, <3>3
      <4>4. NoneOf(wire, UserNews(u)) =>
              (Fresh => murmur.at[u] = Gone) /\ (~Fresh => Agrees(u, store.users[u]))
        BY <1>4, <4>0 DEF ToldInv, UsersTold
      <4>5. Agrees(u, store.users[u]) => Agrees(u, store.users[u])'
        BY <1>1, <4>1 DEF Agrees
      <4> QED
        BY <2>4, <4>1, <4>2, <4>3, <4>4, <4>5
    <3> QED
      BY <3>2, <3>3
  <2>7. ChannelsTold'
    <3> SUFFICES ASSUME NEW c \in Channels, c \notin past'.lostChannels
                 PROVE  /\ \A i \in DOMAIN wire' :
                             LastOf(wire', ChannelNews(c), i)
                               => (wire'[i].type = "channel" <=> c \in murmur'.channels)
                        /\ NoneOf(wire', ChannelNews(c)) /\ Fresh' => c \notin murmur'.channels
                        /\ NoneOf(wire', ChannelNews(c)) /\ ~Fresh' => Matches(c)'
      BY DEF ChannelsTold, ChannelNews
    <3>1. IF env \in ChannelNews(c) THEN env.type = "channel" <=> c \in murmur'.channels
          ELSE c \in murmur'.channels <=> c \in murmur.channels
      BY DEF TrulyTold
    <3>2. CASE env \in ChannelNews(c)
      <4>1. ASSUME NEW i \in DOMAIN wire', LastOf(wire', ChannelNews(c), i)
            PROVE  wire'[i] = env
        BY <2>2, <2>3, <3>2, <4>1
      <4> QED
        BY <2>3, <3>1, <3>2, <4>1
    <3>3. CASE env \notin ChannelNews(c)
      <4>0. c \notin past.lostChannels
        BY <1>4, <3>3 DEF PushedOrLost
      <4>1. (c \in murmur'.channels <=> c \in murmur.channels) /\ store' = store
        BY <1>1, <3>1, <3>3
      <4>2. ASSUME NEW i \in DOMAIN wire', LastOf(wire', ChannelNews(c), i)
            PROVE  wire'[i].type = "channel" <=> c \in murmur'.channels
        <5>1. i \in DOMAIN wire /\ LastOf(wire, ChannelNews(c), i) /\ wire'[i] = wire[i]
          BY <2>2, <2>3, <3>3, <4>2
        <5> QED
          BY <1>4, <4>0, <4>1, <5>1 DEF ToldInv, ChannelsTold
      <4>3. NoneOf(wire', ChannelNews(c)) => NoneOf(wire, ChannelNews(c))
        BY <2>3, <3>3
      <4>4. NoneOf(wire, ChannelNews(c)) =>
              (Fresh => c \notin murmur.channels) /\ (~Fresh => Matches(c))
        BY <1>4, <4>0 DEF ToldInv, ChannelsTold
      <4>5. Matches(c) => Matches(c)'
        BY <1>1, <4>1 DEF Matches
      <4> QED
        BY <2>4, <4>1, <4>2, <4>3, <4>4, <4>5
    <3> QED
      BY <3>2, <3>3
  <2>8. OwnTold'
    <3>1. CASE env \in UserNews(Me)
      <4>1. ~NoneOf(wire', UserNews(Me))
        BY <2>3, <3>1
      <4> QED
        BY <4>1 DEF OwnTold, UserNews
    <3>2. CASE env \notin UserNews(Me)
      <4>1. NoneOf(wire', UserNews(Me)) => NoneOf(wire, UserNews(Me))
        BY <2>3, <3>2
      <4>2. murmur'.at[Me] = murmur.at[Me]
        BY <3>2, RosterFacts DEF TrulyTold
      <4>3. upward' = upward /\ store' = store
        BY <1>1, <3>2
      <4>3a. Me \notin past'.lostUsers => Me \notin past.lostUsers
        BY <1>4, <3>2, RosterFacts DEF PushedOrLost
      <4>4. NoneOf(wire, UserNews(Me)) /\ ~Fresh /\ Me \notin past.lostUsers =>
              \/ store.current = murmur.at[Me] \/ past.refused
              \/ upward # <<>> /\ store.current = upward[Len(upward)].channel
        BY <1>4 DEF ToldInv, OwnTold
      <4>5. NoneOf(wire', UserNews(Me)) /\ ~Fresh' /\ Me \notin past'.lostUsers =>
              \/ store'.current = murmur'.at[Me] \/ past'.refused
              \/ upward' # <<>> /\ store'.current = upward'[Len(upward')].channel
        BY <1>1, <2>4, <4>1, <4>2, <4>3, <4>3a, <4>4
      <4> QED
        BY <4>5 DEF OwnTold, UserNews
    <3> QED
      BY <3>1, <3>2
  <2> QED
    BY <2>5, <2>6, <2>7, <2>8 DEF ToldInv
<1> QED
  BY <1>1, <1>2, <1>3, <1>4

\* Nothing is told to whom is gone.
LEMMA ToldToNobody ==
  ASSUME ~Online', wire' = <<>>, upward' = <<>>, link' \notin {"connected", "ready"}
  PROVE  ToldInv'
BY DEF ToldInv, WireInv, UsersTold, ChannelsTold, OwnTold

\* A step that neither handles nor tells.
LEMMA ToldStays ==
  ASSUME RosterTypes, ToldInv, UNCHANGED <<link, wire>>, murmur'.at = murmur.at,
         murmur'.channels = murmur.channels, store'.self = store.self,
         store'.users = store.users, store'.channels = store.channels,
         past'.ghosts = past.ghosts, LossesStay, ~Online => upward' = <<>>, OwnTold'
  PROVE  ToldInv'
<1>1. (Online' <=> Online) /\ (Fresh' <=> Fresh)
  BY DEF Online, Fresh
<1>2. WireInv'
  BY <1>1 DEF ToldInv, WireInv
<1>3. \A c \in Channels : Matches(c)' <=> Matches(c)
  BY DEF Matches
<1>4. UsersTold'
  BY <1>1 DEF ToldInv, UsersTold, Agrees, UserNews, NoneOf, LastOf, Place, LossesStay
<1>5. ChannelsTold'
  BY <1>1, <1>3 DEF ToldInv, ChannelsTold, ChannelNews, NoneOf, LastOf, LossesStay
<1> QED
  BY <1>2, <1>4, <1>5 DEF ToldInv

\* The snapshot says all there is to say.
LEMMA ToldByLogin ==
  ASSUME RosterTypes, ShellInv, ToldInv, LoginAccepted
  PROVE  ToldInv'
<1>1. /\ RosterTypes' /\ Online' /\ link' \in {"connecting", "reconnecting"}
      /\ \E n \in Nat, m \in Nat :
           \E cs \in [1..n -> Channels], us \in [1..m -> Users] : Snapped(n, m, cs, us)
  BY LoginFacts
<1>2. PICK n \in Nat, m \in Nat :
        \E cs \in [1..n -> Channels], us \in [1..m -> Users] : Snapped(n, m, cs, us)
  BY <1>1
<1>3. PICK cs \in [1..n -> Channels], us \in [1..m -> Users] : Snapped(n, m, cs, us)
  BY <1>2
<1>4. PICK w, at, there, lostC, lostU :
         /\ w = wire' /\ at = murmur'.at /\ there = murmur'.channels
         /\ lostC = past'.lostChannels /\ lostU = past'.lostUsers
  OBVIOUS
<1>5. /\ \A i \in 1..n : cs[i] \in there
      /\ \A c \in there \ lostC : \E i \in 1..n : cs[i] = c
      /\ \A i \in 1..m : at[us[i]] \in Channels
      /\ \A u \in Users \ lostU : at[u] # Gone => \E i \in 1..m : us[i] = u
  BY <1>3, <1>4 DEF Snapped
<1>6. /\ w \in Seq(Envelopes) /\ DOMAIN w \in {1..(n + m + 1), 1..(n + m + 2)}
      /\ w[1] = [type |-> "connected"]
      /\ \A i \in 1..n : w[i + 1] = [type |-> "channel", channel |-> cs[i]]
      /\ \A i \in 1..m : w[n + 1 + i] = [type |-> "user", user |-> us[i], channel |-> at[us[i]]]
      /\ n + m + 2 \in DOMAIN w => w[n + m + 2] = [type |-> "synced"]
  <2>1. w = Snapshot(cs, us, at) \/ w = Snapshot(cs, us, at) \o <<[type |-> "synced"]>>
    BY <1>3, <1>4, Zenon DEF Snapped
  <2>2. /\ n \in Nat /\ m \in Nat /\ cs \in [1..n -> Channels] /\ us \in [1..m -> Users]
        /\ \A i \in 1..m : at[us[i]] \in Channels
    BY <1>5
  <2>3. LaidOut(w, n, m, cs, us, at)
    BY <2>1, <2>2, SnapshotFacts
  <2> QED
    BY <2>3 DEF LaidOut
<1>7. \A i \in DOMAIN w : \/ i = 1 \/ i = n + m + 2
                          \/ \E j \in 1..n : i = j + 1
                          \/ \E j \in 1..m : i = n + 1 + j
  <2> TAKE i \in DOMAIN w
  <2>1. i \in 1..(n + m + 2)
    BY <1>6
  <2>2. CASE i \in 2..(n + 1)
    <3>1. i - 1 \in 1..n /\ i = (i - 1) + 1
      BY <2>2
    <3> QED
      BY <3>1
  <2>3. CASE i \in (n + 2)..(n + m + 1)
    <3>1. i - n - 1 \in 1..m /\ i = n + 1 + (i - n - 1)
      BY <2>1, <2>3
    <3> QED
      BY <3>1
  <2> QED
    BY <2>1, <2>2, <2>3
<1>8. ASSUME NEW i \in DOMAIN w
      PROVE  /\ \A u \in Users : w[i] \in UserNews(u) => w[i].type = "user" /\ w[i].channel = at[u]
             /\ \A c \in Channels : w[i] \in ChannelNews(c) => w[i].type = "channel" /\ c \in there
             /\ i > 1 => w[i].type # "connected"
  <2>1. CASE i = 1
    BY <1>6, <2>1 DEF UserNews, ChannelNews
  <2>2. CASE i = n + m + 2
    BY <1>6, <2>2 DEF UserNews, ChannelNews
  <2>3. ASSUME NEW j \in 1..n, i = j + 1
        PROVE  w[i].type = "channel" /\ w[i].channel = cs[j] /\ cs[j] \in there
    <3>1. w[i] = [type |-> "channel", channel |-> cs[j]]
      BY <1>6, <2>3
    <3> QED
      BY <1>5, <3>1
  <2>4. ASSUME NEW j \in 1..m, i = n + 1 + j
        PROVE  w[i].type = "user" /\ w[i].user = us[j] /\ w[i].channel = at[us[j]]
    <3>1. w[i] = [type |-> "user", user |-> us[j], channel |-> at[us[j]]]
      BY <1>6, <2>4
    <3> QED
      BY <3>1
  <2> QED
    BY <1>7, <2>1, <2>2, <2>3, <2>4 DEF UserNews, ChannelNews
<1>9. \A i \in 1..n : i + 1 \in DOMAIN w /\ w[i + 1] \in ChannelNews(cs[i])
  <2> TAKE i \in 1..n
  <2>1. i + 1 \in DOMAIN w /\ w[i + 1] \in Envelopes
    BY <1>6, ElementOfSeq
  <2>2. w[i + 1] = [type |-> "channel", channel |-> cs[i]]
    BY <1>6
  <2>3. w[i + 1].type = "channel" /\ w[i + 1].channel = cs[i]
    BY <2>2
  <2> QED
    BY <2>1, <2>3 DEF ChannelNews
<1>10. \A i \in 1..m : n + 1 + i \in DOMAIN w /\ w[n + 1 + i] \in UserNews(us[i])
  <2> TAKE i \in 1..m
  <2>1. n + 1 + i \in DOMAIN w /\ w[n + 1 + i] \in Envelopes
    BY <1>6, ElementOfSeq
  <2>2. w[n + 1 + i] = [type |-> "user", user |-> us[i], channel |-> at[us[i]]]
    BY <1>6
  <2>3. w[n + 1 + i].type = "user" /\ w[n + 1 + i].user = us[i]
    BY <2>2
  <2> QED
    BY <2>1, <2>3 DEF UserNews
<1>11. Fresh'
  <2>1. w # <<>> /\ w[1].type = "connected"
    BY <1>6
  <2> QED
    BY <1>4, <2>1 DEF Fresh
<1>12. WireInv'
  BY <1>1, <1>4, <1>8, <1>11 DEF WireInv
<1>13. UsersTold'
  <2>1. \A u \in Users : \A i \in DOMAIN w : w[i] \in UserNews(u) => Place(w[i]) = at[u]
    BY <1>8 DEF Place
  <2>2. \A u \in Users \ lostU : NoneOf(w, UserNews(u)) => at[u] = Gone
    BY <1>5, <1>10 DEF NoneOf
  <2> QED
    BY <1>4, <1>11, <2>1, <2>2 DEF UsersTold, LastOf, Agrees, Place, UserNews, NoneOf
<1>14. ChannelsTold'
  <2>1. \A c \in Channels \ lostC : NoneOf(w, ChannelNews(c)) => c \notin there
    BY <1>5, <1>9 DEF NoneOf
  <2> QED
    BY <1>4, <1>8, <1>11, <2>1 DEF ChannelsTold, LastOf, ChannelNews, NoneOf
<1>15. OwnTold'
  BY <1>11 DEF OwnTold
<1> QED
  BY <1>12, <1>13, <1>14, <1>15 DEF ToldInv

\* What is left of the wire is true once its head is handled.
LEMMA ToldByHandling ==
  ASSUME RosterTypes, ShellInv, ToldInv, HandleMessage
  PROVE  RosterTypes' /\ ShellInv' /\ ToldInv'
<1>0. /\ wire \in Seq(Envelopes) /\ wire # <<>> /\ wire' = Tail(wire) /\ Online
      /\ Head(wire) = wire[1] /\ 1 \in DOMAIN wire /\ Head(wire) \in Envelopes
      /\ upward \in Seq([type : {"join"}, channel : Channels])
      /\ store \in Store /\ WireInv
  <2>1. wire # <<>> /\ wire' = Tail(wire)
    BY DEF HandleMessage
  <2> QED
    BY <2>1, WireHead DEF ToldInv, WireInv, RosterTypes
<1>1. /\ \A i \in DOMAIN wire' : i + 1 \in DOMAIN wire /\ wire'[i] = wire[i + 1] /\ i \in Nat /\ i > 0
      /\ \A j \in DOMAIN wire : j # 1 => j - 1 \in DOMAIN wire' /\ wire'[j - 1] = wire[j]
      /\ DOMAIN wire \subseteq Nat \ {0}
  BY <1>0, WireHead
<1> DEFINE e == Head(wire)
<1>2. /\ RosterTypes' /\ ShellInv' /\ LossesStay /\ UNCHANGED murmur
      /\ past.ghosts \subseteq past'.ghosts
      /\ e.type = "connected" =>
           /\ link' = "connected" /\ store'.self
           /\ \A u \in Users : murmur.at[u] = Gone => Agrees(u, store.users[u])'
           /\ \A c \in Channels : c \notin murmur.channels => Matches(c)'
      /\ e.type = "synced" => link' = "ready"
      /\ e.type \notin {"connected", "synced"} => link' = link
      /\ e.type # "connected" =>
           /\ store'.self = store.self
           /\ \A u \in Users : IF e \in UserNews(u) THEN store'.users[u] = Place(e)
                               ELSE store'.users[u] = store.users[u]
           /\ \A c \in Channels :
                IF e \in ChannelNews(c) THEN c \in store'.channels <=> e.type = "channel"
                ELSE c \in store'.channels <=> c \in store.channels
           /\ IF e \in UserNews(Me)
              THEN e.type = "user" /\ store.self => store'.current = e.channel
              ELSE /\ past'.refused = past.refused
                   /\ \/ store'.current = store.current /\ upward' = upward
                      \/ /\ upward' # <<>>
                         /\ store'.current = upward'[Len(upward')].channel
  <2>0. e.type \in {"connected", "synced", "channel", "channelRemove", "user", "userRemove",
                    "textMessage"}
    BY <1>0, EnvelopeFields
  <2>1. CASE e.type = "connected"
    <3>1. /\ RosterTypes' /\ ShellInv' /\ LossesStay /\ link' = "connected" /\ store'.self
          /\ UNCHANGED murmur
          /\ link = "reconnecting" =>
               store'.users = Nobody /\ store'.channels = {} /\ past'.ghosts = past.ghosts
          /\ link # "reconnecting" =>
               /\ store'.users = store.users /\ store'.channels = store.channels
               /\ past'.ghosts = past.ghosts \cup store.channels
                                   \cup {u \in Others : store.users[u] # Gone}
      BY <2>1, HandlesConnected
    <3>2. \A u \in Users : murmur.at[u] = Gone => Agrees(u, store.users[u])'
      <4>1. \A u \in Users : Nobody[u] = Gone
        BY DEF Nobody
      <4>2. \A u \in Users : murmur.at[u] = Gone => u \in Others
        BY <1>0 DEF Online, Users
      <4> QED
        BY <3>1, <4>1, <4>2 DEF Agrees
    <3>3. \A c \in Channels : c \notin murmur.channels => Matches(c)'
      BY <3>1 DEF Matches
    <3> QED
      BY <2>1, <3>1, <3>2, <3>3
  <2>2. CASE e.type = "synced"
    <3>1. /\ RosterTypes' /\ ShellInv' /\ LossesStay /\ link' = "ready" /\ UNCHANGED murmur
          /\ store'.self = store.self /\ store'.users = store.users
          /\ store'.channels = store.channels
          /\ past'.ghosts = past.ghosts /\ past'.refused = past.refused
          /\ \/ upward' = upward /\ store'.current = store.current
             \/ \E c \in Channels : /\ upward' = Append(upward, [type |-> "join", channel |-> c])
                                    /\ store'.current = c
      BY <2>2, HandlesSynced
    <3>2. ASSUME NEW c \in Channels, upward' = Append(upward, [type |-> "join", channel |-> c]),
                 store'.current = c
          PROVE  upward' # <<>> /\ store'.current = upward'[Len(upward')].channel
      BY <1>0, <3>2
    <3>3. (\A u \in Users : e \notin UserNews(u)) /\ (\A c \in Channels : e \notin ChannelNews(c))
      BY <2>2 DEF UserNews, ChannelNews
    <3> QED
      BY <2>2, <3>1, <3>2, <3>3, RosterFacts
  <2>3. CASE e.type \in {"channel", "channelRemove"}
    <3>1. /\ RosterTypes' /\ ShellInv' /\ LossesStay /\ UNCHANGED <<link, murmur, upward>>
          /\ store'.self = store.self /\ store'.users = store.users
          /\ store'.current = store.current
          /\ past'.ghosts = past.ghosts /\ past'.refused = past.refused
          /\ store'.channels = IF e.type = "channel" THEN store.channels \cup {e.channel}
                               ELSE store.channels \ {e.channel}
      BY <2>3, HandlesChannel
    <3>2. \A u \in Users : e \notin UserNews(u)
      BY <2>3 DEF UserNews
    <3>3. \A c \in Channels : e \in ChannelNews(c) <=> e.channel = c
      BY <1>0, <2>3 DEF ChannelNews
    <3> QED
      BY <2>3, <3>1, <3>2, <3>3, RosterFacts
  <2>4. CASE e.type \in {"user", "userRemove"}
    <3>1. /\ RosterTypes' /\ ShellInv' /\ LossesStay /\ UNCHANGED <<link, murmur, upward>>
          /\ store'.self = store.self /\ store'.channels = store.channels
          /\ past'.ghosts = past.ghosts /\ e.user \in Users
          /\ store'.users = [store.users EXCEPT ![e.user] = Place(e)]
          /\ (e.type = "user" /\ e.user = Me /\ store.self => store'.current = e.channel)
          /\ ~(e.type = "user" /\ e.user = Me)
               => store'.current = store.current /\ past'.refused = past.refused
      BY <2>4, HandlesUser
    <3>2. \A u \in Users : e \in UserNews(u) <=> e.user = u
      BY <1>0, <2>4 DEF UserNews
    <3>3. \A c \in Channels : e \notin ChannelNews(c)
      BY <2>4 DEF ChannelNews
    <3>4. store.users \in [Users -> Channels \cup {Gone}]
      BY <1>0 DEF Store
    <3>5. \A u \in Users : IF e \in UserNews(u) THEN store'.users[u] = Place(e)
                           ELSE store'.users[u] = store.users[u]
      BY <3>1, <3>2, <3>4
    <3>6. Me \in Users
      BY RosterFacts
    <3> QED
      BY <2>4, <3>1, <3>2, <3>3, <3>5, <3>6
  <2>5. CASE e.type = "textMessage"
    <3>1. /\ RosterTypes' /\ ShellInv' /\ LossesStay /\ UNCHANGED <<link, murmur, upward>>
          /\ store'.self = store.self /\ store'.users = store.users
          /\ store'.current = store.current /\ store'.channels = store.channels
          /\ past'.ghosts = past.ghosts /\ past'.refused = past.refused
      BY <1>0, <2>5, HandlesText
    <3>2. (\A u \in Users : e \notin UserNews(u)) /\ (\A c \in Channels : e \notin ChannelNews(c))
      BY <2>5 DEF UserNews, ChannelNews
    <3> QED
      BY <2>5, <3>1, <3>2, RosterFacts
  <2> QED
    BY <2>0, <2>1, <2>2, <2>3, <2>4, <2>5
<1>3. Online' /\ ~Fresh' /\ (Fresh <=> e.type = "connected")
  <2>1. Online'
    BY <1>0, <1>2 DEF Online
  <2>2. ~Fresh'
    <3>1. ASSUME wire' # <<>>
          PROVE  wire'[1].type # "connected"
      <4>1. 1 \in DOMAIN wire'
        BY <1>0, <3>1, WireHead
      <4>2. wire'[1] = wire[2] /\ 2 \in DOMAIN wire
        BY <1>1, <4>1
      <4> QED
        BY <1>0, <4>2 DEF WireInv
    <3> QED
      BY <3>1 DEF Fresh
  <2>3. Fresh <=> e.type = "connected"
    BY <1>0 DEF Fresh
  <2> QED
    BY <2>1, <2>2, <2>3
<1>4. e.type # "connected" => link \in {"connected", "ready"} /\ store.self
  BY <1>0, <1>3 DEF WireInv
<1>5. link' \in {"connected", "ready"} /\ store'.self
  BY <1>2, <1>4
<1>6. WireInv'
  <2>1. \A i \in DOMAIN wire' : i > 1 => wire'[i].type # "connected"
    BY <1>0, <1>1 DEF WireInv
  <2> QED
    BY <1>3, <1>5, <2>1 DEF WireInv
<1>7. \A A : /\ \A i \in DOMAIN wire' : LastOf(wire', A, i) => LastOf(wire, A, i + 1)
             /\ NoneOf(wire', A) => NoneOf(wire, A) \/ (e \in A /\ LastOf(wire, A, 1))
  <2> SUFFICES ASSUME NEW A
               PROVE  /\ \A i \in DOMAIN wire' : LastOf(wire', A, i) => LastOf(wire, A, i + 1)
                      /\ NoneOf(wire', A) => NoneOf(wire, A) \/ (e \in A /\ LastOf(wire, A, 1))
    OBVIOUS
  <2>1. /\ \A i \in DOMAIN Tail(wire) : LastOf(Tail(wire), A, i) => LastOf(wire, A, i + 1)
        /\ NoneOf(Tail(wire), A) => NoneOf(wire, A) \/ LastOf(wire, A, 1)
    BY <1>0, LastOfTail
  <2>2. LastOf(wire, A, 1) => e \in A
    BY <1>0 DEF LastOf
  <2> QED
    BY <1>0, <2>1, <2>2
<1>7a. past'.lostUsers = past.lostUsers /\ past'.lostChannels = past.lostChannels
  BY <1>2 DEF LossesStay
<1> HIDE DEF e
<1>8. UsersTold'
  <2> SUFFICES ASSUME NEW u \in Users, u \notin past.lostUsers
               PROVE  /\ \A i \in DOMAIN wire' :
                           LastOf(wire', UserNews(u), i) => Agrees(u, Place(wire[i]))'
                      /\ NoneOf(wire', UserNews(u)) => Agrees(u, store.users[u])'
    BY <1>3, <1>7a DEF UsersTold, UserNews
  <2>1. ASSUME NEW i \in DOMAIN wire', LastOf(wire', UserNews(u), i)
        PROVE  Agrees(u, Place(wire[i]))'
    <3>1. LastOf(wire, UserNews(u), i + 1) /\ i + 1 \in DOMAIN wire /\ wire'[i] = wire[i + 1]
      BY <1>1, <1>7, <2>1
    <3>2. Agrees(u, Place(wire[i + 1]))
      BY <1>0, <3>1 DEF ToldInv, UsersTold
    <3> QED
      BY <1>2, <3>1, <3>2 DEF Agrees, Place
  <2>2. ASSUME NoneOf(wire', UserNews(u))
        PROVE  Agrees(u, store.users[u])'
    <3>1. CASE e.type = "connected"
      <4>1. e \notin UserNews(u)
        BY <3>1 DEF UserNews
      <4>2. NoneOf(wire, UserNews(u))
        BY <1>7, <2>2, <4>1
      <4>3. murmur.at[u] = Gone
        BY <1>0, <1>3, <3>1, <4>2 DEF ToldInv, UsersTold
      <4> QED
        BY <1>2, <3>1, <4>3
    <3>2. CASE e.type # "connected" /\ e \in UserNews(u)
      <4>1. store'.users[u] = Place(e)
        BY <1>2, <3>2
      <4>2. LastOf(wire, UserNews(u), 1)
        <5>1. ~NoneOf(wire, UserNews(u))
          BY <1>0, <3>2 DEF NoneOf, e
        <5> QED
          BY <1>7, <2>2, <5>1
      <4>3. Agrees(u, Place(e))
        BY <1>0, <4>2 DEF ToldInv, UsersTold, e
      <4> QED
        BY <1>2, <4>1, <4>3 DEF Agrees
    <3>3. CASE e.type # "connected" /\ e \notin UserNews(u)
      <4>1. store'.users[u] = store.users[u]
        BY <1>2, <3>3
      <4>2. NoneOf(wire, UserNews(u))
        BY <1>7, <2>2, <3>3
      <4>3. Agrees(u, store.users[u])
        BY <1>0, <1>3, <3>3, <4>2 DEF ToldInv, UsersTold
      <4> QED
        BY <1>2, <4>1, <4>3 DEF Agrees
    <3> QED
      BY <3>1, <3>2, <3>3
  <2> QED
    BY <2>1, <2>2
<1>9. ChannelsTold'
  <2> SUFFICES ASSUME NEW c \in Channels, c \notin past.lostChannels
               PROVE  /\ \A i \in DOMAIN wire' :
                           LastOf(wire', ChannelNews(c), i)
                             => (wire'[i].type = "channel" <=> c \in murmur'.channels)
                      /\ NoneOf(wire', ChannelNews(c)) => Matches(c)'
    BY <1>3, <1>7a DEF ChannelsTold, ChannelNews
  <2>1. ASSUME NEW i \in DOMAIN wire', LastOf(wire', ChannelNews(c), i)
        PROVE  wire'[i].type = "channel" <=> c \in murmur'.channels
    <3>1. LastOf(wire, ChannelNews(c), i + 1) /\ i + 1 \in DOMAIN wire /\ wire'[i] = wire[i + 1]
      BY <1>1, <1>7, <2>1
    <3> QED
      BY <1>0, <1>2, <3>1 DEF ToldInv, ChannelsTold
  <2>2. ASSUME NoneOf(wire', ChannelNews(c))
        PROVE  Matches(c)'
    <3>1. CASE e.type = "connected"
      <4>1. e \notin ChannelNews(c)
        BY <3>1 DEF ChannelNews
      <4>2. NoneOf(wire, ChannelNews(c))
        BY <1>7, <2>2, <4>1
      <4>3. c \notin murmur.channels
        BY <1>0, <1>3, <3>1, <4>2 DEF ToldInv, ChannelsTold
      <4> QED
        BY <1>2, <3>1, <4>3
    <3>2. CASE e.type # "connected" /\ e \in ChannelNews(c)
      <4>1. c \in store'.channels <=> e.type = "channel"
        BY <1>2, <3>2
      <4>2. LastOf(wire, ChannelNews(c), 1)
        <5>1. ~NoneOf(wire, ChannelNews(c))
          BY <1>0, <3>2 DEF NoneOf, e
        <5> QED
          BY <1>7, <2>2, <5>1
      <4>3. e.type = "channel" <=> c \in murmur.channels
        BY <1>0, <4>2 DEF ToldInv, ChannelsTold, e
      <4> QED
        BY <1>2, <4>1, <4>3 DEF Matches
    <3>3. CASE e.type # "connected" /\ e \notin ChannelNews(c)
      <4>1. c \in store'.channels <=> c \in store.channels
        BY <1>2, <3>3
      <4>2. NoneOf(wire, ChannelNews(c))
        BY <1>7, <2>2, <3>3
      <4>3. Matches(c)
        BY <1>0, <1>3, <3>3, <4>2 DEF ToldInv, ChannelsTold
      <4> QED
        BY <1>2, <4>1, <4>3 DEF Matches
    <3> QED
      BY <3>1, <3>2, <3>3
  <2> QED
    BY <2>1, <2>2
<1>10. OwnTold'
  <2> SUFFICES ASSUME NoneOf(wire', UserNews(Me)), Me \notin past.lostUsers
               PROVE  \/ store'.current = murmur'.at[Me] \/ past'.refused
                      \/ upward' # <<>> /\ store'.current = upward'[Len(upward')].channel
    BY <1>7a DEF OwnTold, UserNews
  <2>0. Me \in Users /\ Me \notin Others
    BY RosterFacts
  <2>1. CASE e.type = "connected"
    <3>1. e \notin UserNews(Me)
      BY <2>1 DEF UserNews
    <3>2. NoneOf(wire, UserNews(Me))
      BY <1>7, <3>1
    <3> QED
      BY <1>0, <1>3, <2>0, <2>1, <3>2 DEF ToldInv, UsersTold, Online
  <2>2. CASE e.type # "connected" /\ e \in UserNews(Me)
    <3>1. LastOf(wire, UserNews(Me), 1)
      <4>1. ~NoneOf(wire, UserNews(Me))
        BY <1>0, <2>2 DEF NoneOf, e
      <4> QED
        BY <1>7, <4>1
    <3>2. Place(e) = murmur.at[Me]
      <4>1. Agrees(Me, Place(e))
        BY <1>0, <2>0, <3>1 DEF ToldInv, UsersTold, e
      <4> QED
        BY <2>0, <4>1 DEF Agrees
    <3>3. e.type = "user" /\ e.channel = murmur.at[Me]
      BY <1>0, <3>2 DEF Place, Online
    <3> QED
      BY <1>2, <1>4, <2>2, <3>3
  <2>3. CASE e.type # "connected" /\ e \notin UserNews(Me)
    <3>1. NoneOf(wire, UserNews(Me))
      BY <1>7, <2>3
    <3>2. \/ store.current = murmur.at[Me] \/ past.refused
          \/ upward # <<>> /\ store.current = upward[Len(upward)].channel
      BY <1>0, <1>3, <2>3, <3>1 DEF ToldInv, OwnTold
    <3>3. /\ past'.refused = past.refused
          /\ \/ store'.current = store.current /\ upward' = upward
             \/ upward' # <<>> /\ store'.current = upward'[Len(upward')].channel
      BY <1>2, <2>3
    <3> QED
      BY <1>2, <3>2, <3>3
  <2> QED
    BY <2>1, <2>2, <2>3
<1> QED
  BY <1>2, <1>6, <1>8, <1>9, <1>10 DEF ToldInv

\* The inductive invariant of the roster.
RosterInv == RosterTypes /\ ShellInv /\ ToldInv

\* The invariant holds at first,
LEMMA RosterStarts == RosterInit => RosterInv
<1> SUFFICES ASSUME RosterInit
             PROVE  RosterInv
  OBVIOUS
<1>1. PICK cs \in SUBSET Channels, a \in [Users -> {Root, Gone}] :
        a[Me] = Gone /\ murmur = [channels |-> cs, at |-> a]
  BY DEF RosterInit
<1>2. ~Online /\ wire = <<>> /\ upward = <<>> /\ link = "idle"
  BY <1>1 DEF RosterInit, Online
<1>3. RosterTypes
  <2>1. a \in [Users -> Channels \cup {Gone}]
    BY RosterFacts
  <2>2. murmur \in [channels : SUBSET Channels, at : [Users -> Channels \cup {Gone}]]
    BY <1>1, <2>1
  <2>3. shell \in Shell /\ past \in Past
    BY RosterFacts DEF RosterInit, Shell, Past
  <2>4. link \in Links /\ store \in Store
    BY RosterFacts DEF RosterInit, Links
  <2> QED
    BY <1>2, <2>2, <2>3, <2>4 DEF RosterTypes
<1>4. ShellInv
  <2>1. shell.mounted = FALSE /\ shell.read = NoCount /\ past.unseen = {}
    BY DEF RosterInit
  <2>2. Shown(link) = FALSE
    BY <1>2 DEF Shown
  <2> QED
    BY <2>1, <2>2 DEF ShellInv, UnreadDotIsTrue
<1>5. ToldInv
  BY <1>2 DEF ToldInv, WireInv, UsersTold, ChannelsTold, OwnTold
<1> QED
  BY <1>3, <1>4, <1>5 DEF RosterInv

\* The page's own moves keep what is told of oneself.
LEMMA OwnByJoin ==
  ASSUME RosterInv, NEW c \in Channels, Join(c)
  PROVE  RosterInv'
<1>1. /\ RosterTypes' /\ ShellInv' /\ LossesStay /\ UNCHANGED <<link, murmur, wire>>
      /\ store'.self = store.self /\ store'.users = store.users
      /\ store'.current = c /\ store'.channels = store.channels
      /\ past'.ghosts = past.ghosts /\ past'.refused = past.refused
      /\ upward' = (IF Online /\ link = "ready"
                    THEN Append(upward, [type |-> "join", channel |-> c]) ELSE upward)
      /\ link \in {"ready", "reconnecting"}
  BY JoinFacts DEF RosterInv
<1>2. /\ upward \in Seq([type : {"join"}, channel : Channels]) /\ WireInv /\ ToldInv /\ RosterTypes
  BY DEF RosterInv, RosterTypes, ToldInv
<1>3. OwnTold'
  <2> SUFFICES ASSUME Online', ~Fresh'
               PROVE  upward' # <<>> /\ store'.current = upward'[Len(upward')].channel
    BY DEF OwnTold
  <2>1. Online /\ ~Fresh
    BY <1>1 DEF Online, Fresh
  <2>2. link = "ready"
    BY <1>1, <1>2, <2>1 DEF WireInv
  <2>3. upward' = Append(upward, [type |-> "join", channel |-> c])
    BY <1>1, <2>1, <2>2
  <2>4. upward' # <<>> /\ upward'[Len(upward')] = [type |-> "join", channel |-> c]
    BY <1>2, <2>3
  <2> QED
    BY <1>1, <2>4
<1>4. ~Online => upward' = <<>>
  BY <1>1, <1>2 DEF WireInv
<1>5. ToldInv'
  BY <1>1, <1>2, <1>3, <1>4, ToldStays
<1> QED
  BY <1>1, <1>5 DEF RosterInv

\* Looking at a channel moves nobody.
LEMMA OwnBySelect ==
  ASSUME RosterInv, NEW c \in Channels, Select(c)
  PROVE  RosterInv'
<1>1. /\ RosterTypes' /\ ShellInv' /\ LossesStay /\ UNCHANGED <<link, murmur, wire, upward>>
      /\ store'.self = store.self /\ store'.users = store.users
      /\ store'.current = store.current /\ store'.channels = store.channels
      /\ past'.ghosts = past.ghosts /\ past'.refused = past.refused
  BY SelectFacts DEF RosterInv
<1>2. WireInv /\ ToldInv /\ RosterTypes
  BY DEF RosterInv, ToldInv
<1>3. OwnTold'
  BY <1>1, <1>2 DEF ToldInv, OwnTold, Online, Fresh, NoneOf, UserNews, LossesStay
<1>4. ~Online => upward' = <<>>
  BY <1>1, <1>2 DEF WireInv
<1>5. ToldInv'
  BY <1>1, <1>2, <1>3, <1>4, ToldStays
<1> QED
  BY <1>1, <1>5 DEF RosterInv

\* A join that is carried out, told or refused keeps what is told of oneself.
LEMMA OwnByCommand ==
  ASSUME RosterInv, Command
  PROVE  RosterInv'
<1>1. RosterTypes /\ ShellInv /\ WireInv /\ ToldInv /\ OwnTold
      /\ upward \in Seq([type : {"join"}, channel : Channels])
  BY DEF RosterInv, ToldInv, RosterTypes
<1>2. /\ RosterTypes' /\ ShellInv' /\ UNCHANGED <<link, store, shell>>
      /\ upward # <<>> /\ upward' = Tail(upward) /\ past'.ghosts = past.ghosts
      /\ \/ /\ murmur'.at = murmur.at /\ murmur'.channels = murmur.channels /\ wire' = wire
            /\ LossesStay
            /\ past'.refused \/ (past' = past /\ Head(upward).channel = murmur.at[Me])
         \/ \E env \in Envelopes : TrulyTold(env)
  BY <1>1, CommandFacts
<1>3. CASE \E env \in Envelopes : TrulyTold(env)
  BY <1>1, <1>2, <1>3, ToldGrows DEF RosterInv
<1>4. CASE /\ murmur'.at = murmur.at /\ murmur'.channels = murmur.channels /\ wire' = wire
           /\ LossesStay
           /\ past'.refused \/ (past' = past /\ Head(upward).channel = murmur.at[Me])
  <2>1. Online
    BY <1>1, <1>2 DEF WireInv
  <2>2. CASE past'.refused
    <3>1. OwnTold'
      BY <2>2 DEF OwnTold
    <3> QED
      BY <1>1, <1>2, <1>4, <2>1, <3>1, ToldStays DEF RosterInv
  <2>3. CASE past' = past /\ Head(upward).channel = murmur.at[Me]
    <3>1. \/ upward' = <<>> /\ upward[Len(upward)] = Head(upward)
          \/ upward' # <<>> /\ upward'[Len(upward')] = upward[Len(upward)]
      <4> DEFINE R == [type : {"join"}, channel : Channels]
      <4>1. upward \in Seq(R) /\ upward # <<>> /\ upward' = Tail(upward)
        BY <1>1, <1>2
      <4> HIDE DEF R
      <4>2. /\ Len(upward) \in Nat /\ Len(upward) > 0 /\ Len(upward') = Len(upward) - 1
            /\ Head(upward) = upward[1] /\ upward' \in Seq(R)
            /\ \A i \in 1..Len(upward') : upward'[i] = upward[i + 1]
        BY <4>1, HeadTailProperties
      <4>3. CASE Len(upward) = 1
        BY <4>2, <4>3, EmptySeq
      <4>4. CASE Len(upward) > 1
        <5>1. upward'[Len(upward')] = upward[Len(upward)]
          BY <4>2, <4>4
        <5>2. upward' # <<>>
          BY <4>2, <4>4
        <5> QED
          BY <5>1, <5>2
      <4> QED
        BY <4>2, <4>3, <4>4
    <3>2. (Online' <=> Online) /\ (Fresh' <=> Fresh)
      BY <1>4 DEF Online, Fresh
    <3>3. NoneOf(wire', UserNews(Me)) <=> NoneOf(wire, UserNews(Me))
      BY <1>4
    <3>4. ASSUME Online', ~Fresh', NoneOf(wire', UserNews(Me)), Me \notin past'.lostUsers
          PROVE  \/ store'.current = murmur'.at[Me] \/ past'.refused
                 \/ upward' # <<>> /\ store'.current = upward'[Len(upward')].channel
      <4>1. \/ store.current = murmur.at[Me] \/ past.refused
            \/ store.current = upward[Len(upward)].channel
        BY <1>1, <2>3, <3>2, <3>3, <3>4 DEF OwnTold
      <4> QED
        BY <1>2, <1>4, <2>3, <3>1, <4>1
    <3>5. OwnTold'
      BY <3>4 DEF OwnTold, UserNews
    <3> QED
      BY <1>1, <1>2, <1>4, <2>1, <3>5, ToldStays DEF RosterInv
  <2> QED
    BY <1>4, <2>2, <2>3
<1> QED
  BY <1>2, <1>3, <1>4

\* every step of every actor keeps it,
LEMMA RosterSteps == RosterInv /\ [RosterNext]_rosterVars => RosterInv'
<1> SUFFICES ASSUME RosterInv, [RosterNext]_rosterVars
             PROVE  RosterInv'
  OBVIOUS
<1>0. RosterTypes /\ ShellInv /\ WireInv /\ ToldInv
  BY DEF RosterInv, ToldInv
<1>1. CASE HandleMessage
  BY <1>0, <1>1, ToldByHandling DEF RosterInv
<1>2. CASE Connects
  <2>1. RosterTypes' /\ ShellInv' /\ ~Online /\ link' = "connecting"
        /\ UNCHANGED <<murmur, wire, upward>>
    BY <1>0, <1>2, ConnectsFacts
  <2>2. ~Online' /\ wire' = <<>> /\ upward' = <<>>
    BY <1>0, <2>1 DEF WireInv, Online
  <2> QED
    BY <2>1, <2>2, ToldToNobody DEF RosterInv
<1>3. CASE LoginAccepted
  BY <1>0, <1>3, LoginFacts, ToldByLogin DEF RosterInv
<1>4. CASE Dropped \/ Ends \/ Leaves
  <2>1. RosterTypes' /\ ShellInv' /\ ~Online' /\ wire' = <<>> /\ upward' = <<>>
        /\ link' \in {"reconnecting", "ended", "idle"}
    BY <1>0, <1>4, LettingGo
  <2> QED
    BY <2>1, ToldToNobody DEF RosterInv
<1>5. CASE GivesUp
  <2>1. RosterTypes' /\ ShellInv' /\ ~Online /\ link' = "failed"
        /\ UNCHANGED <<murmur, wire, upward>>
    BY <1>0, <1>5, GivesUpFacts
  <2>2. ~Online' /\ wire' = <<>> /\ upward' = <<>>
    BY <1>0, <2>1 DEF WireInv, Online
  <2> QED
    BY <2>1, <2>2, ToldToNobody DEF RosterInv
<1>6. ASSUME NEW c \in Channels, Select(c)
      PROVE  RosterInv'
  BY <1>6, OwnBySelect
<1>7. ASSUME NEW c \in Channels, Join(c)
      PROVE  RosterInv'
  BY <1>7, OwnByJoin
<1>8. ASSUME RosterTypes', ShellInv', \E env \in Envelopes : TrulyTold(env)
      PROVE  RosterInv'
  BY <1>0, <1>8, ToldGrows DEF RosterInv
<1>9. ASSUME NEW c \in Channels, ChannelAdded(c) \/ ChannelRemoved(c)
      PROVE  RosterInv'
  BY <1>0, <1>8, <1>9, ChannelTellingFacts
<1>10. CASE Command
  BY <1>10, OwnByCommand
<1>11. ASSUME NEW u \in Users, NEW c \in Channels \cup {Gone}, UserMoves(u, c)
       PROVE  RosterInv'
  BY <1>0, <1>8, <1>11, UserMovesFacts
<1>12. ASSUME NEW u \in Others, UserKicked(u)
       PROVE  RosterInv'
  BY <1>0, <1>8, <1>12, UserKickedFacts
<1>13. ASSUME NEW c \in Channels \cup {Gone}, TextArrives(c)
       PROVE  RosterInv'
  BY <1>0, <1>8, <1>13, TextArrivesFacts
<1>14. CASE UNCHANGED rosterVars
  BY <1>14 DEF rosterVars, RosterInv, RosterTypes, ShellInv, UnreadDotIsTrue, Unread, InTree, Shown,
    ToldInv, WireInv, UsersTold, ChannelsTold, OwnTold, Online, Fresh, Agrees, Matches, LastOf,
    NoneOf, UserNews, ChannelNews, Place
<1> QED
  BY <1>1, <1>2, <1>3, <1>4, <1>5, <1>6, <1>7, <1>9, <1>10, <1>11, <1>12, <1>13, <1>14
     DEF RosterNext

\* and so it always holds.
LEMMA RosterInvHolds == RosterSpec => []RosterInv
BY RosterStarts, RosterSteps, PTL DEF RosterSpec

\* Once every envelope is handled the page shows those of Murmur's channels and users
\* whose last envelope the send queue took, in the snapshot or after it.
THEOREM RosterIsShownTrue == RosterSpec => []RosterIsMurmurs
<1>1. RosterInv => RosterIsMurmurs
  <2> SUFFICES ASSUME RosterInv, AtRest
               PROVE  /\ \A c \in Channels \ past.lostChannels :
                           /\ c \in murmur.channels => c \in store.channels
                           /\ c \in store.channels => c \in murmur.channels \cup past.ghosts
                      /\ \A u \in Users \ past.lostUsers :
                           /\ murmur.at[u] # Gone => store.users[u] = murmur.at[u]
                           /\ store.users[u] # murmur.at[u] => u \in Others \cap past.ghosts
                           /\ u = Me => store.current = murmur.at[Me] \/ past.refused
    BY DEF RosterIsMurmurs
  <2>1. /\ Online /\ ~Fresh /\ upward = <<>> /\ \A A : NoneOf(wire, A)
    BY DEF RosterInv, ToldInv, WireInv, AtRest, Fresh, NoneOf
  <2>2. /\ \A c \in Channels \ past.lostChannels : Matches(c)
        /\ \A u \in Users \ past.lostUsers : Agrees(u, store.users[u])
    BY <2>1 DEF RosterInv, ToldInv, UsersTold, ChannelsTold
  <2>3. Me \notin past.lostUsers => store.current = murmur.at[Me] \/ past.refused
    BY <2>1 DEF RosterInv, ToldInv, OwnTold
  <2> QED
    BY <2>2, <2>3, RosterFacts DEF Matches, Agrees
<1> QED
  BY <1>1, RosterInvHolds, PTL

\* A channel is marked unread exactly when something came since it was looked at.
THEOREM DotsAreTrue == RosterSpec => []UnreadDotIsTrue
<1>1. RosterInv => UnreadDotIsTrue
  BY DEF RosterInv, ShellInv
<1> QED
  BY <1>1, RosterInvHolds, PTL

\* The types of the store and the shell.
THEOREM RosterTypeCorrect == RosterSpec => []RosterTypeOK
<1>1. RosterInv => RosterTypeOK
  BY DEF RosterInv, RosterTypes, RosterTypeOK, Links, Store, Shell
<1> QED
  BY <1>1, RosterInvHolds, PTL

------------------------------------------------------------------------------
(* The image viewer: PageViewer *)

\* The records of PageViewer: the picture,
View == [open : BOOLEAN, index : 0..Pictures - 1, scale : Scales, natural : BOOLEAN,
         failed : BOOLEAN]

\* and what the handlers keep of the pointers.
Touch == [pointers : Seq(Pointers), pinch : Seq(Pointers), swipe : Fingers \cup {NoFinger},
          pan : BOOLEAN, did : BOOLEAN, captured : BOOLEAN]

ViewerTypes ==
  /\ view \in View /\ touch \in Touch
  /\ IsInjective(touch.pointers) /\ Len(touch.pinch) \in {0, 2}
  /\ hand \in [Pointers -> {"up", "still", "moved"}]
  /\ doubt \in [lost : BOOLEAN, third : BOOLEAN]
  /\ ~view.open => touch = NoTouch

\* A recorded pointer is down, unless it is the mouse, whose release was lost.
PointersAreDown ==
  \A p \in Pointers : p \in ToSet(touch.pointers) /\ hand[p] = "up" => p = Mouse /\ doubt.lost

\* A pinch is of the two pointers recorded, unless there was a third.
PinchIsOfThem ==
  touch.pinch # <<>> => doubt.third \/ (Len(touch.pointers) = 2 /\ touch.pinch = touch.pointers)

\* The inductive invariant of the viewer.
ViewerInv == ViewerTypes /\ PointersAreDown /\ PinchIsOfThem

\* A pointer let go is no longer recorded, and the others are as they were.
LEMMA FirstRemoved ==
  ASSUME NEW s \in Seq(Pointers), IsInjective(s), NEW p \in Pointers
  PROVE  /\ RemoveFirst(s, p) \in Seq(Pointers) /\ IsInjective(RemoveFirst(s, p))
         /\ ToSet(RemoveFirst(s, p)) = ToSet(s) \ {p}
         /\ RemoveFirst(s, p) = s \/ Len(RemoveFirst(s, p)) = Len(s) - 1
<1>1. DOMAIN s = 1..Len(s) /\ Len(s) \in Nat
  OBVIOUS
<1>2. CASE ~\E i \in 1..Len(s) : s[i] = p
  <2>1. RemoveFirst(s, p) = s
    BY <1>2 DEF RemoveFirst
  <2>2. p \notin ToSet(s)
    BY <1>1, <1>2 DEF ToSet
  <2> QED
    BY <2>1, <2>2
<1>3. CASE \E i \in 1..Len(s) : s[i] = p
  <2>1. PICK i \in 1..Len(s) : s[i] = p
    BY <1>3
  <2>2. {j \in 1..Len(s) : s[j] = p} = {i}
    BY <1>1, <2>1 DEF IsInjective
  <2>3. Min({i}) = i
    BY <2>1 DEF Min
  <2>4. SelectInSeq(s, LAMBDA v : v = p) = i
    BY <2>2, <2>3 DEF SelectInSeq
  <2>5. RemoveFirst(s, p) = RemoveAt(s, i)
    BY <1>3, <2>4 DEF RemoveFirst
  <2> DEFINE r == RemoveAt(s, i)
  <2>6. /\ r \in Seq(Pointers) /\ Len(r) = Len(s) - 1
        /\ \A j \in DOMAIN r :
              /\ j < i => j \in DOMAIN s /\ j # i /\ r[j] = s[j]
              /\ ~(j < i) => j + 1 \in DOMAIN s /\ j + 1 # i /\ r[j] = s[j + 1]
        /\ \A k \in DOMAIN s : k # i => \E j \in DOMAIN r : r[j] = s[k]
    <3>1. i \in DOMAIN s
      BY <1>1, <2>1
    <3> QED
      BY <3>1, RemovedAt DEF r
  <2> HIDE DEF r
  <2>7. DOMAIN r \subseteq Nat /\ i \in Nat
    BY <1>1, <2>1, <2>6
  <2>8. IsInjective(r)
    <3>1. SUFFICES ASSUME NEW a \in DOMAIN r, NEW b \in DOMAIN r, r[a] = r[b] PROVE a = b
      BY DEF IsInjective
    <3>2. CASE a < i /\ b < i
      BY <2>6, <3>1, <3>2 DEF IsInjective
    <3>3. CASE ~(a < i) /\ ~(b < i)
      <4>1. a + 1 = b + 1
        BY <2>6, <3>1, <3>3 DEF IsInjective
      <4> QED
        BY <2>7, <4>1
    <3>4. CASE a < i /\ ~(b < i)
      <4>1. a = b + 1
        BY <2>6, <3>1, <3>4 DEF IsInjective
      <4> QED
        BY <2>7, <3>4, <4>1
    <3>5. CASE ~(a < i) /\ b < i
      <4>1. a + 1 = b
        BY <2>6, <3>1, <3>5 DEF IsInjective
      <4> QED
        BY <2>7, <3>5, <4>1
    <3> QED
      BY <3>2, <3>3, <3>4, <3>5
  <2>9. ToSet(r) = ToSet(s) \ {p}
    <3>1. ASSUME NEW q \in ToSet(r) PROVE q \in ToSet(s) /\ q # p
      <4>1. PICK j \in DOMAIN r : q = r[j]
        BY DEF ToSet
      <4>2. PICK k \in DOMAIN s : k # i /\ q = s[k]
        BY <2>6, <4>1
      <4> QED
        BY <1>1, <2>1, <4>2 DEF ToSet, IsInjective
    <3>2. ASSUME NEW q \in ToSet(s), q # p PROVE q \in ToSet(r)
      <4>1. PICK k \in DOMAIN s : q = s[k]
        BY DEF ToSet
      <4>2. k # i
        BY <2>1, <3>2, <4>1
      <4> QED
        BY <2>6, <4>1, <4>2 DEF ToSet
    <3> QED
      BY <3>1, <3>2
  <2> QED
    BY <2>5, <2>6, <2>8, <2>9 DEF r
<1> QED
  BY <1>2, <1>3

\* What endGesture leaves of the records.
LEMMA ReleasedFacts ==
  ASSUME ViewerTypes, NEW p \in Pointers
  PROVE  /\ Released(p) \in Touch
         /\ IsInjective(Released(p).pointers) /\ Len(Released(p).pinch) \in {0, 2}
         /\ ToSet(Released(p).pointers) = ToSet(touch.pointers) \ {p}
         /\ Released(p).pinch # <<>> =>
              /\ touch.pinch # <<>> /\ Len(touch.pointers) >= 2
              /\ Released(p).pinch = touch.pinch
              /\ Len(touch.pointers) = 2 => Released(p).pointers = touch.pointers
<1> DEFINE ps == RemoveFirst(touch.pointers, p)
<1>1. touch \in Touch /\ IsInjective(touch.pointers) /\ touch.pointers \in Seq(Pointers)
      /\ Len(touch.pinch) \in {0, 2}
  BY DEF ViewerTypes, Touch
<1>2. /\ ps \in Seq(Pointers) /\ IsInjective(ps) /\ ToSet(ps) = ToSet(touch.pointers) \ {p}
      /\ ps = touch.pointers \/ Len(ps) = Len(touch.pointers) - 1
  BY <1>1, FirstRemoved
<1> HIDE DEF ps
<1>3. Released(p) = [touch EXCEPT !.pointers = ps,
                       !.pinch = IF Len(ps) < 2 THEN <<>> ELSE touch.pinch,
                       !.swipe = NoFinger, !.pan = FALSE,
                       !.captured = touch.captured /\ p # Mouse]
  BY DEF Released, ps
<1>4. /\ Released(p).pointers = ps
      /\ Released(p).pinch = (IF Len(ps) < 2 THEN <<>> ELSE touch.pinch)
      /\ Released(p) \in Touch
  <2> DEFINE pinch == IF Len(ps) < 2 THEN <<>> ELSE touch.pinch
             held == touch.captured /\ p # Mouse
  <2>1. pinch \in Seq(Pointers) /\ held \in BOOLEAN /\ NoFinger \in Fingers \cup {NoFinger}
    BY <1>1 DEF Touch
  <2>2. Released(p) = [touch EXCEPT !.pointers = ps, !.pinch = pinch, !.swipe = NoFinger,
                                    !.pan = FALSE, !.captured = held]
    BY <1>3
  <2> HIDE DEF pinch, held
  <2>3. Released(p).pinch = pinch /\ Released(p) \in Touch /\ Released(p).pointers = ps
    BY <1>1, <1>2, <2>1, <2>2 DEF Touch
  <2> QED
    BY <2>3 DEF pinch
<1>5. Len(touch.pointers) \in Nat /\ Len(ps) \in Nat
  BY <1>1, <1>2
<1> QED
  BY <1>1, <1>2, <1>4, <1>5

\* The other facts of a step: what shuts the viewer or turns its page.
LEMMA NoTouchFacts ==
  /\ NoTouch \in Touch /\ IsInjective(<<>>) /\ ToSet(<<>>) = {}
  /\ NoDoubt \in [lost : BOOLEAN, third : BOOLEAN] /\ Shut \in View /\ ~Shut.open
  /\ \A i \in 0..Pictures - 1 : Loading(i) \in View /\ Loading(i).open
<1>1. <<>> \in Seq(Pointers) /\ NoTouch \in Touch
  BY DEF NoTouch, Touch
<1>2. 0 \in 0..Pictures - 1
  BY ViewerAssumption
<1>3. \A i \in 0..Pictures - 1 : Loading(i) \in View /\ Loading(i).open
  BY DEF Loading, View, Scales
<1>4. Shut \in View /\ ~Shut.open
  BY <1>2 DEF Shut, Loading, Scales, View
<1> QED
  BY <1>1, <1>3, <1>4 DEF IsInjective, ToSet, NoDoubt

LEMMA ForgottenFacts ==
  ASSUME NEW t \in Touch
  PROVE  /\ Forgotten(t) \in Touch /\ Forgotten(t).pointers = <<>> /\ Forgotten(t).pinch = <<>>
         /\ [Forgotten(t) EXCEPT !.did = TRUE] \in Touch
         /\ [Forgotten(t) EXCEPT !.did = TRUE].pointers = <<>>
         /\ [Forgotten(t) EXCEPT !.did = TRUE].pinch = <<>>
BY NoTouchFacts DEF Forgotten, Touch, NoTouch

LEMMA TurnedFacts ==
  ASSUME ViewerTypes, NEW delta \in {0, 2} PROVE Turned(delta) \in View /\ Turned(delta).open
<1>1. view.index \in Nat /\ Pictures \in Nat \ {0}
  BY ViewerAssumption DEF ViewerTypes, View
<1>2. (view.index + Pictures + delta - 1) % Pictures \in 0..Pictures - 1
  BY <1>1
<1> QED
  BY <1>2, NoTouchFacts DEF Turned

\* What a step of a pointer has to leave behind for the invariant: whoever is
\* recorded is down or lost, and the pinch is of those recorded.
LEMMA RecordsKept ==
  ASSUME view' \in View, view'.open, touch' \in Touch, IsInjective(touch'.pointers),
         Len(touch'.pinch) \in {0, 2}, hand' \in [Pointers -> {"up", "still", "moved"}],
         doubt' \in [lost : BOOLEAN, third : BOOLEAN], PointersAreDown', PinchIsOfThem'
  PROVE  ViewerInv'
BY DEF ViewerInv, ViewerTypes

LEMMA ShutsKeepsViewer == ASSUME ViewerInv, Shuts PROVE ViewerInv'
<1>1. touch'.pointers = <<>> /\ touch'.pinch = <<>>
  BY DEF Shuts, NoTouch
<1> QED
  BY <1>1, NoTouchFacts DEF Shuts, ViewerInv, ViewerTypes, PointersAreDown, PinchIsOfThem

\* Pictures and pages.
LEMMA PagesKeepViewer ==
  ASSUME ViewerInv, OpenPicture \/ ClosePicture \/ TurnPage \/ ImageLoads \/ Zoom
  PROVE  ViewerInv'
<1> USE DEF ViewerInv
<1>1. CASE ClosePicture
  BY <1>1, ShutsKeepsViewer DEF ClosePicture
<1>2. CASE TurnPage
  <2>1. view' \in View /\ view'.open
    BY <1>2, TurnedFacts DEF TurnPage
  <2>2. touch' \in Touch /\ touch'.pointers = <<>> /\ touch'.pinch = <<>>
    BY <1>2, ForgottenFacts DEF TurnPage, ViewerTypes
  <2> QED
    BY <1>2, <2>1, <2>2, NoTouchFacts
       DEF TurnPage, ViewerTypes, PointersAreDown, PinchIsOfThem
<1>3. CASE OpenPicture \/ ImageLoads \/ Zoom
  <2>1. view' \in View /\ view'.open
    <3>1. CASE OpenPicture
      BY <3>1, NoTouchFacts DEF OpenPicture
    <3>2. CASE ImageLoads
      BY <3>2 DEF ImageLoads, ViewerTypes, View, Scales
    <3>3. CASE Zoom
      BY <3>3 DEF Zoom, ViewerTypes, View
    <3> QED
      BY <1>3, <3>1, <3>2, <3>3
  <2>2. UNCHANGED <<touch, hand, doubt>>
    BY <1>3 DEF OpenPicture, ImageLoads, Zoom
  <2> QED
    BY <2>1, <2>2 DEF ViewerTypes, PointersAreDown, PinchIsOfThem
<1> QED
  BY <1>1, <1>2, <1>3

\* A pointer goes down.
LEMMA DownKeepsViewer ==
  ASSUME ViewerInv, NEW p \in Pointers, PointerDown(p) PROVE ViewerInv'
<1> DEFINE ps == IF p \in ToSet(touch.pointers) THEN touch.pointers
                 ELSE Append(touch.pointers, p)
           t == [touch EXCEPT !.pointers = ps]
<1>1. /\ view \in View /\ touch \in Touch /\ touch.pointers \in Seq(Pointers)
      /\ IsInjective(touch.pointers) /\ Len(touch.pinch) \in {0, 2}
      /\ touch.pinch \in Seq(Pointers)
      /\ hand \in [Pointers -> {"up", "still", "moved"}]
      /\ doubt \in [lost : BOOLEAN, third : BOOLEAN]
  BY DEF ViewerInv, ViewerTypes, Touch
<1>2. /\ ps \in Seq(Pointers) /\ IsInjective(ps) /\ ToSet(ps) = ToSet(touch.pointers) \cup {p}
      /\ ps = touch.pointers \/ Len(ps) = Len(touch.pointers) + 1
  <2>1. CASE p \in ToSet(touch.pointers)
    BY <1>1, <2>1
  <2>2. CASE p \notin ToSet(touch.pointers)
    <3>1. ps = Append(touch.pointers, p) /\ ps \in Seq(Pointers)
      BY <1>1, <2>2
    <3>2. /\ Len(touch.pointers) \in Nat /\ Len(ps) = Len(touch.pointers) + 1
          /\ DOMAIN ps = 1..(Len(touch.pointers) + 1)
          /\ DOMAIN touch.pointers = 1..Len(touch.pointers)
          /\ \A i \in DOMAIN ps :
               ps[i] = IF i = Len(touch.pointers) + 1 THEN p ELSE touch.pointers[i]
      BY <1>1, <3>1
    <3> HIDE DEF ps
    <3>3. \A i \in DOMAIN touch.pointers : touch.pointers[i] # p
      BY <2>2 DEF ToSet
    <3>4. IsInjective(ps)
      <4>1. SUFFICES ASSUME NEW i \in DOMAIN ps, NEW j \in DOMAIN ps, ps[i] = ps[j]
                     PROVE  i = j
        BY Zenon DEF IsInjective
      <4>2. \A k \in DOMAIN ps :
              \/ k = Len(touch.pointers) + 1 /\ ps[k] = p
              \/ k \in DOMAIN touch.pointers /\ ps[k] = touch.pointers[k] /\ ps[k] # p
        BY <3>2, <3>3
      <4>3. \A k, l \in DOMAIN touch.pointers : touch.pointers[k] = touch.pointers[l] => k = l
        BY <1>1, Zenon DEF IsInjective
      <4> QED
        BY <4>1, <4>2, <4>3, Zenon
    <3>5. ToSet(ps) = ToSet(touch.pointers) \cup {p}
      <4>1. ps[Len(touch.pointers) + 1] = p /\ Len(touch.pointers) + 1 \in DOMAIN ps
        BY <3>2
      <4>2. \A i \in DOMAIN touch.pointers : i \in DOMAIN ps /\ ps[i] = touch.pointers[i]
        BY <3>2
      <4>3. \A i \in DOMAIN ps : ps[i] = p
                                \/ (i \in DOMAIN touch.pointers /\ ps[i] = touch.pointers[i])
        BY <3>2
      <4> QED
        BY <4>1, <4>2, <4>3 DEF ToSet
    <3> QED
      BY <3>1, <3>2, <3>4, <3>5
  <2> QED
    BY <2>1, <2>2
<1>3. view.open /\ UNCHANGED view /\ hand[p] = "up" /\ hand' = [hand EXCEPT ![p] = "still"]
  BY DEF PointerDown
<1>4. doubt'.lost = (doubt.lost /\ p # Mouse) /\ doubt' \in [lost : BOOLEAN, third : BOOLEAN]
      /\ doubt'.third = ((doubt.third \/ Len(ps) > 2) /\ touch'.pinch # <<>>)
  BY <1>1 DEF PointerDown, Doubts
<1> HIDE DEF ps
<1>5. t \in Touch /\ t.pointers = ps /\ t.pinch = touch.pinch
  BY <1>1, <1>2 DEF Touch
<1>6. PICK n \in Nat : n = Len(ps)
  BY <1>2
<1>7. PICK fits \in BOOLEAN :
            touch' =
            CASE Len(ps) = 2 ->
                   [t EXCEPT !.pinch = ps, !.did = TRUE, !.swipe = NoFinger, !.pan = FALSE]
              [] Len(ps) > 2 -> t
              [] Len(ps) < 2 /\ ~fits ->
                   [t EXCEPT !.did = FALSE, !.pan = TRUE, !.captured = @ \/ p = Mouse]
              [] Len(ps) < 2 /\ fits ->
                   [t EXCEPT !.did = FALSE, !.swipe = IF p = Mouse THEN @ ELSE p]
  BY DEF PointerDown, ps
<1> HIDE DEF t
<1>8. /\ touch' \in Touch /\ touch'.pointers = ps
      /\ touch'.pinch = IF Len(ps) = 2 THEN ps ELSE touch.pinch
  <2>1. CASE n = 2
    <3>1. touch' = [t EXCEPT !.pinch = ps, !.did = TRUE, !.swipe = NoFinger, !.pan = FALSE]
      BY <1>6, <1>7, <2>1
    <3> QED
      BY <1>5, <1>6, <2>1, <3>1 DEF Touch
  <2>2. CASE n > 2
    <3>1. touch' = t /\ n # 2
      BY <1>6, <1>7, <2>2
    <3> QED
      BY <1>5, <1>6, <3>1
  <2>3. CASE n < 2 /\ ~fits
    <3>1. PICK c \in BOOLEAN : c = (t.captured \/ p = Mouse)
      OBVIOUS
    <3>2. touch' = [t EXCEPT !.did = FALSE, !.pan = TRUE, !.captured = c] /\ n # 2
      BY <1>6, <1>7, <2>3, <3>1
    <3>3. touch' \in Touch /\ touch'.pointers = ps /\ touch'.pinch = touch.pinch
      BY <1>5, <3>2 DEF Touch
    <3> QED
      BY <1>6, <3>2, <3>3
  <2>4. CASE n < 2 /\ fits
    <3>1. PICK f \in Fingers \cup {NoFinger} : f = IF p = Mouse THEN t.swipe ELSE p
      BY <1>5 DEF Touch, Pointers
    <3>2. touch' = [t EXCEPT !.did = FALSE, !.swipe = IF p = Mouse THEN t.swipe ELSE p]
      BY <1>6, <1>7, <2>4
    <3>3. touch' = [t EXCEPT !.did = FALSE, !.swipe = f] /\ n # 2
      BY <1>6, <2>4, <3>1, <3>2
    <3>4. touch' \in Touch /\ touch'.pointers = ps /\ touch'.pinch = touch.pinch
      BY <1>5, <3>3 DEF Touch
    <3> QED
      BY <1>6, <3>3, <3>4
  <2> QED
    BY <1>6, <2>1, <2>2, <2>3, <2>4
<1>9. PointersAreDown'
  BY <1>1, <1>2, <1>3, <1>4, <1>8 DEF PointersAreDown, ViewerInv
<1>10. PinchIsOfThem'
  <2>1. CASE Len(ps) = 2
    BY <1>8, <2>1 DEF PinchIsOfThem
  <2>2. CASE Len(ps) # 2
    <3>1. touch.pinch # <<>> /\ ~doubt.third => Len(touch.pointers) = 2
      BY DEF ViewerInv, PinchIsOfThem
    <3>2. touch.pinch # <<>> /\ ~doubt.third => Len(ps) > 2
      BY <1>1, <1>2, <2>2, <3>1
    <3> QED
      BY <1>4, <1>8, <2>2, <3>2 DEF PinchIsOfThem
  <2> QED
    BY <2>1, <2>2
<1>11. Len(touch'.pinch) \in {0, 2} /\ IsInjective(touch'.pointers)
  BY <1>1, <1>2, <1>8
<1>12. hand' \in [Pointers -> {"up", "still", "moved"}]
  BY <1>1, <1>3
<1> QED
  BY <1>1, <1>3, <1>4, <1>8, <1>9, <1>10, <1>11, <1>12, RecordsKept

\* What is left of the records when a pointer goes up, but for didGesture.
LEMMA ReleasedKeepsViewer ==
  ASSUME ViewerInv, NEW p \in Pointers, touch' \in Touch,
         touch'.pointers = Released(p).pointers /\ touch'.pinch = Released(p).pinch,
         doubt' \in [lost : BOOLEAN, third : BOOLEAN],
         doubt'.third = (doubt.third /\ touch'.pinch # <<>>),
         p = Mouse \/ doubt'.lost = doubt.lost,
         view' \in View, view'.open,
         hand' = [hand EXCEPT ![p] = "up"]
  PROVE  ViewerInv'
<1>1. /\ ViewerTypes /\ PointersAreDown /\ PinchIsOfThem
      /\ hand \in [Pointers -> {"up", "still", "moved"}]
  BY DEF ViewerInv, ViewerTypes
<1>2. /\ IsInjective(touch'.pointers) /\ Len(touch'.pinch) \in {0, 2}
      /\ ToSet(touch'.pointers) = ToSet(touch.pointers) \ {p}
      /\ touch'.pinch # <<>> =>
              /\ touch.pinch # <<>> /\ touch'.pinch = touch.pinch
              /\ Len(touch.pointers) = 2 => touch'.pointers = touch.pointers
  BY <1>1, ReleasedFacts
<1>3. PointersAreDown'
  BY <1>1, <1>2 DEF PointersAreDown
<1>4. PinchIsOfThem'
  BY <1>1, <1>2 DEF PinchIsOfThem
<1>5. hand' \in [Pointers -> {"up", "still", "moved"}]
  BY <1>1
<1> QED
  BY <1>2, <1>3, <1>4, <1>5, RecordsKept

\* A pointer goes up, is cancelled, or the button is let go elsewhere.
LEMMA UpKeepsViewer ==
  ASSUME ViewerInv, NEW p \in Pointers, PointerUp(p) \/ (p \in Fingers /\ PointerCancel(p))
  PROVE  ViewerInv'
<1> DEFINE r == Released(p)
<1>1. ViewerTypes /\ r \in Touch /\ view \in View /\ doubt \in [lost : BOOLEAN, third : BOOLEAN]
  BY ReleasedFacts DEF ViewerInv, ViewerTypes
<1>2. view.open /\ hand' = [hand EXCEPT ![p] = "up"]
  BY DEF PointerUp, PointerCancel
<1>3. CASE PointerCancel(p) /\ p \in Fingers
  <2>1. touch' = r /\ view' = view /\ doubt' = [doubt EXCEPT !.third = @ /\ touch'.pinch # <<>>]
    BY <1>3 DEF PointerCancel, Doubts
  <2> HIDE DEF r
  <2>2. /\ doubt' \in [lost : BOOLEAN, third : BOOLEAN] /\ doubt'.lost = doubt.lost
        /\ doubt'.third = (doubt.third /\ touch'.pinch # <<>>)
    BY <1>1, <2>1
  <2> QED
    BY <1>1, <1>2, <2>1, <2>2, ReleasedKeepsViewer DEF r
<1>4. CASE PointerUp(p)
  <2>1. doubt' = [[doubt EXCEPT !.lost = @ /\ p # Mouse] EXCEPT !.third = @ /\ touch'.pinch # <<>>]
    BY <1>4 DEF PointerUp, Doubts
  <2>2. /\ doubt' \in [lost : BOOLEAN, third : BOOLEAN]
        /\ p = Mouse \/ doubt'.lost = doubt.lost
        /\ doubt'.third = (doubt.third /\ touch'.pinch # <<>>)
    BY <1>1, <2>1
  <2>3. CASE /\ touch' = [(IF Pictures > 1 THEN Forgotten(r) ELSE r) EXCEPT !.did = TRUE]
             /\ \E delta \in {0, 2} : view' = IF Pictures > 1 THEN Turned(delta) ELSE view
    <3>1. view' \in View /\ view'.open
      BY <1>1, <1>2, <2>3, TurnedFacts
    <3>2. CASE Pictures > 1
      <4>1. touch' \in Touch /\ touch'.pointers = <<>> /\ touch'.pinch = <<>>
        BY <1>1, <2>3, <3>2, ForgottenFacts
      <4>2. hand' \in [Pointers -> {"up", "still", "moved"}]
        BY <1>1, <1>2 DEF ViewerTypes
      <4>3. PointersAreDown' /\ PinchIsOfThem' /\ IsInjective(touch'.pointers)
        BY <4>1, NoTouchFacts DEF PointersAreDown, PinchIsOfThem
      <4>4. Len(touch'.pinch) \in {0, 2}
        BY <4>1
      <4> QED
        BY <2>2, <3>1, <4>1, <4>2, <4>3, <4>4, RecordsKept
    <3>3. CASE ~(Pictures > 1)
      <4>1. touch' = [r EXCEPT !.did = TRUE]
        BY <2>3, <3>3
      <4> HIDE DEF r
      <4>2. touch' \in Touch /\ touch'.pointers = r.pointers /\ touch'.pinch = r.pinch
        BY <1>1, <4>1 DEF Touch
      <4> QED
        BY <1>2, <2>2, <3>1, <4>2, ReleasedKeepsViewer DEF r, ViewerInv
    <3> QED
      BY <3>2, <3>3
  <2>4. CASE touch' \in {r, [r EXCEPT !.did = FALSE]} /\ UNCHANGED view
    <3> HIDE DEF r
    <3>1. touch' \in Touch /\ touch'.pointers = r.pointers /\ touch'.pinch = r.pinch
      BY <1>1, <2>4 DEF Touch
    <3> QED
      BY <1>1, <1>2, <2>2, <2>4, <3>1, ReleasedKeepsViewer DEF r
  <2> QED
    BY <1>4, <2>3, <2>4 DEF PointerUp
<1> QED
  BY <1>3, <1>4

\* The mouse's button is let go where it was not pressed.
LEMMA LetGoKeepsViewer ==
  ASSUME ViewerInv, LetGoElsewhere \/ LetGoHere PROVE ViewerInv'
<1>1. ViewerTypes /\ PointersAreDown /\ PinchIsOfThem /\ Mouse \in Pointers
  BY DEF ViewerInv, Pointers
<1>2. CASE LetGoElsewhere
  <2>1. /\ view.open /\ UNCHANGED <<view, touch>> /\ hand' = [hand EXCEPT ![Mouse] = "up"]
        /\ doubt' = [doubt EXCEPT !.lost = Mouse \in ToSet(touch.pointers)]
    BY <1>2 DEF LetGoElsewhere
  <2>2. doubt' \in [lost : BOOLEAN, third : BOOLEAN] /\ doubt'.third = doubt.third
        /\ doubt'.lost = (Mouse \in ToSet(touch.pointers))
    <3>1. PICK lost \in BOOLEAN : lost = (Mouse \in ToSet(touch.pointers))
      <4>1. CASE Mouse \in ToSet(touch.pointers)
        <5>1. TRUE = (Mouse \in ToSet(touch.pointers))
          BY <4>1
        <5> QED
          BY <5>1
      <4>2. CASE ~(Mouse \in ToSet(touch.pointers))
        <5>1. FALSE = (Mouse \in ToSet(touch.pointers))
          BY <4>2
        <5> QED
          BY <5>1
      <4> QED
        BY <4>1, <4>2
    <3>2. doubt' = [doubt EXCEPT !.lost = lost]
      BY <2>1, <3>1
    <3>3. doubt' \in [lost : BOOLEAN, third : BOOLEAN] /\ doubt'.third = doubt.third
          /\ doubt'.lost = lost
      BY <1>1, <3>2 DEF ViewerTypes
    <3> QED
      BY <3>1, <3>3
  <2>3. PointersAreDown'
    <3>1. ASSUME NEW q \in Pointers, q \in ToSet(touch.pointers), hand'[q] = "up"
          PROVE  q = Mouse /\ doubt'.lost
      <4>1. CASE q = Mouse
        BY <2>2, <3>1, <4>1
      <4>2. CASE q # Mouse
        <5>1. hand[q] = "up"
          BY <1>1, <2>1, <3>1, <4>2 DEF ViewerTypes
        <5> QED
          BY <1>1, <3>1, <4>2, <5>1 DEF PointersAreDown
      <4> QED
        BY <4>1, <4>2
    <3> QED
      BY <2>1, <3>1 DEF PointersAreDown
  <2>4. PinchIsOfThem'
    BY <1>1, <2>1, <2>2 DEF PinchIsOfThem
  <2>5. hand' \in [Pointers -> {"up", "still", "moved"}]
    BY <1>1, <2>1 DEF ViewerTypes
  <2> QED
    BY <1>1, <2>1, <2>2, <2>3, <2>4, <2>5, RecordsKept DEF ViewerTypes
<1>3. CASE LetGoHere
  <2>1. /\ view.open /\ UNCHANGED view /\ hand[Mouse] = "up" /\ UNCHANGED hand
        /\ touch' = Released(Mouse)
        /\ doubt' = [[doubt EXCEPT !.lost = FALSE] EXCEPT !.third = @ /\ touch'.pinch # <<>>]
    BY <1>3 DEF LetGoHere, Doubts
  <2>2. /\ doubt' \in [lost : BOOLEAN, third : BOOLEAN]
        /\ doubt'.third = (doubt.third /\ touch'.pinch # <<>>)
    BY <1>1, <2>1 DEF ViewerTypes
  <2>3. hand' = [hand EXCEPT ![Mouse] = "up"]
    BY <1>1, <2>1 DEF ViewerTypes
  <2>4. touch' \in Touch
    BY <1>1, <2>1, ReleasedFacts
  <2> QED
    BY <1>1, <2>1, <2>2, <2>3, <2>4, ReleasedKeepsViewer DEF ViewerTypes
<1> QED
  BY <1>2, <1>3

\* A pointer moves.
LEMMA MoveKeepsViewer == ASSUME ViewerInv, NEW p \in Pointers, PointerMove(p) PROVE ViewerInv'
<1>1. ViewerTypes /\ PointersAreDown /\ PinchIsOfThem
  BY DEF ViewerInv
<1>2. view.open /\ UNCHANGED doubt
  BY DEF PointerMove
<1>3. view' \in View /\ view'.open
  BY <1>1, <1>2 DEF PointerMove, ViewerTypes, View
<1>4. touch' \in Touch /\ touch'.pointers = touch.pointers /\ touch'.pinch = touch.pinch
  <2>1. PICK did \in BOOLEAN : touch' = [touch EXCEPT !.did = did]
    <3> DEFINE pinches == Len(touch.pointers) >= 2 /\ touch.pinch # <<>>
               moved == touch.did \/ pinches \/ touch.pan
    <3>1. touch' = [touch EXCEPT !.did = moved]
      BY DEF PointerMove
    <3>2. moved \in BOOLEAN
      BY Zenon
    <3> QED
      BY <3>1, <3>2
  <2> QED
    BY <1>1, <2>1 DEF ViewerTypes, Touch
<1>5. /\ hand' \in [Pointers -> {"up", "still", "moved"}]
      /\ \A q \in Pointers : hand'[q] = "up" => hand[q] = "up"
  BY <1>1 DEF PointerMove, ViewerTypes
<1>6. PointersAreDown' /\ PinchIsOfThem'
  BY <1>1, <1>2, <1>4, <1>5 DEF PointersAreDown, PinchIsOfThem
<1> QED
  BY <1>1, <1>2, <1>3, <1>4, <1>5, <1>6, RecordsKept DEF ViewerTypes

\* Whatever mouse and fingers do, the viewer's invariant holds.
THEOREM ViewerInvHolds == ViewerSpec => []ViewerInv
<1>1. ViewerInit => ViewerInv
  <2> SUFFICES ASSUME ViewerInit PROVE ViewerInv
    OBVIOUS
  <2>1. touch.pointers = <<>> /\ touch.pinch = <<>>
    BY DEF ViewerInit, NoTouch
  <2> QED
    BY <2>1, NoTouchFacts
       DEF ViewerInit, ViewerInv, ViewerTypes, PointersAreDown, PinchIsOfThem
<1>2. ViewerInv /\ [ViewerNext]_viewerVars => ViewerInv'
  <2> SUFFICES ASSUME ViewerInv, [ViewerNext]_viewerVars PROVE ViewerInv'
    OBVIOUS
  <2>1. CASE UNCHANGED viewerVars
    BY <2>1 DEF viewerVars, ViewerInv, ViewerTypes, PointersAreDown, PinchIsOfThem
  <2>2. CASE OpenPicture \/ ClosePicture \/ TurnPage \/ ImageLoads \/ Zoom
    BY <2>2, PagesKeepViewer
  <2>3. CASE LetGoElsewhere \/ LetGoHere
    BY <2>3, LetGoKeepsViewer
  <2>4. ASSUME NEW p \in Pointers,
               PointerDown(p) \/ PointerMove(p) \/ PointerUp(p) \/ ClickBackdrop(p)
        PROVE  ViewerInv'
    BY <2>4, DownKeepsViewer, MoveKeepsViewer, UpKeepsViewer, ShutsKeepsViewer
       DEF ClickBackdrop
  <2>5. ASSUME NEW p \in Fingers, PointerCancel(p) PROVE ViewerInv'
    <3>1. p \in Pointers
      BY DEF Pointers
    <3> QED
      BY <2>5, <3>1, UpKeepsViewer
  <2> QED
    BY <2>1, <2>2, <2>3, <2>4, <2>5 DEF ViewerNext
<1> QED
  BY <1>1, <1>2, PTL DEF ViewerSpec

\* The records stay records: no pointer twice, a pinch of two or none, and
\* nothing of them in a shut viewer (ImageLightbox.tsx, the refs).
THEOREM ViewerTypeCorrect == ViewerSpec => []ViewerTypeOK
<1>1. ViewerInv => ViewerTypeOK
  BY DEF ViewerInv, ViewerTypes, ViewerTypeOK, View, Touch
<1> QED
  BY <1>1, ViewerInvHolds, PTL

\* A pinch measures the distance of two pointers that are down, the ones it began
\* with, unless a release was lost or a third pointer came (ImageLightbox.tsx,
\* onPointerMove).
THEOREM PinchKeepsItsPointers == ViewerSpec => []PinchHasItsPointers
<1>1. ViewerInv => PinchHasItsPointers
  <2> SUFFICES ASSUME ViewerInv, touch.pinch # <<>>, ~doubt.lost, ~doubt.third
               PROVE  /\ Len(touch.pointers) >= 2 /\ SubSeq(touch.pointers, 1, 2) = touch.pinch
                      /\ \A p \in ToSet(touch.pinch) : hand[p] # "up"
    BY DEF PinchHasItsPointers
  <2>1. touch.pinch = touch.pointers /\ Len(touch.pointers) = 2
        /\ touch.pointers \in Seq(Pointers)
    BY DEF ViewerInv, PinchIsOfThem, ViewerTypes, Touch
  <2>2. SubSeq(touch.pointers, 1, 2) = touch.pointers
    BY <2>1
  <2>3. ToSet(touch.pointers) \subseteq Pointers
    BY <2>1 DEF ToSet
  <2> QED
    BY <2>1, <2>2, <2>3 DEF ViewerInv, PointersAreDown
<1> QED
  BY <1>1, ViewerInvHolds, PTL

------------------------------------------------------------------------------
(* The whole page: MCPage *)

\* Each part of the page behaves as if it were alone: what one part does leaves
\* the others as they are. So what is proved of a part holds of the page.
THEOREM PartsOfThePage ==
  PageSpec => /\ VoiceSpec /\ RosterSpec /\ ListsSpec /\ InviteSpec
              /\ FrameSpec /\ ViewerSpec /\ ChatSpec /\ VoiceBridgeSpec
<1>1. PageInit => /\ VoiceInit /\ RosterInit /\ ListsInit /\ InviteInit
                  /\ FrameInit /\ ViewerInit /\ ChatInit /\ VoiceBridgeInit
  BY DEF PageInit
<1>2. [PageNext]_pageVars =>
        /\ [VoiceNext]_voiceVars /\ [RosterNext]_rosterVars /\ [ListsNext]_listVars
        /\ [InviteNext]_inviteVars /\ [FrameNext]_frameVars /\ [ViewerNext]_viewerVars
        /\ [ComposerNext \/ LogNext]_chatVars /\ [VoiceBridgeNext]_voiceBridgeVars
  <2> SUFFICES ASSUME [PageNext]_pageVars
               PROVE  /\ [VoiceNext]_voiceVars /\ [RosterNext]_rosterVars
                      /\ [ListsNext]_listVars /\ [InviteNext]_inviteVars
                      /\ [FrameNext]_frameVars /\ [ViewerNext]_viewerVars
                      /\ [ComposerNext \/ LogNext]_chatVars
                      /\ [VoiceBridgeNext]_voiceBridgeVars
    OBVIOUS
  <2>1. CASE UNCHANGED pageVars
    BY <2>1 DEF pageVars
  <2>2. CASE PageNext
    BY <2>2 DEF PageNext, VoiceBridgeNext
  <2> QED
    BY <2>1, <2>2
<1> QED
  BY <1>1, <1>2, PTL DEF PageSpec, VoiceSpec, RosterSpec, ListsSpec, InviteSpec, FrameSpec,
                         ViewerSpec, ChatSpec, VoiceBridgeSpec

\* Every part of the page keeps to its values, and to what it forgets when it is
\* shut, whatever the others do.
THEOREM PageTypeCorrect == PageSpec => []PageTypeOK
<1>1. VoiceTypeOK /\ RosterTypeOK /\ ListsTypeOK /\ InviteTypeOK /\ FrameTypeOK
        /\ ViewerTypeOK /\ ChatTypeOK /\ VoiceBridgeTypeOK => PageTypeOK
  BY DEF PageTypeOK
<1> QED
  BY <1>1, PartsOfThePage, VoiceTypeCorrect, RosterTypeCorrect, ListsTypeCorrect,
     InviteTypeCorrect, FrameTypeCorrect, ViewerTypeCorrect, ChatTypeCorrect,
     VoiceBridgeTypeCorrect, PTL

\* What each part promises, the whole page keeps: every invariant its run checks, for
\* all values of the constants.
THEOREM PageKeepsItsPromises ==
  PageSpec => [](/\ PageTypeOK
                 /\ SendsAsShown /\ NoiseGateIsPolled /\ MicIsReleased
                 /\ RosterIsMurmurs /\ UnreadDotIsTrue /\ EveryoneIsListed
                 /\ InviteDialogIsTrue /\ GuestIsLetBackIn
                 /\ SharedBindingHasReset /\ OneOverlay /\ PinchHasItsPointers
                 /\ PostGoesWhereWritten /\ MessagesAreShown
                 /\ VoiceIsNegotiated /\ SpeechEnds)
BY PartsOfThePage, PageTypeCorrect, OpenOnlyAsShown, GateIsPolled, MicrophoneIsReleased,
   RosterIsShownTrue, DotsAreTrue, EveryoneGetsListed, DialogIsTrue, GuestsComeBack,
   SharingNeedsReset, OneOverlayAtATime, PinchKeepsItsPointers, PostsGoWhereWritten,
   MessagesHaveTheirRows, SignallingAgrees, SpeechIsSeenToEnd, PTL
=============================================================================
