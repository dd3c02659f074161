------------------------------ MODULE PageChat ------------------------------
(***************************************************************************)
(* The chat area (src/src/components/ChatArea.tsx, lib/chat.ts,            *)
(* lib/image.ts): what becomes of the words typed into the composer and of *)
(* the images sent with them, and how the messages of a channel are laid   *)
(* out.                                                                    *)
(*                                                                         *)
(* An image is prepared over an await that keeps the channel and the words *)
(* of the moment it was picked; the button waits for it, pasting, dropping *)
(* and the Enter key do not.  Every login lays the layout anew, with an    *)
(* empty composer; the store's client outlives them all.                   *)
(*                                                                         *)
(* Left out: how texts, links and times look, copying, and scrolling.      *)
(***************************************************************************)
EXTENDS Integers, Sequences, SequencesExt, FiniteSetsExt

CONSTANTS
  Drafts,     \* bound: the drafts begun, 1..n
  MaxImages,  \* bound: images being prepared at once
  MaxLogins,  \* bound: logins after the first
  Limit,      \* the server's maxImageMessageLength
  Floor,      \* the least budget an image gets, 500 in the code
  Overhead,   \* kept for tags and line breaks, 64 in the code
  Tags,       \* what they take, 18 in the code
  Special,    \* the drafts with letters that have to be escaped
  Sizes,      \* bound: the lengths an image may have in each encoding
  Senders,    \* sessions that write messages
  System,     \* the sender 0 of system messages
  Window,     \* groupMessages' windowSeconds
  Day,        \* seconds per day
  Stamps,     \* bound: times of messages
  Kept        \* messages kept per channel, 200 in the code

ASSUME ChatAssumption ==
  /\ Drafts \subseteq Nat \ {0} /\ Special \subseteq Drafts
  /\ {MaxImages, MaxLogins, Limit, Floor, Overhead} \subseteq Nat /\ Tags \in 0..Overhead
  /\ Sizes \subseteq Nat \ {0} /\ System \notin Senders
  /\ {Window, Day, Kept} \subseteq Nat \ {0} /\ Stamps \subseteq Nat

VARIABLES
  chat,      \* connection, whether its socket is open, whether one's own channel is viewed
  composer,  \* the draft, 0 when empty, and the login it is of; the spinner
  sending,   \* images being prepared: the words they take along, their layout and login
  log,       \* the messages of the viewed channel
  fate       \* history: what happened to each draft, and to posts

chatVars == <<chat, composer, sending, log, fate>>

Empty == 0
NewComposer == [draft |-> Empty, since |-> 0, busy |-> FALSE]

ChatInit ==
  /\ chat = [link |-> "ready", open |-> TRUE, login |-> 0, layout |-> 0, here |-> TRUE]
  /\ composer = NewComposer /\ sending = <<>> /\ log = <<>>
  /\ fate = [w \in Drafts |-> {}]

------------------------------------------------------------------------------
(* The composer *)

Mounted == chat.link \in {"ready", "reconnecting"}

\* canPost if it did not ask whether the page is reconnecting.
CanPostBlindly == Mounted /\ chat.here

\* canPost
CanPost == Mounted /\ chat.here /\ chat.link # "reconnecting"

\* A draft's letters: one, which may take four when it is escaped.
Length(w) == IF w = Empty THEN 0 ELSE 1
LengthEscaped(w) == IF w \in Special THEN 4 ELSE Length(w)

Noted(f, w, what) == IF w = Empty THEN f ELSE [f EXCEPT ![w] = @ \cup what]

\* What becomes of words written under login when sendText is called: client.send
\* drops them on a socket that is not open, which the page knows once its close event
\* is handled.  Then the next socket may be open already, with its connect before
\* them: if that login succeeds they go out under it.
OutUnder(login, now) == {"posted"} \cup (IF now # login THEN {"strayed"} ELSE {})

Outcomes(login) ==
  IF chat.link \in {"syncing", "ready"}
  THEN {IF chat.open THEN OutUnder(login, chat.login) ELSE {"unnoticed"}}
  ELSE {{"dropped"}, OutUnder(login, IF chat.link = "out" THEN chat.login + 1 ELSE chat.login)}

\* What the history says of the words w then.
Carries(f, w, what) ==
  IF w = Empty THEN f
  ELSE Noted(f, w, what \cup (IF "posted" \in what \cap f[w] THEN {"twice"} ELSE {}))

\* setDraft("")
Emptied(c) == [c EXCEPT !.draft = Empty, !.since = 0]

\* The user begins a draft, or erases it.
TypesDraft ==
  /\ CanPost
  /\ \/ /\ composer.draft = Empty
        /\ \E w \in Drafts : /\ \A v \in Drafts : v < w => fate[v] # {}
                             /\ fate[w] = {}
                             /\ composer' = [composer EXCEPT !.draft = w, !.since = chat.login]
                             /\ fate' = Noted(fate, w, {"begun"})
     \/ /\ composer.draft # Empty
        /\ composer' = Emptied(composer)
        /\ fate' = Noted(fate, composer.draft, {"erased"})
  /\ UNCHANGED <<chat, sending, log>>

\* An image being prepared takes the words w along.
Carried(w) == \E i \in DOMAIN sending : sending[i].words = w

\* submit, by the button or the Enter key
Submit ==
  LET w == composer.draft
  IN /\ CanPost /\ w # Empty
     /\ \E what \in Outcomes(composer.since) :
          fate' = Carries(fate, w, what \cup (IF Carried(w) THEN {"both"} ELSE {}))
     /\ composer' = Emptied(composer)
     /\ UNCHANGED <<chat, sending, log>>

\* sendImage up to its await.
SendImage ==
  LET w == composer.draft
  IN /\ CanPost /\ Len(sending) < MaxImages
     /\ composer' = [composer EXCEPT !.busy = TRUE]
     /\ sending' = Append(sending, [words |-> w, login |-> chat.login, layout |-> chat.layout])
     /\ fate' = Noted(fate, w, IF Carried(w) THEN {"both"} ELSE {})
     /\ UNCHANGED <<chat, log>>

\* The button waits for the image before; pasting and dropping do not.
PickImage == ~composer.busy /\ SendImage
PasteOrDrop == SendImage

Budget(w) ==
  LET left == Limit - Overhead - Length(w) IN IF left > Floor THEN left ELSE Floor

\* imageToMessageDataUrl: the first of the encodings, best first, that fits; 0
\* when none does.  The search for the largest JPEG is one of them.
Encodings == <<"original", "png", "jpeg", "smallest">>

imageToMessageDataUrl(size, budget) ==
  LET fitting == {i \in DOMAIN Encodings : size[Encodings[i]] <= budget}
  IN IF fitting = {} THEN 0 ELSE size[Encodings[Min(fitting)]]

\* What may come back for a budget.
Prepared ==
  [b \in {Budget(w) : w \in Drafts \cup {Empty}} |->
     {imageToMessageDataUrl(size, b) : size \in [Range(Encodings) -> Sizes]}]

\* sendImage after its await: the message goes to whatever connection the client
\* then has, if any, and the composer it came from is emptied if it is still there.
ImagePrepared ==
  \E i \in DOMAIN sending : \E data \in Prepared[Budget(sending[i].words)],
                               what \in Outcomes(sending[i].login) :
    LET s == sending[i]
        same == s.layout = chat.layout /\ Mounted
        wiped == IF same /\ composer.draft # s.words
                 THEN Noted(fate, composer.draft, {"wiped"}) ELSE fate
    IN /\ sending' = RemoveAt(sending, i)
       /\ composer' = IF ~same THEN composer
                      ELSE IF data = 0 THEN [composer EXCEPT !.busy = FALSE]
                      ELSE [Emptied(composer) EXCEPT !.busy = FALSE]
       /\ fate' = IF data = 0 THEN fate
                  ELSE Carries(wiped, s.words, what \cup
                         (IF LengthEscaped(s.words) + Tags + data > Limit THEN {"toobig"} ELSE {}))
       /\ UNCHANGED <<chat, log>>

------------------------------------------------------------------------------
(* What happens around it *)

\* Another channel is viewed, or one's own changes.
Moves ==
  /\ Mounted
  /\ \E here \in BOOLEAN : chat' = [chat EXCEPT !.here = here]
  /\ UNCHANGED <<composer, sending, log, fate>>

\* The socket closes; the page learns of it with its close event.
SocketCloses ==
  /\ chat.open /\ chat.link \in {"syncing", "ready"}
  /\ chat' = [chat EXCEPT !.open = FALSE]
  /\ UNCHANGED <<composer, sending, log, fate>>

\* The words under way with an image are cut off from the connection.
CutOff(f) == [w \in Drafts |-> f[w] \cup (IF Carried(w) THEN {"cutoff"} ELSE {})]

BeginsReconnect ==
  /\ ~chat.open /\ chat.link \in {"syncing", "ready"}
  /\ chat' = [chat EXCEPT !.link = "reconnecting"]
  /\ fate' = CutOff(fate)
  /\ UNCHANGED <<composer, sending, log>>

\* connected, of a reconnect or of another login: the layout is taken down, and
\* the next one is another.
LoggedInAgain ==
  /\ chat.link \in {"reconnecting", "out"} /\ chat.layout < MaxLogins
  /\ chat' = [chat EXCEPT !.link = "syncing", !.open = TRUE, !.layout = @ + 1,
                          !.login = @ + (IF chat.link = "out" THEN 1 ELSE 0)]
  /\ fate' = Noted(fate, composer.draft, {"relaid"})
  /\ composer' = NewComposer
  /\ UNCHANGED <<sending, log>>

Synced ==
  /\ chat.link = "syncing"
  /\ chat' = [chat EXCEPT !.link = "ready"]
  /\ UNCHANGED <<composer, sending, log, fate>>

\* The session ends, or the user logs out.
SessionOver ==
  /\ chat.link # "out" /\ chat' = [chat EXCEPT !.link = "out", !.open = FALSE]
  /\ fate' = Noted(CutOff(fate), composer.draft, {"relaid"})
  /\ composer' = NewComposer
  /\ UNCHANGED <<sending, log>>

ComposerNext ==
  \/ TypesDraft \/ Submit \/ PickImage \/ PasteOrDrop \/ ImagePrepared
  \/ Moves \/ SocketCloses \/ BeginsReconnect \/ LoggedInAgain \/ Synced \/ SessionOver

------------------------------------------------------------------------------
(* The messages *)

\* A message is taken into the log, which keeps the last ones.
TextComes ==
  \E u \in Senders \cup {System}, at \in Stamps, blank \in BOOLEAN :
    LET all == Append(log, [sender |-> u, time |-> at, blank |-> blank])
    IN /\ blank => u = System
       /\ log' = IF Len(all) > Kept THEN Tail(all) ELSE all

LogNext == TextComes /\ UNCHANGED <<chat, composer, sending, fate>>

localDayKey(at) == at \div Day

\* Whether m joins the group that is open, if the clock may have been set back.
SameGroupEarlier(acc, m) ==
  acc.open /\ Last(acc.sections).messages[1].sender = m.sender /\ m.time - acc.last <= Window

\* groupMessages: sameGroup
SameGroup(acc, m) ==
  /\ acc.open /\ Last(acc.sections).messages[1].sender = m.sender
  /\ m.time >= acc.last /\ m.time - acc.last <= Window

\* One turn of groupMessages' loop.
Grouped(acc0, m) ==
  LET day == localDayKey(m.time)
      acc == IF day = acc0.day THEN acc0
             ELSE [acc0 EXCEPT !.day = day, !.open = FALSE,
                     !.sections = Append(@, [kind |-> "day", day |-> day, messages |-> <<>>])]
      Section(kind) == Append(acc.sections, [kind |-> kind, day |-> day, messages |-> <<m>>])
  IN IF m.sender = System
     THEN [acc EXCEPT !.open = FALSE, !.sections = Section("system")]
     ELSE IF SameGroup(acc, m)
     THEN [acc EXCEPT !.last = m.time,
                      !.sections[Len(acc.sections)].messages = Append(@, m)]
     ELSE [acc EXCEPT !.open = TRUE, !.last = m.time, !.sections = Section("group")]

NoSections == [sections |-> <<>>, day |-> -1, open |-> FALSE, last |-> 0]

groupMessages(s) ==
  LET acc[i \in 0..Len(s)] == IF i = 0 THEN NoSections ELSE Grouped(acc[i - 1], s[i])
  IN acc[Len(s)].sections

\* DayDivider, SystemMessage, MessageRow: a day's divider, nothing for a system
\* message without text, or a message, the first of a group with its author.
SectionRows(sec) ==
  IF sec.kind = "day" THEN <<[day |-> sec.day]>>
  ELSE IF sec.kind = "system" /\ sec.messages[1].blank THEN <<>>
  ELSE [i \in DOMAIN sec.messages |->
          [message |-> sec.messages[i], meta |-> sec.kind = "group" /\ i = 1]]

MessageRows(s) ==
  LET secs == groupMessages(s) IN FlattenSeq([i \in DOMAIN secs |-> SectionRows(secs[i])])

ChatSpec == ChatInit /\ [][ComposerNext \/ LogNext]_chatVars

------------------------------------------------------------------------------
(* Properties *)

\* Types; a spinning composer has an image of its own under way, or had two.
ChatTypeOK ==
  /\ chat \in [link : {"ready", "reconnecting", "syncing", "out"}, open : BOOLEAN,
               login : 0..MaxLogins, layout : 0..MaxLogins, here : BOOLEAN]
  /\ composer \in [draft : Drafts \cup {Empty}, since : 0..MaxLogins, busy : BOOLEAN]
  /\ Len(sending) <= MaxImages /\ Len(log) <= Kept
  /\ composer.busy => \E i \in DOMAIN sending : sending[i].layout = chat.layout

\* What the user writes goes out under the login it was written in, and once, unless
\* it was sent on while an image being prepared had taken it along.  Only words that
\* were under way with an image when their connection was lost or ended are dropped
\* by a page that shows itself offline, or go out under another login (ChatArea.tsx,
\* sendImage).  Otherwise words disappear by being posted or erased, on a socket
\* whose close event is still to come, with the layout that a login lays anew, or by
\* an image that ends while they are typed; and with an image they are too long for
\* the server only if they have letters to escape, or the limit is below what an
\* image is granted.
PostGoesWhereWritten ==
  \A w \in Drafts :
    /\ fate[w] \cap {"dropped", "strayed"} # {} => "cutoff" \in fate[w]
    /\ "twice" \in fate[w] => "both" \in fate[w]
    /\ fate[w] # {} => \/ composer.draft = w
                       \/ fate[w] \cap {"posted", "erased", "dropped", "unnoticed",
                                        "relaid", "wiped"} # {}
    /\ "toobig" \in fate[w] => w \in Special \/ Limit < Floor + Overhead + Length(w)

\* Every message of the log with something to show has its row, and every row of a
\* message is one of theirs, in order, under the divider of its own day; and a row
\* goes without its author exactly when the message above it is by the same author,
\* of the same day and no more than the window older, even when the clock is set
\* back or the oldest messages fall out.
MessagesAreShown ==
  LET rows == MessageRows(log)
      texts == {i \in DOMAIN log : ~log[i].blank}
      shown == {r \in DOMAIN rows : "message" \in DOMAIN rows[r]}
      Days(r) == {d \in 1..r : "day" \in DOMAIN rows[d]}
      Continues(a, b) == /\ a.sender = b.sender /\ a.time \div Day = b.time \div Day
                         /\ b.time - a.time \in 0..Window
  IN \E row \in Surjection(texts, shown) :
       /\ \A i, j \in texts : i < j => row[i] < row[j]
       /\ \A i \in texts :
            /\ rows[row[i]].message = log[i]
            /\ log[i].sender # System =>
                 rows[row[i]].meta = ~(i > 1 /\ Continues(log[i - 1], log[i]))
            /\ Days(row[i]) # {}
            /\ rows[Max(Days(row[i]))].day = log[i].time \div Day
=============================================================================
