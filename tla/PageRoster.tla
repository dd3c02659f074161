----------------------------- MODULE PageRoster -----------------------------
(***************************************************************************)
(* What the page believes about the server: the channels, the users, the   *)
(* channel one is in, the messages and their unread dots                   *)
(* (src/src/store/appStore.ts, components/AppShell.tsx,                    *)
(* hooks/useUnreadChannels.ts), against what Murmur knows and what the     *)
(* proxy tells of it.                                                      *)
(*                                                                         *)
(* joinChannel moves the page before Murmur has agreed; the layout, with   *)
(* its count of what was read, is taken down and put up again by every     *)
(* login.                                                                  *)
(*                                                                         *)
(* Left out: names and texts, what is written (PageChat), talking and      *)
(* volume per user, and how the connection comes and goes (WebClient).     *)
(***************************************************************************)
EXTENDS Naturals, Sequences, SequencesExt

CONSTANTS
  Channels,   \* the server's channels, the root among them
  Root,       \* the channel a session without a channel is shown in, 0
  Others,     \* the sessions of other users
  Me,         \* one's own session
  Gone,       \* not a channel: where a user who is not there is
  History,    \* messages kept per channel, 200 in the code
  Queue,      \* how many of these events may fill the proxy's send queue, 256 in the
              \* code, which holds other envelopes too
  MaxWire,    \* bound: events on their way to the page
  MaxNews     \* bound: events at Murmur and acts of the user

ASSUME RosterAssumption ==
  /\ Root \in Channels /\ Gone \notin Channels /\ Me \notin Others
  /\ IsFiniteSet(Channels) /\ IsFiniteSet(Others)
  /\ History \in Nat \ {0} /\ Queue \in Nat \ {0} /\ MaxWire \in Nat /\ MaxNews \in Nat
  /\ Queue <= MaxWire

VARIABLES
  link,     \* the store's connState
  store,    \* the store's roster and chat fields
  shell,    \* AppShell: shown at all, viewed channel, what was read
  murmur,   \* Murmur: existing channels, where everyone is
  wire,     \* envelopes on their way to the page
  upward,   \* commands on their way to Murmur
  past,     \* history the properties speak of
  news      \* how much has happened

rosterVars == <<link, store, shell, murmur, wire, upward, past, news>>

Users == Others \cup {Me}
Nobody == [u \in Users |-> Gone]
NoCount == [c \in Channels |-> 0]

NoStore ==
  [self |-> FALSE, selfChannel |-> Root, current |-> Root, selected |-> Root,
   channels |-> {}, users |-> Nobody, messages |-> NoCount,
   desired |-> Root, needRestore |-> FALSE]

RosterInit ==
  /\ link = "idle" /\ store = NoStore
  /\ shell = [mounted |-> FALSE, view |-> Root, read |-> NoCount]
  /\ murmur \in {[channels |-> cs, at |-> a] :
                   cs \in {s \in SUBSET Channels : Root \in s},
                   a \in {f \in [Users -> {Root, Gone}] : f[Me] = Gone}}
  /\ wire = <<>> /\ upward = <<>> /\ news = 0
  /\ past = [ghosts |-> {}, refused |-> FALSE, unseen |-> {}, relaid |-> {},
             lostUsers |-> {}, lostChannels |-> {}]

Happens == news < MaxNews /\ news' = news + 1

------------------------------------------------------------------------------
(* AppShell: what React does after every change of the store *)

Shown(l) == l \in {"ready", "reconnecting"}

\* The effects that follow the own channel, and leave a removed one.
Followed(s, moved, view) ==
  LET known(c) == s.channels = {} \/ ~s.self \/ c \in s.channels
      v == IF ~known(view) THEN s.selfChannel
           ELSE IF moved THEN s.selected ELSE view
  IN IF known(v) THEN v ELSE s.selfChannel

\* useUnreadChannels as if it marked a channel read only when it is opened.
ReadOnOpening(s, sh, view) ==
  IF view = sh.view THEN sh.read
  ELSE [sh.read EXCEPT ![view] = s.messages[view]]

\* useUnreadChannels: the watermark of what is viewed, before and after the move.
ReadUpTo(s, sh, view) ==
  [c \in Channels |-> IF c \in {view, sh.view} THEN s.messages[c] ELSE sh.read[c]]

Unread(s, sh) == {c \in Channels \ {sh.view} : s.messages[c] > sh.read[c]}

\* The shell once the store has become s, the connection l, from the store s0.
Settled(l, s0, s) ==
  IF ~Shown(l) THEN [shell EXCEPT !.mounted = FALSE, !.read = NoCount]
  ELSE LET moved == \/ ~shell.mounted
                    \/ s.selected # s0.selected \/ s.selfChannel # s0.selfChannel
                    \/ s.self # s0.self
           view == Followed(s, moved, shell.view)
       IN [mounted |-> TRUE, view |-> view, read |-> ReadUpTo(s, shell, view)]

\* What the history keeps of a layout that is laid anew, and of what is seen.
Seen(p, s, sh) ==
  LET fresh == sh.mounted /\ ~shell.mounted
      seen  == IF sh.mounted THEN {sh.view} ELSE {}
  IN [p EXCEPT !.unseen = @ \ seen,
               !.relaid = (IF fresh THEN {c \in Channels : s.messages[c] > 0} ELSE @) \ seen]

\* The page becomes s over the connection l.
Becomes(l, s, p) ==
  /\ link' = l /\ store' = s
  /\ shell' = Settled(l, store, s)
  /\ past' = Seen(p, s, shell')

Online == murmur.at[Me] # Gone

\* The send queue may be full when this much is on its way.
Full(w) == Len(w) >= Queue

\* The history remembers whose last envelope was dropped.
Remembers(p, env, dropped) ==
  LET With(S, x) == IF dropped THEN S \cup {x} ELSE S \ {x}
  IN IF env.type \in {"user", "userRemove"} THEN [p EXCEPT !.lostUsers = With(@, env.user)]
     ELSE IF env.type \in {"channel", "channelRemove"}
     THEN [p EXCEPT !.lostChannels = With(@, env.channel)]
     ELSE p

\* push: an envelope that finds the send queue full is dropped.  Nobody is there to
\* tell while the page is not logged in.
Told(env, p) ==
  \/ ~Online /\ UNCHANGED wire /\ past' = p
  \/ /\ Online /\ Len(wire) < MaxWire
     /\ wire' = Append(wire, env) /\ past' = Remembers(p, env, FALSE)
  \/ /\ Online /\ Full(wire)
     /\ UNCHANGED wire /\ past' = Remembers(p, env, TRUE)

\* client.send drops what cannot be sent.
Sent(cmd) == IF Online /\ link = "ready" THEN Append(upward, cmd) ELSE upward

------------------------------------------------------------------------------
(* handleMessage *)

\* connected that leaves the old roster to the snapshot to overwrite.
ConnectedOverOld(s) ==
  [s EXCEPT !.self = TRUE, !.selfChannel = Root, !.current = Root, !.selected = Root,
            !.needRestore = @ \/ link = "reconnecting"]

\* connected: a reconnect starts from an empty roster, a connect keeps what was there.
Connected(s) ==
  LET c == [s EXCEPT !.self = TRUE, !.selfChannel = Root, !.current = Root, !.selected = Root]
  IN IF link = "reconnecting"
     THEN [c EXCEPT !.needRestore = TRUE, !.channels = {}, !.users = Nobody]
     ELSE c

\* user: oneself is followed.
UserEnvelope(s, u, c) ==
  LET t == [s EXCEPT !.users[u] = c]
  IN IF u = Me /\ s.self
     THEN [t EXCEPT !.current = c, !.selected = c, !.selfChannel = c]
     ELSE t

\* textMessage: the last ones are kept.
TextMessage(s, c) == [s EXCEPT !.messages[c] = IF @ < History THEN @ + 1 ELSE @]

\* joinChannel
Joined(s, c) == [s EXCEPT !.current = c, !.selected = c]

\* restoreSession, after synced: back to the channel of before.
Rejoins(s) == s.needRestore /\ s.desired # s.selfChannel /\ s.desired \in s.channels

HandleMessage ==
  /\ wire # <<>> /\ wire' = Tail(wire)
  /\ LET e == Head(wire) IN
     \/ /\ e.type = "connected"
        /\ Becomes("connected", Connected(store),
             [past EXCEPT !.refused = FALSE,
                !.ghosts = IF link = "reconnecting" THEN @
                           ELSE @ \cup store.channels \cup {u \in Others : store.users[u] # Gone}])
        /\ UNCHANGED upward
     \/ /\ e.type = "synced"
        /\ IF Rejoins(store)
           THEN /\ Becomes("ready", [Joined(store, store.desired) EXCEPT !.needRestore = FALSE], past)
                /\ upward' = Append(upward, [type |-> "join", channel |-> store.desired])
           ELSE /\ Becomes("ready", [store EXCEPT !.needRestore = FALSE], past)
                /\ UNCHANGED upward
     \/ /\ e.type = "channel"
        /\ Becomes(link, [store EXCEPT !.channels = @ \cup {e.channel}], past) /\ UNCHANGED upward
     \/ /\ e.type = "channelRemove"
        /\ Becomes(link, [store EXCEPT !.channels = @ \ {e.channel}], past) /\ UNCHANGED upward
     \/ /\ e.type = "user"
        /\ Becomes(link, UserEnvelope(store, e.user, e.channel),
                   [past EXCEPT !.refused = @ /\ e.user # Me])
        /\ UNCHANGED upward
     \/ /\ e.type = "userRemove"
        /\ Becomes(link, [store EXCEPT !.users[e.user] = Gone], past) /\ UNCHANGED upward
     \/ /\ e.type = "textMessage"
        /\ LET c == IF e.channel = Gone THEN store.selfChannel ELSE e.channel
           IN Becomes(link, TextMessage(store, c),
                [past EXCEPT !.unseen = @ \cup (IF shell.mounted THEN {c} ELSE {})])
        /\ UNCHANGED upward
  /\ UNCHANGED <<murmur, news>>

------------------------------------------------------------------------------
(* The connection, as far as the roster is concerned *)

\* connect, retryAfterEnd
Connects ==
  /\ Happens /\ link \in {"idle", "failed", "ended"}
  /\ Becomes("connecting", [store EXCEPT !.needRestore = FALSE,
                              !.self = @ /\ link # "ended"], past)
  /\ UNCHANGED <<murmur, wire, upward>>

\* OnConnect: connected, the channels and the users, in map order, and synced, as far
\* as the send queue takes them; connected finds room.
LoginAccepted ==
  /\ link \in {"connecting", "reconnecting"} /\ ~Online /\ wire = <<>>
  /\ \E c \in murmur.channels :
       LET at == [murmur.at EXCEPT ![Me] = c]
           there == {u \in Users : at[u] # Gone}
       IN \E told \in SUBSET murmur.channels, met \in SUBSET there :
          \E cs \in SetToSeqs(told), us \in SetToSeqs(met) :
            LET first == <<[type |-> "connected"]>>
                         \o [i \in DOMAIN cs |-> [type |-> "channel", channel |-> cs[i]]]
                all == first
                       \o [i \in DOMAIN us |-> [type |-> "user", user |-> us[i], channel |-> at[us[i]]]]
            IN /\ told = murmur.channels \/ Full(first)
               /\ met = there \/ Full(all)
               /\ murmur' = [murmur EXCEPT !.at = at]
               /\ \/ wire' = all \o <<[type |-> "synced"]>>
                  \/ Full(all) /\ wire' = all
               /\ past' = [past EXCEPT !.ghosts = IF link = "reconnecting" THEN {} ELSE @,
                                       !.lostChannels = murmur.channels \ told,
                                       !.lostUsers = there \ met]
  /\ UNCHANGED <<link, store, shell, upward, news>>

Unplugged ==
  /\ wire' = <<>> /\ upward' = <<>>
  /\ murmur' = [murmur EXCEPT !.at[Me] = Gone]

\* What the history forgets with a connection.
Unlost(p) == [p EXCEPT !.lostUsers = {}, !.lostChannels = {}]

\* The connection drops: beginReconnect remembers the channel, unless it is
\* trying already.
Dropped ==
  /\ Happens /\ link \in {"connecting", "connected", "ready", "reconnecting"} /\ Online
  /\ Unplugged
  /\ Becomes("reconnecting",
       IF link = "reconnecting" THEN store
       ELSE [store EXCEPT !.desired = IF store.self THEN store.selfChannel ELSE store.current],
       Unlost(past))

\* scheduleNextAttempt gives up.
GivesUp ==
  /\ Happens /\ link = "reconnecting" /\ ~Online
  /\ Becomes("failed", store, past)
  /\ UNCHANGED <<murmur, wire, upward>>

\* endSession
Ends ==
  /\ Happens /\ link \in {"connecting", "connected", "ready", "reconnecting"}
  /\ Unplugged
  /\ Becomes("ended", [store EXCEPT !.channels = {}, !.users = Nobody, !.needRestore = FALSE],
             [Unlost(past) EXCEPT !.ghosts = {}])

\* disconnect keeps the viewed and the current channel, and forgets the rest.
Leaves ==
  /\ Happens /\ link \in {"ready", "reconnecting", "ended"}
  /\ Unplugged
  /\ Becomes("idle", [NoStore EXCEPT !.current = store.current, !.selfChannel = store.selfChannel,
                                     !.desired = store.desired],
             [Unlost(past) EXCEPT !.ghosts = {}, !.unseen = {}])

------------------------------------------------------------------------------
(* The user *)

\* selectChannel
Select(c) ==
  /\ shell.mounted /\ c \in store.channels \ {store.selected} /\ Happens
  /\ Becomes(link, [store EXCEPT !.selected = c], past)
  /\ UNCHANGED <<murmur, wire, upward>>

\* The sidebar, the chat's two buttons, the drawer's button, leaveVoice.
JoinTargets ==
  store.channels \cup {Root, store.selected, shell.view}

Join(c) ==
  /\ shell.mounted /\ c \in JoinTargets /\ Happens /\ Len(upward) < MaxWire
  /\ upward' = Sent([type |-> "join", channel |-> c])
  /\ Becomes(link, Joined(store, c), past)
  /\ UNCHANGED <<murmur, wire>>

------------------------------------------------------------------------------
(* Murmur and the proxy *)

\* The proxy carries out a command; Murmur may refuse it.
Command ==
  /\ upward # <<>> /\ upward' = Tail(upward)
  /\ LET cmd == Head(upward)
         to == cmd.channel
         exists == to \in murmur.channels
     IN
     \/ /\ cmd.type = "join" /\ exists
        /\ murmur' = [murmur EXCEPT !.at[Me] = to]
        /\ IF to = murmur.at[Me] THEN UNCHANGED <<wire, past>>
           ELSE Told([type |-> "user", user |-> Me, channel |-> to], past)
     \/ /\ cmd.type = "join"
        /\ past' = [past EXCEPT !.refused = TRUE]
        /\ UNCHANGED <<murmur, wire>>
  /\ UNCHANGED <<link, store, shell, news>>

\* Someone comes, moves or leaves, or someone moves us.
UserMoves(u, c) ==
  /\ Happens /\ murmur.at[u] # c
  /\ c \in murmur.channels \cup (IF u = Me THEN {} ELSE {Gone})
  /\ u = Me => Online
  /\ murmur' = [murmur EXCEPT !.at[u] = c]
  /\ Told(IF c = Gone THEN [type |-> "userRemove", user |-> u]
          ELSE [type |-> "user", user |-> u, channel |-> c], past)
  /\ UNCHANGED <<link, store, shell, upward>>

\* Another user is kicked: OnUserChange takes it for a change and tells of a
\* user who is where he was.
UserKicked(u) ==
  /\ Happens /\ murmur.at[u] # Gone
  /\ murmur' = [murmur EXCEPT !.at[u] = Gone]
  /\ Told([type |-> "user", user |-> u, channel |-> murmur.at[u]],
          IF Online THEN [past EXCEPT !.ghosts = @ \cup {u}] ELSE past)
  /\ UNCHANGED <<link, store, shell, upward>>

ChannelAdded(c) ==
  /\ Happens /\ c \notin murmur.channels
  /\ murmur' = [murmur EXCEPT !.channels = @ \cup {c}]
  /\ Told([type |-> "channel", channel |-> c], past)
  /\ UNCHANGED <<link, store, shell, upward>>

\* Murmur moves those inside out before it removes a channel.
ChannelRemoved(c) ==
  /\ Happens /\ c \in murmur.channels \ {Root}
  /\ \A u \in Users : murmur.at[u] # c
  /\ murmur' = [murmur EXCEPT !.channels = @ \ {c}]
  /\ Told([type |-> "channelRemove", channel |-> c], past)
  /\ UNCHANGED <<link, store, shell, upward>>

\* Someone, oneself included, writes to a channel; or someone to oneself alone.
TextArrives(c) ==
  /\ Happens /\ Online /\ c \in murmur.channels \cup {Gone}
  /\ Told([type |-> "textMessage", channel |-> c], past)
  /\ UNCHANGED <<link, store, shell, murmur, upward>>

------------------------------------------------------------------------------
RosterNext ==
  \/ HandleMessage \/ Connects \/ LoginAccepted \/ Dropped \/ GivesUp \/ Ends \/ Leaves
  \/ \E c \in Channels : Select(c) \/ Join(c) \/ ChannelAdded(c) \/ ChannelRemoved(c)
  \/ Command
  \/ \E u \in Users, c \in Channels \cup {Gone} : UserMoves(u, c)
  \/ \E u \in Others : UserKicked(u)
  \/ \E c \in Channels \cup {Gone} : TextArrives(c)

RosterSpec == RosterInit /\ [][RosterNext]_rosterVars

------------------------------------------------------------------------------
(* Properties *)

RosterTypeOK ==
  /\ link \in {"idle", "connecting", "connected", "ready", "reconnecting", "failed", "ended"}
  /\ store \in [self : BOOLEAN, selfChannel : Channels, current : Channels,
                selected : Channels, channels : SUBSET Channels,
                users : [Users -> Channels \cup {Gone}], messages : [Channels -> 0..History],
                desired : Channels, needRestore : BOOLEAN]
  /\ shell \in [mounted : BOOLEAN, view : Channels, read : [Channels -> 0..History]]

AtRest == link = "ready" /\ wire = <<>> /\ upward = <<>>

\* Once every envelope is handled the page shows each of Murmur's channels and users
\* as it is, unless the last envelope about it found the proxy's send queue full, in
\* the snapshot or after it (session.go:179).  Whoever else is shown beyond them was
\* kicked, which the proxy does not tell (session.go:935), or was kept by a connect
\* after a given-up reconnect.  One's own channel is Murmur's, unless Murmur refused
\* the move the page has already shown (permissionDenied is only logged).
RosterIsMurmurs ==
  AtRest =>
    /\ \A c \in Channels \ past.lostChannels :
         /\ c \in murmur.channels => c \in store.channels
         /\ c \in store.channels => c \in murmur.channels \cup past.ghosts
    /\ \A u \in Users \ past.lostUsers :
         /\ murmur.at[u] # Gone => store.users[u] = murmur.at[u]
         /\ store.users[u] # murmur.at[u] => u \in Others \cap past.ghosts
         /\ u = Me => store.current = murmur.at[Me] \/ past.refused

\* A channel is marked unread exactly when something came to the layout since it was
\* looked at; dots are lost only where History cuts the count off, and invented only
\* by a layout that was laid anew over kept messages.  What comes while there is none,
\* because the queue dropped synced, the layout finds as it finds kept messages.
UnreadDotIsTrue ==
  shell.mounted =>
    \A c \in Channels \ {shell.view} :
      /\ c \in Unread(store, shell) => c \in past.unseen \cup past.relaid
      /\ c \in past.unseen /\ store.messages[c] < History => c \in Unread(store, shell)
=============================================================================
