# TLA+ verification of Mumble-Web

Mumble-Web puts a browser on a Mumble server. A React page talks JSON over a
WebSocket to a Go proxy; for every WebSocket the proxy logs in to Murmur with a
vendored `gumble` client and bridges voice over WebRTC. This directory holds
TLA+ models of that code, TLC configurations that check them, and proofs that
TLAPS checks. Paths below are relative to the repository.

## 1. Inventory

| Component | State | Operations | Talks to | What makes it correct |
|---|---|---|---|---|
| **Nickname registry** `server/internal/bridge/registry.go` | `entries` (owner, pending per server and nickname), `Session.takeoverPending` | Reserve, Commit, Release, Unregister, TakeoverPending | called by sessions, under its own mutex | one active session per nickname; every reservation is promoted or given back; only a tab's own reconnect takes over |
| **Bridge session** `session.go`, `codes.go` | `client`, `rtc`, `sessionKey`, `done`, `closeCode`, login flags | connect, disconnect, createInvite, endWith, cleanup, OnConnect, OnDisconnect | registry, invite store, gumble client, browser | whatever ends a session ends all of it; the browser is told why |
| **Send queue** `session.go` | `send` (256), `done`, `closeCode` | push, writePump, flushAndClose | filled by every goroutine of a session | reasons precede close frames; losses are noticed; the pump returns |
| **Invite store** `invite/store.go`, `cmd/proxy/invite_api.go` | invites (claimed, expiry), resume tokens | Create, Claim, Release, Delete, IssueResume, RedeemResume, RevokeResume, cleaner | sessions, the bot's HTTP API | an invite logs one session in; guests do not invite; resuming keeps the name |
| **Gumble client** `gumble/client.go`, `conn.go` | connection state, `disconnectEvent` | Dial, readRoutine, pingRoutine, Disconnect | Murmur, the bridge's listeners | a dial ends, a loss after ServerSync is reported once |
| **Gumble mirror** `gumble/handlers.go`, `rpwmutex.go` | channels, users, self | one handler per packet | read goroutine; readers under `Do` | the mirror and the events agree; the lock is released |
| **Voice** `rtc.go`, `voice.go`, parts of `session.go` and `mumbleClient.ts` | signalling states, tracks, talking map, pttActive | HandleOffer, HandleAnswer, negotiation, WriteVoice, RemoveVoice, onMicFrame, watchdog, startAudio, handleSignaling | pion, gumble, browser | the two ends agree on the tracks; talking is switched off; Murmur hears the release |
| **Frontend reconnection** `src/store/appStore.ts`, `src/lib/mumbleClient.ts`, `src/lib/reconnect.ts` | connState, reconnectTimer, attempt, flapTimes, needRestore, credentials, the last socket | connect, disconnect, retryAfterEnd, onClose, retryNow, doAttempt, handleMessage | the proxy, one session per socket | no screen outlives its connection; ended stays ended; the mute shown is the mute Murmur has |
| **Frontend voice** `appStore.ts`, `micGate.ts`, `noiseGate.ts`, `mumbleClient.ts`, `useKeyboardShortcuts.ts`, voice panel, dock and settings | pttMode, transmitting, mutes, micReady, vadActive, microphone stream, peer connection, held key | startAudio, setInputDevice, dispose, applyMicGate, the noise gate's poll, key down and up | browser, reconnection | the microphone is open only as shown; it is let go at the end |
| **Frontend roster** `appStore.ts`, `AppShell.tsx`, `useUnreadChannels.ts` | channels, users, messages, current and selected channel, read counts | handleMessage, joinChannel, restoreSession, selectChannel | proxy's pushes | the page shows what Murmur has; dots are true |
| **Chat area** `ChatArea.tsx`, `chat.ts`, `image.ts` | draft, spinner, images under way | submit, sendImage, groupMessages | roster | words go where and when they were written; every message is shown |
| **Lists** `ChannelSidebar.tsx`, `MemberList.tsx`, `channelTree.ts`, `RemoteAudio.tsx` | folded channels, search, local mutes | buildChannelTree, rows | roster | everyone is listed once, however incomplete the store |
| **Invitations and entry** `InvitePage.tsx`, `ConnectScreen.tsx`, `InviteDialog.tsx`, `App.tsx` | invite status and timer, forms, saved credentials, resume token | createInvite, its timeout and answers, buildConnectEnvelope | proxy | the dialog never spins for nothing; a guest is let back in |
| **Shell** `AppShell.tsx`, `shortcuts.ts`, `shortcutStore.ts`, `SettingsDialog.tsx`, `useEdgeSwipe.ts` | drawers, dialogs, bindings, touch | open, close, swipe, record, reset | all of the page | one overlay at a time; one action per key |
| **Image viewer** `ImageLightbox.tsx` | pointers, pinch, pan, swipe | pointer events | chat area | a pinch has its two pointers |
| **Proxy process** `cmd/proxy` | rate limiter | HTTP handlers | all | limit per window |
| Dial policy, protocol buffers, styling, smoke test | - | - | - | not modelled, see section 7 |

**Where it is hard.** One session is driven by four kinds of goroutine: its read
loop (which *is* `connectMumble` during a dial of up to ten seconds), its write
pump, the upstream client's read goroutine, and the `endWith` goroutine another
session starts. `cleanup` runs once and may come from any of them, before,
during or after the dial; neither `connectMumble` nor the loop that calls it looks
at `done`, so a connect that was buffered is handled after the cleanup too. The
dial's `select` may prefer the timeout to a ServerSync that has been handled.
`push` never blocks and so may drop. Tokens expire at any moment. `PROJECT.json`
lists every hazard at its line.

In the page everything runs on one thread, and the difficulty is what happens
between two turns of it. The store listens to every WebSocket it ever opened
and cannot tell them apart. `startAudio`, `setInputDevice` and `sendImage` go on
after an `await` with whatever the client and the page then are. The layout,
with its listeners, read counts and drafts, is taken down and put up by every
login; what was being sent goes on, drops on a closed socket and empties the draft
all the same. `joinChannel` and the mutes show what they asked for before Murmur has
agreed.

## 2. Modules

| Module | Models | Checked by |
|---|---|---|
| `SessionRegistry` | the registry and the order of its calls; also the **abstract specification** that `BridgeSession` implements | `MCSessionRegistry` |
| `SessionRegistryProofs` | its theorems | tlapm |
| `BridgeSession` | a session's login and end, its four goroutines, Murmur and browser as environment | `MCBridgeSession` (three cfgs) |
| `BridgeSessionProofs` | its theorems, on top of the registry's | tlapm |
| `SessionSend` | send queue, write pump, closeCode | itself (two cfgs) |
| `SessionSendProofs` | its theorems | tlapm |
| `InviteSession` | invite store and the sessions that use it | `MCInviteSession` |
| `InviteSessionProofs` | its theorems | tlapm |
| `WebClient` | the connection of one tab, its sockets and timers, **composed** with the proxy's sessions | `MCWebClient` (three cfgs) |
| `WebClientProofs` | its theorems | tlapm |
| `VoiceBridge` | signalling, tracks, who is talking and push-to-talk between Murmur, proxy and page | `MCPage`, itself (one cfg) |
| `PageVoice` | microphone, gate, push-to-talk | `MCPage` |
| `VoiceProofs` | the theorems of `VoiceBridge` and `PageVoice` | tlapm |
| `PageRoster` | channels, users, messages and unread dots against Murmur | `MCPage` |
| `PageChat` | composer, images, layout of the messages | `MCPage` |
| `PageLists` | channel tree, sidebar, member list, loudspeakers | `MCPage` |
| `PageInvite` | invite dialog, guest's entry and re-entry | `MCPage` |
| `PageShell` | drawers, dialogs, shortcuts | `MCPage` |
| `PageViewer` | image viewer | `MCPage` |
| `PageLayoutProofs` | what the recursive functions of `PageChat` and `PageLists` compute | tlapm |
| `PageProofs` | the theorems of `PageInvite`, `PageShell`, `PageChat`, `PageRoster` and `PageViewer`, and of `MCPage`, their composition | tlapm |

`PROJECT.json`'s `map` gives the source lines of every definition. The state is
named after the Go fields wherever possible.

**SessionRegistry.** `entries[k]` is the Go map's entry; an absent key and an
empty entry are one state, because every method treats them alike. `phase` is
how far the session's `connectMumble` is; `condemned` are the sessions for which
`go prev.endWith` was started. Each registry method is one action, as it runs
under the registry's mutex; the store of `sessionKey` is another (`StoreKey`), for
it comes after the lock is let go and a cleanup between the two finds no key.
`Cleanup` is enabled at any time, since nothing prevents it during the dial, and so
is `Reserve` after it. A session handles any number of connects, one at a time;
`loggedIn` is history, as the table does not say who has been an owner.

**BridgeSession.** `pc` is the read loop's place in `connectMumble`, which a session
may go through several times (`connects`). The n-th dial of session s makes the
gumble client `<<s, n>>`, and `client[s]` says which of them `s.client` points to.
`up`, `link` and `discType` are such a client: handshake and read goroutine, what
the next read will find, and `disconnectEvent.Type`; `notify` is the place of its
OnDisconnect, `ender` that of the session's endWith. `unseen` is history: what the
table gave a session behind the back of its cleanup. The module instantiates
`SessionRegistry` with `phase <- DialPhase` and `condemned <- Condemned`, computed from `pc` and
`ender` - the refinement mapping - checks `Reg!FairSpec` as a property, and
uses its operators on entries. `client` stands for `rtc` too: they are set and
cleared together. Timeout, tls and closed codes are one code "network"; bans
are kicks (the code treats them alike). Disconnect's unlocked write of the type,
a data race with the read goroutine, is a nondeterministic outcome. Between
`Commit` and storing `s.client` there is a step of its own (`attaching`).

**SessionSend.** The interleavings inside OnConnect, OnDisconnect and endWith
that `BridgeSession` merges: push, store and cleanup are steps of their own, and
so is each envelope of the snapshot. `logged` is the set of envelope types
`push` reported with `send_buffer_full`.

**InviteSession.** A socket here may send several connect commands, as
`handleConnect` permits and the sticky `invited` flag expects. `dial` is the
last connect's `connectCreds`; `draft` is what `handleCreateInvite` copied under
the lock. Passwords are abstracted to where they came from. `logins`, `guest`,
`invitedNames` and an invite's `by` are history used by properties only.

**WebClient.** `page` is what the store knows of the connection, with the
closure's variables (`timer` for `reconnectTimer`, `creds` for `savedCreds`,
`suspend`, `manual`, `needRestore`, `flaps`). Handlers are operators from page to
page (`Handled`, `OnClose`, `Ended`, `Scheduled`), as `handleMessage`, `onClose`,
`endSession` and `scheduleNextAttempt` are functions that set the store;
`PageBecomes` does what the new page means for the sockets: it sends, disposes
and opens. `sock` goes from connecting over open to closed (or closed with 4001)
and, once the close event has been delivered, dead. `srv` is the proxy's
session of each socket as the modules above describe it: commands are
read one by one and not during a dial, a second connect of the tab takes the
first session over, a connect during a pending dial is refused. Time is a
login's being recent or old, and the flap window lets any part of the earlier
short sessions go. `MaxActs` and `MaxFaults` bound what the user does and what
goes wrong.

**VoiceBridge.** One login from its connected envelope on. `peer` is `rtcPeer`
with pion's signalling state: the tracks there are and the speakers its last
description holds; `browser` is the page's peer connection with the places of
`startAudio` and `handleSignaling` between their awaits. Pion and the browser are
external: pion asks for a negotiation in the stable state only and refuses an
offer while its own is out, the browser rolls its own back. `toPage` is the part
of the send queue that is about voice, and its places are all there are for it.
`talkers` says of each speaker where it is, whether it was heard in the last
350 ms and whether the proxy marks it as talking. `uplink` is what happens to
`pttActive` between the read loop, which stores it and then sends the terminator,
and the microphone's goroutine, which tests it and then writes: `passed` is a
frame between the two, `late` counts the frames Murmur got after the release and
`unended` is an utterance without its terminator. `mishaps` is history. A speaker's
number is not given out again within 350 ms of being heard.

**The page's parts** share no state that is modelled, apart from how the
connection comes and goes, which every one of them takes as its environment (in
`PageVoice`, `phase`; in `PageRoster`, `link`; in `PageInvite`, `conn`; in
`PageChat`, `chat.link`). `MCPage` therefore runs them side by side: `focus`
chooses the part that moves, and the others wait in an initial state. The two
directions of `VoiceBridge`, which share nothing either, run there too.

* `PageVoice`: a pending getUserMedia is a number in `tasks`, late when the client was
  disposed of meanwhile; a microphone that came late is `leaked`, a stream or
  peer the client no longer points to is stray. `Apply` is applyMicGate, and the
  handlers that do not call it (`SelfEnvelope`, `EndSession`, `RetryAfterEnd`)
  do not. `useVoiceStatus` is what the dock says.
* `PageRoster`: `wire` holds the envelopes on their way, `upward` the commands,
  `murmur` what the server knows. An envelope that finds the send queue full is lost,
  in the snapshot (`LoginAccepted`) and after it (`Told`), `synced` as well as any other. `past`
  is history: whose last envelope was lost, who may be a ghost and why, whether a
  move was refused, what was not looked at. A ghost of an earlier
  connection is forgiven until the proxy has logged in again, for the snapshot
  that follows clears it.
* `PageChat`: a draft is a number and `fate` its history; `sending` are the
  images between the two halves of `sendImage`, with the words they took along
  and the layout they came from. What becomes of words that are sent is up to
  `MumbleClient.send` (`OutUnder`): they go out under the login that has the socket
  then or, if it is closed, nowhere, and the draft is emptied either way.
  `imageToMessageDataUrl` is the first encoding that fits the budget. The log is `groupMessages` and the rows it becomes.
* `PageLists` has few actions of its own: the store it shows is any that a partial
  snapshot leaves.
* `PageInvite`, `PageShell`, `PageViewer`: the state names of the components;
  `trail`, `notes` and `doubt` are history that names the causes a property
  excuses.

## 3. Runs

| Run | Bounds | Question | Result |
|---|---|---|---|
| `registry` | 4 sessions: two of one tab, one of another, one without clientId; 1 key; s1 and s3 may connect twice; `FairSpec` | Does the table keep nicknames exclusive, and settle reservations? | passes, 166,649 states |
| `bridge` | 2 sessions of one tab, 1 key, 2 connects: one on each, or both on s1; `FairSpec` | Do all ways of ending leave the table, the upstream link and the session's fields consistent, and does the session implement `SessionRegistry!FairSpec`? | passes, 280,772 states |
| `bridge_takeover` | 2 tabs | Is only the same tab's old session ended by Commit (registry.go:70)? | **violated** |
| `bridge_logout` | 2 sessions of one tab; `FairSpec` | Does cleanup close the upstream connection (session.go:264)? | **violated** |
| `send` | queue 3, snapshot 3; `FairSpec` | Are ends explained and losses logged; does the pump return? | passes, 75,653 states |
| `send_snapshot` | queue 3, snapshot 3 | Does synced mean synchronised (protocol.go:11)? | **violated** |
| `invites` | 2 sockets, 2 invites, 2 resume tokens, 2 names, 2 connects | One login per invite, no orphaned claims, guests do not invite, names kept? | passes, 491,944 states |
| `client` | 3 sockets, 2 attempts, flap limit 2, 2 acts, 3 faults | Does every screen have a connection, does the mute agree, who dials? | passes, 638,956 states |
| `client_takeover` | as above, 1 fault | Is a tab's own reconnect not mistaken for a duplicate (README.md:173)? | **violated** |
| `client_mute` | as above, 1 fault | Is the mute restored after a reconnect (appStore.ts:443)? | **violated** |
| `page` | see below | Is what the page sends, shows and lists true? | passes, 1,597,795 states |
| `voice_glare` | 1 speaker, queue 3, 1 command | Is voice set up right after the login (appStore.ts:801)? | **violated** |

**Why the bounds are enough.** A registry entry names at most two sessions; with
a third and a fourth every test in `Reserve` (same tab, other tab, no clientId)
and a late Commit against a new owner with a reservation beside it occur. Keys
do not interact, as a session has one. The second connects of a live and of an ended
session meet every state of the entry. Two sessions let `BridgeSession` show
takeover, kick by Murmur and cleanup together; `bridge_takeover` needs two tabs.
Two connects show either a tab that reconnects or a session that takes itself over;
the action constraint `InOrder` leaves out that both happen in one behaviour, which
the proofs cover, and, as the two sessions are interchangeable, lets s1 be the first.
It bounds `Connect` only, on which no fairness is assumed, so the liveness
properties are not weakened.
`SessionSend` has more than one snapshot envelope beyond a full queue, so each
branch of `push` is taken; only the ratio of queue and snapshot matters. Two
invites let a guest who came by one make another; two resume tokens let a
resumed session be issued the next; two connects on one or two sockets give
claim, release and re-claim, and a guest who signs in again. `MaxConnects`
bounds the connects, tokens are drawn once and never again. Symmetry is used in
the invite run only, for sessions and tokens, and no liveness is checked there;
names are not symmetric because `AnyName` picks one.

Three WebSockets are a superseded one, the current one and the redial that
follows; the limits of attempts and flaps are 10 and 3 in the code and only
their being reached matters. Three faults suffice to give up after two attempts.

In `page`, two pending audio calls overlap, which is what leaks a stream; one
more would only leak another. Two channels and one other user meet every branch
of the roster's handlers, a `History` of 2 stands for the 200 messages kept and
is reached. The send queue is full from two envelopes on (`Queue`; 256 in the code),
so that any part of a snapshot beyond its first envelopes and any later envelope can
be lost. None need be: a snapshot may be as long as it is, Murmur's news are taken
while fewer than four envelopes are on their way (`MaxWire`), and a command can cross
any push; four events at Murmur and acts of the user
(`MaxNews`) break every property once the code is changed, and `PageProofs` has
no such bound. Three channels give the tree a root, a child and a
grandchild, in any order and with any of them missing. Two drafts, one with letters to
escape, and two images under way let a finished image meet a newer draft; with `Limit` 5 and
images of length 2 and 4 the budget is met and missed, and escaping makes a message
too long; that the budget may be floored is in the proof only.
Time stamps of two days, a window of one and a log of three hold a group, its
continuation and the message that ends it. Eight acts bring a guest through
login, loss, refusal and another try. The two edited shortcuts and six
combinations contain a free key, a taken one and a default. Two fingers and the
mouse make the third pointer. One speaker meets every branch of the talking map,
which keeps its sessions apart, and comes, leaves and is kicked again and again;
three places in the queue hold an offer, an answer and a word on who talks, and
fill up; of two commands on their way one may press and the other release.

`CHECK_DEADLOCK FALSE` is set because all these systems may really stop: every
browser gone, every session cleaned up.

**Fairness.** Weak fairness for each goroutine that has something to run: the
dial ends by its ten second timeout, a dead WebSocket fails the read (pong
deadline) and the write (ping), the read goroutine and `endWith` are not held
up. None for connecting, leaving, kicks, network failures or Murmur's answers.
In `SessionSend` losing the upstream and being taken over are likewise nobody's
duty. The runs of the page check safety only: what it eventually does depends on
the user and the network, for neither of which the code can vouch.

## 4. What the checks show

* **One active session per nickname** holds although a session may reserve and
  commit after its own cleanup: whoever owned the key is condemned in the same step.
* **The two findings about sessions have one cause.** After the dial,
  `connectMumble` and `markSynced` do not look at `done`.
  - `bridge_takeover`: s1's browser leaves while s1 dials; cleanup gives its
    reservation back; s3 of another tab reserves and commits; s1's dial returns,
    its `Commit` returns s3 and s3 is ended with `session_takeover`.
  - `bridge_logout`: the same cleanup found `s.client` nil; `connectMumble` then
    stores the client. `cleanup` is once-only, so the Mumble user and the
    nickname's entry stay until Murmur or the network drops the link.
  `markSynced` stores the login's password again in a session that has ended;
  nothing uses it any more, and no run is about it.
* `send_snapshot` is a different one: a snapshot larger than the queue is dropped
  in part, and `synced` may still be delivered. `SnapshotLossIsLogged` shows that
  at least every such loss is in the log.
* `client_takeover` is the frontend's side of the registry's rules: the store
  reconnects over a socket whose proxy session is still dialling or logged in,
  because neither close events nor `onOpen` say whose they are, and is told
  `username_in_use` or `session_takeover`, both of which end the session.
  `NoDeadScreen` and `DialsOnlyWhenWanted` are what holds nevertheless. The
  first also shows a page that says it reconnects after an `error` envelope
  cancelled its timer: it has an open socket without a login, and only that
  socket's end gets it going again.
* `client_mute`: after a reconnect the user is unmuted, and both sides agree on
  it (`MuteAgrees`), though the restore was written to keep the mute.
* `voice_glare`: somebody is heard while the page still waits for its microphone,
  for which the user has to be asked. `handleSignaling` drops the proxy's offer
  as there is no peer connection yet, the proxy, with an offer of its own out,
  refuses the page's, and neither sends its own again: there is no voice in
  either direction until the next login. Whatever else crosses ends well
  (`VoiceIsNegotiated`), but that an offer during `startAudio`'s own makes
  it fail before `onMicReady`, and the page then takes the microphone for missing.
* The properties of `page` name their exceptions, each a behaviour of the code
  that a reader might not expect: channels and users whose last envelope the
  full send queue dropped, ghosts of kicked users, ghosts after a given-up reconnect
  and a refused move that stays shown (`RosterIsMurmurs`), news lost at the cut of
  200 and invented by a new layout, which also finds what came while a dropped
  `synced` kept the page from having one (`UnreadDotIsTrue`), words under way with an
  image that are dropped by a page that shows itself offline or go out under another
  login, that are sent twice or wiped by the image's end, and an image message too
  long once escaped (`PostGoesWhereWritten`), a microphone left on by a call
  that outlived dispose (`MicIsReleased`), a late invite answer taken for the
  next (`InviteDialogIsTrue`), a guest who submits a used link
  (`GuestIsLetBackIn`), a single reset that duplicates a shortcut
  (`SharedBindingHasReset`), overlays that stack while code loads, or that the edge
  swipe and the shortcuts, which look at a list of flags and at `role=dialog` only,
  open over the logout alert (`OneOverlay`), a pointer lost outside the viewer
  (`PinchHasItsPointers`).
* `EndedLetsGo` states what *does* hold of an ended session's entries, and what its
  cleanup could not take away. A reservation may be made after the cleanup, when a
  buffered connect is handled then, or just before it, when `sessionKey` is not
  stored yet; its dial is under way and will promote it or give it back
  (`ReservationSettles`, through `RegistryFairSpec`). A nickname may be committed
  after the cleanup. And one may be committed before it and not be found: when a
  second connect on the socket fails, `releaseReservation` (session.go:572) empties
  the `sessionKey` that the first login still needs, and the nickname stays owned by
  the dead session. Only its own tab can then take it over; all others are refused.
* `NoOrphanedLogin` covers the client that a second connect's login overwrites
  (session.go:618). The proxy never closes it; that its link is dead all the same is
  Murmur's doing, which removes the first of two logins with one name.
* `TakeoverNoticeTruthful` has that second connect as its exception: it makes a session
  take itself over, and be told so.
* The close code a browser sees can be 1011 after it was told
  `session_takeover` (OnDisconnect stores over endWith's value). The frontend
  goes by the envelope; `CloseFrameExplained` covers the order of the two.

## 5. What is proved

The theorems hold for every value of the constants that satisfies the module's
named assumption, which TLC evaluates in the module's run. The assumptions are
weak: "nil" values are not members of their sets and `ClientOf` is a function on
the sessions (`RegistryAssumption`, `BridgeAssumption`, `InviteAssumption`), the page's
wire takes what the send queue does (`RosterAssumption`), limits are numbers and sockets, channels and users finite sets
(`SendAssumption`, `SocketsAssumption`, `LimitsAssumption`,
`MaxTasksAssumption`, `VoiceBridgeAssumption`, `TriesAssumption`,
`ChatAssumption`, `RosterAssumption`, `ListsAssumption`, `ViewerAssumption`),
and a shortcut's default is a combination (`ShellAssumption`). Each proof has
the same shape: an inductive invariant, one lemma per action (or per handler the
actions share) that shows it is kept, and a `PTL` step. The invariants were
given to TLC before they were proved. Of the 40 properties that the passing runs
check, 36 are proved; the other four are liveness.

**`SessionRegistryProofs`**: `TypeCorrect`, `OneActiveSession`,
`ReservationHasDial`, `FlagIsAccurate` (the takeoverPending flag of every active
session agrees with the table) and `TakeoverSafe`. `IInv` is needed because
`OneActive` says nothing of a session that is still dialling. Its
strengthening: the owner of a key has logged in under it (`OwnerIsOnline`) and an
active session is the owner (`ActiveIsOwner`); a session's key is the one it asks
for or none (`KeyIsHeld`); a live dial *is* the pending entry of its key, or the
owner that dials again (`LiveDialIsPending`), so no one else can be reserved while
it commits; a pending session beside an active owner is of its tab
(`PendingIsSameTab`); the flag is set on sessions that have logged in only
(`FlaggedIsOnline`). `EntryOps` and `UnmarkInv` are the facts about entries that
the lemmas share.

**`BridgeSessionProofs`**. `ImplementsRegistry`, `Spec => Reg!Spec`: whatever the
four goroutines of a session interleave, each step is a step of the nickname
table under the refinement mapping, or leaves it alone. The lemma `TableStep`
goes through the steps; `TableInductive` takes the registry's own lemmas, by
an INSTANCE of its proof module, so the table's invariant is not proved twice.
`OneActiveLogin` and `TakeoverSafe` are its fruits. To the table's, `IInv` adds types
and counts (`OwnTypes`, `Counts`: a handle is of an earlier dial than the one under
way) and three parts. `Upstream`, for `HandlesAreClosed`: a client comes into being in
its dial, its OnDisconnect after its read goroutine, and once Murmur has accepted a
dial, the link of the session's handle is not open any more. `EndedLetsGo` is
inductive as it stands, with the history `unseen`, and is `EndedSessionsLetGo`; what a
step does to owners and reservations is `TableMoves`. `Notices`, for
`NoticesAreTruthful`: whoever is about to be replaced, has an endWith or has ended has
a rival, has logged in twice, or has no browser or its reason already
(`LeavingIsSpent`, `ClosingHasReason`), and one that has logged in has a client that did
(`LoggedInHasClient`). `TypeCorrect` is there too.

**`SessionSendProofs`**: `TypeCorrect`, `ClosesAreExplained`,
`SnapshotLossesAreLogged`. The properties speak of what was written, but a
goroutine gives its reason to the queue; the invariant therefore speaks of
`Said`, what is written followed by what waits, which a write does not change.
`EndIsTold` says that the reason is said, or its loss logged, before a code is
stored, `CodeOfTheEnd` which of the two codes that is, and `SnapshotInOrder` that
what was said of the snapshot is what was pushed, before `synced`.

**`InviteSessionProofs`**: `TypeCorrect`, `OneLoginPerInvite`, `ClaimsHaveDials`,
`MembersInvite`, `ResumedNames`. `Claims` adds that an invite held by a dial is
claimed and has let nobody in, and that a used one stays claimed, though it may
be deleted, expire, or be released by nobody; `Makers` that the sticky
`invited` flag knows every guest and that a draft read before the lock was let
go is still a member's; `NamesKept` that trusted credentials without an invite
carry a name that one let in.

**`WebClientProofs`**: `NoDialBehindTheUser`, `TypeCorrect`, `NoScreenIsDead`,
`MutesAgree`. For the first, `DialInv` adds what the action property cannot see:
a page waits for a redial only with credentials and neither left nor ended, and
a page the user has left has no socket. `NoDeadScreen` is inductive with the
types; `NeedsNoSocket` is what the handlers leave behind. `MuteAgrees` speaks of
a session at rest; its invariant `MuteArrives` says that, once no command is on
its way up, the last news on its way down carries Murmur's mute, or there is
none and the page shows it already.

**`VoiceProofs`**, of `VoiceBridge`: `SpeechIsSeenToEnd`,
`VoiceBridgeTypeCorrect`, `SignallingAgrees`. The first again says what the
queue will make of the page (`EndsUp`), and for one's own voice that while a key
is down no frame is late (`UplinkInv`). For the last, `ProxysOffer` and
`PagesOffer` say where each end's offer is at every moment - on its way, with
the other end, or on its way back as an answer - and `TracksGetThere` who still
owes the page the tracks of the proxy's description.

Of `PageVoice`: `VoiceTypeCorrect`, `GateIsPolled`, `MicrophoneIsReleased`,
`OpenOnlyAsShown`, for any number of pending calls. An answer of getUserMedia
turns the microphone on in whatever phase it comes, so `NothingAwaited` and
`OneAtATime` say which calls may be pending when; the indicator is set in other
steps than the fields it is computed from, so `TalkingIsMeant` and `ShownAsSet`
say what it stands for in between.

**`PageLayoutProofs`** is about what a recursive function makes of any sequence
or tree. The library's induction theorems take an operator, which the provers
cannot instantiate; `SetInduction` says the same of a *set* of numbers, and the
inductions are over sets such as "the lengths for which the rows are right".

* `LayoutIsRight`: for every log, however its times jump, `groupMessages` and the
  rows made of it satisfy `MessagesAreShown`. Along the log the sections laid so
  far hold the messages so far, under the dividers of their days, and
  `acc.last` and `acc.open` speak of the last one.
* `ListsTypeCorrect` and `EveryoneGetsListed`, the theorems about `PageLists`,
  for any finite sets of channels and users. `Enumerates(s, S)` says that a
  sequence has each element of a set once; it is kept by concatenation
  (`AllEnumerated`) and holds of the two sorts (`SortedEnumerates`,
  `RankedEnumerates`). The channels below another are reached through just one
  child each (`ReachedIs`, `ReachedApart`, from `AboveIsChain`), so that by
  induction over the height of the tree a walk lists what it reaches once
  (`WalkEnumerates`): `Ordered` every channel, the sidebar those that no folded
  one hides, whether there is one root or many. That the recursive definitions
  denote a function at all is `WalkExists` and `AboveIs`, for which `Acyclic` is
  needed.

**`PageProofs`**, for any number of tries, drafts, images, channels, users and
events:

* `InviteTypeCorrect`, `DialogIsTrue`, `GuestsComeBack`. A request that was not
  given up is the only one under way (`AskedIsPending`); a guest whose link is
  used up and who has no token is in (`InWithoutToken`).
* `FrameTypeCorrect`, `SharingNeedsReset`, `OneOverlayAtATime`.
* `ChatTypeCorrect`, `PostsGoWhereWritten`, `MessagesHaveTheirRows`. A draft is
  of the layout and the login that are shown and nothing has taken it away
  (`DraftIsNew`); words under way with an image are marked as cut off once their
  connection has gone;
  words under way with an image are in the composer only in the layout they were
  taken from, and who sends them again is remembered (`TakenAlong`). The log is
  a sequence of messages (`LogInv`), and `LayoutIsRight` says the rest.
* `RosterTypeCorrect`, `RosterIsShownTrue`, `DotsAreTrue`. `RosterIsMurmurs` is
  about a page at rest. Its invariant `ToldInv` says of every user and channel of
  which the queue lost no news that the last envelope about it is true, or that there
  is none and the page is right, or will be once `connected` is handled (`UsersTold`,
  `ChannelsTold`; that a full queue makes a loss and a later envelope makes up for it
  is `RemembersFacts`, what is left of a snapshot `Snapped`); of
  one's own channel that it is Murmur's, the one asked for last, or was refused
  (`OwnTold`); and which connection the wire is of (`WireInv`).
  `ShellInv` ties the read counts to the layout.
* `ViewerTypeCorrect`, `PinchKeepsItsPointers`. The recorded pointers are those
  that are down, each once, but for the doubts the property names
  (`PointersAreDown`), and a pinch is of exactly them (`PinchIsOfThem`).
* `PartsOfThePage`: a behaviour of `MCPage` is one of each of its parts, because
  no part's step touches another's variables. With it `PageTypeCorrect`, and
  `PageKeepsItsPromises`, all sixteen invariants of the run for the composition.

**What the proofs found.** The proof of `RosterIsMurmurs` did not go through at
`UserKicked`: a user kicked between the proxy's login and the page's handling of
`connected` was struck from the history of ghosts by the latter, while the
snapshot on the wire went on to show it. The property was wrong for such a
user, and TLC had not seen it because the wire was bounded at two envelopes.
The history is now emptied when the proxy logs in, and the run's wire is long
enough for news to follow a snapshot. Two definitions could not be reasoned about and were
restated: the filter of the viewer's pointers as the removal of the one that
left, and the sorts of the lists by rank, as `SelectSeq` and `SortSeq` are
evaluated by TLC only.

**Only model-checked.**

* Liveness (`ReservationSettles`, `DoomedIsCleaned`, `EndIsSignalled`, and the
  fairness part of `RegistryFairSpec`), which TLAPS cannot do.
* The six violations are counterexamples, and need no proof.

## 6. Plan

Done: registry, bridge session, send queue, invites, the tab's connection, the
voice bridge and all parts of the page, each with its proofs. Next, in this
order:

1. **GumbleMirror** - `handlers.go`: channels, users, self, the events raised
   and the page's copy of them; the volatile lock, which `withClient`'s lookups
   do not take (session.go:320) and an unknown channel leaves locked
   (handlers.go:565); a reject that comes after the dial's timeout and holds the
   read goroutine, and the pings with it, for good (handlers.go:252); a repeated
   ServerSync. Abstract specification: the page's copy equals Murmur's state once
   the packets are consumed.
2. The diagnostics rate limiter of the proxy.

## 7. Not modelled, and why

* DNS, SRV and TLS (`mumbleconn/dial.go`): I/O; only its outcome matters here.
* Generated protocol buffers, pion, gorilla/websocket: libraries and generated
  code; what the proxy relies on is an environment action.
* How the page looks: styling, texts and translations, focus and scrolling, the
  vendored components under `components/ui`.
* Signal arithmetic on floats (levels, noise floors, jitter buffer targets, the
  pixels of zooming), and the statistics of `rtcStats.ts` and `diagnostics.ts`,
  which only reach the log.
* `pagehide`: a page being unloaded. A browser may bring it back from its cache
  with `pageHiding` still set, and it then never reconnects; the model has no
  such browser.
* Volumes and local mutes by session number, which the store keeps after their
  user has gone: a number that is given out again inherits them.
* ICE candidates, the parsing of voice packets (`voice.go`) and the reuse of a
  track's media line by pion: `VoiceBridge` takes a description for the set of
  speakers it has a track for.
* `hello`, texts, talking and signalling envelopes in the send queue: more
  traffic of the same kind in a queue that may already be full at any time.
* An OnConnect without one's own user (session.go:867), which pushes an error in place
  of the snapshot: Murmur sends that user before ServerSync.
* In `WebClient`, the loss of a session's first upstream during its second dial; the
  goroutines of such a session are in `BridgeSession`.
* Panics (`recoverGo`): they end in `cleanup`, which every model allows at the
  places where a goroutine can end.
