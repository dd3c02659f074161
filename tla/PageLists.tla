----------------------------- MODULE PageLists -----------------------------
(***************************************************************************)
(* What the channel sidebar, the member list and the loudspeakers make of  *)
(* the store (src/src/components/ChannelSidebar.tsx, MemberList.tsx,        *)
(* UserContextMenu.tsx, RemoteAudio.tsx, lib/channelTree.ts): which        *)
(* channels and users are listed, where, and with which marks.             *)
(*                                                                         *)
(* The store may be any the snapshot and its updates can leave: channels   *)
(* come one by one in any order, so that a parent may be missing, and a    *)
(* user may be in a channel the page has not heard of.  Positions are      *)
(* taken in the order of the identifiers; names only matter to the search. *)
(***************************************************************************)
EXTENDS Integers, Sequences, FiniteSets, SequencesExt

CONSTANTS
  Chans,      \* channel identifiers, naturals in the order of their positions
  People,     \* sessions, naturals in the order of their names
  Myself,     \* one's own
  NoParent,   \* the parent of a root, negative
  MaxMarks,   \* bound: marks set at once
  Unknown     \* a channel the page does not know, or a user it does not have

ASSUME ListsAssumption ==
  /\ Chans \subseteq Nat /\ IsFiniteSet(Chans)
  /\ People \subseteq Nat /\ IsFiniteSet(People) /\ Myself \in People
  /\ MaxMarks \in Nat /\ NoParent < 0 /\ Unknown \notin Chans \cup {NoParent}

VARIABLES
  tree,       \* store.channels: the parent of each channel, or Unknown
  place,      \* store.users: the channel of each user, or Unknown
  marks,      \* talking, muted, deafened, localMuted, volume of zero
  collapsed,  \* AppShell: channels whose children are folded away
  found       \* MemberList: the users the search lets through

listVars == <<tree, place, marks, collapsed, found>>

Known == {c \in Chans : tree[c] # Unknown}
Present == {u \in People : place[u] # Unknown}

\* Murmur's channels are trees.
Acyclic(t) ==
  \E depth \in [Chans -> 1..Cardinality(Chans)] :
    \A c \in Chans : t[c] \in Chans => depth[t[c]] < depth[c]

ListsInit ==
  /\ tree \in {t \in [Chans -> Chans \cup {NoParent, Unknown}] : Acyclic(t)}
  /\ place \in [People -> Chans \cup {Unknown}] /\ place[Myself] # Unknown
  /\ marks = [talking |-> {}, muted |-> {}, deafened |-> {}, localMuted |-> {}, zero |-> {}]
  /\ collapsed = {} /\ found = People

------------------------------------------------------------------------------
(* buildChannelTree *)

\* The members of S as a sequence, from the least key to the greatest.
InOrder(S, key) ==
  [i \in 1..Cardinality(S) |->
     CHOOSE x \in S : Cardinality({y \in S : key[y] < key[x]}) = i - 1]

Sorted(S) == InOrder(S, [x \in S |-> x])

\* The roots when a channel with a missing parent is not taken for one.
ProperRoots == {c \in Known : tree[c] < 0}

Roots == {c \in Known : tree[c] < 0 \/ tree[c] \notin Known}
Children(c) == Sorted({d \in Known \ Roots : tree[d] = c})
Single == Cardinality(Roots) = 1

Ordered ==
  LET visit[c \in Known] ==
        <<c>> \o FlattenSeq([i \in DOMAIN Children(c) |-> visit[Children(c)[i]]])
  IN FlattenSeq([i \in DOMAIN Sorted(Roots) |-> visit[Sorted(Roots)[i]]])

------------------------------------------------------------------------------
(* The rows *)

Occupants(c) == {u \in Present : place[u] = c}

\* VoiceUserRow: what is shown of a user.
VoiceUserRow(u) ==
  [user |-> u, talking |-> u \in marks.talking, locallyMuted |-> u \in marks.localMuted,
   deafened |-> u \in marks.deafened, silenced |-> u \in marks.muted]

\* ChannelNode: its own row, then, unless it is folded, its users and children.
ChannelNode(c, renderChildren) ==
  LET node[d \in Known] ==
        <<[channel |-> d, users |-> IF d \in collapsed THEN {}
                                    ELSE {VoiceUserRow(u) : u \in Occupants(d)}]>>
        \o (IF d \in collapsed \/ (d = c /\ ~renderChildren) THEN <<>>
            ELSE FlattenSeq([i \in DOMAIN Children(d) |-> node[Children(d)[i]]]))
  IN node[c]

\* ChannelSidebar: a single root is a row above its children.
ChannelSidebar ==
  LET nodes(s) == FlattenSeq([i \in DOMAIN s |-> ChannelNode(s[i], TRUE)])
      root == CHOOSE r \in Roots : TRUE
  IN IF Single
     THEN ChannelNode(root, FALSE) \o (IF root \in collapsed THEN <<>> ELSE nodes(Children(root)))
     ELSE nodes(Sorted(Roots))

\* MemberRow: one status, the first that applies; others can be turned down.
MemberRow(u) ==
  [user |-> u,
   status |-> CASE u \in marks.talking    -> "talking"
                [] u \in marks.localMuted -> "locallyMuted"
                [] u \in marks.deafened   -> "deafened"
                [] u \in marks.muted      -> "silenced"
                [] OTHER                  -> "online",
   volume |-> u # Myself]

\* MemberList: oneself first, then by name, under the channels in their order
\* and those unknown after them; the search drops users and empty groups.
MembersOf(c) ==
  LET members == Occupants(c) \cap found
      us == InOrder(members, [u \in members |-> IF u = Myself THEN 0 ELSE u + 1])
  IN [i \in DOMAIN us |-> MemberRow(us[i])]

MemberList ==
  LET strays == Sorted({place[u] : u \in Present} \ Known)
      all == Ordered \o strays
      Group(c) == IF MembersOf(c) = <<>> THEN <<>>
                  ELSE <<[channel |-> c, members |-> MembersOf(c)]>>
  IN FlattenSeq([i \in DOMAIN all |-> Group(all[i])])

\* RemoteAudio: those whose stream is played at all.
RemoteAudio == (Present \ {Myself}) \ (marks.localMuted \cup marks.zero)

------------------------------------------------------------------------------
(* The user, and what the server says of others *)

Toggled(S, e) == IF e \in S THEN S \ {e} ELSE S \cup {e}

\* ChannelNode's button is there for a channel that has children and is shown.
ToggleCollapse(c) ==
  /\ \E i \in DOMAIN ChannelSidebar : ChannelSidebar[i].channel = c
  /\ Children(c) # <<>>
  /\ collapsed' = Toggled(collapsed, c)
  /\ UNCHANGED <<tree, place, marks, found>>

\* Typing a search, and clearing it.
Search == found' \in SUBSET People /\ UNCHANGED <<tree, place, marks, collapsed>>

AllMarks(m) ==
  {p \in (DOMAIN m) \X People : p[2] \in m[p[1]]}

Mark(kind, u) ==
  /\ marks' = [marks EXCEPT ![kind] = Toggled(@, u)]
  /\ Cardinality(AllMarks(marks')) <= MaxMarks
  /\ UNCHANGED <<tree, place, collapsed, found>>

\* UserContextMenu and the volume popover: not for oneself.
UserContextMenu(u) ==
  u \in (Present \cap found) \ {Myself} /\ (Mark("localMuted", u) \/ Mark("zero", u))

\* A talking or user envelope.
Marked(u) ==
  u \in Present /\ \E kind \in {"talking", "muted", "deafened"} : Mark(kind, u)

ListsNext ==
  \/ \E c \in Chans : ToggleCollapse(c)
  \/ Search
  \/ \E u \in People : UserContextMenu(u) \/ Marked(u)

ListsSpec == ListsInit /\ [][ListsNext]_listVars

------------------------------------------------------------------------------
(* Properties *)

\* Types: marks and searches are of users, what is folded is a channel.
ListsTypeOK ==
  /\ tree \in [Chans -> Chans \cup {NoParent, Unknown}]
  /\ place \in [People -> Chans \cup {Unknown}]
  /\ marks \in [talking : SUBSET People, muted : SUBSET People, deafened : SUBSET People,
                localMuted : SUBSET People, zero : SUBSET People]
  /\ collapsed \subseteq Chans /\ found \subseteq People

\* The channels above c, as far as the page knows; one of them is folded.
Above(c) ==
  LET up[d \in Known] == IF tree[d] \in Known THEN {tree[d]} \cup up[tree[d]] ELSE {}
  IN up[c]

Hidden(c) == Above(c) \cap collapsed # {}

Times(s, Test(_)) == Cardinality({i \in DOMAIN s : Test(s[i])})

\* However incomplete the store: the member list has every user it searches
\* for exactly once, the sidebar every channel under no folded one exactly
\* once, with its users unless it is folded itself; and whoever is played is
\* marked as locally muted in neither.
EveryoneIsListed ==
  LET members == MemberList
      sidebar == ChannelSidebar
  IN
  /\ \A u \in Present \cap found :
       /\ Times(members, LAMBDA g : \E i \in DOMAIN g.members : g.members[i].user = u) = 1
       /\ \E g \in Range(members) : g.channel = place[u]
  /\ \A c \in Known :
       /\ Times(sidebar, LAMBDA r : r.channel = c) = (IF Hidden(c) THEN 0 ELSE 1)
       /\ c \notin collapsed /\ ~Hidden(c) =>
            \E r \in Range(sidebar) :
               r.channel = c /\ {w.user : w \in r.users} = Occupants(c)
  /\ \A u \in RemoteAudio : VoiceUserRow(u).locallyMuted = FALSE
                            /\ MemberRow(u).status # "locallyMuted"
=============================================================================
