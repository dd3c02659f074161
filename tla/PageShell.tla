----------------------------- MODULE PageShell ------------------------------
(***************************************************************************)
(* The frame of the main screen (src/src/components/AppShell.tsx): its two *)
(* drawers, the dialogs over it, the touch that opens a drawer from the    *)
(* edge (hooks/useEdgeSwipe.ts, lib/edgeSwipe.ts), and the keyboard        *)
(* shortcuts: what they open, and how the settings dialog records, resets  *)
(* and stores them (SettingsDialog.tsx, settings/ShortcutsSection.tsx,     *)
(* lib/shortcuts.ts, store/shortcutStore.ts).                              *)
(*                                                                         *)
(* A dialog of Lazy is code fetched on first use: asked for, it is on the  *)
(* screen only once its code is there, and until then the page below takes *)
(* clicks and keys.  The drawers and the image viewer are dialogs too; the *)
(* two alerts have the role alertdialog.                                   *)
(*                                                                         *)
(* Left out: texts, focus, storage that cannot be written, and what the    *)
(* drawers, the viewer and the invite dialog hold (PageLists, PageViewer,  *)
(* PageInvite).                                                            *)
(***************************************************************************)
EXTENDS Naturals, Sequences, FiniteSets, SequencesExt

CONSTANTS
  Edited,     \* bound: the actions whose shortcuts the user changes
  Combos      \* bound: the key combinations pressed

\* SHORTCUT_ACTIONS
Actions == {"toggleMute", "toggleDeafen", "searchMembers", "showHelp", "pushToTalk"}

\* DEFAULT_SHORTCUTS: Ctrl or Cmd with Shift and a key, and the space bar.
Default ==
  [toggleMute |-> "mod-m", toggleDeafen |-> "mod-h", searchMembers |-> "mod-k",
   showHelp |-> "mod-slash", pushToTalk |-> "space"]

ASSUME ShellAssumption ==
  /\ Edited \subseteq Actions
  /\ {Default[a] : a \in Actions} \subseteq Combos

VARIABLES
  over,      \* drawers, dialogs and alerts that are asked for
  loaded,    \* dialogs whose code is there
  settings,  \* SettingsDialog: its tab, and the action it is recording keys for
  bindings,  \* useShortcutStore, saved to localStorage at every change
  start,     \* useEdgeSwipe's startRef: the edge the touch began at, if any
  notes      \* history: actions reset one by one; why overlays may stack

frameVars == <<over, loaded, settings, bindings, start, notes>>

Drawers == {"channels", "members"}
Lazy == {"settings", "help", "invite", "viewer"}
Alerts == {"logout", "reset"}

\* The two tabs that are opened from outside, the one that records, and the
\* three that keep nothing here.
Tabs == {"audio", "voice", "shortcuts", "other"}

Closed == [tab |-> "audio", recording |-> "none"]

FrameInit ==
  /\ over = {} /\ loaded = {} /\ settings = Closed
  /\ bindings = Default /\ start = "none"
  /\ notes = [alone |-> {}, hidden |-> FALSE]

\* On the screen, and with the role dialog: hasOpenDialog.
OnScreen(o) == o \in over /\ (o \in Lazy => o \in loaded)
HasOpenDialog == \E o \in over \ Alerts : OnScreen(o)
Modal == \E o \in over : OnScreen(o)

------------------------------------------------------------------------------
(* Opening and closing *)

\* o is asked for. The history marks it if something else is on its way or is
\* not among what edgeSwipe's disabled looks at.
Asked(others, o) ==
  /\ over' = others \cup {o}
  /\ notes' = [notes EXCEPT !.hidden = @ \/ \E p \in others \ {o} :
                                              ~OnScreen(p) \/ p \in {"viewer", "logout"}]

OpenChannels == Asked(over \ {"members"}, "channels")
OpenMembers == Asked(over \ {"channels"}, "members")

\* The page below an open dialog takes no clicks. openSettings mounts the
\* dialog anew for its tab.
PageClick ==
  /\ ~Modal
  /\ \/ OpenChannels /\ UNCHANGED settings
     \/ OpenMembers /\ UNCHANGED settings
     \/ \E o \in {"invite", "viewer", "logout"} : Asked(over, o) /\ UNCHANGED settings
     \/ \E tab \in {"audio", "voice"} :
          /\ Asked(over, "settings")
          /\ settings' = IF "settings" \in over /\ settings.tab = tab THEN settings
                         ELSE [Closed EXCEPT !.tab = tab]
  /\ UNCHANGED <<loaded, bindings, start>>

Arrives(o) ==
  /\ o \in (over \cap Lazy) \ loaded /\ loaded' = loaded \cup {o}
  /\ UNCHANGED <<over, settings, bindings, start, notes>>

\* Escape, the backdrop, a close button, a choice in the drawer. An alert above
\* keeps the settings from being reached.
Close(o) ==
  /\ OnScreen(o) /\ (o = "settings" => "reset" \notin over)
  /\ over' = over \ {o}
  /\ notes' = [notes EXCEPT !.hidden = @ /\ Cardinality(over \ {o}) > 1]
  /\ settings' = IF o = "settings" THEN Closed ELSE settings
  /\ UNCHANGED <<loaded, bindings, start>>

\* The session leaves the main screen: AppShell unmounts.
LeavesMain ==
  /\ over # {} /\ over' = {} /\ settings' = Closed /\ start' = "none"
  /\ notes' = [notes EXCEPT !.hidden = FALSE]
  /\ UNCHANGED <<loaded, bindings>>

------------------------------------------------------------------------------
(* The edge swipe *)

\* useEdgeSwipe, if it ignored what is open.
NeverDisabled == FALSE

\* AppShell's disabled. A touch in an open dialog still reaches the handlers:
\* React's events go up its own tree.
Disabled == over \cap {"channels", "members", "settings", "help", "invite"} # {}

SwipeDown ==
  /\ ~Disabled
  /\ start' \in {"left", "right", "none"}
  /\ UNCHANGED <<over, loaded, settings, bindings, notes>>

\* detectEdgeSwipe: opens what is at that edge if the touch went inwards, far and
\* level enough, on a screen that has no such column already.
SwipeUp ==
  /\ start # "none" /\ start' = "none"
  /\ \/ UNCHANGED <<over, notes>>
     \/ ~Disabled /\ start = "left" /\ OpenChannels
     \/ ~Disabled /\ start = "right" /\ OpenMembers
  /\ UNCHANGED <<loaded, settings, bindings>>

SwipeCancel == start # "none" /\ start' = "none" /\ UNCHANGED <<over, loaded, settings, bindings, notes>>

------------------------------------------------------------------------------
(* Shortcuts *)

\* useKeyboardShortcuts: help, then the search, which opens a drawer where the list
\* is not a column; push-to-talk may take the key before them. What muting and
\* talking do is PageVoice's.
KeyPress ==
  /\ ~HasOpenDialog
  /\ \/ Asked(over, "help")
     \/ bindings["searchMembers"] # bindings["showHelp"] /\ OpenMembers
  /\ UNCHANGED <<loaded, settings, bindings, start>>

Reserved == {"enter"}

\* shortcutIssue, if it did not look at the other actions.
IssueWithoutOthers(c, a) ==
  IF c \in Reserved \/ (c = "space" /\ a # "pushToTalk") THEN "reserved" ELSE "none"

\* shortcutIssue
ShortcutIssue(c, a) ==
  CASE c \in Reserved \/ (c = "space" /\ a # "pushToTalk") -> "reserved"
    [] \E b \in Actions \ {a} : bindings[b] = c -> "duplicate"
    [] OTHER -> "none"

InSettings(tab) == OnScreen("settings") /\ "reset" \notin over /\ settings.tab = tab

\* A row's button starts recording, or stops it.
Record(a) ==
  /\ InSettings("shortcuts")
  /\ settings' = [settings EXCEPT !.recording = IF @ = a THEN "none" ELSE a]
  /\ UNCHANGED <<over, loaded, bindings, start, notes>>

\* A key while recording: Escape gives up and goes no further, and a refused
\* combination leaves it recording.
RecordedKey(c) ==
  LET a == settings.recording IN
  /\ InSettings("shortcuts") /\ a # "none"
  /\ c = "escape" \/ ShortcutIssue(c, a) = "none"
  /\ settings' = [settings EXCEPT !.recording = "none"]
  /\ IF c = "escape" THEN UNCHANGED <<bindings, notes>>
     ELSE /\ bindings' = [bindings EXCEPT ![a] = c]
          /\ notes' = [notes EXCEPT !.alone = @ \ {a}]
  /\ UNCHANGED <<over, loaded, start>>

\* resetBinding, offered for a shortcut that is not its default.
ResetOne(a) ==
  /\ InSettings("shortcuts") /\ bindings[a] # Default[a]
  /\ bindings' = [bindings EXCEPT ![a] = Default[a]]
  /\ notes' = [notes EXCEPT !.alone = @ \cup {a}]
  /\ UNCHANGED <<over, loaded, settings, start>>

\* The footer's reset, after its alert: resetAll, and the audio settings.
ResetEverything ==
  /\ "reset" \in over /\ over' = over \ {"reset"}
  /\ bindings' = Default /\ notes' = [notes EXCEPT !.alone = {}]
  /\ UNCHANGED <<loaded, settings, start>>

AskReset ==
  /\ OnScreen("settings") /\ "reset" \notin over /\ over' = over \cup {"reset"}
  /\ UNCHANGED <<loaded, settings, bindings, start, notes>>

\* Clicked, or reached with the arrows, Home and End: ShortcutsSection goes with
\* its tab, and what it recorded.
ChangeTab ==
  /\ OnScreen("settings") /\ "reset" \notin over
  /\ \E tab \in Tabs \ {settings.tab} : settings' = [tab |-> tab, recording |-> "none"]
  /\ UNCHANGED <<over, loaded, bindings, start, notes>>

\* A new page: loadBindings reads what was saved.
Reload ==
  /\ over' = {} /\ loaded' = {} /\ settings' = Closed /\ start' = "none"
  /\ notes' = [notes EXCEPT !.hidden = FALSE] /\ UNCHANGED bindings

FrameNext ==
  \/ PageClick \/ KeyPress \/ LeavesMain \/ Reload
  \/ \E o \in Lazy : Arrives(o)
  \/ \E o \in Drawers \cup Lazy \cup Alerts : Close(o)
  \/ SwipeDown \/ SwipeUp \/ SwipeCancel
  \/ \E a \in Edited : Record(a) \/ ResetOne(a)
  \/ \E c \in Combos \cup {"escape"} : RecordedKey(c)
  \/ AskReset \/ ResetEverything \/ ChangeTab

FrameSpec == FrameInit /\ [][FrameNext]_frameVars

------------------------------------------------------------------------------
(* Properties *)

\* Types, and the settings dialog keeps no state while it is shut.
FrameTypeOK ==
  /\ over \subseteq Drawers \cup Lazy \cup Alerts /\ loaded \subseteq Lazy
  /\ settings \in [tab : Tabs, recording : Actions \cup {"none"}]
  /\ bindings \in [Actions -> Combos]
  /\ start \in {"none", "left", "right"}
  /\ notes \in [alone : SUBSET Actions, hidden : BOOLEAN]
  /\ "settings" \notin over => settings = Closed /\ "reset" \notin over

\* Two actions answer to the same keys only after one of them was set back to
\* its default by its own reset, which, unlike recording, does not look at the
\* others (shortcutStore.ts, resetBinding).
SharedBindingHasReset ==
  \A a, b \in Actions :
    a # b /\ bindings[a] = bindings[b] => {a, b} \cap notes.alone # {}

\* One drawer or dialog at a time, unless the second was asked for while the
\* first was still being fetched, or by an edge swipe that went through the
\* image viewer or the logout alert (AppShell.tsx, disabled), or by a shortcut
\* over that alert (useKeyboardShortcuts.ts:13 looks for dialogs only).
OneOverlay == Cardinality(over \ {"reset"}) > 1 => notes.hidden
=============================================================================
