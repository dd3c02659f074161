------------------------------- MODULE MCPage -------------------------------
(***************************************************************************)
(* The page's parts side by side, for one run: a behaviour is a behaviour  *)
(* of one part, chosen at the start, while the others wait in one of their *)
(* initial states. The parts share none of the state modelled here. The    *)
(* voice path, which has its other end in the proxy, is one of them.       *)
(***************************************************************************)
EXTENDS PageVoice, PageRoster, PageLists, PageInvite, PageShell, PageViewer, PageChat,
        VoiceBridge

VARIABLE focus   \* the part that moves

NoChannel == -1

Parts == {"voice", "roster", "lists", "invite", "shell", "viewer", "composer", "log",
          "downlink", "uplink"}

PageInit ==
  /\ focus \in Parts
  /\ VoiceInit /\ FrameInit /\ ViewerInit
  /\ focus = "voice" \/ ~voice.continuous
  /\ ChatInit
  /\ RosterInit
  /\ focus = "roster" \/ (murmur.channels = {Root} /\ murmur.at = Nobody)
  /\ ListsInit
  /\ focus = "lists" \/ (/\ tree = [c \in Chans |-> Unknown]
                         /\ \A u \in People \ {Myself} : place[u] = Unknown
                         /\ place[Myself] = CHOOSE c \in Chans : TRUE)
  /\ VoiceBridgeInit
  /\ InviteInit
  /\ focus = "invite" \/ page.route = "home"

PageNext ==
  /\ UNCHANGED focus
  /\ \/ /\ focus = "voice" /\ VoiceNext
        /\ UNCHANGED <<rosterVars, listVars, inviteVars, frameVars, viewerVars, chatVars, voiceBridgeVars>>
     \/ /\ focus = "roster" /\ RosterNext
        /\ UNCHANGED <<voiceVars, listVars, inviteVars, frameVars, viewerVars, chatVars, voiceBridgeVars>>
     \/ /\ focus = "lists" /\ ListsNext
        /\ UNCHANGED <<voiceVars, rosterVars, inviteVars, frameVars, viewerVars, chatVars, voiceBridgeVars>>
     \/ /\ focus = "invite" /\ InviteNext
        /\ UNCHANGED <<voiceVars, rosterVars, listVars, frameVars, viewerVars, chatVars, voiceBridgeVars>>
     \/ /\ focus = "shell" /\ FrameNext
        /\ UNCHANGED <<voiceVars, rosterVars, listVars, inviteVars, viewerVars, chatVars, voiceBridgeVars>>
     \/ /\ focus = "viewer" /\ ViewerNext
        /\ UNCHANGED <<voiceVars, rosterVars, listVars, inviteVars, frameVars, chatVars, voiceBridgeVars>>
     \/ /\ \/ focus = "composer" /\ ComposerNext
           \/ focus = "log" /\ LogNext
        /\ UNCHANGED <<voiceVars, rosterVars, listVars, inviteVars, frameVars, viewerVars, voiceBridgeVars>>
     \/ /\ focus \in {"downlink", "uplink"}
        /\ IF focus = "downlink" THEN DownlinkNext /\ UNCHANGED uplink
           ELSE UplinkNext /\ UNCHANGED downlinkVars
        /\ UNCHANGED <<voiceVars, rosterVars, listVars, inviteVars, frameVars, viewerVars, chatVars>>

pageVars == <<voiceVars, rosterVars, listVars, inviteVars, frameVars, viewerVars, chatVars,
              voiceBridgeVars, focus>>

PageSpec == PageInit /\ [][PageNext]_pageVars

\* The types of every part of the page, and what a part forgets when it is shut
\* or its client disposed of.
PageTypeOK ==
  VoiceTypeOK /\ RosterTypeOK /\ ListsTypeOK /\ InviteTypeOK /\ FrameTypeOK
  /\ ViewerTypeOK /\ ChatTypeOK /\ VoiceBridgeTypeOK
=============================================================================
