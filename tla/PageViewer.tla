----------------------------- MODULE PageViewer -----------------------------
(***************************************************************************)
(* The image viewer (src/src/components/ImageLightbox.tsx,                 *)
(* lib/lightbox.ts): what mouse and fingers do to a picture, with the      *)
(* records the handlers keep of them between events.  Two pointers zoom by *)
(* their distance, one drags a picture larger than the screen, one finger  *)
(* on a smaller one turns the page, and a plain click beside it closes.    *)
(*                                                                         *)
(* A scale is under, at or over the one that fits the screen.  A finger's  *)
(* events go where it went down; the mouse's go to what is beneath it,     *)
(* unless a drag captured it, so its button may be let go over the toolbar *)
(* and the viewer never hears of it.                                       *)
(*                                                                         *)
(* Left out: pixels, the wheel's steps, download and opening in a tab, and *)
(* two pointers in the very same place.                                    *)
(***************************************************************************)
EXTENDS Naturals, Sequences, SequencesExt

CONSTANTS
  Fingers,   \* touch pointers
  Mouse,
  Pictures   \* how many pictures the message holds

ASSUME ViewerAssumption == Mouse \notin Fingers /\ Pictures \in Nat \ {0}

VARIABLES
  view,     \* what is shown
  touch,    \* the refs: pointers, pinch, swipe, pan, didGesture
  hand,     \* each pointer: up, still where it went down, or moved
  doubt     \* history: why a pinch may measure something else

viewerVars == <<view, touch, hand, doubt>>

Pointers == Fingers \cup {Mouse}
Scales == {"under", "fit", "over"}
NoFinger == "none"

NoTouch == [pointers |-> <<>>, pinch |-> <<>>, swipe |-> NoFinger, pan |-> FALSE,
            did |-> FALSE, captured |-> FALSE]
NoDoubt == [lost |-> FALSE, third |-> FALSE]
Loading(i) == [open |-> TRUE, index |-> i, scale |-> "fit", natural |-> FALSE, failed |-> FALSE]
Shut == [Loading(0) EXCEPT !.open = FALSE]

ViewerInit ==
  view = Shut /\ touch = NoTouch /\ hand = [p \in Pointers |-> "up"] /\ doubt = NoDoubt

\* A third pointer is in doubt only as long as the pinch it disturbs.
Doubts(t, d) == doubt' = [d EXCEPT !.third = @ /\ t.pinch # <<>>]

------------------------------------------------------------------------------
(* Pages and scales *)

\* ChatArea mounts the viewer with fresh refs.
OpenPicture ==
  /\ ~view.open
  /\ \E i \in 0..Pictures - 1 : view' = Loading(i)
  /\ UNCHANGED <<touch, hand, doubt>>

Shuts == view' = Shut /\ touch' = NoTouch /\ hand' = [p \in Pointers |-> "up"] /\ doubt' = NoDoubt

\* The close button, or Escape.
ClosePicture == view.open /\ Shuts

\* go: the next page, and every record of a pointer but didGesture forgotten.
Turned(delta) == Loading((view.index + Pictures + delta - 1) % Pictures)
Forgotten(t) == [NoTouch EXCEPT !.did = t.did, !.captured = t.captured]

\* The arrows and the page buttons, if there are pages; fingers may be down.
TurnPage ==
  /\ view.open /\ Pictures > 1
  /\ \E delta \in {0, 2} : view' = Turned(delta)
  /\ touch' = Forgotten(touch) /\ doubt' = NoDoubt
  /\ UNCHANGED hand

ImageLoads ==
  /\ view.open /\ ~view.natural /\ ~view.failed
  /\ \/ view' = [view EXCEPT !.natural = TRUE, !.scale = "fit"]
     \/ view' = [view EXCEPT !.failed = TRUE]
  /\ UNCHANGED <<touch, hand, doubt>>

\* The wheel, + and -, the zoom buttons, 100%, 0 and fit, a double click.
Zoom ==
  /\ view.open
  /\ \E s \in Scales : view' = [view EXCEPT !.scale = s]
  /\ UNCHANGED <<touch, hand, doubt>>

------------------------------------------------------------------------------
(* Pointers *)

\* A pointer goes down on the picture or beside it. Only a picture as large as
\* the screen can be too large for it.
PointerDown(p) ==
  LET ps == IF p \in ToSet(touch.pointers) THEN touch.pointers ELSE Append(touch.pointers, p)
      t == [touch EXCEPT !.pointers = ps]
  IN
  /\ view.open /\ hand[p] = "up"
  /\ hand' = [hand EXCEPT ![p] = "still"]
  /\ \E fits \in BOOLEAN :
       /\ view.scale = "under" \/ ~view.natural => fits
       /\ touch' =
            CASE Len(ps) = 2 ->
                   [t EXCEPT !.pinch = ps, !.did = TRUE, !.swipe = NoFinger, !.pan = FALSE]
              [] Len(ps) > 2 -> t
              [] Len(ps) < 2 /\ ~fits ->
                   [t EXCEPT !.did = FALSE, !.pan = TRUE, !.captured = @ \/ p = Mouse]
              [] Len(ps) < 2 /\ fits ->
                   [t EXCEPT !.did = FALSE, !.swipe = IF p = Mouse THEN @ ELSE p]
  /\ Doubts(touch', [lost |-> doubt.lost /\ p # Mouse, third |-> doubt.third \/ Len(ps) > 2])
  /\ UNCHANGED view

\* Also the mouse above the picture with its button up.
PointerMove(p) ==
  LET pinches == Len(touch.pointers) >= 2 /\ touch.pinch # <<>> IN
  /\ view.open /\ (hand[p] # "up" \/ p = Mouse)
  /\ hand' = IF hand[p] = "up" THEN hand ELSE [hand EXCEPT ![p] = "moved"]
  /\ IF pinches
     THEN \E s \in Scales : view' = [view EXCEPT !.scale = s]
     ELSE UNCHANGED view
  /\ touch' = [touch EXCEPT !.did = @ \/ pinches \/ touch.pan]
  /\ UNCHANGED doubt

\* endGesture's records, if the pinch outlived its pointers.
ReleasedButPinching(p) ==
  [touch EXCEPT !.pointers = RemoveFirst(@, p), !.swipe = NoFinger, !.pan = FALSE,
                !.captured = @ /\ p # Mouse]

\* endGesture's records
Released(p) ==
  LET ps == RemoveFirst(touch.pointers, p) IN
  [touch EXCEPT !.pointers = ps, !.pinch = IF Len(ps) < 2 THEN <<>> ELSE @,
                !.swipe = NoFinger, !.pan = FALSE, !.captured = @ /\ p # Mouse]

\* endGesture: a finger that alone moved far enough turns the page.
Swipes(p) ==
  /\ touch.swipe = p /\ touch.pinch = <<>> /\ ~touch.pan /\ ~touch.did
  /\ hand[p] = "moved"

\* What the browser makes of a pointer that goes up: a click on what is beneath,
\* for a finger only if it is the last and has not moved.
Clicks(p) ==
  {"none"} \cup
  IF p = Mouse \/ (hand[p] = "still" /\ \A q \in Fingers \ {p} : hand[q] = "up")
  THEN {"picture", "backdrop"} ELSE {}

\* onPointerUp, and onClick where the browser makes it one.
PointerUp(p) ==
  LET r == Released(p) IN
  /\ view.open /\ hand[p] # "up"
  /\ hand' = [hand EXCEPT ![p] = "up"]
  /\ \/ /\ Swipes(p)
        /\ touch' = [(IF Pictures > 1 THEN Forgotten(r) ELSE r) EXCEPT !.did = TRUE]
        /\ \E delta \in {0, 2} : view' = IF Pictures > 1 THEN Turned(delta) ELSE view
     \/ \E click \in Clicks(p) :
          /\ click = "backdrop" => r.did
          /\ touch' = IF click = "backdrop" THEN [r EXCEPT !.did = FALSE] ELSE r
          /\ UNCHANGED view
  /\ Doubts(touch', [doubt EXCEPT !.lost = @ /\ p # Mouse])

\* A click beside the picture that follows no gesture closes.
ClickBackdrop(p) ==
  /\ view.open /\ hand[p] # "up"
  /\ "backdrop" \in Clicks(p) /\ ~Released(p).did /\ Shuts

PointerCancel(p) ==
  /\ view.open /\ hand[p] # "up"
  /\ hand' = [hand EXCEPT ![p] = "up"] /\ touch' = Released(p)
  /\ Doubts(touch', doubt)
  /\ UNCHANGED view

\* The mouse button is let go over the toolbar: no handler runs.
LetGoElsewhere ==
  /\ view.open /\ hand[Mouse] # "up" /\ ~touch.captured
  /\ hand' = [hand EXCEPT ![Mouse] = "up"]
  /\ doubt' = [doubt EXCEPT !.lost = Mouse \in ToSet(touch.pointers)]
  /\ UNCHANGED <<view, touch>>

\* A button pressed over the toolbar is let go here: onPointerUp runs.
LetGoHere ==
  /\ view.open /\ hand[Mouse] = "up" /\ touch' = Released(Mouse)
  /\ Doubts(touch', [doubt EXCEPT !.lost = FALSE])
  /\ UNCHANGED <<view, hand>>

ViewerNext ==
  \/ OpenPicture \/ ClosePicture \/ TurnPage \/ ImageLoads \/ Zoom \/ LetGoElsewhere \/ LetGoHere
  \/ \E p \in Pointers : PointerDown(p) \/ PointerMove(p) \/ PointerUp(p) \/ ClickBackdrop(p)
  \/ \E p \in Fingers : PointerCancel(p)

ViewerSpec == ViewerInit /\ [][ViewerNext]_viewerVars

------------------------------------------------------------------------------
(* Properties *)

\* Types; a pointer is recorded once, and a shut viewer keeps no record.
ViewerTypeOK ==
  /\ view \in [open : BOOLEAN, index : 0..Pictures - 1, scale : Scales,
               natural : BOOLEAN, failed : BOOLEAN]
  /\ touch.pointers \in Seq(Pointers) /\ IsInjective(touch.pointers)
  /\ touch.pinch \in Seq(Pointers) /\ Len(touch.pinch) \in {0, 2}
  /\ touch.swipe \in Fingers \cup {NoFinger}
  /\ {touch.pan, touch.did, touch.captured} \subseteq BOOLEAN
  /\ hand \in [Pointers -> {"up", "still", "moved"}]
  /\ doubt \in [lost : BOOLEAN, third : BOOLEAN]
  /\ ~view.open => touch = NoTouch

\* A pinch in progress scales by the distance of the two pointers it began
\* with, and both are still down; unless the mouse button was let go where the
\* viewer could not hear it, which leaves a pointer that is not there, or a
\* third pointer came and takes the place of the first that leaves
\* (ImageLightbox.tsx, pinchRef and pointersRef).
PinchHasItsPointers ==
  touch.pinch # <<>> =>
    \/ doubt.lost \/ doubt.third
    \/ /\ Len(touch.pointers) >= 2 /\ SubSeq(touch.pointers, 1, 2) = touch.pinch
       /\ \A p \in ToSet(touch.pinch) : hand[p] # "up"
=============================================================================
