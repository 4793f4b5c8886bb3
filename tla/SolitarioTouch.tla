--------------------------- MODULE SolitarioTouch ---------------------------
(***************************************************************************)
(* The game in the touch build (HASTOUCH = 1, HASMOUSE = 0).  Other than a *)
(* mouse click, a finger is handled in the event itself, in whatever state *)
(* the machine is, and nothing asks whether a move is under way or whether *)
(* this is the finger that drags.                                          *)
(***************************************************************************)
EXTENDS SolitarioScreen

CONSTANT MaxFingers   \* fingers that can be on the screen at a time

ASSUME TouchAssumption == MaxFingers \in Nat /\ TouchWithoutMouse

VARIABLES fingers, \* number of fingers on the screen
          tapped   \* _lastUpTimestamp # 0

touch == <<fingers, tapped>>
vars  == <<gameVars, touch>>

FingersOK == fingers \in 0..MaxFingers /\ tapped \in BOOLEAN
TouchTypeOK == TypeOK /\ FingersOK
-----------------------------------------------------------------------------
(* A tap within 300 ms of the one before is a double tap.                  *)
Tap(st) ==
    \/ singleTapOrLeftClick(st)
    \/ tapped /\ doubleTapOrRightClick(st)

(* ButtonGfx::FingerDown asks for nothing but the place of the finger.     *)
(* When it has opened its question, the same finger taps what lies under   *)
(* the button, and a move that begins takes the place of the question.     *)
FingerDownOnButton ==
    /\ Listening
    /\ \/ Commanded("NEW_GAME") /\ ShowYesNo(state, "DO_NEWGAME")
       \/ Commanded("QUIT") /\ ShowYesNo(state, "FADING_OUT")
    /\ Tap("IN_MSGBOX")
    /\ UNCHANGED <<statePrev, stateAfter, vict, done, startdrag, continueLamda,
                   saves, dealtStock>>

FingerDownOnTable ==
    /\ Listening
    /\ Tap(state)
    /\ UNCHANGED <<flow, startdrag, continueLamda, observed>>

FingerDown ==
    /\ ~done /\ fingers < MaxFingers
    /\ fingers' = fingers + 1
    /\ tapped' = (tapped \/ Listening)
    /\ \/ FingerDownOnButton
       \/ FingerDownOnTable
       \/ DismissVictory
       \/ \E res \in {"RES_YES", "RES_NO"} : ButCmdClicked(res)
       \/ ~Listening /\ state \notin Victory /\ UNCHANGED gameVars

FingerUp ==
    /\ ~done /\ fingers > 0
    /\ fingers' = fingers - 1
    /\ UNCHANGED tapped
    /\ \/ /\ Listening
          /\ isInitDrag' = FALSE
          /\ endOfDragAndCheckForVictory(state)
          /\ UNCHANGED <<selected, continueFn, dropRegion, cardStackForDrag, interrupts,
                         stateAfter, stateAfterYes, stateAfterNo, msgBox, vict, done>>
       \/ ~Listening /\ UNCHANGED gameVars

Iterate == HandleIterate /\ UNCHANGED touch
-----------------------------------------------------------------------------
TouchInit == Init /\ fingers = 0 /\ tapped = FALSE

TouchNext ==
    \/ Iterate
    \/ FingerDown \/ FingerUp
    \/ (KeyDownEvent \/ QuitEvent \/ DismissVictory) /\ UNCHANGED touch
    \/ StartGameLoop /\ fingers' \in 0..MaxFingers /\ tapped' = FALSE

Spec == TouchInit /\ [][TouchNext]_vars
=============================================================================
