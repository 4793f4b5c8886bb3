-------------------------- MODULE SolitarioScreen --------------------------
(***************************************************************************)
(* The game as a GameScreen, which is all that the application shell knows *)
(* of it.  The mouse build and the touch build implement it alike.         *)
(***************************************************************************)
EXTENDS SolitarioGame

(* A question is open, or will be again when the zoom of a drop is over.   *)
BoxUp == state = "IN_MSGBOX" \/ (state \in Zoom /\ statePrev = "IN_MSGBOX")

(* The screen the player sees in a state of the machine.  A drop under an  *)
(* open question zooms first, then the question is back.                   *)
PhaseOf ==
    CASE BoxUp -> "IN_MSGBOX"
      [] state = "WAIT_FOR_FADING" ->
           IF stateAfter = "TERMINATED" THEN "FADING_AWAY" ELSE "FADING_IN"
      [] state \in {"READY_TO_START", "FIRST_SCENE", "FADING_OUT", "TERMINATED"} -> state
      [] OTHER -> "IN_GAME"

Screen == INSTANCE GameScreen WITH phase <- PhaseOf

(* Whatever the player does, the game fades in before it is played unless  *)
(* a tap came first, asks before it acts, fades away when it is left, and  *)
(* answers done only then: it is the game screen the shell counts on.      *)
IsGameScreen == Screen!ScreenSpec
=============================================================================
