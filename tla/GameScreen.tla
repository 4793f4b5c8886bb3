----------------------------- MODULE GameScreen -----------------------------
(***************************************************************************)
(* What the application shell needs to know of a game: the screen it shows *)
(* and when it is done.  Which cards lie where, and which move is under    *)
(* way, is left out; SolitarioMouse and SolitarioTouch implement this      *)
(* module (SolitarioScreen says how) and AppShell builds on it.            *)
(***************************************************************************)
CONSTANT TouchWithoutMouse   \* InputType: no fade into the first scene

VARIABLES phase,   \* the state of the game, as far as the screen tells
          done     \* there is no game: HandleIterate answered done

gameScreen == <<phase, done>>

(* The phases in which the game looks at the player's events.              *)
Listens == {"READY_TO_START", "FIRST_SCENE", "IN_GAME", "TERMINATED"}
Fade    == {"FADING_IN", "FADING_OUT", "FADING_AWAY"}
Phase   == Listens \cup Fade \cup {"IN_MSGBOX"}

ScreenTypeOK == phase \in Phase /\ done \in BOOLEAN
-----------------------------------------------------------------------------
(* A game begins: a new object, or the first one.                          *)
Start == done /\ phase' = "READY_TO_START" /\ done' = FALSE

(* An event: a tap or a command wherever the game listens, even before its *)
(* first frame and after its last one; ESC cuts a fade short.              *)
Event ==
    /\ ~done
    /\ \/ phase \in Listens /\ phase' \in {"IN_GAME", "IN_MSGBOX", "FADING_OUT", "TERMINATED"}
       \/ phase \in Fade /\ phase' = "TERMINATED"
    /\ UNCHANGED done

(* Frames.                                                                 *)
FirstFrame ==
    /\ ~done /\ phase = "READY_TO_START"
    /\ phase' = IF TouchWithoutMouse THEN "FIRST_SCENE" ELSE "FADING_IN"
    /\ UNCHANGED done

FirstScene ==
    /\ ~done /\ phase \in {"FADING_IN", "FIRST_SCENE"}
    /\ phase' = "IN_GAME"
    /\ UNCHANGED done

(* The end of a move returns to the state in which the pile was dropped,   *)
(* which may be any the game listens in; a question may come up.           *)
Play ==
    /\ ~done /\ phase = "IN_GAME"
    /\ phase' \in Listens \cup {"IN_MSGBOX"}
    /\ UNCHANGED done

(* The answer to a message box is taken by a frame, never by an event; No  *)
(* returns to where the question was asked.                                *)
Answered ==
    /\ ~done /\ phase = "IN_MSGBOX"
    /\ phase' \in Listens \cup {"FADING_OUT"}
    /\ UNCHANGED done

FadingOut ==
    /\ ~done /\ phase = "FADING_OUT"
    /\ phase' = "FADING_AWAY"
    /\ UNCHANGED done

Terminated ==
    /\ ~done /\ phase \in {"FADING_AWAY", "TERMINATED"}
    /\ phase' = "TERMINATED"
    /\ done' = TRUE
-----------------------------------------------------------------------------
ScreenInit == phase = "READY_TO_START" /\ done = FALSE

ScreenNext ==
    \/ Start \/ Event
    \/ FirstFrame \/ FirstScene \/ Play \/ Answered \/ FadingOut \/ Terminated

ScreenSpec == ScreenInit /\ [][ScreenNext]_gameScreen
=============================================================================
