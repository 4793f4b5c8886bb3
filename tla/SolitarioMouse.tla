--------------------------- MODULE SolitarioMouse ---------------------------
(***************************************************************************)
(* The game in the desktop build (HASMOUSE = 1, HASTOUCH = 0): the events  *)
(* of mouse and keyboard that HandleEvent passes on between two frames,    *)
(* beside the frames of SolitarioGame.                                     *)
(***************************************************************************)
EXTENDS SolitarioScreen

CONSTANT MouseButtons   \* the buttons the player uses: LEFT, RIGHT

ASSUME MouseAssumption ==
    /\ MouseButtons \subseteq {"LEFT", "RIGHT"}
    /\ TouchWithoutMouse = FALSE

VARIABLES pressed, \* the mouse buttons that are down (SDL and the player)
          clicked  \* _lastUpTimestamp # 0

mouse == <<pressed, clicked>>
vars  == <<gameVars, mouse>>

MouseOK == pressed \subseteq MouseButtons /\ clicked \in BOOLEAN
MouseTypeOK == TypeOK /\ MouseOK
-----------------------------------------------------------------------------
(* SDL_EVENT_MOUSE_BUTTON_DOWN.  A left click within 300 ms of the one     *)
(* before is a double click: which it is, is the player's choice, but for  *)
(* the first one.  The state is overwritten whatever it was; the tap       *)
(* itself waits for a frame.                                               *)
Taps(b) ==
    IF b = "LEFT" THEN {"IN_SINGLE_TAPCLICK"} \cup (IF clicked THEN {"IN_DOUBLE_TAPCLICK"} ELSE {})
    ELSE {"IN_DOUBLE_TAPCLICK"}

MouseDown(b) ==
    /\ ~done
    /\ b \in MouseButtons \ pressed
    /\ pressed' = pressed \cup {b}
    /\ \/ DismissVictory /\ UNCHANGED clicked
       \/ /\ Listening /\ state \notin InitDrag /\ ~startdrag
          /\ \E s \in Taps(b) : Goto(s)
          /\ clicked' = (clicked \/ b = "LEFT")
          /\ UNCHANGED interrupts
       \/ /\ state \notin Victory
          /\ ~Listening \/ state \in InitDrag \/ startdrag
          /\ UNCHANGED <<gameVars, clicked>>

(* SDL_EVENT_MOUSE_BUTTON_UP: the button under the pointer is clicked, then *)
(* a drag ends.  Buttons are disabled in no state that is Listening.        *)
MouseUpInGame ==
    /\ Listening
    /\ isInitDrag' = FALSE
    /\ \/ /\ endOfDragAndCheckForVictory(state)
          /\ UNCHANGED <<stateAfterYes, stateAfterNo, msgBox, interrupts>>
       \/ /\ endOfDragAndCheckForVictory("IN_MSGBOX")
          /\ \/ Commanded("NEW_GAME") /\ ShowYesNo(state, "DO_NEWGAME")
             \/ Commanded("QUIT") /\ ShowYesNo(state, "FADING_OUT")
    /\ UNCHANGED <<selected, continueFn, dropRegion, cardStackForDrag,
                   stateAfter, vict, done>>

MouseUp(b) ==
    /\ ~done
    /\ b \in pressed
    /\ pressed' = pressed \ {b}
    /\ UNCHANGED clicked
    /\ \/ MouseUpInGame
       \/ \E res \in {"RES_YES", "RES_NO"} : ButCmdClicked(res)
       \/ ~Listening /\ UNCHANGED gameVars

KeyDown == KeyDownEvent /\ UNCHANGED mouse

Quit ==
    /\ QuitEvent \/ DismissVictory
    /\ UNCHANGED mouse

Iterate == HandleIterate /\ UNCHANGED mouse

NewGameLoop == StartGameLoop /\ pressed' \in SUBSET MouseButtons /\ clicked' = FALSE
-----------------------------------------------------------------------------
MouseInit == Init /\ pressed = {} /\ clicked = FALSE

MouseNext ==
    \/ Iterate
    \/ \E b \in MouseButtons : MouseDown(b) \/ MouseUp(b)
    \/ KeyDown
    \/ Quit
    \/ NewGameLoop

Spec == MouseInit /\ [][MouseNext]_vars

(* SDL calls AppIterate again and again.                                   *)
FairSpec == Spec /\ WF_vars(Iterate)

(* Moreover no mouse button is held down for ever.                         *)
FairMouseSpec == FairSpec /\ \A b \in MouseButtons : WF_vars(MouseUp(b))
-----------------------------------------------------------------------------
(* PROPERTIES                                                              *)

(* A finished game is noticed: when the last card is on its foundation the *)
(* machine goes on to bonus, high score and victory animation, however the *)
(* card got there.                                                         *)
WinNoticed == Won(pile) ~> (saves > 0 \/ ~Won(pile) \/ done)

(* The points of a move are given by its lambda; the move that wins the    *)
(* game gets them before the bonus is computed and the score is saved.     *)
WinningMovePaid ==
    [][saves' > saves => continueLamda' = "NULL"]_<<saves, continueLamda>>
-----------------------------------------------------------------------------
(* THE INDUCTIVE INVARIANT                                                 *)

(* What the state members may hold: those that lead to another state are   *)
(* set by the time the machine looks at them.                              *)
YesNo == BoxUp /\ msgBox.type = "TY_MB_YES_NO"

StateMembers ==
    /\ stateAfter \in {Unset, "FIRST_SCENE", "TERMINATED", "DO_NEWGAME"}
    /\ stateAfterYes \in {Unset, "DO_NEWGAME", "FADING_OUT"}
    /\ stateAfterNo \notin Victory \cup Zoom \cup Fading \cup {"IN_MSGBOX"}
    /\ state = "WAIT_FOR_FADING" => stateAfter # Unset
    /\ state \in Zoom => /\ statePrev \notin InitDrag \cup Zoom \cup Fading \cup {Unset}
                         /\ YesNo => stateAfterNo \notin InitDrag
    /\ BoxUp => msgBox.type # "NULL"
    /\ BoxUp /\ msgBox.type = "TY_MBOK" => stateAfter # Unset
    /\ YesNo => stateAfterYes # Unset /\ stateAfterNo # Unset

(* The machine is on the way from a tap to _continueFnCb, or comes back to *)
(* it when the player answers No: the cargo is there, the region it came   *)
(* from is known, and a double tap still knows where it goes.              *)
OnTheWay == state \in InitDrag \/ (YesNo /\ stateAfterNo \in InitDrag)

CargoOnTheWay ==
    /\ OnTheWay => dragStack # <<>>
    /\ OnTheWay \/ startdrag => selected \in Region
    /\ OnTheWay /\ continueFn = "DoubleTap" => dropRegion \in Aces
    /\ continueLamda = "DoubleTap" => state \in Zoom /\ dropRegion \in Aces

(* While a pile follows the pointer no other move can begin.               *)
OneMoveAtATime ==
    startdrag => /\ state \notin InitDrag \cup TapClick \cup Zoom
                 /\ YesNo => stateAfterNo \notin InitDrag \cup TapClick

ControlInv == StateMembers /\ CargoOnTheWay /\ OneMoveAtATime
=============================================================================
