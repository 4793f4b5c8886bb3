----------------------- MODULE SolitarioMouse_proofs ------------------------
(***************************************************************************)
(* The mouse build, for every deck, every number of piles, every set of    *)
(* commands and every number of interrupted moves.                         *)
(*                                                                         *)
(* The members of SolitarioGfx that lead from one state to the next are    *)
(* set when they are used, and a move finds its cargo, its source and its  *)
(* destination.  The invariant is ControlInv together with the type        *)
(* invariant; one lemma per action shows that it is preserved.             *)
(*                                                                         *)
(* However often new games and victories cut into a move, no card is lost. *)
(* If moves are left alone (Interrupts = 0), ICards is inductive: no card  *)
(* is anywhere twice, every pile fits its region, and the cards of a move  *)
(* are off the table only while the move is under way, and fit where they  *)
(* were taken from or where they are going.  So every card is there once,  *)
(* the foundations and the tableau are built by the rules, and a score is  *)
(* saved for a finished game only.                                         *)
(***************************************************************************)
EXTENDS SolitarioMouse, SolitarioGame_proofs

USE DEF Victory, InitDrag, TapClick, Zoom, Fading, State, Unset, GameFlowOK

IInv == MouseTypeOK /\ ControlInv

FlowOK == GameFlowOK /\ MouseOK

LEMMA TypeParts == MouseTypeOK <=> TableOK /\ TapOK /\ FlowOK
BY DEF MouseTypeOK, TypeOK, TableOK, TapOK, FlowOK
-----------------------------------------------------------------------------
(* The frames.  current is the state but at the end of a fade.             *)

LEMMA CurrentFacts ==
    ASSUME IInv
    PROVE  /\ state \in State
           /\ state # "WAIT_FOR_FADING" => current = state
           /\ state = "WAIT_FOR_FADING" =>
                current = stateAfter /\ current \in {"FIRST_SCENE", "TERMINATED", "DO_NEWGAME"}
BY DEF IInv, MouseTypeOK, TypeOK, ControlInv, StateMembers, current

(* The invariant of the next state, part by part.                          *)
LEMMA NextParts ==
    ASSUME TableOK', TapOK', FlowOK', StateMembers', CargoOnTheWay', OneMoveAtATime'
    PROVE  IInv'
BY DEF IInv, MouseTypeOK, TypeOK, TableOK, TapOK, FlowOK, ControlInv

(* What a lemma about a frame may use of the invariant.                    *)
LEMMA Invariant ==
    ASSUME IInv
    PROVE  TableOK /\ TapOK /\ FlowOK /\ StateMembers /\ CargoOnTheWay /\ OneMoveAtATime
BY TypeParts DEF IInv, ControlInv

(* The buttons of a step that leaves the mouse alone, and what a button    *)
(* that goes down may be taken for.                                        *)
LEMMA SameMouse == ASSUME MouseOK, UNCHANGED mouse PROVE MouseOK'
BY DEF MouseOK, mouse

LEMMA TapsClick == ASSUME NEW b PROVE Taps(b) \subseteq TapClick
BY DEF Taps, TapClick

(* Frames that touch neither the cards nor what a tap has set.             *)
LEMMA ControlFrameInv == ASSUME IInv, ControlFrame, MouseOK' PROVE IInv'
<1> USE DEF StateMembers, BoxUp, YesNo, flow, observed, MsgBox, ShowYesNo
<1>0. /\ FlowOK /\ StateMembers /\ CargoOnTheWay /\ OneMoveAtATime
      /\ TableOK /\ TapOK
  BY Invariant
<1>1. UNCHANGED <<table, tap, startdrag, continueLamda, observed>>
  BY DEF ControlFrame, FirstFrame, FirstScene, InitDragStep1, InitDragStep2, ZoomEnd,
         InGame, AskForNewGame, FadingOut, VictoryAnimationIterate, ShowScore,
         Terminated, MsgBoxDone
<1>2. TableOK' /\ TapOK'
  BY <1>0, <1>1 DEF TableOK, TapOK, table, tap
<1>3. StateMembers' /\ FlowOK'
  <2>1. CASE FirstFrame
    BY <1>0, <1>1, <2>1, CurrentFacts, MouseAssumption DEF FirstFrame, FlowOK
  <2>2. CASE FirstScene
    BY <1>0, <1>1, <2>2, CurrentFacts, MouseAssumption DEF FirstScene, FlowOK
  <2>3. CASE InitDragStep1
    BY <1>0, <1>1, <2>3, CurrentFacts, MouseAssumption DEF InitDragStep1, FlowOK
  <2>4. CASE InitDragStep2
    BY <1>0, <1>1, <2>4, CurrentFacts, MouseAssumption DEF InitDragStep2, FlowOK
  <2>5. CASE ZoomEnd
    BY <1>0, <1>1, <2>5, CurrentFacts, MouseAssumption DEF ZoomEnd, FlowOK
  <2>6. CASE InGame
    BY <1>0, <1>1, <2>6, CurrentFacts, MouseAssumption DEF InGame, FlowOK
  <2>7. CASE AskForNewGame
    BY <1>0, <1>1, <2>7, CurrentFacts, MouseAssumption DEF AskForNewGame, FlowOK
  <2>8. CASE FadingOut
    BY <1>0, <1>1, <2>8, CurrentFacts, MouseAssumption DEF FadingOut, FlowOK
  <2>9. CASE VictoryAnimationIterate
    <3>1. /\ state' \in {"NEW_CARD_VICTORY", "IN_CARD_VICTORY", "IN_GAME"}
          /\ vict' \in BOOLEAN
          /\ UNCHANGED <<statePrev, stateAfter, stateAfterYes, stateAfterNo, msgBox, done>>
      BY <1>0, <2>9 DEF VictoryAnimationIterate, FlowOK
    <3>2. FlowOK'
      BY <1>0, <1>1, <3>1 DEF FlowOK
    <3>3. StateMembers'
      BY <1>0, <3>1
    <3> QED BY <3>2, <3>3
  <2>10. CASE ShowScore
    BY <1>0, <1>1, <2>10, CurrentFacts, MouseAssumption DEF ShowScore, FlowOK
  <2>11. CASE Terminated
    BY <1>0, <1>1, <2>11, CurrentFacts, MouseAssumption DEF Terminated, FlowOK
  <2>12. CASE MsgBoxDone
    <3>1. state = "IN_MSGBOX" /\ statePrev' = "IN_MSGBOX"
      BY <1>0, <2>12, CurrentFacts DEF MsgBoxDone
    <3>2. \/ state' \in State \ (Zoom \cup Fading \cup {"IN_MSGBOX"})
          \/ state' = "FADING_OUT"
      <4>1. msgBox.type \in {"TY_MBOK", "TY_MB_YES_NO"}
        BY <1>0, <3>1 DEF FlowOK
      <4>2. CASE msgBox.type = "TY_MBOK"
        <5>1. state' = stateAfter
          BY <2>12, <4>2 DEF MsgBoxDone
        <5> QED BY <1>0, <3>1, <4>2, <5>1
      <4>3. CASE msgBox.type # "TY_MBOK"
        <5>1. state' \in {stateAfterYes, stateAfterNo}
          BY <2>12, <4>3 DEF MsgBoxDone
        <5> QED BY <1>0, <3>1, <4>1, <4>3, <5>1 DEF FlowOK
      <4> QED BY <4>2, <4>3
    <3>3. UNCHANGED <<stateAfter, stateAfterYes, stateAfterNo, msgBox, vict, done>>
      BY <2>12 DEF MsgBoxDone
    <3>4. FlowOK'
      BY <1>0, <1>1, <3>1, <3>2, <3>3 DEF FlowOK
    <3>5. StateMembers'
      BY <1>0, <3>1, <3>2, <3>3
    <3> QED BY <3>4, <3>5
  <2> QED BY <2>1, <2>2, <2>3, <2>4, <2>5, <2>6, <2>7, <2>8, <2>9, <2>10, <2>11, <2>12 DEF ControlFrame
<1>4. CargoOnTheWay' /\ OneMoveAtATime'
  <2>1. CASE FirstFrame
    BY <1>0, <1>1, <2>1, CurrentFacts, MouseAssumption
       DEF FirstFrame, FlowOK, CargoOnTheWay, OnTheWay, OneMoveAtATime, table, tap
  <2>2. CASE FirstScene
    BY <1>0, <1>1, <2>2, CurrentFacts, MouseAssumption
       DEF FirstScene, FlowOK, CargoOnTheWay, OnTheWay, OneMoveAtATime, table, tap
  <2>3. CASE InitDragStep1
    BY <1>0, <1>1, <2>3, CurrentFacts, MouseAssumption
       DEF InitDragStep1, FlowOK, CargoOnTheWay, OnTheWay, OneMoveAtATime, table, tap
  <2>4. CASE InitDragStep2
    BY <1>0, <1>1, <2>4, CurrentFacts, MouseAssumption
       DEF InitDragStep2, FlowOK, CargoOnTheWay, OnTheWay, OneMoveAtATime, table, tap
  <2>5. CASE ZoomEnd
    BY <1>0, <1>1, <2>5, CurrentFacts, MouseAssumption
       DEF ZoomEnd, FlowOK, CargoOnTheWay, OnTheWay, OneMoveAtATime, table, tap
  <2>6. CASE InGame
    BY <1>0, <1>1, <2>6, CurrentFacts, MouseAssumption
       DEF InGame, FlowOK, CargoOnTheWay, OnTheWay, OneMoveAtATime, table, tap
  <2>7. CASE AskForNewGame
    BY <1>0, <1>1, <2>7, CurrentFacts, MouseAssumption
       DEF AskForNewGame, FlowOK, CargoOnTheWay, OnTheWay, OneMoveAtATime, table, tap
  <2>8. CASE FadingOut
    BY <1>0, <1>1, <2>8, CurrentFacts, MouseAssumption
       DEF FadingOut, FlowOK, CargoOnTheWay, OnTheWay, OneMoveAtATime, table, tap
  <2>9. CASE VictoryAnimationIterate
    BY <1>0, <1>1, <2>9, CurrentFacts, MouseAssumption
       DEF VictoryAnimationIterate, FlowOK, CargoOnTheWay, OnTheWay, OneMoveAtATime, table, tap
  <2>10. CASE ShowScore
    BY <1>0, <1>1, <2>10, CurrentFacts, MouseAssumption
       DEF ShowScore, FlowOK, CargoOnTheWay, OnTheWay, OneMoveAtATime, table, tap
  <2>11. CASE Terminated
    BY <1>0, <1>1, <2>11, CurrentFacts, MouseAssumption
       DEF Terminated, FlowOK, CargoOnTheWay, OnTheWay, OneMoveAtATime, table, tap
  <2>12. CASE MsgBoxDone
    BY <1>0, <1>1, <2>12, CurrentFacts, MouseAssumption
       DEF MsgBoxDone, FlowOK, CargoOnTheWay, OnTheWay, OneMoveAtATime, table, tap
  <2> QED BY <2>1, <2>2, <2>3, <2>4, <2>5, <2>6, <2>7, <2>8, <2>9, <2>10, <2>11, <2>12 DEF ControlFrame
<1> QED BY <1>2, <1>3, <1>4, NextParts

LEMMA DoNewGameInv == ASSUME IInv, DoNewGame, MouseOK' PROVE IInv'
<1>0. /\ FlowOK /\ StateMembers /\ CargoOnTheWay /\ OneMoveAtATime
      /\ TableOK /\ TapOK
  BY Invariant
<1>1. /\ newGame /\ state' = "IN_GAME" /\ statePrev' = "IN_GAME"
      /\ UNCHANGED <<dragStack, stateAfter, stateAfterYes, stateAfterNo, msgBox, done,
                     startdrag, continueLamda, interrupts>>
      /\ UNCHANGED <<selected, continueFn, isInitDrag, dropRegion, cardStackForDrag>>
      /\ state \in {"DO_NEWGAME", "WAIT_FOR_FADING"}
  BY CurrentFacts DEF DoNewGame, tap
<1>2. TableOK' /\ TapOK'
  BY <1>0, <1>1, NewGameType DEF TableOK, TapOK
<1>3. FlowOK'
  BY <1>0, <1>1, NewGameType DEF FlowOK, MaxSaves
<1>4. StateMembers' /\ CargoOnTheWay' /\ OneMoveAtATime'
  BY <1>0, <1>1 DEF StateMembers, CargoOnTheWay, OnTheWay, OneMoveAtATime, BoxUp, YesNo
<1> QED BY <1>2, <1>3, <1>4, NextParts

LEMMA FromSingleTapAInv ==
    ASSUME IInv, InitDragAfterFromSingleTapA, MouseOK' PROVE IInv'
<1>0. /\ FlowOK /\ StateMembers /\ CargoOnTheWay /\ OneMoveAtATime
      /\ TableOK /\ TapOK
  BY Invariant
<1>1. /\ state = "INITDRAG_AFTER" /\ state' = "IN_GAME"
      /\ continueFn' = "NULL"
      /\ startdrag' \in BOOLEAN /\ isInitDrag' \in BOOLEAN
      /\ UNCHANGED <<table, selected, dropRegion, cardStackForDrag, flow, continueLamda,
                     observed>>
  BY <1>0, CurrentFacts DEF InitDragAfterFromSingleTapA, FlowOK, TapOK
<1>2. TableOK' /\ TapOK'
  BY <1>0, <1>1 DEF TableOK, TapOK, table, observed, ContinueFn
<1>3. FlowOK'
  BY <1>0, <1>1 DEF FlowOK, flow, observed
<1>4. StateMembers' /\ CargoOnTheWay' /\ OneMoveAtATime'
  BY <1>0, <1>1
     DEF StateMembers, CargoOnTheWay, OnTheWay, OneMoveAtATime, BoxUp, YesNo, flow, table
<1> QED BY <1>2, <1>3, <1>4, NextParts

(* The cargo falls in INITDRAG_AFTER: the two actions below.               *)
LEMMA DropInAfter ==
    ASSUME IInv, current = "INITDRAG_AFTER",
           NEW given \in Region \cup {NoRegion}, NEW dest \in DropTargets(given),
           DoDrop(dest, "IN_GAME"), state' \in AfterDrop(dest), continueFn' = "NULL",
           continueLamda' \in {continueLamda, "SingleTapB", "SingleTapC"}
              \/ (continueLamda' = "DoubleTap" /\ continueFn = "DoubleTap"),
           UNCHANGED <<selected, isInitDrag, dropRegion, cardStackForDrag,
                       stateAfter, stateAfterYes, stateAfterNo, msgBox, vict, done,
                       startdrag, observed>>,
           MouseOK'
    PROVE  IInv'
<1>0. /\ FlowOK /\ StateMembers /\ CargoOnTheWay /\ OneMoveAtATime
      /\ TableOK /\ TapOK
  BY Invariant
<1>1. state = "INITDRAG_AFTER" /\ ~startdrag /\ selected \in Region
      /\ (continueFn = "DoubleTap" => dropRegion \in Aces)
      /\ continueLamda # "DoubleTap"
  BY <1>0, CurrentFacts DEF CargoOnTheWay, OnTheWay, OneMoveAtATime
<1>2. /\ pile' = Dropped(dest) /\ dragStack' = <<>> /\ statePrev' = "IN_GAME"
      /\ state' \in Zoom
  BY AfterDropType DEF DoDrop
<1>3. TableOK' /\ TapOK'
  BY <1>0, <1>2, DropType DEF TableOK, TapOK, observed, ContinueFn
<1>4. FlowOK'
  BY <1>0, <1>2 DEF FlowOK, observed, ContinueLamda
<1>5. StateMembers' /\ CargoOnTheWay' /\ OneMoveAtATime'
  BY <1>0, <1>1, <1>2
     DEF StateMembers, CargoOnTheWay, OnTheWay, OneMoveAtATime, BoxUp, YesNo
<1> QED BY <1>3, <1>4, <1>5, NextParts

LEMMA ForcedDropInv == ASSUME IInv, ForcedDrop, MouseOK' PROVE IInv'
BY DropInAfter DEF ForcedDrop

LEMMA FromGivenInv == ASSUME IInv, InitDragAfterGiven, MouseOK' PROVE IInv'
<1> DEFINE given == [SingleTapB |-> DeckPile_Ix, SingleTapC |-> DeckFaceUp,
                     DoubleTap |-> dropRegion]
<1>1. continueFn \in {"SingleTapB", "SingleTapC", "DoubleTap"}
  BY DEF InitDragAfterGiven
<1>2. given[continueFn] \in Region \cup {NoRegion}
  BY <1>1, Invariant, RegionFacts DEF TapOK
<1>3. /\ current = "INITDRAG_AFTER"
      /\ \E dest \in DropTargets(given[continueFn]) :
            DoDrop(dest, "IN_GAME") /\ state' \in AfterDrop(dest)
      /\ continueLamda' = continueFn /\ continueFn' = "NULL"
      /\ UNCHANGED <<selected, isInitDrag, dropRegion, cardStackForDrag,
                     stateAfter, stateAfterYes, stateAfterNo, msgBox, vict, done,
                     startdrag, observed>>
  BY DEF InitDragAfterGiven
<1> HIDE DEF given
<1> QED BY <1>1, <1>2, <1>3, DropInAfter

LEMMA ZoomTerminatedInv == ASSUME IInv, ZoomTerminated, MouseOK' PROVE IInv'
<1>0. /\ FlowOK /\ StateMembers /\ CargoOnTheWay /\ OneMoveAtATime
      /\ TableOK /\ TapOK
  BY Invariant
<1>1. /\ state = "IN_ZOOM_TERMINATED" /\ startdrag = FALSE
      /\ statePrev \in State \ (InitDrag \cup Zoom \cup Fading)
      /\ YesNo => stateAfterNo \notin InitDrag
  <2>1. state = "IN_ZOOM_TERMINATED"
    BY <1>0, CurrentFacts DEF ZoomTerminated
  <2>2. statePrev \in State \cup {Unset} /\ startdrag \in BOOLEAN
    BY <1>0 DEF FlowOK
  <2>3. startdrag = FALSE
    BY <1>0, <2>1, <2>2 DEF OneMoveAtATime
  <2>4. statePrev \in State \ (InitDrag \cup Zoom \cup Fading) /\ (YesNo => stateAfterNo \notin InitDrag)
    BY <1>0, <2>1, <2>2 DEF StateMembers
  <2> QED BY <2>1, <2>3, <2>4
<1>2. /\ UNCHANGED <<dragStack, selected, continueFn, isInitDrag, flow, startdrag,
                     dealtStock, interrupts>>
      /\ continueLamda' = "NULL"
      /\ dropRegion' \in {dropRegion, NoRegion} /\ cardStackForDrag' \in {cardStackForDrag, FALSE}
  BY DEF ZoomTerminated
<1>3. state' \in {statePrev, "START_VICTORY"} /\ saves' \in 0..MaxSaves
  BY <1>0, CheckForVictoryType DEF ZoomTerminated, FlowOK
<1>4. pile' \in [Region -> Seq(Card)]
  <2>1. pile[DeckPile_Ix] \in Seq(Card)
    BY <1>0, RegionFacts DEF TableOK
  <2>2. Reversed(pile[DeckPile_Ix]) \in Seq(Card)
    BY <2>1, ReversedType
  <2>3. pile' = [pile EXCEPT ![DeckPile_Ix] = Reversed(pile[DeckPile_Ix])] \/ pile' = pile
    BY DEF ZoomTerminated, PileAfterLamda
  <2> QED BY <1>0, <2>2, <2>3 DEF TableOK
<1>5. TableOK' /\ TapOK'
  BY <1>0, <1>2, <1>4 DEF TableOK, TapOK
<1>6. FlowOK'
  BY <1>0, <1>1, <1>2, <1>3 DEF FlowOK, flow, ContinueLamda
<1>7. YesNo' => stateAfterNo' \notin InitDrag
  BY <1>1, <1>2, <1>3 DEF YesNo, BoxUp, flow
<1>8. StateMembers'
  BY <1>0, <1>1, <1>2, <1>3, <1>7 DEF StateMembers, BoxUp, YesNo, flow
<1>9. CargoOnTheWay' /\ OneMoveAtATime'
  BY <1>1, <1>2, <1>3, <1>7 DEF CargoOnTheWay, OnTheWay, OneMoveAtATime, flow
<1> QED BY <1>5, <1>6, <1>8, <1>9, NextParts

LEMMA TapIterateInv == ASSUME IInv, TapIterate, MouseOK' PROVE IInv'
<1>0. /\ FlowOK /\ StateMembers /\ CargoOnTheWay /\ OneMoveAtATime
      /\ TableOK /\ TapOK
  BY Invariant
<1>1. /\ state \in TapClick /\ startdrag = FALSE
      /\ continueLamda # "DoubleTap"
      /\ UNCHANGED <<flow, startdrag, continueLamda, observed>>
  BY <1>0, CurrentFacts DEF TapIterate, OneMoveAtATime, CargoOnTheWay, FlowOK
<1>2. TapResult("IN_GAME")
  BY <1>0, SingleTapType, DoubleTapType DEF TapIterate, observed
<1>3. FlowOK'
  BY <1>0, <1>1, <1>2 DEF FlowOK, TapResult, flow, observed
<1>4. /\ state' \in {"IN_GAME", "INITDRAG_STEP1"}
      /\ state' = "INITDRAG_STEP1" => /\ dragStack' # <<>> /\ selected' \in Region
                                      /\ continueFn' = "DoubleTap" => dropRegion' \in Aces
  BY <1>2 DEF TapResult
<1>5. StateMembers'
  BY <1>0, <1>1, <1>4 DEF StateMembers, BoxUp, YesNo, flow
<1>6. CargoOnTheWay' /\ OneMoveAtATime'
  BY <1>1, <1>4 DEF CargoOnTheWay, OnTheWay, OneMoveAtATime, BoxUp, YesNo
<1> QED BY <1>2, <1>3, <1>5, <1>6, NextParts DEF TapResult

LEMMA IterateInv == ASSUME IInv, Iterate PROVE IInv'
<1>1. MouseOK'
  BY Invariant, SameMouse DEF FlowOK, Iterate
<1> QED BY <1>1, ControlFrameInv, DoNewGameInv, FromSingleTapAInv, ForcedDropInv,
           FromGivenInv, ZoomTerminatedInv, TapIterateInv
        DEF Iterate, HandleIterate, ControlFrame
-----------------------------------------------------------------------------
(* The events.                                                             *)

LEMMA CommandedType ==
    ASSUME FlowOK, NEW cmd, Commanded(cmd) PROVE interrupts' \in 0..Interrupts
BY GameAssumption DEF FlowOK, Commanded

(* An event that only assigns _state.                                      *)
LEMMA GotoInv ==
    ASSUME IInv, NEW s \in State \ (InitDrag \cup Zoom \cup {"IN_MSGBOX", "WAIT_FOR_FADING"}),
           s \in TapClick => ~startdrag,
           state \notin Zoom,
           Goto(s), interrupts' \in 0..Interrupts, MouseOK'
    PROVE  IInv'
<1>0. /\ FlowOK /\ StateMembers /\ CargoOnTheWay /\ OneMoveAtATime
      /\ TableOK /\ TapOK
  BY Invariant
<1>1. /\ state' = s
      /\ UNCHANGED <<table, tap, flow, startdrag, continueLamda, saves, dealtStock>>
  BY DEF Goto
<1>2. TableOK' /\ TapOK'
  BY <1>0, <1>1 DEF TableOK, TapOK, table, tap
<1>3. FlowOK'
  BY <1>0, <1>1 DEF FlowOK, flow
<1>4. StateMembers' /\ CargoOnTheWay' /\ OneMoveAtATime'
  BY <1>0, <1>1
     DEF StateMembers, CargoOnTheWay, OnTheWay, OneMoveAtATime, BoxUp, YesNo, flow, table, tap
<1> QED BY <1>2, <1>3, <1>4, NextParts

LEMMA DismissVictoryInv ==
    ASSUME IInv, DismissVictory, MouseOK' PROVE IInv'
<1>0. /\ FlowOK /\ StateMembers /\ CargoOnTheWay /\ OneMoveAtATime
      /\ TableOK /\ TapOK
  BY Invariant
<1>1. /\ state \in Victory /\ state' = "SHOW_SCORE" /\ vict' = FALSE
      /\ UNCHANGED <<table, tap, statePrev, stateAfter, stateAfterYes, stateAfterNo, msgBox,
                     done, startdrag, continueLamda, observed>>
  BY DEF DismissVictory
<1>2. TableOK' /\ TapOK'
  BY <1>0, <1>1 DEF TableOK, TapOK, table, tap, observed
<1>3. FlowOK'
  BY <1>0, <1>1 DEF FlowOK, observed
<1>4. StateMembers' /\ CargoOnTheWay' /\ OneMoveAtATime'
  BY <1>0, <1>1
     DEF StateMembers, CargoOnTheWay, OnTheWay, OneMoveAtATime, BoxUp, YesNo, table, tap
<1> QED BY <1>2, <1>3, <1>4, NextParts

LEMMA ButCmdClickedInv ==
    ASSUME IInv, NEW res \in {"RES_YES", "RES_NO"}, ButCmdClicked(res),
           MouseOK'
    PROVE  IInv'
<1>0. /\ FlowOK /\ StateMembers /\ CargoOnTheWay /\ OneMoveAtATime
      /\ TableOK /\ TapOK
  BY Invariant
<1>1. UNCHANGED <<table, tap, state, statePrev, stateAfter, stateAfterYes, stateAfterNo,
                  vict, done, startdrag, continueLamda, observed>>
  BY DEF ButCmdClicked
<1>2. msgBox' \in MsgBox /\ msgBox'.type = msgBox.type
  BY <1>0 DEF ButCmdClicked, FlowOK, MsgBox
<1>3. TableOK' /\ TapOK'
  BY <1>0, <1>1 DEF TableOK, TapOK, table, tap, observed
<1>4. FlowOK'
  BY <1>0, <1>1, <1>2 DEF FlowOK, observed
<1>5. StateMembers' /\ CargoOnTheWay' /\ OneMoveAtATime'
  BY <1>0, <1>1, <1>2
     DEF StateMembers, CargoOnTheWay, OnTheWay, OneMoveAtATime, BoxUp, YesNo, table, tap
<1> QED BY <1>3, <1>4, <1>5, NextParts

LEMMA KeyDownInv == ASSUME IInv, KeyDown PROVE IInv'
<1>0. FlowOK
  BY Invariant
<1>1. MouseOK'
  BY <1>0, SameMouse DEF FlowOK, KeyDown
<1>2. ASSUME Listening \/ state \in Fading, NEW cmd, Commanded(cmd),
             NEW s \in {"TERMINATED", "START_VICTORY", "ASK_FOR_NEW_GAME"}, Goto(s)
      PROVE  IInv'
  BY <1>0, <1>1, <1>2, CommandedType, GotoInv DEF Listening
<1> QED BY <1>1, <1>2, DismissVictoryInv, ButCmdClickedInv DEF KeyDown, KeyDownEvent

LEMMA QuitInv == ASSUME IInv, Quit PROVE IInv'
<1>0. FlowOK
  BY Invariant
<1>1. MouseOK'
  BY <1>0, SameMouse DEF FlowOK, Quit
<1>2. CASE QuitEvent
  BY <1>0, <1>1, <1>2, CommandedType, GotoInv DEF QuitEvent, Listening
<1> QED BY <1>1, <1>2, DismissVictoryInv DEF Quit

LEMMA MouseDownInv == ASSUME IInv, NEW b \in MouseButtons, MouseDown(b) PROVE IInv'
<1>0. FlowOK
  BY Invariant
<1>1. MouseOK'
  BY <1>0 DEF FlowOK, MouseDown, MouseOK
<1>2. ASSUME Listening, ~startdrag, NEW s \in TapClick, Goto(s), UNCHANGED interrupts
      PROVE  IInv'
  BY <1>0, <1>1, <1>2, GotoInv DEF Listening, FlowOK
<1>3. CASE UNCHANGED gameVars
  BY <1>1, <1>3 DEF IInv, MouseTypeOK, TypeOK, ControlInv, StateMembers, CargoOnTheWay,
     OnTheWay, OneMoveAtATime, BoxUp, YesNo, gameVars, table, tap, flow, observed
<1> QED BY <1>1, <1>2, <1>3, TapsClick, DismissVictoryInv DEF MouseDown

(* The end of a drag in the state st, and the button that was clicked.     *)
LEMMA EndOfDragType ==
    ASSUME IInv, Listening, NEW st, endOfDragAndCheckForVictory(st),
           UNCHANGED <<selected, continueFn, dropRegion, cardStackForDrag>>,
           isInitDrag' = FALSE
    PROVE  /\ TableOK' /\ TapOK'
           /\ saves' \in 0..MaxSaves
           /\ continueLamda' \in ContinueLamda \ {"DoubleTap"}
           /\ \/ /\ startdrag = FALSE /\ startdrag' = FALSE
                 /\ state' \in {st, "START_VICTORY"}
                 /\ statePrev' = statePrev /\ dragStack' = dragStack
              \/ /\ startdrag = TRUE /\ startdrag' = FALSE
                 /\ state' \in Zoom \cup {"START_VICTORY"}
                 /\ statePrev' = st
<1>0. /\ FlowOK /\ StateMembers /\ CargoOnTheWay /\ OneMoveAtATime
      /\ TableOK /\ TapOK
  BY Invariant
<1>1. continueLamda \in ContinueLamda \ {"DoubleTap"}
  BY <1>0 DEF FlowOK, CargoOnTheWay, Listening
<1>2. CASE startdrag = TRUE
  <2>1. PICK dest \in DropTargets(NoRegion) :
           DoDrop(dest, st) /\ checkForVictory(Dropped(dest), AfterDrop(dest))
    BY <1>2 DEF endOfDragAndCheckForVictory
  <2>2. /\ startdrag' = FALSE /\ continueLamda' = "EndOfDrag" /\ dealtStock' = dealtStock
        /\ statePrev' = st /\ pile' = Dropped(dest) /\ dragStack' = <<>>
    BY <1>2, <2>1 DEF endOfDragAndCheckForVictory, DoDrop
  <2>3. state' \in Zoom \cup {"START_VICTORY"} /\ saves' \in 0..MaxSaves
    BY <1>0, <2>1, CheckForVictoryType, AfterDropType DEF FlowOK
  <2>4. TableOK'
    BY <1>0, <2>2, DropType DEF TableOK
  <2>5. TapOK'
    BY <1>0 DEF TapOK
  <2> QED BY <1>2, <2>2, <2>3, <2>4, <2>5 DEF ContinueLamda
<1>3. CASE startdrag = FALSE
  <2>1. /\ UNCHANGED <<startdrag, table, statePrev, continueLamda, dealtStock>>
        /\ checkForVictory(pile, {st})
    BY <1>3 DEF endOfDragAndCheckForVictory
  <2>2. state' \in {st, "START_VICTORY"} /\ saves' \in 0..MaxSaves
    BY <1>0, <2>1, CheckForVictoryType DEF FlowOK
  <2>3. pile' = pile /\ dragStack' = dragStack /\ dealtStock' = dealtStock
    BY <2>1 DEF table
  <2>4. TableOK'
    BY <1>0, <2>3 DEF TableOK
  <2>5. TapOK'
    BY <1>0 DEF TapOK
  <2> QED BY <1>1, <1>3, <2>1, <2>2, <2>3, <2>4, <2>5
<1> QED BY <1>0, <1>2, <1>3 DEF FlowOK

LEMMA MouseUpInGameInv ==
    ASSUME IInv, MouseUpInGame, MouseOK' PROVE IInv'
<1>0. /\ FlowOK /\ StateMembers /\ CargoOnTheWay /\ OneMoveAtATime
      /\ TableOK /\ TapOK
  BY Invariant
<1>1. /\ Listening /\ isInitDrag' = FALSE
      /\ UNCHANGED <<selected, continueFn, dropRegion, cardStackForDrag,
                     stateAfter, vict, done>>
  BY DEF MouseUpInGame
<1>2. state \in State \ (Victory \cup Zoom \cup Fading \cup {"IN_MSGBOX"})
  BY <1>0, <1>1 DEF FlowOK, Listening
<1>3. CASE /\ endOfDragAndCheckForVictory(state)
           /\ UNCHANGED <<stateAfterYes, stateAfterNo, msgBox, interrupts>>
  <2>1. FlowOK'
    <3>1. /\ state' \in State /\ startdrag' \in BOOLEAN
          /\ statePrev' \in {statePrev, state}
          /\ continueLamda' \in ContinueLamda /\ saves' \in 0..MaxSaves
      BY <1>1, <1>2, <1>3, EndOfDragType
    <3> QED BY <1>0, <1>1, <1>2, <1>3, <3>1 DEF FlowOK
  <2>2. StateMembers'
    BY <1>0, <1>1, <1>2, <1>3, EndOfDragType DEF StateMembers, BoxUp, YesNo, OneMoveAtATime
  <2>3. CargoOnTheWay' /\ OneMoveAtATime'
    BY <1>0, <1>1, <1>2, <1>3, EndOfDragType
       DEF CargoOnTheWay, OnTheWay, OneMoveAtATime, BoxUp, YesNo
  <2> QED BY <1>1, <1>3, <2>1, <2>2, <2>3, EndOfDragType, NextParts
<1>4. ASSUME endOfDragAndCheckForVictory("IN_MSGBOX"), NEW cmd, Commanded(cmd),
             NEW yes \in {"DO_NEWGAME", "FADING_OUT"}, ShowYesNo(state, yes)
      PROVE  IInv'
  <2>1. /\ stateAfterYes' = yes /\ stateAfterNo' = state
        /\ msgBox' \in MsgBox /\ msgBox'.type = "TY_MB_YES_NO"
        /\ interrupts' \in 0..Interrupts
    BY <1>0, <1>4, CommandedType DEF ShowYesNo, MsgBox
  <2>2. /\ TableOK' /\ TapOK' /\ saves' \in 0..MaxSaves
        /\ continueLamda' \in ContinueLamda \ {"DoubleTap"}
        /\ startdrag' = FALSE
        /\ \/ /\ startdrag = FALSE /\ dragStack' = dragStack
              /\ state' \in {"IN_MSGBOX", "START_VICTORY"} /\ statePrev' = statePrev
           \/ /\ startdrag = TRUE
              /\ state' \in Zoom \cup {"START_VICTORY"} /\ statePrev' = "IN_MSGBOX"
    BY <1>1, <1>4, EndOfDragType
  <2>3. FlowOK'
    <3>1. state' \in State
      BY <2>2
    <3>2. {statePrev', stateAfter', stateAfterYes', stateAfterNo'} \subseteq State \cup {Unset}
      BY <1>0, <1>1, <1>2, <2>1, <2>2 DEF FlowOK
    <3>3. vict' \in BOOLEAN /\ done' \in BOOLEAN
      BY <1>0, <1>1 DEF FlowOK
    <3> QED BY <2>1, <2>2, <3>1, <3>2, <3>3 DEF FlowOK
  <2>4. StateMembers'
    BY <1>0, <1>1, <1>2, <2>1, <2>2 DEF StateMembers, BoxUp, YesNo, OneMoveAtATime
  <2>5. CargoOnTheWay' /\ OneMoveAtATime'
    BY <1>0, <1>1, <1>2, <2>1, <2>2
       DEF CargoOnTheWay, OnTheWay, OneMoveAtATime, BoxUp, YesNo
  <2> QED BY <2>2, <2>3, <2>4, <2>5, NextParts
<1> QED BY <1>3, <1>4 DEF MouseUpInGame

LEMMA UnchangedInv ==
    ASSUME IInv, UNCHANGED gameVars, MouseOK' PROVE IInv'
BY DEF IInv, MouseTypeOK, TypeOK, ControlInv, StateMembers, CargoOnTheWay,
       OnTheWay, OneMoveAtATime, BoxUp, YesNo, gameVars, table, tap, flow, observed

LEMMA MouseUpInv == ASSUME IInv, NEW b \in MouseButtons, MouseUp(b) PROVE IInv'
<1>1. MouseOK'
  BY Invariant DEF FlowOK, MouseUp, MouseOK
<1> QED BY <1>1, MouseUpInGameInv, ButCmdClickedInv, UnchangedInv DEF MouseUp

(* A new SolitarioGfx, at the start of the program or from the menu.       *)
LEMMA InitIInv == MouseInit => IInv
<1> SUFFICES ASSUME MouseInit PROVE IInv
  OBVIOUS
<1>1. \A d \in Shuffles : d \in Seq(Deck)
  BY GameAssumption
<1>2. TableOK
  BY <1>1, DealType DEF MouseInit, Init, TableOK
<1>3. TapOK
  BY DEF MouseInit, Init, TapOK, ContinueFn
<1>4. FlowOK
  <2>1. msgBox \in MsgBox
    BY DEF MouseInit, Init, MsgBox
  <2>2. saves \in 0..MaxSaves /\ interrupts \in 0..Interrupts
    BY GameAssumption DEF MouseInit, Init, MaxSaves
  <2>3. {statePrev, stateAfter, stateAfterYes, stateAfterNo} \subseteq State \cup {Unset}
    BY DEF MouseInit, Init
  <2> QED BY <2>1, <2>2, <2>3 DEF MouseInit, Init, FlowOK, ContinueLamda, MouseOK
<1>5. StateMembers /\ CargoOnTheWay /\ OneMoveAtATime
  BY DEF MouseInit, Init, StateMembers, CargoOnTheWay, OnTheWay, OneMoveAtATime, BoxUp, YesNo
<1> QED BY <1>2, <1>3, <1>4, <1>5, TypeParts DEF IInv, ControlInv

LEMMA NewGameLoopInv == ASSUME IInv, NewGameLoop PROVE IInv'
<1>1. /\ newGame /\ dragStack' = <<>> /\ interrupts' = 0
      /\ msgBox' = [type |-> "NULL", inProgress |-> FALSE, result |-> "RES_YES"]
      /\ statePrev' = Unset /\ stateAfter' = Unset
      /\ stateAfterYes' = Unset /\ stateAfterNo' = Unset
  BY DEF NewGameLoop, StartGameLoop
<1>2. TableOK'
  BY <1>1, NewGameType DEF TableOK
<1>3. TapOK'
  BY DEF NewGameLoop, StartGameLoop, TapOK, ContinueFn
<1>4. FlowOK'
  <2>1. msgBox' \in MsgBox
    BY <1>1 DEF MsgBox
  <2>2. saves' \in 0..MaxSaves /\ interrupts' \in 0..Interrupts /\ vict' = FALSE
    BY <1>1, NewGameType, GameAssumption DEF MaxSaves
  <2>3. {statePrev', stateAfter', stateAfterYes', stateAfterNo'} \subseteq State \cup {Unset}
    BY <1>1
  <2> QED BY <2>1, <2>2, <2>3 DEF NewGameLoop, StartGameLoop, FlowOK, ContinueLamda, MouseOK
<1>5. StateMembers' /\ CargoOnTheWay' /\ OneMoveAtATime'
  BY DEF NewGameLoop, StartGameLoop, StateMembers, CargoOnTheWay, OnTheWay,
         OneMoveAtATime, BoxUp, YesNo
<1> QED BY <1>2, <1>3, <1>4, <1>5, NextParts

LEMMA NextIInv == IInv /\ [MouseNext]_vars => IInv'
<1> SUFFICES ASSUME IInv, [MouseNext]_vars PROVE IInv'
  OBVIOUS
<1>1. CASE MouseNext
  BY <1>1, IterateInv, MouseDownInv, MouseUpInv, KeyDownInv, QuitInv, NewGameLoopInv
     DEF MouseNext
<1>2. CASE UNCHANGED vars
  BY <1>2, Invariant, SameMouse, UnchangedInv DEF vars, FlowOK
<1> QED BY <1>1, <1>2
-----------------------------------------------------------------------------
(* Every member of SolitarioGfx always holds a value of its type: a region *)
(* of the table, a state, a pile of cards of the deck.                     *)
THEOREM TypeCorrect == Spec => []MouseTypeOK
<1>1. IInv => MouseTypeOK
  BY DEF IInv
<1> QED BY <1>1, InitIInv, NextIInv, PTL DEF Spec

(* The machine is wherever a frame can use it: the state member it goes on *)
(* in was assigned before.                                                 *)
THEOREM StateAlwaysSet == Spec => []StateIsSet
<1>1. IInv => StateIsSet
  BY CurrentFacts DEF StateIsSet
<1> QED BY <1>1, InitIInv, NextIInv, PTL DEF Spec

(* The assertion in CardStackGfx::First never fires for a mouse player,    *)
(* not even when new games and victories cut into a move.                  *)
THEOREM CargoAlwaysAtFirst == Spec => []CargoAtFirst
<1>1. IInv => CargoAtFirst
  BY CurrentFacts, Invariant DEF CargoAtFirst, CargoOnTheWay, OnTheWay
<1> QED BY <1>1, InitIInv, NextIInv, PTL DEF Spec

(* _p_DropRegionForDrag is not NULL when the lambda of a double tap        *)
(* dereferences it.                                                        *)
THEOREM DropRegionAlwaysKept == Spec => []DropRegionKept
<1>1. IInv => DropRegionKept
  BY Invariant DEF DropRegionKept, CargoOnTheWay
<1> QED BY <1>1, InitIInv, NextIInv, PTL DEF Spec

(* What holds in between: moves and the states they pass through.          *)
THEOREM ControlHolds == Spec => []ControlInv
<1>1. IInv => ControlInv
  BY DEF IInv
<1> QED BY <1>1, InitIInv, NextIInv, PTL DEF Spec
-----------------------------------------------------------------------------
(* NO CARD IS LOST                                                         *)

LEMMA NextKeeps == ASSUME IInv, MouseNext, AllOnTable PROVE AllOnTable'
<1>1. TableOK /\ TapOK /\ CargoOnTheWay /\ FlowOK
  BY Invariant
<1>2. CASE UNCHANGED table
  BY <1>2 DEF AllOnTable, OnTable, table
<1>3. CASE newGame
  BY <1>3, AllDealt
<1>4. ASSUME NEW dest \in Region, NEW from, DoDrop(dest, from) PROVE AllOnTable'
  BY <1>1, <1>4, DropKeeps DEF AllOnTable
<1>5. CASE Iterate
  <2>1. CASE ControlFrame
    BY <1>2, <2>1 DEF ControlFrame, FirstFrame, FirstScene, InitDragStep1, InitDragStep2,
       ZoomEnd, InGame, AskForNewGame, FadingOut, VictoryAnimationIterate, ShowScore,
       Terminated, MsgBoxDone
  <2>2. CASE DoNewGame
    BY <1>3, <2>2 DEF DoNewGame
  <2>3. CASE InitDragAfterFromSingleTapA
    BY <1>2, <2>3 DEF InitDragAfterFromSingleTapA
  <2>4. CASE ForcedDrop
    <3>1. selected \in Region
      BY <1>1, <2>4, CurrentFacts DEF ForcedDrop, CargoOnTheWay, OnTheWay
    <3>2. NoRegion \in Region \cup {NoRegion} /\ DropTargets(NoRegion) \subseteq Region
      BY <3>1, DropTargetsType
    <3> QED BY <1>4, <2>4, <3>2 DEF ForcedDrop
  <2>5. CASE InitDragAfterGiven
    <3> DEFINE given == [SingleTapB |-> DeckPile_Ix, SingleTapC |-> DeckFaceUp,
                         DoubleTap |-> dropRegion]
    <3>1. /\ current = "INITDRAG_AFTER" /\ continueFn \in {"SingleTapB", "SingleTapC", "DoubleTap"}
          /\ \E dest \in DropTargets(given[continueFn]) : DoDrop(dest, "IN_GAME")
      BY <2>5 DEF InitDragAfterGiven
    <3>2. state = "INITDRAG_AFTER"
      BY <3>1, CurrentFacts
    <3>3. given[continueFn] \in Region /\ given[continueFn] # NoRegion
      BY <1>1, <3>1, <3>2, RegionFacts DEF CargoOnTheWay, OnTheWay
    <3> HIDE DEF given
    <3>4. DropTargets(given[continueFn]) \subseteq Region
      BY <3>3, DropTargetsType
    <3> QED BY <1>4, <3>1, <3>4
  <2>6. CASE ZoomTerminated
    BY <1>1, <2>6, LamdaKeeps DEF ZoomTerminated, AllOnTable
  <2>7. CASE TapIterate
    BY <1>1, <2>7, TapKeeps DEF TapIterate, AllOnTable
  <2> QED BY <1>5, <2>1, <2>2, <2>3, <2>4, <2>5, <2>6, <2>7
          DEF Iterate, HandleIterate, ControlFrame
<1>6. CASE KeyDown \/ Quit \/ \E b \in MouseButtons : MouseDown(b)
  BY <1>2, <1>6 DEF KeyDown, KeyDownEvent, Quit, QuitEvent, MouseDown, Goto, DismissVictory,
     ButCmdClicked, gameVars
<1>7. ASSUME NEW b \in MouseButtons, MouseUp(b) PROVE AllOnTable'
  <2>1. ASSUME NEW st, Listening, endOfDragAndCheckForVictory(st) PROVE AllOnTable'
    <3>1. CASE startdrag
      <4>1. selected \in Region /\ NoRegion \in Region \cup {NoRegion}
        BY <1>1, <3>1 DEF CargoOnTheWay
      <4>2. DropTargets(NoRegion) \subseteq Region
        BY <4>1, DropTargetsType
      <4> QED BY <1>4, <2>1, <3>1, <4>2 DEF endOfDragAndCheckForVictory
    <3>2. CASE ~startdrag
      BY <1>2, <2>1, <3>2 DEF endOfDragAndCheckForVictory
    <3> QED BY <3>1, <3>2
  <2> QED BY <1>2, <1>7, <2>1 DEF MouseUp, MouseUpInGame, ButCmdClicked, gameVars
<1>8. CASE NewGameLoop
  BY <1>3, <1>8 DEF NewGameLoop, StartGameLoop
<1> QED BY <1>5, <1>6, <1>7, <1>8 DEF MouseNext

LEMMA InitAllOnTable == MouseInit => AllOnTable
<1> SUFFICES ASSUME MouseInit PROVE AllOnTable
  OBVIOUS
<1>1. PICK deck \in Shuffles : pile = Deal(deck)
  BY DEF MouseInit, Init
<1>2. deck \in Seq(Deck) /\ Shuffled(deck)
  BY GameAssumption
<1>3. DealtTo(NumTableau + 1) <= Len(deck)
  BY <1>2, GameAssumption DEF Shuffled
<1> QED BY <1>1, <1>2, <1>3, DealHolds DEF AllOnTable, OnTable

LEMMA NextAllOnTable == IInv /\ AllOnTable /\ [MouseNext]_vars => AllOnTable'
<1>1. ASSUME AllOnTable, UNCHANGED vars PROVE AllOnTable'
  BY <1>1 DEF vars, gameVars, table, AllOnTable, OnTable
<1> QED BY <1>1, NextKeeps

(* No card is ever lost, whatever the deck and however often new games and *)
(* victories cut into a move.                                              *)
THEOREM NothingLost == Spec => []NoCardLost
<1>1. IInv /\ AllOnTable => NoCardLost
  BY Invariant, CountsHeld DEF AllOnTable, NoCardLost
<1> QED BY <1>1, InitIInv, NextIInv, InitAllOnTable, NextAllOnTable, PTL DEF Spec
-----------------------------------------------------------------------------
(* WHAT LIES WHERE                                                         *)

(* Cards are off the table only while their move is under way, if moves    *)
(* are not interrupted.                                                    *)
Busy ==
    /\ dragStack # <<>> => \/ startdrag /\ state = "IN_GAME" /\ continueFn = "NULL"
                           \/ ~startdrag /\ state \in InitDrag /\ continueFn # "NULL"
    /\ startdrag => dragStack # <<>>
    /\ stateAfterNo \notin InitDrag
    /\ continueLamda = "SingleTapB" => state \in Zoom

(* They fit where they were taken from, or where they are going.           *)
Lifted == continueFn \in {"NULL", "SingleTapA"}

CargoFits == dragStack # <<>> =>
    /\ Lifted => /\ selected \in Region \ {DeckPile_Ix}
                 /\ Run(dragStack) /\ dragStack[1].up
                 /\ Fits(selected, pile[selected] \o dragStack)
                 /\ selected \notin Tableau => Len(dragStack) = 1
    /\ continueFn = "SingleTapB" => /\ pile[DeckPile_Ix] = <<>> /\ pile[DeckFaceUp] = <<>>
                                   /\ AllDown(dragStack)
    /\ continueFn = "SingleTapC" => AllUp(dragStack) /\ Len(dragStack) = 1
    /\ continueFn = "DoubleTap" => /\ Fits(dropRegion, pile[dropRegion] \o dragStack)
                                  /\ selected \in Tableau \cup {DeckFaceUp}
                                  /\ Len(dragStack) = 1

ICards == OnceEach /\ TableFits /\ Busy /\ CargoFits

(* Nothing moves, and what is on its way stays there.                      *)
LEMMA StillCards ==
    ASSUME ICards, UNCHANGED table, Busy',
           dragStack # <<>> => /\ UNCHANGED <<selected, dropRegion>>
                               /\ \/ continueFn' = continueFn
                                  \/ continueFn = "SingleTapA" /\ continueFn' = "NULL"
    PROVE  ICards'
<1>1. pile' = pile /\ dragStack' = dragStack
  BY DEF table
<1>2. OnceEach' /\ TableFits'
  BY <1>1 DEF ICards, OnceEach, TableFits
<1>3. CargoFits'
  BY <1>1 DEF ICards, CargoFits, Lifted
<1> QED BY <1>2, <1>3 DEF ICards

LEMMA NewGameCards ==
    ASSUME newGame, dragStack' = <<>>, Busy'
    PROVE  ICards'
<1>1. PICK deck \in Shuffles : pile' = Deal(deck)
  BY DEF newGame
<1>2. Distinct(<<>>) /\ \A p : Apart(p, <<>>)
  BY DEF Distinct, Apart
<1>3. OnceEach' /\ TableFits'
  BY <1>1, <1>2, DealFits DEF OnceEach, TableFits
<1> QED BY <1>3 DEF ICards, CargoFits
-----------------------------------------------------------------------------
(* Taps, with no card off the table.                                       *)

LEMMA TapBusy ==
    ASSUME Busy, dragStack = <<>>, state \in TapClick,
           UNCHANGED <<startdrag, stateAfterNo, continueLamda>>,
           dragStack' # <<>> => state' = "INITDRAG_STEP1" /\ continueFn' # "NULL"
    PROVE  Busy'
BY DEF Busy

LEMMA TapPileCards ==
    ASSUME TableOK, ICards, dragStack = <<>>, Busy', NEW st,
           NEW r \in Region \ {DeckPile_Ix}, NEW k \in Clickable(r), TapPile(r, k, st)
    PROVE  ICards'
<1> DEFINE p == IF r \in Tableau /\ k = Len(pile[r]) THEN TurnUpTop(pile[r]) ELSE pile[r]
           lift == CanLift(r, p, k)
<1>1. pile[r] \in Seq(Card) /\ Distinct(pile[r]) /\ Fits(r, pile[r])
  BY DEF TableOK, ICards, OnceEach, TableFits
<1>2. p \in Seq(Card) /\ Len(p) = Len(pile[r]) /\ SameFaces(pile[r], p)
  <2>1. SameFaces(pile[r], pile[r])
    BY DEF SameFaces
  <2> QED BY <1>1, <2>1, TurnUpTopType, TurnUpTopSame
<1>3. Distinct(p) /\ \A f : Holds(p, f) => Holds(pile[r], f)
  <2> HIDE DEF p
  <2> QED BY <1>1, <1>2, SameFacesOnce
<1>4. Fits(r, p)
  <2>1. r \in Tableau => r \notin Aces /\ r # DeckFaceUp /\ Run(pile[r])
    BY <1>1, RegionFacts DEF Fits
  <2> QED BY <1>1, <2>1, TurnUpRuns DEF Fits
<1>5. k \in 0..Len(p)
  BY <1>1, <1>2 DEF Clickable
<1>6. /\ pile' = [pile EXCEPT ![r] = IF lift THEN SubSeq(p, 1, k - 1) ELSE p]
      /\ dragStack' = <<>> \o (IF lift THEN SubSeq(p, k, Len(p)) ELSE <<>>)
      /\ selected' = r /\ continueFn' = "SingleTapA"
  BY DEF TapPile
<1>7. lift => k \in 1..Len(p) /\ p[k].up /\ (r \notin Tableau => k = Len(p))
  <2>1. lift => k \in 1..Len(p) /\ DOMAIN p = 1..Len(p)
    BY <1>2, <1>5 DEF CanLift
  <2>2. r \notin Tableau => DragMode(r) = "DRAGTOP" /\ r \in Aces \cup {DeckFaceUp}
    BY RegionFacts DEF DragMode
  <2>3. r \in Tableau => DragMode(r) = "DRAGFACEUP"
    BY RegionFacts DEF DragMode
  <2>4. r \notin Tableau /\ lift => k = Len(p) /\ p[k].up
    <3> HIDE DEF p
    <3> QED BY <1>4, <2>1, <2>2 DEF CanLift, Fits, AllUp, Built
  <2> HIDE DEF p
  <2> QED BY <2>1, <2>3, <2>4 DEF CanLift
<1> HIDE DEF p, lift
<1>8. CASE lift
  <2> DEFINE rest == SubSeq(p, 1, k - 1)
             cargo == SubSeq(p, k, Len(p))
  <2>1. k \in 1..Len(p) /\ k - 1 \in 0..Len(p) /\ k - 1 + 1 = k
    BY <1>2, <1>7, <1>8
  <2>2. rest \in Seq(Card) /\ cargo \in Seq(Card) /\ cargo # <<>>
    BY <1>2, <2>1, CutType
  <2>3. Parts(rest, cargo, pile[r])
    <3>1. Parts(SubSeq(p, 1, k - 1), SubSeq(p, k - 1 + 1, Len(p)), p)
      BY <1>2, <1>3, <2>1, CutOnce
    <3>2. Parts(rest, cargo, p)
      BY <2>1, <3>1
    <3> HIDE DEF rest, cargo
    <3> QED BY <1>3, <3>2 DEF Parts
  <2>4. Fits(r, rest)
    BY <1>2, <1>4, <2>1, PrefixFits
  <2>5. rest \o cargo = p
    BY <1>2, <2>1, Rejoin
  <2>6. cargo[1] = p[k] /\ (r \notin Tableau => Len(cargo) = 1)
    BY <1>2, <1>7, <1>8, <2>1
  <2>7. Run(cargo)
    <3>1. CASE r \in Tableau
      BY <1>2, <1>4, <2>1, <3>1, SuffixRuns DEF Fits
    <3>2. CASE r \notin Tableau
      <4> HIDE DEF cargo
      <4>1. Len(cargo) = 1
        BY <2>6, <3>2
      <4>2. \A i \in 1..(Len(cargo) - 1) : FALSE
        BY <4>1
      <4> QED BY <4>2, Zenon DEF Run
    <3> QED BY <3>1, <3>2
  <2> HIDE DEF rest, cargo
  <2>8. pile' = [pile EXCEPT ![r] = rest] /\ dragStack' = cargo
    BY <1>6, <1>8, <2>2 DEF rest, cargo
  <2>9. OnceEach' /\ TableFits'
    BY <2>2, <2>3, <2>4, <2>8, TakenOffOnce, PileChanged DEF ICards
  <2>10. pile'[r] = rest
    BY <2>8 DEF TableOK
  <2>11. Run(cargo) /\ cargo[1].up /\ Fits(r, rest \o cargo)
    BY <1>4, <1>7, <1>8, <2>5, <2>6, <2>7
  <2>12. CargoFits'
    BY <1>6, <2>6, <2>8, <2>10, <2>11 DEF CargoFits, Lifted
  <2> QED BY <2>9, <2>12 DEF ICards
<1>9. CASE ~lift
  <2>1. pile' = [pile EXCEPT ![r] = p] /\ dragStack' = <<>>
    BY <1>6, <1>9
  <2>2. Parts(p, <<>>, pile[r]) /\ <<>> \in Seq(Card)
    BY <1>3 DEF Parts, Distinct, Apart, Holds
  <2>3. OnceEach' /\ TableFits'
    BY <1>2, <1>4, <2>1, <2>2, TakenOffOnce, PileChanged DEF ICards
  <2> QED BY <2>1, <2>3 DEF ICards, CargoFits
<1> QED BY <1>8, <1>9

LEMMA clickOnDeckStockCards ==
    ASSUME TableOK, ICards, dragStack = <<>>, Busy', NEW st, clickOnDeckStock(st)
    PROVE  ICards'
<1>1. DeckPile_Ix \in Region /\ DeckFaceUp \in Region /\ DeckPile_Ix # DeckFaceUp
  BY RegionFacts
<1>2. /\ pile[DeckPile_Ix] \in Seq(Card) /\ pile[DeckFaceUp] \in Seq(Card)
      /\ Distinct(pile[DeckPile_Ix]) /\ Distinct(pile[DeckFaceUp])
      /\ Fits(DeckPile_Ix, pile[DeckPile_Ix])
  BY <1>1 DEF TableOK, ICards, OnceEach, TableFits
<1>3. ASSUME NEW p \in Seq(Card), NEW b \in BOOLEAN
      PROVE  /\ WithFaces(p, b) \in Seq(Card)
             /\ b => AllUp(WithFaces(p, b))
             /\ ~b => AllDown(WithFaces(p, b))
  <2>1. \A i \in DOMAIN p : p[i] \in Card
    OBVIOUS
  <2>2. DOMAIN WithFaces(p, b) = DOMAIN p /\ \A i \in DOMAIN p : WithFaces(p, b)[i].up = b
    BY <2>1 DEF WithFaces, Card
  <2> QED BY <2>2, WithFacesType DEF AllUp, AllDown
<1>4. CASE Redial
  <2> DEFINE back == WithFaces(pile[DeckFaceUp], FALSE)
  <2>1. back \in Seq(Card) /\ AllDown(back) /\ SameFaces(pile[DeckFaceUp], back)
    BY <1>2, <1>3, WithFacesSame
  <2> HIDE DEF back
  <2>2. /\ pile' = [pile EXCEPT ![DeckFaceUp] = <<>>] /\ dragStack' = back
        /\ pile[DeckPile_Ix] = <<>> /\ continueFn' = "SingleTapB"
    <3>1. <<>> \o back = back
      BY <2>1
    <3> QED BY <1>4, <3>1 DEF Redial, back
  <2>3. Parts(<<>>, back, pile[DeckFaceUp])
    <3>1. Distinct(back) /\ \A f : Holds(back, f) <=> Holds(pile[DeckFaceUp], f)
      BY <1>2, <2>1, SameFacesOnce
    <3>2. Distinct(<<>>) /\ Apart(<<>>, back) /\ \A f : ~Holds(<<>>, f)
      BY DEF Distinct, Apart, Holds
    <3> QED BY <3>1, <3>2 DEF Parts
  <2>4. <<>> \in Seq(Card) /\ Fits(DeckFaceUp, <<>>)
    BY EmptyFits
  <2>5. OnceEach' /\ TableFits'
    BY <1>1, <2>1, <2>2, <2>3, <2>4, TakenOffOnce, PileChanged DEF ICards
  <2>6. pile'[DeckPile_Ix] = <<>> /\ pile'[DeckFaceUp] = <<>>
    BY <1>1, <2>2 DEF TableOK
  <2>7. CargoFits'
    BY <2>1, <2>2, <2>6 DEF CargoFits, Lifted
  <2> QED BY <2>5, <2>7 DEF ICards
<1>5. CASE NextCard
  <2> DEFINE top  == Popped(pile[DeckPile_Ix], 1)
             rest == AfterPop(pile[DeckPile_Ix], 1)
             next == WithFaces(top, TRUE)
  <2>1. top \in Seq(Card) /\ rest \in Seq(Card) /\ Parts(rest, top, pile[DeckPile_Ix])
    BY <1>2, PopType, PopOnce
  <2> HIDE DEF top
  <2>2. next \in Seq(Card) /\ AllUp(next) /\ SameFaces(top, next)
    BY <1>3, <2>1, WithFacesSame
  <2>3. Fits(DeckPile_Ix, rest)
    <3> DEFINE cut == IF 1 > Len(pile[DeckPile_Ix]) THEN 0 ELSE Len(pile[DeckPile_Ix]) - 1
    <3>1. cut \in 0..Len(pile[DeckPile_Ix])
      BY <1>2
    <3>2. rest = SubSeq(pile[DeckPile_Ix], 1, cut)
      BY DEF AfterPop
    <3> HIDE DEF cut, rest
    <3> QED BY <1>2, <3>1, <3>2, PrefixFits
  <2> HIDE DEF rest, next
  <2>4. /\ pile' = [pile EXCEPT ![DeckPile_Ix] = rest] /\ dragStack' = next
        /\ continueFn' = "SingleTapC"
    <3>1. <<>> \o next = next
      BY <2>2
    <3> QED BY <1>5, <3>1 DEF NextCard, rest, next, top
  <2>5. Parts(rest, next, pile[DeckPile_Ix])
    <3>1. Distinct(next) /\ \A f : Holds(next, f) <=> Holds(top, f)
      BY <2>1, <2>2, SameFacesOnce DEF Parts
    <3> QED BY <2>1, <3>1, ApartHolds DEF Parts
  <2>6. OnceEach' /\ TableFits'
    BY <1>1, <2>1, <2>2, <2>3, <2>4, <2>5, TakenOffOnce, PileChanged DEF ICards
  <2>7. Len(next) = 1
    <3>1. 1 <= Len(pile[DeckPile_Ix])
      BY <1>2, <1>5 DEF NextCard
    <3>2. Len(top) = 1
      BY <1>2, <3>1, PopType DEF top
    <3> QED BY <2>1, <2>2, <3>2 DEF SameFaces
  <2>8. CargoFits'
    BY <2>2, <2>4, <2>7 DEF CargoFits, Lifted
  <2> QED BY <2>6, <2>8 DEF ICards
<1>6. CASE UNCHANGED table
  BY <1>6, StillCards
<1> QED BY <1>4, <1>5, <1>6 DEF clickOnDeckStock

LEMMA DoubleTapCardCards ==
    ASSUME TableOK, ICards, dragStack = <<>>, Busy', NEW r \in Tableau \cup {DeckFaceUp},
           DoubleTapCard(r)
    PROVE  ICards'
<1> DEFINE p == pile[r]
           n == Len(p)
           rest == AfterPop(p, 1)
           top  == Popped(p, 1)
           to   == FirstOf(TakenBy(Top(p)))
<1>1. r \in Region \ Aces /\ r # DeckPile_Ix
  BY RegionFacts
<1>2. p \in Seq(Card) /\ Distinct(p) /\ Fits(r, p)
  BY <1>1 DEF TableOK, ICards, OnceEach, TableFits
<1>3. p # <<>> /\ Top(p).up /\ n \in Nat \ {0} /\ p[n] \in Card
  BY <1>2 DEF DoubleTapCard
<1>4. rest \in Seq(Card) /\ top \in Seq(Card) /\ Parts(rest, top, p) /\ Len(top) = 1
  <2> HIDE DEF p
  <2>1. 1 \in Nat /\ 1 <= Len(p)
    BY <1>3
  <2> QED BY <1>2, <2>1, PopType, PopOnce
<1>5. rest = SubSeq(p, 1, n - 1) /\ top = SubSeq(p, n, n)
  <2> HIDE DEF p
  <2>1. (IF 1 > Len(p) THEN 0 ELSE Len(p) - 1) = n - 1 /\ n - 1 + 1 = n
    BY <1>3
  <2> QED BY <2>1 DEF AfterPop, Popped
<1>6. top[1] = Top(p) /\ top = <<Top(p)>>
  <2> HIDE DEF p
  <2>1. top[1] = p[n]
    BY <1>2, <1>3, <1>5
  <2> HIDE DEF top
  <2> QED BY <1>4, <2>1 DEF Top
<1>7. Fits(r, rest)
  <2> HIDE DEF p
  <2>1. n - 1 \in 0..Len(p)
    BY <1>3
  <2> QED BY <1>2, <1>5, <2>1, PrefixFits
<1>8. to \in Aces /\ CanDrop(to, pile[to], top)
  <2>1. TakenBy(Top(p)) \in SUBSET Aces /\ TakenBy(Top(p)) # {}
    BY DEF TakenBy, DoubleTapCard
  <2>2. to \in TakenBy(Top(p))
    BY <2>1, FirstOfType
  <2> HIDE DEF top, p, to
  <2> QED BY <1>6, <2>2 DEF TakenBy
<1>9. /\ pile' = [pile EXCEPT ![r] = rest] /\ dragStack' = top
      /\ dropRegion' = to /\ continueFn' = "DoubleTap" /\ selected' = r
  <2>1. <<>> \o top = top
    <3> HIDE DEF top
    <3> QED BY <1>4
  <2> QED BY <2>1 DEF DoubleTapCard
<1> HIDE DEF p, n, rest, top, to
<1>10. OnceEach' /\ TableFits'
  BY <1>1, <1>4, <1>7, <1>9, TakenOffOnce, PileChanged DEF ICards, p
<1>11. Fits(to, pile[to] \o top)
  <2>1. to \in Region /\ pile[to] \in Seq(Card) /\ Fits(to, pile[to])
    BY <1>8, RegionFacts DEF TableOK, ICards, TableFits
  <2>2. Run(top) /\ top[1].up
    BY <1>3, <1>4, <1>6 DEF Run
  <2> QED BY <1>4, <1>8, <2>1, <2>2, CanDropFits
<1>12. pile'[to] = pile[to]
  BY <1>1, <1>8, <1>9, RegionFacts DEF TableOK
<1>13. CargoFits'
  BY <1>4, <1>9, <1>11, <1>12 DEF CargoFits, Lifted
<1> QED BY <1>10, <1>13 DEF ICards

LEMMA TapCards ==
    ASSUME IInv, ICards, TapIterate, MouseOK'
    PROVE  ICards'
<1>1. TableOK /\ IInv'
  BY Invariant, TapIterateInv
<1>2. state \in TapClick /\ UNCHANGED <<startdrag, stateAfterNo, continueLamda>>
  BY CurrentFacts DEF TapIterate, flow
<1>3. dragStack = <<>>
  BY <1>2 DEF ICards, Busy
<1>4. Busy'
  <2>1. dragStack' # <<>> => state' = "INITDRAG_STEP1" /\ continueFn' # "NULL"
    <3>1. ASSUME NEW r \in Region, NEW k, TapPile(r, k, "IN_GAME"), dragStack' # <<>>
          PROVE  state' = "INITDRAG_STEP1" /\ continueFn' # "NULL"
      BY <1>3, <3>1 DEF TapPile
    <3>2. ASSUME NEW r, TapIgnored(r, "IN_GAME") PROVE dragStack' = <<>>
      BY <1>3, <3>2 DEF TapIgnored, table
    <3>3. ASSUME clickOnDeckStock("IN_GAME"), dragStack' # <<>>
          PROVE  state' = "INITDRAG_STEP1" /\ continueFn' # "NULL"
      BY <1>3, <3>3 DEF clickOnDeckStock, Redial, NextCard, table
    <3>4. ASSUME NEW r, DoubleTapCard(r)
          PROVE  state' = "INITDRAG_STEP1" /\ continueFn' # "NULL"
      BY <3>4 DEF DoubleTapCard
    <3>5. CASE singleTapOrLeftClick("IN_GAME")
      BY <3>1, <3>2, <3>3, <3>5 DEF singleTapOrLeftClick
    <3>6. CASE doubleTapOrRightClick("IN_GAME")
      BY <3>2, <3>3, <3>4, <3>6 DEF doubleTapOrRightClick
    <3> QED BY <3>5, <3>6 DEF TapIterate
  <2> QED BY <1>2, <1>3, <2>1, TapBusy DEF ICards
<1>5. ASSUME NEW r, TapIgnored(r, "IN_GAME") PROVE ICards'
  BY <1>3, <1>4, <1>5, StillCards DEF TapIgnored
<1>6. CASE singleTapOrLeftClick("IN_GAME")
  BY <1>1, <1>3, <1>4, <1>5, <1>6, TapPileCards, clickOnDeckStockCards
     DEF singleTapOrLeftClick
<1>7. CASE doubleTapOrRightClick("IN_GAME")
  BY <1>1, <1>3, <1>4, <1>5, <1>7, DoubleTapCardCards, clickOnDeckStockCards
     DEF doubleTapOrRightClick
<1> QED BY <1>6, <1>7 DEF TapIterate
-----------------------------------------------------------------------------
(* The cargo falls.                                                        *)

LEMMA DropCards ==
    ASSUME TableOK, ICards, Busy', NEW dest \in Region, NEW from, DoDrop(dest, from),
           Fits(dest, pile[dest] \o dragStack)
    PROVE  ICards'
<1>1. pile' = [pile EXCEPT ![dest] = pile[dest] \o dragStack] /\ dragStack' = <<>>
  BY DEF DoDrop, Dropped
<1>2. OnceEach' /\ TableFits'
  BY <1>1, DropOnce, PileChanged DEF ICards
<1> QED BY <1>1, <1>2 DEF ICards, CargoFits

(* Wherever the player lets go of the cards, they fit.                     *)
LEMMA LetGo ==
    ASSUME TableOK, ICards, dragStack # <<>>, Lifted, NEW dest \in DropTargets(NoRegion)
    PROVE  dest \in Region /\ Fits(dest, pile[dest] \o dragStack)
<1>1. /\ selected \in Region /\ Run(dragStack) /\ dragStack[1].up
      /\ Fits(selected, pile[selected] \o dragStack)
  BY DEF ICards, CargoFits
<1>2. CASE dest = selected
  BY <1>1, <1>2
<1>3. CASE dest # selected
  <2>1. dest \in Region /\ CanDrop(dest, pile[dest], dragStack)
    BY <1>3 DEF DropTargets
  <2>2. pile[dest] \in Seq(Card) /\ dragStack \in Seq(Card) /\ Fits(dest, pile[dest])
    BY <2>1 DEF TableOK, ICards, TableFits
  <2> QED BY <1>1, <2>1, <2>2, CanDropFits
<1> QED BY <1>2, <1>3

LEMMA ForcedDropCards == ASSUME IInv, ICards, ForcedDrop PROVE ICards'
<1>1. TableOK /\ state = "INITDRAG_AFTER" /\ dragStack # <<>>
  BY Invariant, CurrentFacts DEF ForcedDrop, CargoOnTheWay, OnTheWay
<1>2. PICK dest \in DropTargets(NoRegion) : DoDrop(dest, "IN_GAME") /\ state' \in AfterDrop(dest)
  BY DEF ForcedDrop
<1>3. dest \in Region /\ Fits(dest, pile[dest] \o dragStack)
  BY <1>1, <1>2, LetGo DEF ForcedDrop, Lifted
<1>4. Busy'
  BY <1>1, <1>2, AfterDropType DEF ForcedDrop, ICards, Busy, DoDrop
<1> QED BY <1>1, <1>2, <1>3, <1>4, DropCards

LEMMA GivenCards == ASSUME IInv, ICards, InitDragAfterGiven PROVE ICards'
<1> DEFINE given == [SingleTapB |-> DeckPile_Ix, SingleTapC |-> DeckFaceUp,
                     DoubleTap |-> dropRegion]
           to == given[continueFn]
<1>1. TableOK /\ state = "INITDRAG_AFTER" /\ dragStack # <<>>
      /\ (continueFn = "DoubleTap" => dropRegion \in Aces)
  BY Invariant, CurrentFacts DEF InitDragAfterGiven, CargoOnTheWay, OnTheWay
<1>2. continueFn \in {"SingleTapB", "SingleTapC", "DoubleTap"}
  BY DEF InitDragAfterGiven
<1>3. to \in Region /\ to # NoRegion
  BY <1>1, <1>2, RegionFacts
<1>4. pile[to] \in Seq(Card) /\ dragStack \in Seq(Card) /\ Fits(to, pile[to])
  BY <1>1, <1>3 DEF TableOK, ICards, TableFits
<1>5. Fits(to, pile[to] \o dragStack)
  <2>1. CASE continueFn = "SingleTapB"
    <3>1. to = DeckPile_Ix /\ pile[DeckPile_Ix] = <<>> /\ AllDown(dragStack)
      BY <1>1, <2>1 DEF ICards, CargoFits
    <3>2. pile[to] \o dragStack = dragStack
      BY <1>4, <3>1
    <3> HIDE DEF to
    <3> QED BY <3>1, <3>2, RegionFacts DEF Fits
  <2>2. CASE continueFn = "SingleTapC"
    <3>1. to = DeckFaceUp /\ AllUp(dragStack)
      BY <1>1, <2>2 DEF ICards, CargoFits
    <3> HIDE DEF to
    <3>2. AllUp(pile[to])
      BY <1>4, <3>1 DEF Fits
    <3>3. AllUp(pile[to] \o dragStack)
      <4> DEFINE m == Len(pile[to])
                 n == Len(dragStack)
                 both == pile[to] \o dragStack
      <4>1. /\ m \in Nat /\ n \in Nat /\ DOMAIN pile[to] = 1..m /\ DOMAIN dragStack = 1..n
            /\ DOMAIN both = 1..(m + n)
            /\ \A i \in 1..(m + n) : both[i] = IF i <= m THEN pile[to][i] ELSE dragStack[i - m]
        BY <1>4, ConcatProperties
      <4> HIDE DEF m, n, both
      <4>2. \A i \in 1..(m + n) : both[i].up
        <5> TAKE i \in 1..(m + n)
        <5>1. CASE i <= m
          <6>1. i \in 1..m
            BY <4>1, <5>1
          <6> QED BY <3>2, <4>1, <5>1, <6>1 DEF AllUp
        <5>2. CASE ~(i <= m)
          <6>1. i - m \in 1..n
            BY <4>1, <5>2
          <6> QED BY <3>1, <4>1, <5>2, <6>1 DEF AllUp
        <5> QED BY <5>1, <5>2
      <4> QED BY <4>1, <4>2 DEF AllUp, both
    <3> QED BY <3>1, <3>3, RegionFacts DEF Fits
  <2>3. CASE continueFn = "DoubleTap"
    BY <1>1, <2>3 DEF ICards, CargoFits
  <2> QED BY <1>2, <2>1, <2>2, <2>3
<1>6. DropTargets(to) = {to}
  BY <1>3 DEF DropTargets
<1>7. DoDrop(to, "IN_GAME") /\ state' \in AfterDrop(to)
  BY <1>6 DEF InitDragAfterGiven
<1> HIDE DEF to
<1>8. Busy'
  BY <1>1, <1>7, AfterDropType DEF InitDragAfterGiven, ICards, Busy, DoDrop
<1> QED BY <1>1, <1>3, <1>5, <1>7, <1>8, DropCards

LEMMA ZoomTerminatedCards == ASSUME IInv, ICards, ZoomTerminated PROVE ICards'
<1>1. TableOK /\ StateMembers /\ state = "IN_ZOOM_TERMINATED"
  BY Invariant, CurrentFacts DEF ZoomTerminated
<1>2. dragStack = <<>> /\ ~startdrag
  BY <1>1 DEF ICards, Busy
<1>3. /\ UNCHANGED <<dragStack, startdrag, stateAfterNo>> /\ continueLamda' = "NULL"
      /\ pile' = PileAfterLamda
  BY DEF ZoomTerminated, flow
<1>4. Busy'
  BY <1>2, <1>3 DEF ICards, Busy
<1>5. OnceEach'
  BY <1>1, <1>3, LamdaOnce DEF ICards
<1>6. TableFits'
  <2> DEFINE p == pile[DeckPile_Ix]
  <2>1. DeckPile_Ix \in Region /\ p \in Seq(Card) /\ AllDown(p)
    BY <1>1, RegionFacts DEF TableOK, ICards, TableFits, Fits
  <2>2. CASE pile' = pile
    BY <1>3, <2>2 DEF ICards, TableFits
  <2>3. CASE pile' = [pile EXCEPT ![DeckPile_Ix] = Reversed(p)]
    <3>1. AllDown(Reversed(p))
      <4> HIDE DEF p
      <4>1. \A i \in 1..Len(p) : Len(p) - i + 1 \in DOMAIN p
        BY <2>1
      <4> QED BY <2>1, <4>1 DEF AllDown, Reversed
    <3>2. Fits(DeckPile_Ix, Reversed(p))
      BY <3>1, RegionFacts DEF Fits
    <3> HIDE DEF p
    <3> QED BY <1>1, <2>1, <2>3, <3>2, PileChanged DEF ICards
  <2> QED BY <1>3, <2>2, <2>3 DEF PileAfterLamda
<1> QED BY <1>2, <1>3, <1>4, <1>5, <1>6 DEF ICards, CargoFits

(* The other frames.                                                       *)
LEMMA ControlFrameCards == ASSUME IInv, ICards, ControlFrame PROVE ICards'
<1>1. UNCHANGED <<table, tap, startdrag, continueLamda>>
  BY DEF ControlFrame, FirstFrame, FirstScene, InitDragStep1, InitDragStep2, ZoomEnd,
         InGame, AskForNewGame, FadingOut, VictoryAnimationIterate, ShowScore,
         Terminated, MsgBoxDone
<1>2. stateAfterNo' \in {stateAfterNo, "IN_GAME"}
  BY DEF ControlFrame, FirstFrame, FirstScene, InitDragStep1, InitDragStep2, ZoomEnd,
         InGame, AskForNewGame, FadingOut, VictoryAnimationIterate, ShowScore,
         Terminated, MsgBoxDone, ShowYesNo, flow
<1>3. /\ dragStack # <<>> => \/ state' = state
                             \/ state \in InitDrag /\ state' \in InitDrag
      /\ state \in Zoom => state' \in Zoom
  BY CurrentFacts
     DEF ICards, Busy, ControlFrame, FirstFrame, FirstScene, InitDragStep1, InitDragStep2,
         ZoomEnd, InGame, AskForNewGame, FadingOut, VictoryAnimationIterate, ShowScore,
         Terminated, MsgBoxDone
<1>4. Busy'
  BY <1>1, <1>2, <1>3 DEF ICards, Busy, table, tap
<1> QED BY <1>1, <1>4, StillCards DEF tap

LEMMA FromSingleTapACards ==
    ASSUME IInv, ICards, InitDragAfterFromSingleTapA
    PROVE  ICards'
<1>1. state = "INITDRAG_AFTER" /\ dragStack # <<>>
  BY Invariant, CurrentFacts DEF InitDragAfterFromSingleTapA, CargoOnTheWay, OnTheWay
<1>2. continueFn = "SingleTapA"
  BY <1>1 DEF InitDragAfterFromSingleTapA, ICards, Busy
<1>3. /\ startdrag' = TRUE /\ state' = "IN_GAME" /\ continueFn' = "NULL"
      /\ UNCHANGED <<table, selected, dropRegion, stateAfterNo, continueLamda>>
  BY <1>2 DEF InitDragAfterFromSingleTapA, flow
<1>4. Busy'
  BY <1>1, <1>3 DEF ICards, Busy, table
<1> QED BY <1>2, <1>3, <1>4, StillCards

LEMMA DoNewGameCards == ASSUME IInv, ICards, DoNewGame PROVE ICards'
<1>1. state \in {"DO_NEWGAME", "WAIT_FOR_FADING"}
  BY CurrentFacts DEF DoNewGame
<1>2. dragStack = <<>> /\ ~startdrag /\ continueLamda # "SingleTapB"
  BY <1>1 DEF ICards, Busy
<1>3. Busy' /\ dragStack' = <<>>
  BY <1>2 DEF DoNewGame, ICards, Busy
<1> QED BY <1>3, NewGameCards DEF DoNewGame

LEMMA IterateCards == ASSUME IInv, ICards, Iterate PROVE ICards'
<1>1. MouseOK'
  BY Invariant, SameMouse DEF FlowOK, Iterate
<1> QED BY <1>1, ControlFrameCards, DoNewGameCards, FromSingleTapACards, ForcedDropCards,
           GivenCards, ZoomTerminatedCards, TapCards
        DEF Iterate, HandleIterate, ControlFrame
-----------------------------------------------------------------------------
(* The events.                                                             *)

(* A command is given while all cards are on the table.                    *)
LEMMA CommandedCards ==
    ASSUME Interrupts = 0, FlowOK, NEW cmd, Commanded(cmd)
    PROVE  dragStack = <<>>
BY DEF FlowOK, Commanded

LEMMA IdleCards ==
    ASSUME ICards, UNCHANGED <<table, startdrag, stateAfterNo>>, dragStack = <<>>,
           continueLamda' = continueLamda, state \in Zoom => state' \in Zoom
    PROVE  ICards'
<1>1. Busy'
  BY DEF ICards, Busy, table
<1> QED BY <1>1, StillCards

LEMMA DismissVictoryCards == ASSUME ICards, DismissVictory PROVE ICards'
<1>1. dragStack = <<>>
  BY DEF ICards, Busy, DismissVictory
<1> QED BY <1>1, IdleCards DEF DismissVictory

LEMMA ButCmdClickedCards == ASSUME ICards, NEW res, ButCmdClicked(res) PROVE ICards'
<1>1. dragStack = <<>>
  BY DEF ICards, Busy, ButCmdClicked
<1> QED BY <1>1, IdleCards DEF ButCmdClicked

LEMMA KeyOrQuitCards ==
    ASSUME Interrupts = 0, IInv, ICards, KeyDown \/ Quit
    PROVE  ICards'
<1>1. ASSUME NEW cmd, Commanded(cmd), NEW s, Goto(s), Listening \/ state \in Fading
      PROVE  ICards'
  <2>1. dragStack = <<>> /\ state \notin Zoom
    BY <1>1, Invariant, CommandedCards DEF Listening
  <2> QED BY <1>1, <2>1, IdleCards DEF Goto, flow
<1> QED BY <1>1, DismissVictoryCards, ButCmdClickedCards
        DEF KeyDown, KeyDownEvent, Quit, QuitEvent

LEMMA MouseDownCards == ASSUME IInv, ICards, NEW b, MouseDown(b) PROVE ICards'
<1>1. ASSUME Listening, state \notin InitDrag, ~startdrag, NEW s, Goto(s) PROVE ICards'
  <2>1. dragStack = <<>> /\ state \notin Zoom
    BY <1>1 DEF ICards, Busy, Listening
  <2> QED BY <1>1, <2>1, IdleCards DEF Goto, flow
<1>2. CASE UNCHANGED gameVars
  <2>1. Busy'
    BY <1>2 DEF gameVars, table, tap, flow, ICards, Busy
  <2> QED BY <1>2, <2>1, StillCards DEF gameVars, tap
<1> QED BY <1>1, <1>2, DismissVictoryCards DEF MouseDown

(* The button is let go, of a drag or of nothing.                          *)
LEMMA EndOfDragCards ==
    ASSUME IInv, ICards, Listening, startdrag, NEW st, endOfDragAndCheckForVictory(st),
           stateAfterNo' \notin InitDrag
    PROVE  ICards'
<1>1. TableOK /\ dragStack # <<>> /\ Lifted
  BY Invariant DEF ICards, Busy, Lifted
<1>2. PICK dest \in DropTargets(NoRegion) :
         DoDrop(dest, st) /\ checkForVictory(Dropped(dest), AfterDrop(dest))
  BY DEF endOfDragAndCheckForVictory
<1>3. dest \in Region /\ Fits(dest, pile[dest] \o dragStack)
  BY <1>1, <1>2, LetGo
<1>4. startdrag' = FALSE /\ continueLamda' = "EndOfDrag" /\ dragStack' = <<>>
  BY <1>2 DEF endOfDragAndCheckForVictory, DoDrop
<1>5. Busy'
  BY <1>4 DEF Busy
<1> QED BY <1>1, <1>2, <1>3, <1>5, DropCards

LEMMA MouseUpCards ==
    ASSUME Interrupts = 0, IInv, ICards, NEW b, MouseUp(b)
    PROVE  ICards'
<1>1. TableOK /\ FlowOK
  BY Invariant
<1>2. CASE MouseUpInGame
  <2>1. Listening /\ UNCHANGED <<selected, continueFn, dropRegion>>
    BY <1>2 DEF MouseUpInGame
  <2>2. stateAfterNo' \notin InitDrag
    <3>1. ASSUME NEW cmd, Commanded(cmd) PROVE state \notin InitDrag
      BY <1>1, <3>1, Invariant, CommandedCards DEF CargoOnTheWay, OnTheWay
    <3> QED BY <1>2, <3>1 DEF MouseUpInGame, ShowYesNo, ICards, Busy
  <2>3. PICK st : /\ endOfDragAndCheckForVictory(st)
                  /\ dragStack # <<>> => st = state
    BY <1>1, <1>2, CommandedCards DEF MouseUpInGame
  <2>4. CASE startdrag
    BY <2>1, <2>2, <2>3, <2>4, EndOfDragCards
  <2>5. CASE ~startdrag
    <3>1. /\ UNCHANGED <<startdrag, table, continueLamda>> /\ checkForVictory(pile, {st})
      BY <2>3, <2>5 DEF endOfDragAndCheckForVictory
    <3>2. dragStack # <<>> => state' = state
      <4>1. dragStack # <<>> => ~Won(pile)
        BY <1>1, WonMeansDone DEF ICards
      <4> QED BY <2>3, <3>1, <4>1 DEF checkForVictory
    <3>3. Busy'
      BY <2>1, <2>2, <3>1, <3>2 DEF ICards, Busy, Listening, table
    <3> QED BY <2>1, <3>1, <3>3, StillCards
  <2> QED BY <2>4, <2>5
<1>3. CASE UNCHANGED gameVars
  <2>1. Busy'
    BY <1>3 DEF gameVars, table, tap, flow, ICards, Busy
  <2> QED BY <1>3, <2>1, StillCards DEF gameVars, tap
<1> QED BY <1>2, <1>3, ButCmdClickedCards DEF MouseUp

LEMMA NewGameLoopCards == ASSUME NewGameLoop PROVE ICards'
<1>1. Busy'
  BY DEF NewGameLoop, StartGameLoop, Busy
<1> QED BY <1>1, NewGameCards DEF NewGameLoop, StartGameLoop

LEMMA InitCards == MouseInit => ICards
<1> SUFFICES ASSUME MouseInit PROVE ICards
  OBVIOUS
<1>1. PICK deck \in Shuffles : pile = Deal(deck)
  BY DEF MouseInit, Init
<1>2. dragStack = <<>> /\ Busy
  BY DEF MouseInit, Init, Busy
<1>3. Distinct(<<>>) /\ \A p : Apart(p, <<>>)
  BY DEF Distinct, Apart
<1>4. OnceEach /\ TableFits
  BY <1>1, <1>2, <1>3, DealFits DEF OnceEach, TableFits
<1> QED BY <1>2, <1>4 DEF ICards, CargoFits

LEMMA NextCards ==
    ASSUME Interrupts = 0
    PROVE  IInv /\ ICards /\ [MouseNext]_vars => ICards'
<1> SUFFICES ASSUME IInv, ICards, [MouseNext]_vars PROVE ICards'
  OBVIOUS
<1>1. CASE MouseNext
  BY <1>1, IterateCards, MouseDownCards, MouseUpCards, KeyOrQuitCards, NewGameLoopCards
     DEF MouseNext
<1>2. CASE UNCHANGED vars
  <2>1. Busy'
    BY <1>2 DEF vars, gameVars, table, tap, flow, ICards, Busy
  <2> QED BY <1>2, <2>1, StillCards DEF vars, gameVars, tap
<1> QED BY <1>1, <1>2
-----------------------------------------------------------------------------
(* No move that is left alone loses a card or makes a second one of it.    *)
THEOREM EveryCardOnce == ASSUME Interrupts = 0 PROVE Spec => []CardsConserved
<1>1. IInv /\ AllOnTable /\ ICards => CardsConserved
  BY Invariant, CountsOne DEF AllOnTable, ICards, CardsConserved
<1> QED BY <1>1, InitIInv, NextIInv, InitAllOnTable, NextAllOnTable, InitCards, NextCards, PTL
        DEF Spec

(* On a foundation, ace, two, ... of one suit, face up, whatever the deck. *)
THEOREM FoundationsAlwaysBuilt == ASSUME Interrupts = 0 PROVE Spec => []FoundationsBuilt
<1>1. ICards => FoundationsBuilt
  BY RegionFacts DEF ICards, TableFits, Fits, Built, FoundationsBuilt
<1> QED BY <1>1, InitIInv, NextIInv, InitCards, NextCards, PTL DEF Spec

(* On the tableau, runs of alternating colours, whatever the deck.         *)
THEOREM TableauAlwaysBuilt == ASSUME Interrupts = 0 PROVE Spec => []TableauBuilt
<1>1. ICards => TableauBuilt
  BY RegionFacts DEF ICards, TableFits, Fits, TableauBuilt
<1> QED BY <1>1, InitIInv, NextIInv, InitCards, NextCards, PTL DEF Spec

LEMMA SavedWhenWon == ASSUME IInv, MouseNext, saves' > saves PROVE Won(pile')
<1>1. saves \in Nat
  BY Invariant DEF FlowOK, MaxSaves
<1>2. CASE newGame
  BY <1>1, <1>2 DEF newGame
<1>3. ASSUME NEW p, NEW S, checkForVictory(p, S) PROVE Won(p)
  BY <1>1, <1>3 DEF checkForVictory
<1>4. CASE ZoomTerminated
  <2>1. continueLamda = "EndOfDrag" /\ Won(pile)
    BY <1>1, <1>3, <1>4 DEF ZoomTerminated
  <2>2. pile' = pile
    BY <1>4, <2>1 DEF ZoomTerminated, PileAfterLamda
  <2> QED BY <2>1, <2>2
<1>5. ASSUME NEW st, endOfDragAndCheckForVictory(st) PROVE Won(pile')
  BY <1>3, <1>5 DEF endOfDragAndCheckForVictory, DoDrop, table
<1>6. CASE Iterate
  <2>1. ~ZoomTerminated /\ ~DoNewGame => saves' = saves
    BY <1>6 DEF Iterate, HandleIterate, FirstFrame, FirstScene, InitDragStep1, InitDragStep2,
       InitDragAfterFromSingleTapA, ForcedDrop, InitDragAfterGiven, ZoomEnd, InGame,
       TapIterate, AskForNewGame, FadingOut, VictoryAnimationIterate, ShowScore,
       Terminated, MsgBoxDone, observed
  <2> QED BY <1>1, <1>2, <1>4, <2>1 DEF DoNewGame
<1>7. CASE KeyDown \/ Quit \/ \E b \in MouseButtons : MouseDown(b)
  <2>1. saves' = saves
    BY <1>7 DEF KeyDown, KeyDownEvent, Quit, QuitEvent, MouseDown, Goto, DismissVictory,
       ButCmdClicked, gameVars, observed
  <2> QED BY <1>1, <2>1
<1>8. ASSUME NEW b \in MouseButtons, MouseUp(b) PROVE Won(pile')
  <2>1. ~MouseUpInGame => saves' = saves
    BY <1>8 DEF MouseUp, ButCmdClicked, gameVars, observed
  <2> QED BY <1>1, <1>5, <2>1 DEF MouseUpInGame
<1> QED BY <1>2, <1>6, <1>7, <1>8 DEF MouseNext, NewGameLoop, StartGameLoop

(* When checkForVictory saves a score, nothing lies outside the foundations. *)
THEOREM SavedGamesFinished == ASSUME Interrupts = 0 PROVE Spec => SavesFinishedGame
<1>1. IInv /\ ICards => Finished
  BY Invariant, WonMeansDone DEF Finished, ICards
<1>2. IInv /\ Finished' /\ [MouseNext]_vars => [SaveStep]_<<pile, saves>>
  <2> SUFFICES ASSUME IInv, Finished', [MouseNext]_vars PROVE [SaveStep]_<<pile, saves>>
    OBVIOUS
  <2>1. CASE MouseNext
    BY <2>1, SavedWhenWon DEF Finished, SaveStep
  <2>2. CASE UNCHANGED vars
    BY <2>2 DEF vars, gameVars, table, observed
  <2> QED BY <2>1, <2>2
<1>3. [][SaveStep]_<<pile, saves>> => SavesFinishedGame
  BY DEF SaveStep, SavesFinishedGame
<1> QED BY <1>1, <1>2, <1>3, InitIInv, NextIInv, InitCards, NextCards, PTL DEF Spec

=============================================================================
