----------------------- MODULE SolitarioTouch_proofs ------------------------
(***************************************************************************)
(* The touch build, for every deck, every number of piles and any number   *)
(* of fingers that come down and go up in any order.                       *)
(*                                                                         *)
(* What the mouse build rests on is gone: a second finger taps while a     *)
(* move is under way, its cargo merges with the one that is there, a move  *)
(* is let go before it began.  Cargo is therefore found in states where    *)
(* the mouse build has none, callbacks find no cargo, and the rules of the *)
(* game do not hold.  What is left is inductive all the same: the machine  *)
(* always goes on in a state it knows, no card is lost, and if moves are   *)
(* not cut short by commands no card is there twice.                       *)
(***************************************************************************)
EXTENDS SolitarioTouch, SolitarioGame_proofs

USE DEF Victory, InitDrag, TapClick, Zoom, Fading, State, Unset, GameFlowOK

(* The states in which the game listens to fingers on the table.           *)
Playing == State \ (Victory \cup Zoom \cup Fading \cup {"IN_MSGBOX"})

(* The state members are set before the frame that goes on in them, and    *)
(* whatever is in the drag, a region was selected that it can go back to.  *)
GoesOn ==
    /\ stateAfter \in {Unset, "TERMINATED", "DO_NEWGAME"}
    /\ stateAfterYes \in {Unset, "DO_NEWGAME", "FADING_OUT"}
    /\ stateAfterNo \in {Unset} \cup Playing
    /\ state = "WAIT_FOR_FADING" => stateAfter # Unset
    /\ state \in Zoom => statePrev \in Playing
    /\ state = "IN_MSGBOX" =>
          /\ msgBox.type # "NULL"
          /\ msgBox.type = "TY_MBOK" => stateAfter # Unset
          /\ msgBox.type = "TY_MB_YES_NO" => stateAfterYes # Unset /\ stateAfterNo # Unset
CanGoBack == dragStack # <<>> => selected \in Region

ITouch == TouchTypeOK /\ GoesOn /\ CanGoBack

LEMMA TouchTypeParts ==
    TouchTypeOK <=> TableOK /\ TapOK /\ GameFlowOK /\ FingersOK
BY DEF TouchTypeOK, TypeOK, TableOK, TapOK

LEMMA TouchInvariant ==
    ASSUME ITouch
    PROVE  TableOK /\ TapOK /\ GameFlowOK /\ GoesOn /\ CanGoBack /\ FingersOK
BY TouchTypeParts DEF ITouch

LEMMA TouchParts ==
    ASSUME TableOK', TapOK', GameFlowOK', GoesOn', CanGoBack', FingersOK'
    PROVE  ITouch'
BY DEF ITouch, TouchTypeOK, TypeOK, TableOK, TapOK

LEMMA TouchCurrent ==
    ASSUME ITouch
    PROVE  /\ state # "WAIT_FOR_FADING" => current = state
           /\ state = "WAIT_FOR_FADING" => current \in {"TERMINATED", "DO_NEWGAME"}
           /\ current \in State
BY TouchInvariant DEF GoesOn, current
-----------------------------------------------------------------------------
(* The frames.                                                             *)

LEMMA SameFingers == ASSUME FingersOK, UNCHANGED touch PROVE FingersOK'
BY DEF FingersOK, touch

LEMMA ControlFrameTouch ==
    ASSUME ITouch, ControlFrame, FingersOK'
    PROVE  ITouch' /\ UNCHANGED table
<1> USE DEF GoesOn, Playing, flow, observed, MsgBox, ShowYesNo
<1>0. /\ TableOK /\ TapOK /\ GameFlowOK /\ GoesOn /\ CanGoBack
      /\ FingersOK
  BY TouchInvariant
<1>1. UNCHANGED <<table, startdrag, continueLamda, observed>> /\ UNCHANGED tap
  BY DEF ControlFrame, FirstFrame, FirstScene, InitDragStep1, InitDragStep2, ZoomEnd,
         InGame, AskForNewGame, FadingOut, VictoryAnimationIterate, ShowScore,
         Terminated, MsgBoxDone
<1>2. TableOK' /\ TapOK' /\ CanGoBack'
  BY <1>0, <1>1 DEF TableOK, TapOK, CanGoBack, table, tap
<1>3. GoesOn' /\ GameFlowOK'
  <2>1. CASE FirstFrame
    BY <1>0, <1>1, <2>1, TouchCurrent, TouchAssumption DEF FirstFrame
  <2>2. CASE FirstScene \/ InitDragStep1 \/ InitDragStep2
    BY <1>0, <1>1, <2>2 DEF FirstScene, InitDragStep1, InitDragStep2
  <2>3. CASE ZoomEnd
    BY <1>0, <1>1, <2>3, TouchCurrent DEF ZoomEnd
  <2>4. CASE InGame
    BY <1>0, <1>1, <2>4, TouchCurrent DEF InGame
  <2>5. CASE AskForNewGame
    BY <1>0, <1>1, <2>5 DEF AskForNewGame
  <2>6. CASE FadingOut
    BY <1>0, <1>1, <2>6 DEF FadingOut
  <2>7. CASE VictoryAnimationIterate
    <3>1. /\ state' \in {"NEW_CARD_VICTORY", "IN_CARD_VICTORY", "IN_GAME"}
          /\ vict' \in BOOLEAN
          /\ UNCHANGED <<statePrev, stateAfter, stateAfterYes, stateAfterNo, msgBox, done>>
      BY <1>0, <2>7 DEF VictoryAnimationIterate
    <3> QED BY <1>0, <1>1, <3>1
  <2>8. CASE ShowScore
    BY <1>0, <1>1, <2>8 DEF ShowScore
  <2>9. CASE Terminated
    BY <1>0, <1>1, <2>9 DEF Terminated
  <2>10. CASE MsgBoxDone
    <3>1. /\ state = "IN_MSGBOX" /\ statePrev' = "IN_MSGBOX"
          /\ UNCHANGED <<stateAfter, stateAfterYes, stateAfterNo, msgBox, vict, done>>
      BY <1>0, <2>10, TouchCurrent DEF MsgBoxDone
    <3>2. state' \in Playing \cup {"FADING_OUT"}
      <4>1. CASE msgBox.type = "TY_MBOK"
        <5>1. state' = stateAfter
          BY <2>10, <4>1 DEF MsgBoxDone
        <5> QED BY <1>0, <3>1, <4>1, <5>1
      <4>2. CASE msgBox.type # "TY_MBOK"
        <5>1. state' \in {stateAfterYes, stateAfterNo}
          BY <2>10, <4>2 DEF MsgBoxDone
        <5>2. msgBox.type = "TY_MB_YES_NO"
          BY <1>0, <3>1, <4>2
        <5> QED BY <1>0, <3>1, <5>1, <5>2
      <4> QED BY <4>1, <4>2
    <3> QED BY <1>0, <1>1, <3>1, <3>2
  <2> QED BY <2>1, <2>2, <2>3, <2>4, <2>5, <2>6, <2>7, <2>8, <2>9, <2>10 DEF ControlFrame
<1> QED BY <1>0, <1>1, <1>2, <1>3, TouchParts

(* Frames that change nothing the state members are about but the state.   *)
LEMMA GoesOnKept ==
    ASSUME GoesOn, UNCHANGED <<stateAfter, stateAfterYes, stateAfterNo, msgBox>>,
           \/ state' \in Playing \cup Victory
           \/ state' \in Zoom /\ statePrev' \in Playing
           \/ state' = state /\ statePrev' = statePrev
           \/ state' = "FADING_OUT"
    PROVE  GoesOn'
BY DEF GoesOn, Playing

LEMMA DoNewGameTouch == ASSUME ITouch, DoNewGame, FingersOK' PROVE ITouch'
<1>0. /\ TableOK /\ TapOK /\ GameFlowOK /\ GoesOn /\ CanGoBack
      /\ FingersOK
  BY TouchInvariant
<1>1. /\ state' = "IN_GAME" /\ statePrev' = "IN_GAME" /\ newGame
      /\ UNCHANGED <<dragStack, tap, stateAfter, stateAfterYes, stateAfterNo, msgBox, done,
                     startdrag, continueLamda, interrupts>>
  BY DEF DoNewGame
<1>2. /\ pile' \in [Region -> Seq(Card)] /\ dealtStock' \in Seq(Deck)
      /\ vict' = FALSE /\ saves' = 0
  BY <1>1, NewGameType
<1>3. TableOK' /\ TapOK' /\ CanGoBack'
  BY <1>0, <1>1, <1>2 DEF TableOK, TapOK, CanGoBack, tap
<1>4. GameFlowOK'
  <2>1. saves' \in 0..MaxSaves
    BY <1>2 DEF MaxSaves
  <2>2. UNCHANGED <<stateAfter, stateAfterYes, stateAfterNo, msgBox, done, startdrag,
                    continueLamda, interrupts>>
    BY <1>1
  <2> QED BY <1>0, <1>1, <1>2, <2>1, <2>2
<1>5. GoesOn'
  BY <1>0, <1>1, GoesOnKept DEF Playing
<1> QED BY <1>0, <1>3, <1>4, <1>5, TouchParts

LEMMA FromSingleTapATouch ==
    ASSUME ITouch, InitDragAfterFromSingleTapA, FingersOK'
    PROVE  ITouch' /\ UNCHANGED table
<1>0. /\ TableOK /\ TapOK /\ GameFlowOK /\ GoesOn /\ CanGoBack
      /\ FingersOK
  BY TouchInvariant
<1>1. /\ state' = "IN_GAME" /\ continueFn' = "NULL"
      /\ startdrag' \in BOOLEAN /\ isInitDrag' \in BOOLEAN
      /\ UNCHANGED <<table, selected, dropRegion, cardStackForDrag, flow, continueLamda,
                     observed>>
  BY <1>0 DEF InitDragAfterFromSingleTapA, TapOK
<1>2. TableOK' /\ TapOK' /\ CanGoBack'
  BY <1>0, <1>1 DEF TableOK, TapOK, CanGoBack, ContinueFn, table, observed
<1>3. GameFlowOK' /\ GoesOn'
  BY <1>0, <1>1, GoesOnKept DEF Playing, flow, observed
<1> QED BY <1>0, <1>1, <1>2, <1>3, TouchParts

(* The cargo falls: into a region, or there is none.                       *)
LEMMA FallsTouch ==
    ASSUME TableOK, CanGoBack, NEW given \in Region \cup {NoRegion},
           NEW dest \in DropTargets(given), NEW from, DoDrop(dest, from)
    PROVE  /\ pile' \in [Region -> Seq(Card)] /\ dragStack' = <<>>
           /\ AllOnTable => AllOnTable'
           /\ OnceEach => OnceEach'
<1>1. /\ pile' = [pile EXCEPT ![dest] = pile[dest] \o dragStack] /\ dragStack' = <<>>
      /\ pile' \in [Region -> Seq(Card)]
  BY DropType DEF DoDrop, Dropped
<1>2. CASE dest \in Region
  BY <1>1, <1>2, DropKeeps, DropOnce DEF AllOnTable
<1>3. CASE dest \notin Region
  <2>1. dragStack = <<>>
    BY <1>3, DropTargetsType DEF CanGoBack
  <2>2. pile' = pile /\ dragStack' = dragStack
    BY <1>1, <1>3, <2>1 DEF TableOK
  <2> QED BY <1>1, <2>2 DEF AllOnTable, OnTable, OnceEach
<1> QED BY <1>2, <1>3

(* The frame after the zoom's first ones drops the cargo.                  *)
DropFrame == ForcedDrop \/ InitDragAfterGiven

LEMMA DropFrameTouch ==
    ASSUME ITouch, DropFrame, FingersOK'
    PROVE  /\ ITouch' /\ dragStack' = <<>>
           /\ AllOnTable => AllOnTable'
           /\ OnceEach => OnceEach'
<1>0. /\ TableOK /\ TapOK /\ GameFlowOK /\ GoesOn /\ CanGoBack
      /\ FingersOK
  BY TouchInvariant
<1>1. PICK given \in Region \cup {NoRegion} :
         \E dest \in DropTargets(given) :
            DoDrop(dest, "IN_GAME") /\ state' \in AfterDrop(dest)
  <2>1. CASE ForcedDrop
    BY <2>1 DEF ForcedDrop
  <2>2. CASE InitDragAfterGiven
    <3> DEFINE to == [SingleTapB |-> DeckPile_Ix, SingleTapC |-> DeckFaceUp,
                      DoubleTap |-> dropRegion]
    <3>1. /\ continueFn \in {"SingleTapB", "SingleTapC", "DoubleTap"}
          /\ \E dest \in DropTargets(to[continueFn]) :
                DoDrop(dest, "IN_GAME") /\ state' \in AfterDrop(dest)
      BY <2>2 DEF InitDragAfterGiven
    <3>2. to[continueFn] \in Region \cup {NoRegion}
      BY <1>0, <3>1, RegionFacts DEF TapOK
    <3> HIDE DEF to
    <3> QED BY <3>1, <3>2
  <2> QED BY <2>1, <2>2 DEF DropFrame
<1>2. PICK dest \in DropTargets(given) : DoDrop(dest, "IN_GAME") /\ state' \in AfterDrop(dest)
  BY <1>1
<1>3. /\ pile' \in [Region -> Seq(Card)] /\ dragStack' = <<>>
      /\ AllOnTable => AllOnTable'
      /\ OnceEach => OnceEach'
  BY <1>0, <1>2, FallsTouch
<1>4. /\ continueLamda' \in {continueLamda, "SingleTapB", "SingleTapC", "DoubleTap"}
      /\ continueFn' = "NULL" /\ statePrev' = "IN_GAME"
      /\ UNCHANGED <<selected, isInitDrag, dropRegion, cardStackForDrag,
                     stateAfter, stateAfterYes, stateAfterNo, msgBox, vict, done,
                     startdrag, observed>>
  BY <1>2 DEF DropFrame, ForcedDrop, InitDragAfterGiven, DoDrop
<1>5. state' \in Zoom
  BY <1>2, AfterDropType
<1>6. TableOK' /\ TapOK' /\ CanGoBack'
  BY <1>0, <1>3, <1>4 DEF TableOK, TapOK, CanGoBack, ContinueFn, observed
<1>7. GameFlowOK'
  BY <1>0, <1>4, <1>5 DEF observed, ContinueLamda
<1>8. GoesOn'
  BY <1>0, <1>4, <1>5, GoesOnKept DEF Playing
<1> QED BY <1>0, <1>3, <1>6, <1>7, <1>8, TouchParts

LEMMA ZoomTerminatedTouch ==
    ASSUME ITouch, ZoomTerminated, FingersOK'
    PROVE  ITouch'
<1>0. /\ TableOK /\ TapOK /\ GameFlowOK /\ GoesOn /\ CanGoBack
      /\ FingersOK
  BY TouchInvariant
<1>1. /\ state = "IN_ZOOM_TERMINATED" /\ statePrev \in Playing
      /\ continueLamda' = "NULL" /\ pile' = PileAfterLamda
      /\ dropRegion' \in {dropRegion, NoRegion} /\ cardStackForDrag' \in BOOLEAN
      /\ UNCHANGED <<dragStack, selected, continueFn, isInitDrag, flow, startdrag,
                     dealtStock, interrupts>>
  BY <1>0, TouchCurrent DEF ZoomTerminated, GoesOn, TapOK
<1>2. state' \in {statePrev, "START_VICTORY"} /\ saves' \in 0..MaxSaves
  BY <1>0, CheckForVictoryType DEF ZoomTerminated
<1>3. pile' \in [Region -> Seq(Card)]
  <2>1. /\ pile[DeckPile_Ix] \in Seq(Card)
        /\ Reversed(pile[DeckPile_Ix]) \in Seq(Card)
    BY <1>0, RegionFacts, ReversedType DEF TableOK
  <2> QED BY <1>0, <1>1, <2>1 DEF TableOK, PileAfterLamda
<1>4. TableOK' /\ TapOK' /\ CanGoBack'
  BY <1>0, <1>1, <1>3 DEF TableOK, TapOK, CanGoBack
<1>5. GameFlowOK'
  BY <1>0, <1>1, <1>2 DEF Playing, flow, ContinueLamda
<1>6. GoesOn'
  BY <1>0, <1>1, <1>2, GoesOnKept DEF flow
<1> QED BY <1>0, <1>4, <1>5, <1>6, TouchParts

(* A tap in the state st.                                                  *)
LEMMA TapSelects ==
    ASSUME TableOK, CanGoBack, NEW st, singleTapOrLeftClick(st) \/ doubleTapOrRightClick(st)
    PROVE  CanGoBack'
<1>1. ASSUME NEW r \in Region \cup {NoRegion}, TapIgnored(r, st) PROVE CanGoBack'
  BY <1>1 DEF TapIgnored, CanGoBack, table
<1>2. ASSUME NEW r \in Region, NEW k, TapPile(r, k, st) PROVE CanGoBack'
  BY <1>2 DEF TapPile, CanGoBack
<1>3. ASSUME clickOnDeckStock(st) PROVE CanGoBack'
  BY <1>3, RegionFacts DEF clickOnDeckStock, CanGoBack
<1>4. ASSUME NEW r \in Region, DoubleTapCard(r) PROVE CanGoBack'
  BY <1>4 DEF DoubleTapCard, CanGoBack
<1>5. CASE singleTapOrLeftClick(st)
  BY <1>1, <1>2, <1>3, <1>5, RegionFacts DEF singleTapOrLeftClick
<1>6. CASE doubleTapOrRightClick(st)
  BY <1>1, <1>3, <1>4, <1>6, RegionFacts DEF doubleTapOrRightClick
<1> QED BY <1>5, <1>6

LEMMA TapTakes ==
    ASSUME ITouch, NEW st, singleTapOrLeftClick(st) \/ doubleTapOrRightClick(st),
           UNCHANGED dealtStock
    PROVE  TableOK' /\ TapOK' /\ CanGoBack' /\ state' \in {st, "INITDRAG_STEP1"}
<1>0. TableOK /\ TapOK /\ CanGoBack
  BY TouchInvariant
<1>1. TapResult(st)
  BY <1>0, SingleTapType, DoubleTapType
<1>2. CanGoBack'
  BY <1>0, TapSelects
<1> QED BY <1>1, <1>2 DEF TapResult

LEMMA TapTouch ==
    ASSUME ITouch, NEW st \in Playing, singleTapOrLeftClick(st) \/ doubleTapOrRightClick(st),
           UNCHANGED <<flow, startdrag, continueLamda, observed>>,
           FingersOK'
    PROVE  ITouch'
<1>0. GameFlowOK /\ GoesOn
  BY TouchInvariant
<1>1. TableOK' /\ TapOK' /\ CanGoBack' /\ state' \in {st, "INITDRAG_STEP1"}
  BY TapTakes DEF observed
<1>2. GameFlowOK' /\ GoesOn'
  BY <1>0, <1>1, GoesOnKept DEF Playing, flow, observed
<1> QED BY <1>1, <1>2, TouchParts

LEMMA IterateTouch == ASSUME ITouch, Iterate PROVE ITouch'
<1>0. FingersOK'
  BY TouchInvariant, SameFingers DEF Iterate
<1>1. CASE TapIterate
  <2>1. "IN_GAME" \in Playing
    BY DEF Playing
  <2> QED BY <1>0, <1>1, <2>1, TapTouch DEF TapIterate
<1> QED BY <1>0, <1>1, ControlFrameTouch, DoNewGameTouch, FromSingleTapATouch, DropFrameTouch,
           ZoomTerminatedTouch DEF Iterate, HandleIterate, ControlFrame, DropFrame
-----------------------------------------------------------------------------
(* The events.                                                             *)

LEMMA CommandedTouch ==
    ASSUME GameFlowOK, NEW cmd, Commanded(cmd) PROVE interrupts' \in 0..Interrupts
BY GameAssumption DEF Commanded

(* An event that leaves the cards, the last tap and the drag alone.        *)
LEMMA EventTouch ==
    ASSUME ITouch, UNCHANGED <<table, tap, startdrag, continueLamda, saves, dealtStock>>,
           UNCHANGED <<statePrev, stateAfter, done>>,
           state' \in State, vict' \in BOOLEAN, msgBox' \in MsgBox,
           {stateAfterYes', stateAfterNo'} \subseteq State \cup {Unset},
           interrupts' \in 0..Interrupts, FingersOK', GoesOn'
    PROVE  ITouch'
<1>0. TableOK /\ TapOK /\ GameFlowOK /\ CanGoBack
  BY TouchInvariant
<1>1. TableOK' /\ TapOK' /\ CanGoBack'
  BY <1>0 DEF TableOK, TapOK, CanGoBack, table, tap
<1>2. GameFlowOK'
  BY <1>0
<1> QED BY <1>1, <1>2, TouchParts

(* The question, and the move that may take its place.                     *)
LEMMA FingerOnButtonTouch ==
    ASSUME ITouch, FingerDownOnButton, FingersOK' PROVE ITouch'
<1>0. GameFlowOK /\ GoesOn /\ state \in Playing
  BY TouchInvariant DEF FingerDownOnButton, Listening, Playing
<1>1. PICK yes \in {"DO_NEWGAME", "FADING_OUT"} : ShowYesNo(state, yes)
  BY DEF FingerDownOnButton
<1>2. UNCHANGED <<statePrev, stateAfter, vict, done, startdrag, continueLamda, saves,
                  dealtStock>>
  BY DEF FingerDownOnButton
<1>3. interrupts' \in 0..Interrupts
  BY <1>0, CommandedTouch DEF FingerDownOnButton
<1>4. /\ stateAfterYes' = yes /\ stateAfterNo' = state
      /\ msgBox' \in MsgBox /\ msgBox'.type = "TY_MB_YES_NO"
  BY <1>1 DEF ShowYesNo, MsgBox
<1>5. TableOK' /\ TapOK' /\ CanGoBack' /\ state' \in {"IN_MSGBOX", "INITDRAG_STEP1"}
  BY TapTakes DEF FingerDownOnButton, Tap
<1>6. GoesOn'
  BY <1>0, <1>2, <1>4, <1>5 DEF GoesOn, Playing
<1>7. GameFlowOK'
  BY <1>0, <1>2, <1>3, <1>4, <1>5 DEF Playing
<1> QED BY <1>5, <1>6, <1>7, TouchParts

LEMMA DismissVictoryTouch ==
    ASSUME ITouch, DismissVictory, FingersOK' PROVE ITouch'
<1>0. GameFlowOK /\ GoesOn
  BY TouchInvariant
<1>1. /\ state' = "SHOW_SCORE" /\ vict' = FALSE
      /\ UNCHANGED <<table, tap, statePrev, stateAfter, stateAfterYes, stateAfterNo, msgBox,
                     done, startdrag, continueLamda, observed>>
  BY DEF DismissVictory
<1>2. GoesOn'
  BY <1>0, <1>1, GoesOnKept DEF Playing
<1> QED BY <1>0, <1>1, <1>2, EventTouch DEF observed

LEMMA ButCmdClickedTouch ==
    ASSUME ITouch, NEW res \in {"RES_YES", "RES_NO"}, ButCmdClicked(res),
           FingersOK'
    PROVE  ITouch'
<1>0. GameFlowOK /\ GoesOn
  BY TouchInvariant
<1>1. UNCHANGED <<table, tap, state, statePrev, stateAfter, stateAfterYes, stateAfterNo,
                  vict, done, startdrag, continueLamda, observed>>
  BY DEF ButCmdClicked
<1>2. msgBox' \in MsgBox /\ msgBox'.type = msgBox.type
  BY <1>0 DEF ButCmdClicked, MsgBox
<1>3. GoesOn'
  BY <1>0, <1>1, <1>2 DEF GoesOn
<1> QED BY <1>0, <1>1, <1>2, <1>3, EventTouch DEF observed

LEMMA GotoTouch ==
    ASSUME ITouch, NEW s \in Playing \cup Victory \cup {"FADING_OUT"}, Goto(s),
           interrupts' \in 0..Interrupts, FingersOK'
    PROVE  ITouch'
<1>0. GameFlowOK /\ GoesOn
  BY TouchInvariant
<1>1. /\ state' = s
      /\ UNCHANGED <<table, tap, startdrag, continueLamda, saves, dealtStock>>
      /\ UNCHANGED <<statePrev, stateAfter, stateAfterYes, stateAfterNo, msgBox, vict, done>>
  BY DEF Goto, flow
<1>2. GoesOn'
  BY <1>0, <1>1, GoesOnKept
<1> QED BY <1>0, <1>1, <1>2, EventTouch DEF Playing

LEMMA KeyOrQuitTouch ==
    ASSUME ITouch, KeyDownEvent \/ QuitEvent, FingersOK'
    PROVE  ITouch'
<1>1. ASSUME NEW cmd, Commanded(cmd),
             NEW s \in {"TERMINATED", "START_VICTORY", "ASK_FOR_NEW_GAME", "FADING_OUT"}, Goto(s)
      PROVE  ITouch'
  BY <1>1, TouchInvariant, CommandedTouch, GotoTouch DEF Playing
<1> QED BY <1>1, DismissVictoryTouch, ButCmdClickedTouch DEF KeyDownEvent, QuitEvent

(* The end of a drag, or a finger that goes up without one.                *)
FingerUpInGame ==
    /\ Listening
    /\ isInitDrag' = FALSE
    /\ endOfDragAndCheckForVictory(state)
    /\ UNCHANGED <<selected, continueFn, dropRegion, cardStackForDrag, interrupts,
                   stateAfter, stateAfterYes, stateAfterNo, msgBox, vict, done>>

LEMMA FingerUpTouch ==
    ASSUME ITouch, FingerUpInGame, FingersOK'
    PROVE  /\ ITouch'
           /\ AllOnTable => AllOnTable'
           /\ OnceEach => OnceEach'
           /\ \/ dragStack' = <<>>
              \/ UNCHANGED table /\ (Won(pile) \/ state' = state)
<1>0. /\ TableOK /\ TapOK /\ GameFlowOK /\ GoesOn /\ CanGoBack /\ state \in Playing
  BY TouchInvariant DEF FingerUpInGame, Listening, Playing
<1>1. /\ isInitDrag' = FALSE /\ dealtStock' = dealtStock
      /\ UNCHANGED <<selected, continueFn, dropRegion, cardStackForDrag, interrupts,
                     stateAfter, stateAfterYes, stateAfterNo, msgBox, vict, done>>
  BY DEF FingerUpInGame, endOfDragAndCheckForVictory
<1>2. CASE startdrag
  <2>1. PICK dest \in DropTargets(NoRegion) :
           DoDrop(dest, state) /\ checkForVictory(Dropped(dest), AfterDrop(dest))
    BY <1>2 DEF FingerUpInGame, endOfDragAndCheckForVictory
  <2>2. /\ pile' \in [Region -> Seq(Card)] /\ dragStack' = <<>>
        /\ AllOnTable => AllOnTable'
        /\ OnceEach => OnceEach'
    BY <1>0, <2>1, FallsTouch
  <2>3. /\ startdrag' = FALSE /\ continueLamda' = "EndOfDrag" /\ statePrev' = state
    BY <1>2, <2>1 DEF FingerUpInGame, endOfDragAndCheckForVictory, DoDrop
  <2>4. state' \in Zoom \cup {"START_VICTORY"} /\ saves' \in 0..MaxSaves
    BY <1>0, <2>1, CheckForVictoryType, AfterDropType
  <2>5. TableOK'
    BY <1>0, <1>1, <2>2 DEF TableOK
  <2>5a. TapOK' /\ CanGoBack'
    BY <1>0, <1>1, <2>2 DEF TapOK, CanGoBack
  <2>6. GameFlowOK'
    BY <1>0, <1>1, <2>3, <2>4 DEF ContinueLamda
  <2>7. GoesOn'
    BY <1>0, <1>1, <2>3, <2>4, GoesOnKept
  <2> QED BY <2>2, <2>5, <2>5a, <2>6, <2>7, TouchParts
<1>3. CASE ~startdrag
  <2>1. /\ UNCHANGED <<startdrag, statePrev, continueLamda>> /\ UNCHANGED table
        /\ checkForVictory(pile, {state})
    BY <1>3 DEF FingerUpInGame, endOfDragAndCheckForVictory
  <2>2. state' \in {state, "START_VICTORY"} /\ saves' \in 0..MaxSaves
    BY <1>0, <2>1, CheckForVictoryType
  <2>3. TableOK' /\ TapOK' /\ CanGoBack'
    BY <1>0, <1>1, <2>1 DEF TableOK, TapOK, CanGoBack, table
  <2>4. GameFlowOK'
    BY <1>0, <1>1, <2>1, <2>2
  <2>5. GoesOn'
    BY <1>0, <1>1, <2>1, <2>2, GoesOnKept
  <2>6. (AllOnTable => AllOnTable') /\ (OnceEach => OnceEach')
    BY <2>1 DEF AllOnTable, OnTable, OnceEach, table
  <2>7. Won(pile) \/ state' = state
    BY <2>1 DEF checkForVictory
  <2> QED BY <2>1, <2>3, <2>4, <2>5, <2>6, <2>7, TouchParts
<1> QED BY <1>2, <1>3

LEMMA UnchangedTouch ==
    ASSUME ITouch, UNCHANGED gameVars, FingersOK' PROVE ITouch'
BY DEF ITouch, TouchTypeOK, TypeOK, GoesOn, CanGoBack, gameVars, table, tap, flow, observed

LEMMA FingerDownTouch == ASSUME ITouch, FingerDown PROVE ITouch'
<1>1. FingersOK'
  BY TouchInvariant, TouchAssumption DEF FingerDown, FingersOK
<1>2. CASE FingerDownOnTable
  <2>1. state \in Playing
    BY <1>2, TouchInvariant DEF FingerDownOnTable, Listening, Playing
  <2> QED BY <1>1, <1>2, <2>1, TapTouch DEF FingerDownOnTable, Tap
<1> QED BY <1>1, <1>2, FingerOnButtonTouch, DismissVictoryTouch, ButCmdClickedTouch,
           UnchangedTouch DEF FingerDown

LEMMA FingerUpAnyTouch == ASSUME ITouch, FingerUp PROVE ITouch'
<1>1. FingersOK'
  BY TouchInvariant, TouchAssumption DEF FingerUp, FingersOK
<1> QED BY <1>1, FingerUpTouch, UnchangedTouch DEF FingerUp, FingerUpInGame

(* A new SolitarioGfx, at the start of the program or from the menu.       *)
LEMMA InitTouch == TouchInit => ITouch
<1> SUFFICES ASSUME TouchInit PROVE ITouch
  OBVIOUS
<1>1. \A d \in Shuffles : d \in Seq(Deck)
  BY GameAssumption
<1>2. TableOK /\ CanGoBack
  BY <1>1, DealType DEF TouchInit, Init, TableOK, CanGoBack
<1>3. TapOK
  BY DEF TouchInit, Init, TapOK, ContinueFn
<1>4. GameFlowOK
  <2>1. msgBox \in MsgBox
    BY DEF TouchInit, Init, MsgBox
  <2>2. saves \in 0..MaxSaves /\ interrupts \in 0..Interrupts
    BY GameAssumption DEF TouchInit, Init, MaxSaves
  <2>3. {statePrev, stateAfter, stateAfterYes, stateAfterNo} \subseteq State \cup {Unset}
    BY DEF TouchInit, Init
  <2> QED BY <2>1, <2>2, <2>3 DEF TouchInit, Init, ContinueLamda
<1>5. GoesOn
  BY DEF TouchInit, Init, GoesOn
<1>6. FingersOK
  <2>1. fingers = 0 /\ 0 \in 0..MaxFingers
    BY TouchAssumption DEF TouchInit
  <2> QED BY <2>1 DEF TouchInit, FingersOK
<1> QED BY <1>2, <1>3, <1>4, <1>5, <1>6, TouchTypeParts DEF ITouch

LEMMA NewGameLoopTouch ==
    ASSUME ITouch, StartGameLoop, FingersOK' PROVE ITouch'
<1>1. /\ newGame /\ dragStack' = <<>> /\ interrupts' = 0
      /\ msgBox' = [type |-> "NULL", inProgress |-> FALSE, result |-> "RES_YES"]
      /\ statePrev' = Unset /\ stateAfter' = Unset
      /\ stateAfterYes' = Unset /\ stateAfterNo' = Unset
      /\ state' = "READY_TO_START"
  BY DEF StartGameLoop
<1>2. TableOK' /\ CanGoBack'
  BY <1>1, NewGameType DEF TableOK, CanGoBack
<1>3. TapOK'
  BY DEF StartGameLoop, TapOK, ContinueFn
<1>4. GameFlowOK'
  <2>1. msgBox' \in MsgBox
    BY <1>1 DEF MsgBox
  <2>2. saves' \in 0..MaxSaves /\ interrupts' \in 0..Interrupts /\ vict' = FALSE
    BY <1>1, NewGameType, GameAssumption DEF MaxSaves
  <2>3. {statePrev', stateAfter', stateAfterYes', stateAfterNo'} \subseteq State \cup {Unset}
    BY <1>1
  <2> QED BY <2>1, <2>2, <2>3 DEF StartGameLoop, ContinueLamda
<1>5. GoesOn'
  BY <1>1 DEF GoesOn
<1> QED BY <1>2, <1>3, <1>4, <1>5, TouchParts

LEMMA NextTouch == ITouch /\ [TouchNext]_vars => ITouch'
<1> SUFFICES ASSUME ITouch, [TouchNext]_vars PROVE ITouch'
  OBVIOUS
<1>1. CASE (KeyDownEvent \/ QuitEvent \/ DismissVictory) /\ UNCHANGED touch
  BY <1>1, TouchInvariant, SameFingers, KeyOrQuitTouch, DismissVictoryTouch
<1>2. CASE UNCHANGED vars
  BY <1>2, TouchInvariant, SameFingers, UnchangedTouch DEF vars
<1> QED BY <1>1, <1>2, IterateTouch, FingerDownTouch, FingerUpAnyTouch, NewGameLoopTouch
        DEF TouchNext, FingersOK
-----------------------------------------------------------------------------
(* Every member of SolitarioGfx always holds a value of its type, however  *)
(* many fingers are on the screen.                                         *)
THEOREM TouchTyped == Spec => []TouchTypeOK
<1>1. ITouch => TouchTypeOK
  BY DEF ITouch
<1> QED BY <1>1, InitTouch, NextTouch, PTL DEF Spec

(* However many fingers tap, the machine is wherever a frame can use it:   *)
(* the state member it goes on in was assigned before.                     *)
THEOREM TouchStateAlwaysSet == Spec => []StateIsSet
<1>1. ITouch => StateIsSet
  BY TouchCurrent DEF StateIsSet
<1> QED BY <1>1, InitTouch, NextTouch, PTL DEF Spec
-----------------------------------------------------------------------------
(* NO CARD IS LOST                                                         *)

LEMMA IterateKeepsTouch == ASSUME ITouch, AllOnTable, Iterate PROVE AllOnTable'
<1>1. TableOK /\ FingersOK'
  BY TouchInvariant, SameFingers DEF Iterate
<1>2. CASE UNCHANGED table
  BY <1>2 DEF AllOnTable, OnTable, table
<1>3. CASE ControlFrame \/ InitDragAfterFromSingleTapA
  BY <1>1, <1>2, <1>3, ControlFrameTouch, FromSingleTapATouch
<1>4. CASE DoNewGame
  BY <1>4, AllDealt DEF DoNewGame
<1>5. CASE DropFrame
  BY <1>1, <1>5, DropFrameTouch
<1>6. CASE ZoomTerminated
  BY <1>1, <1>6, LamdaKeeps DEF ZoomTerminated, AllOnTable
<1>7. CASE TapIterate
  BY <1>1, <1>7, TapKeeps DEF TapIterate, AllOnTable
<1> QED BY <1>3, <1>4, <1>5, <1>6, <1>7 DEF Iterate, HandleIterate, ControlFrame, DropFrame

LEMMA NextKeepsTouch == ITouch /\ AllOnTable /\ [TouchNext]_vars => AllOnTable'
<1> SUFFICES ASSUME ITouch, AllOnTable, [TouchNext]_vars PROVE AllOnTable'
  OBVIOUS
<1>1. TableOK
  BY TouchInvariant
<1>2. CASE UNCHANGED table
  BY <1>2 DEF AllOnTable, OnTable, table
<1>3. CASE FingerDownOnTable \/ FingerDownOnButton
  BY <1>1, <1>3, TapKeeps DEF FingerDownOnTable, FingerDownOnButton, Tap, AllOnTable
<1>4. CASE FingerDown /\ ~FingerDownOnTable /\ ~FingerDownOnButton
  BY <1>2, <1>4 DEF FingerDown, DismissVictory, ButCmdClicked, gameVars
<1>5. CASE FingerUp
  <2>1. FingersOK'
    BY <1>5, TouchInvariant, TouchAssumption DEF FingerUp, FingersOK
  <2> QED BY <1>2, <1>5, <2>1, FingerUpTouch DEF FingerUp, FingerUpInGame, gameVars
<1>6. CASE KeyDownEvent \/ QuitEvent \/ DismissVictory
  BY <1>2, <1>6 DEF KeyDownEvent, QuitEvent, Goto, DismissVictory, ButCmdClicked
<1>7. CASE StartGameLoop
  BY <1>7, AllDealt DEF StartGameLoop
<1>8. CASE UNCHANGED vars
  BY <1>2, <1>8 DEF vars, gameVars
<1> QED BY <1>3, <1>4, <1>5, <1>6, <1>7, <1>8, IterateKeepsTouch DEF TouchNext

LEMMA InitKeepsTouch == TouchInit => AllOnTable
<1> SUFFICES ASSUME TouchInit PROVE AllOnTable
  OBVIOUS
<1>1. PICK deck \in Shuffles : pile = Deal(deck)
  BY DEF TouchInit, Init
<1>2. deck \in Seq(Deck) /\ Shuffled(deck)
  BY GameAssumption
<1>3. DealtTo(NumTableau + 1) <= Len(deck)
  BY <1>2, GameAssumption DEF Shuffled
<1> QED BY <1>1, <1>2, <1>3, DealHolds DEF AllOnTable, OnTable

(* However many fingers take and drop cards in whatever order, and however *)
(* new games cut into a move, no card is lost: what a second finger takes  *)
(* joins the cargo that is there, and it always falls on a pile.           *)
THEOREM NothingLostByTouch == Spec => []NoCardLost
<1>1. ITouch /\ AllOnTable => NoCardLost
  BY TouchInvariant, CountsHeld DEF AllOnTable, NoCardLost
<1> QED BY <1>1, InitTouch, NextTouch, InitKeepsTouch, NextKeepsTouch, PTL DEF Spec
-----------------------------------------------------------------------------
(* NO CARD IS THERE TWICE                                                  *)

(* Without commands in the middle of a move, cards are off the table only  *)
(* where the game goes on to deal with them.                               *)
CargoPlaces == dragStack # <<>> => state \in {"IN_GAME"} \cup InitDrag

OnceCards == OnceEach /\ CargoPlaces

(* Nothing moves.                                                          *)
LEMMA StillTouch ==
    ASSUME OnceCards, UNCHANGED table, dragStack = <<>> \/ state' \in {"IN_GAME"} \cup InitDrag
    PROVE  OnceCards'
BY DEF OnceCards, OnceEach, CargoPlaces, table

LEMMA NewGameOnceTouch == ASSUME newGame, dragStack' = <<>> PROVE OnceCards'
<1>1. PICK deck \in Shuffles : pile' = Deal(deck)
  BY DEF newGame
<1>2. Distinct(<<>>) /\ \A p : Apart(p, <<>>)
  BY DEF Distinct, Apart
<1>3. OnceEach'
  BY <1>1, <1>2, DealFits DEF OnceEach
<1> QED BY <1>3 DEF OnceCards, CargoPlaces

(* A tap that takes a card starts a move.                                  *)
LEMMA TapMoves ==
    ASSUME TableOK, NEW st, singleTapOrLeftClick(st) \/ doubleTapOrRightClick(st)
    PROVE  \/ state' = "INITDRAG_STEP1"
           \/ state' = st /\ dragStack' = dragStack
<1>0. dragStack \in Seq(Card)
  BY DEF TableOK
<1>1. ASSUME NEW r \in Region \cup {NoRegion}, TapIgnored(r, st)
      PROVE  state' = st /\ dragStack' = dragStack
  BY <1>1 DEF TapIgnored, table
<1>2. ASSUME NEW r \in Region, NEW k, TapPile(r, k, st)
      PROVE  state' = "INITDRAG_STEP1" \/ (state' = st /\ dragStack' = dragStack)
  <2> DEFINE p == IF r \in Tableau /\ k = Len(pile[r]) THEN TurnUpTop(pile[r]) ELSE pile[r]
             lift == CanLift(r, p, k)
  <2>1. /\ dragStack' = dragStack \o (IF lift THEN SubSeq(p, k, Len(p)) ELSE <<>>)
        /\ state' = IF lift THEN "INITDRAG_STEP1" ELSE st
    BY <1>2 DEF TapPile
  <2> HIDE DEF lift, p
  <2>2. dragStack \o <<>> = dragStack
    BY <1>0
  <2> QED BY <2>1, <2>2
<1>3. ASSUME clickOnDeckStock(st)
      PROVE  state' = "INITDRAG_STEP1" \/ (state' = st /\ dragStack' = dragStack)
  <2>1. state' = "INITDRAG_STEP1" \/ (state' = st /\ UNCHANGED table)
    BY <1>3, Zenon DEF clickOnDeckStock
  <2> QED BY <2>1 DEF table
<1>4. ASSUME NEW r \in Region, DoubleTapCard(r) PROVE state' = "INITDRAG_STEP1"
  BY <1>4 DEF DoubleTapCard
<1>5. CASE singleTapOrLeftClick(st)
  BY <1>1, <1>2, <1>3, <1>5, RegionFacts DEF singleTapOrLeftClick
<1>6. CASE doubleTapOrRightClick(st)
  BY <1>1, <1>3, <1>4, <1>6, RegionFacts DEF doubleTapOrRightClick
<1> QED BY <1>5, <1>6

LEMMA TapOnceTouch ==
    ASSUME ITouch, OnceCards, NEW st,
           singleTapOrLeftClick(st) \/ doubleTapOrRightClick(st),
           dragStack # <<>> => st \in {"IN_GAME"} \cup InitDrag
    PROVE  OnceCards'
<1>1. TableOK
  BY TouchInvariant
<1>2. OnceEach'
  BY <1>1, TapOnce DEF OnceCards
<1>3. CargoPlaces'
  BY <1>1, TapMoves DEF CargoPlaces
<1> QED BY <1>2, <1>3 DEF OnceCards

LEMMA IterateOnceTouch == ASSUME ITouch, OnceCards, Iterate PROVE OnceCards'
<1>0. /\ TableOK /\ (dragStack # <<>> => current = state /\ state \in {"IN_GAME"} \cup InitDrag)
      /\ FingersOK'
  BY TouchInvariant, TouchCurrent, SameFingers DEF Iterate, OnceCards, CargoPlaces
<1>1. CASE ControlFrame
  <2>1. UNCHANGED table
    BY <1>0, <1>1, ControlFrameTouch
  <2>2. dragStack # <<>> => state' \in {"IN_GAME"} \cup InitDrag
    BY <1>0, <1>1 DEF ControlFrame, FirstFrame, FirstScene, InitDragStep1, InitDragStep2,
       ZoomEnd, InGame, AskForNewGame, FadingOut, VictoryAnimationIterate, ShowScore,
       Terminated, MsgBoxDone
  <2> QED BY <2>1, <2>2, StillTouch
<1>2. CASE DoNewGame
  <2>1. dragStack' = <<>> /\ newGame
    BY <1>0, <1>2 DEF DoNewGame
  <2> QED BY <2>1, NewGameOnceTouch
<1>3. CASE InitDragAfterFromSingleTapA
  BY <1>3, StillTouch DEF InitDragAfterFromSingleTapA
<1>4. CASE DropFrame
  BY <1>0, <1>4, DropFrameTouch DEF OnceCards, CargoPlaces
<1>5. CASE ZoomTerminated
  <2>1. dragStack = <<>> /\ dragStack' = dragStack /\ pile' = PileAfterLamda
    BY <1>0, <1>5 DEF ZoomTerminated
  <2>2. OnceEach'
    BY <1>0, <2>1, LamdaOnce DEF OnceCards
  <2> QED BY <2>1, <2>2 DEF OnceCards, CargoPlaces
<1>6. CASE TapIterate
  BY <1>0, <1>6, TapOnceTouch DEF TapIterate
<1> QED BY <1>1, <1>2, <1>3, <1>4, <1>5, <1>6
        DEF Iterate, HandleIterate, ControlFrame, DropFrame

LEMMA CommandedOnceTouch ==
    ASSUME Interrupts = 0, ITouch, NEW cmd, Commanded(cmd) PROVE dragStack = <<>>
BY TouchInvariant DEF Commanded

LEMMA EventOnceTouch ==
    ASSUME Interrupts = 0, ITouch, OnceCards,
           KeyDownEvent \/ QuitEvent \/ DismissVictory
           \/ \E res \in {"RES_YES", "RES_NO"} : ButCmdClicked(res)
    PROVE  OnceCards'
<1>1. dragStack # <<>> => state \in {"IN_GAME"} \cup InitDrag
  BY DEF OnceCards, CargoPlaces
<1>2. UNCHANGED table
  BY DEF KeyDownEvent, QuitEvent, Goto, DismissVictory, ButCmdClicked
<1>3. dragStack = <<>>
  BY <1>1, CommandedOnceTouch DEF KeyDownEvent, QuitEvent, DismissVictory, ButCmdClicked
<1> QED BY <1>2, <1>3, StillTouch

(* A finger on a button gives a command: it taps with no card in the drag. *)
LEMMA FingerDownOnceTouch ==
    ASSUME Interrupts = 0, ITouch, OnceCards, FingerDownOnTable \/ FingerDownOnButton
    PROVE  OnceCards'
<1>1. CASE FingerDownOnTable
  BY <1>1, TapOnceTouch DEF FingerDownOnTable, Tap, OnceCards, CargoPlaces
<1>2. CASE FingerDownOnButton
  <2>1. dragStack = <<>>
    BY <1>2, CommandedOnceTouch DEF FingerDownOnButton
  <2> QED BY <1>2, <2>1, TapOnceTouch DEF FingerDownOnButton, Tap
<1> QED BY <1>1, <1>2

LEMMA FingerUpOnceTouch ==
    ASSUME ITouch, OnceCards, FingerUp PROVE OnceCards'
<1>1. FingersOK'
  BY TouchInvariant, TouchAssumption DEF FingerUp, FingersOK
<1>2. CASE UNCHANGED gameVars
  BY <1>2 DEF gameVars, table, OnceCards, OnceEach, CargoPlaces
<1>3. CASE FingerUpInGame
  <2>1. OnceEach'
    BY <1>1, <1>3, FingerUpTouch DEF OnceCards
  <2>2. Won(pile) => dragStack = <<>>
    BY TouchInvariant, WonMeansDone DEF OnceCards
  <2>3. \/ dragStack' = <<>>
        \/ dragStack' = dragStack /\ state' = state
    BY <1>1, <1>3, <2>2, FingerUpTouch DEF table
  <2> QED BY <2>1, <2>3 DEF OnceCards, CargoPlaces
<1> QED BY <1>2, <1>3 DEF FingerUp, FingerUpInGame

LEMMA InitOnceTouch == TouchInit => OnceCards
<1> SUFFICES ASSUME TouchInit PROVE OnceCards
  OBVIOUS
<1>1. PICK deck \in Shuffles : pile = Deal(deck)
  BY DEF TouchInit, Init
<1>2. dragStack = <<>>
  BY DEF TouchInit, Init
<1>3. Distinct(<<>>) /\ \A p : Apart(p, <<>>)
  BY DEF Distinct, Apart
<1> QED BY <1>1, <1>2, <1>3, DealFits DEF OnceCards, OnceEach, CargoPlaces

LEMMA NextOnceTouch ==
    ASSUME Interrupts = 0
    PROVE  ITouch /\ OnceCards /\ [TouchNext]_vars => OnceCards'
<1> SUFFICES ASSUME ITouch, OnceCards, [TouchNext]_vars PROVE OnceCards'
  OBVIOUS
<1>1. CASE UNCHANGED gameVars
  BY <1>1 DEF gameVars, table, OnceCards, OnceEach, CargoPlaces
<1>2. CASE FingerDown
  BY <1>1, <1>2, FingerDownOnceTouch, EventOnceTouch DEF FingerDown
<1>3. CASE StartGameLoop
  BY <1>3, NewGameOnceTouch DEF StartGameLoop
<1> QED BY <1>1, <1>2, <1>3, IterateOnceTouch, FingerUpOnceTouch, EventOnceTouch
        DEF TouchNext, vars

(* However many fingers play, no card is lost and none is there twice, if  *)
(* no command cuts into a move: merged cargo, forced drops and callbacks   *)
(* without their cards leave each card in one place.                       *)
THEOREM TouchCardsOnce == ASSUME Interrupts = 0 PROVE Spec => []CardsConserved
<1>1. ITouch /\ AllOnTable /\ OnceCards => CardsConserved
  BY TouchInvariant, CountsOne DEF AllOnTable, OnceCards, CardsConserved
<1> QED BY <1>1, InitTouch, NextTouch, InitKeepsTouch, NextKeepsTouch, InitOnceTouch,
           NextOnceTouch, PTL DEF Spec
-----------------------------------------------------------------------------
(* WHAT IS SAVED                                                           *)

(* A score is saved with a move that fills the last foundation, or at the  *)
(* end of a drag that finds them full.                                     *)
LEMMA SavedWhenWonTouch == ASSUME ITouch, TouchNext, saves' > saves PROVE Won(pile')
<1>1. saves \in Nat
  BY TouchInvariant DEF MaxSaves
<1>2. CASE newGame
  BY <1>1, <1>2 DEF newGame
<1>3. ASSUME NEW p, NEW S, checkForVictory(p, S) PROVE Won(p)
  BY <1>1, <1>3 DEF checkForVictory
<1>4. CASE ZoomTerminated
  <2>1. continueLamda = "EndOfDrag" /\ Won(pile)
    BY <1>1, <1>3, <1>4 DEF ZoomTerminated
  <2>2. pile' = pile
    BY <1>4, <2>1 DEF ZoomTerminated, PileAfterLamda
  <2> QED BY <2>1, <2>2
<1>5. ASSUME NEW st, endOfDragAndCheckForVictory(st) PROVE Won(pile')
  BY <1>3, <1>5 DEF endOfDragAndCheckForVictory, DoDrop, table
<1>6. CASE Iterate
  <2>1. ~ZoomTerminated /\ ~DoNewGame => saves' = saves
    BY <1>6 DEF Iterate, HandleIterate, FirstFrame, FirstScene, InitDragStep1, InitDragStep2,
       InitDragAfterFromSingleTapA, ForcedDrop, InitDragAfterGiven, ZoomEnd, InGame,
       TapIterate, AskForNewGame, FadingOut, VictoryAnimationIterate, ShowScore,
       Terminated, MsgBoxDone, observed
  <2> QED BY <1>1, <1>2, <1>4, <2>1 DEF DoNewGame
<1>7. CASE FingerDown \/ KeyDownEvent \/ QuitEvent \/ DismissVictory
  <2>1. saves' = saves
    BY <1>7 DEF FingerDown, FingerDownOnButton, FingerDownOnTable, KeyDownEvent, QuitEvent,
       Goto, DismissVictory, ButCmdClicked, gameVars, observed
  <2> QED BY <1>1, <2>1
<1>8. CASE FingerUp
  <2>1. \/ endOfDragAndCheckForVictory(state)
        \/ saves' = saves
    BY <1>8 DEF FingerUp, gameVars, observed
  <2> QED BY <1>1, <1>5, <2>1
<1> QED BY <1>2, <1>6, <1>7, <1>8 DEF TouchNext, StartGameLoop

(* Also with many fingers, a score is saved only when nothing lies outside *)
(* the foundations, and nothing is in the drag.                            *)
THEOREM TouchSavesFinished == ASSUME Interrupts = 0 PROVE Spec => SavesFinishedGame
<1>1. ITouch /\ OnceCards => Finished
  BY TouchInvariant, WonMeansDone DEF Finished, OnceCards
<1>2. ITouch /\ Finished' /\ [TouchNext]_vars => [SaveStep]_<<pile, saves>>
  <2> SUFFICES ASSUME ITouch, Finished', [TouchNext]_vars PROVE [SaveStep]_<<pile, saves>>
    OBVIOUS
  <2>1. CASE TouchNext
    BY <2>1, SavedWhenWonTouch DEF Finished, SaveStep
  <2>2. CASE UNCHANGED vars
    BY <2>2 DEF vars, gameVars, table, observed
  <2> QED BY <2>1, <2>2
<1>3. [][SaveStep]_<<pile, saves>> => SavesFinishedGame
  BY DEF SaveStep, SavesFinishedGame
<1> QED BY <1>1, <1>2, <1>3, InitTouch, NextTouch, InitOnceTouch, NextOnceTouch, PTL DEF Spec
-----------------------------------------------------------------------------
(* THE SCREEN                                                              *)

(* The only fade of the touch build is the one that leaves the game.       *)
FadesAway == state = "WAIT_FOR_FADING" => stateAfter = "TERMINATED"

LEMMA TouchLeadsOn == ASSUME ITouch, FadesAway PROVE LeadsOn
<1>1. GameFlowOK /\ GoesOn
  BY TouchInvariant
<1> QED BY <1>1 DEF LeadsOn, FadeAfter, FadesAway, Answers, GoesOn, Playing, MsgBox

LEMMA FadesAwayKept == ASSUME ITouch, FadesAway, HandleIterate PROVE FadesAway'
<1>1. LeadsOn /\ GameFlowOK /\ GoesOn
  BY TouchInvariant, TouchLeadsOn
<1>2. CASE ControlFrame
  <2>1. CASE FirstFrame
    BY <2>1, TouchAssumption DEF FirstFrame, FadesAway
  <2>2. CASE FadingOut
    BY <2>2 DEF FadingOut, FadesAway
  <2>3. CASE MsgBoxDone
    <3>1. state = "IN_MSGBOX"
      BY <1>1, <2>3, TouchCurrent, CurrentLeads DEF MsgBoxDone
    <3>2. state' \in Answers
      BY <1>1, <2>3, <3>1 DEF MsgBoxDone, LeadsOn
    <3> QED BY <3>2 DEF Answers, FadesAway
  <2>4. CASE ControlFrame /\ ~FirstFrame /\ ~FadingOut /\ ~MsgBoxDone
    <3>1. CASE InGame
      BY <1>1, <3>1, CurrentLeads DEF InGame, FadesAway
    <3>2. CASE ~InGame
      BY <2>4, <3>2 DEF ControlFrame, FirstScene, InitDragStep1, InitDragStep2, ZoomEnd,
         AskForNewGame, VictoryAnimationIterate, ShowScore, Terminated, FadesAway
    <3> QED BY <3>1, <3>2
  <2> QED BY <1>2, <2>1, <2>2, <2>3, <2>4
<1>3. CASE DoNewGame \/ InitDragAfterFromSingleTapA
  BY <1>3 DEF DoNewGame, InitDragAfterFromSingleTapA, FadesAway
<1>4. CASE DropFrame
  <2>1. state' \in Zoom
    BY <1>4, AfterDropType DEF DropFrame, ForcedDrop, InitDragAfterGiven
  <2> QED BY <2>1 DEF FadesAway
<1>5. CASE ZoomTerminated
  <2>1. state = "IN_ZOOM_TERMINATED" /\ state' \in {statePrev, "START_VICTORY"}
    BY <1>1, <1>5, CurrentLeads DEF ZoomTerminated, checkForVictory, LeadsOn, FadeAfter
  <2> QED BY <1>1, <2>1 DEF FadesAway, LeadsOn
<1>6. CASE TapIterate
  <2>1. state' \in {"IN_GAME", "INITDRAG_STEP1"}
    BY <1>6, TouchInvariant, TapMoves DEF TapIterate
  <2> QED BY <2>1 DEF FadesAway
<1> QED BY <1>2, <1>3, <1>4, <1>5, <1>6 DEF HandleIterate, ControlFrame, DropFrame

(* A tap in the state it finds.                                            *)
LEMMA TapShows == ASSUME ITouch, FadesAway, FingerDownOnTable PROVE FadesAway' /\ Shows
<1>1. LeadsOn /\ Listening /\ UNCHANGED flow /\ state' \in {state, "INITDRAG_STEP1"}
  BY TouchInvariant, TouchLeadsOn, TapMoves DEF FingerDownOnTable, Tap
<1>2. CASE state' = state
  BY <1>1, <1>2, SameShows DEF flow, FadesAway
<1>3. CASE state' = "INITDRAG_STEP1"
  <2>1. PhaseOf' = "IN_GAME" /\ done' = done
    BY <1>1, <1>3, NextPhaseIs DEF BoxUp, flow
  <2> QED BY <1>1, <1>3, <2>1, EventShows DEF FadesAway
<1> QED BY <1>1, <1>2, <1>3

LEMMA ButtonShows == ASSUME ITouch, FadesAway, FingerDownOnButton PROVE FadesAway' /\ Shows
<1>1. LeadsOn /\ Listening /\ done' = done /\ state' \in {"IN_MSGBOX", "INITDRAG_STEP1"}
  BY TouchInvariant, TouchLeadsOn, TapMoves DEF FingerDownOnButton, Tap
<1>2. CASE state' = "IN_MSGBOX"
  <2>1. PhaseOf' = "IN_MSGBOX"
    BY <1>1, <1>2, NextPhaseIs DEF BoxUp
  <2> QED BY <1>1, <1>2, <2>1, EventShows DEF FadesAway
<1>3. CASE state' = "INITDRAG_STEP1"
  <2>1. PhaseOf' = "IN_GAME"
    BY <1>1, <1>3, NextPhaseIs DEF BoxUp
  <2> QED BY <1>1, <1>3, <2>1, EventShows DEF FadesAway
<1> QED BY <1>1, <1>2, <1>3

LEMMA FingerUpShows == ASSUME ITouch, FadesAway, FingerUp PROVE FadesAway' /\ Shows
<1>1. LeadsOn
  BY TouchLeadsOn
<1>2. CASE UNCHANGED gameVars
  BY <1>1, <1>2, SameShows DEF gameVars, flow, FadesAway
<1>3. CASE FingerUpInGame
  <2>1. /\ Listening /\ done' = done /\ stateAfter' = stateAfter
        /\ endOfDragAndCheckForVictory(state)
    BY <1>3 DEF FingerUpInGame
  <2>2. FadeAfter' /\ Shows
    BY <1>1, <2>1, EndOfDragShows
  <2>3. state' \in Zoom \cup {state, "START_VICTORY"}
    BY <2>1, AfterDropType DEF endOfDragAndCheckForVictory, checkForVictory
  <2> QED BY <2>1, <2>2, <2>3 DEF FadesAway, Listening
<1> QED BY <1>2, <1>3 DEF FingerUp, FingerUpInGame

LEMMA KeyFadesAway ==
    ASSUME FadesAway,
           \/ KeyDownEvent \/ QuitEvent \/ DismissVictory
           \/ \E res \in {"RES_YES", "RES_NO"} : ButCmdClicked(res)
    PROVE  FadesAway'
BY Zenon DEF KeyDownEvent, QuitEvent, DismissVictory, ButCmdClicked, Goto, FadesAway

LEMMA NextScreenTouch ==
    ITouch /\ FadesAway /\ [TouchNext]_vars => FadesAway' /\ Shows
<1> SUFFICES ASSUME ITouch, FadesAway, [TouchNext]_vars PROVE FadesAway' /\ Shows
  OBVIOUS
<1>1. LeadsOn
  BY TouchLeadsOn
<1>2. CASE UNCHANGED gameVars
  BY <1>1, <1>2, SameShows DEF gameVars, flow, FadesAway
<1>3. CASE Iterate
  BY <1>1, <1>3, HandleIterateShows, FadesAwayKept DEF Iterate
<1>4. CASE KeyDownEvent \/ QuitEvent \/ DismissVictory
  BY <1>1, <1>4, KeyShows, KeyFadesAway
<1>5. CASE \E res \in {"RES_YES", "RES_NO"} : ButCmdClicked(res)
  BY <1>1, <1>5, ClickedShows, KeyFadesAway
<1>6. CASE FingerDown
  BY <1>2, <1>4, <1>5, <1>6, TapShows, ButtonShows DEF FingerDown
<1>7. CASE StartGameLoop
  BY <1>7, StartLoopShows DEF StartGameLoop, FadesAway
<1> QED BY <1>2, <1>3, <1>4, <1>6, <1>7, FingerUpShows DEF TouchNext, vars

(* The touch build is the game screen of the application shell too: events *)
(* that taps handle at once lead it nowhere the shell does not expect.     *)
THEOREM TouchIsScreen == Spec => IsGameScreen
<1>1. TouchInit => FadesAway /\ Screen!ScreenInit
  BY ScreenStarts DEF TouchInit, Init, FadesAway
<1>2. ITouch /\ FadesAway /\ [TouchNext]_vars => [Screen!ScreenNext]_<<PhaseOf, done>>
  BY NextScreenTouch DEF Shows
<1>3. ITouch /\ FadesAway /\ [TouchNext]_vars => FadesAway'
  BY NextScreenTouch
<1> QED BY <1>1, <1>2, <1>3, InitTouch, NextTouch, PTL
        DEF Spec, IsGameScreen, Screen!ScreenSpec, Screen!gameScreen
=============================================================================
