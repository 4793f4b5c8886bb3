---------------------------- MODULE SolitarioGame ----------------------------
(***************************************************************************)
(* SolitarioGfx: the state machine of one game of solitaire, the part that *)
(* the mouse build and the touch build share.  SDL calls HandleEvent for   *)
(* every queued event and HandleIterate once a frame; both run on one      *)
(* thread, so a call is one step, but any number of events fits between    *)
(* two frames and a move of cards takes many frames:                       *)
(*                                                                         *)
(*   tap -> INITDRAG_STEP1 -> INITDRAG_STEP2 -> INITDRAG_AFTER             *)
(*       -> _continueFnCb -> DoDropEvent -> IN_ZOOM -> IN_ZOOM_TERMINATED  *)
(*       -> _continueLamdaCb                                               *)
(*                                                                         *)
(* While the cards of a move are off the table they are in dragStack.      *)
(* Variables carry the names of the members of SolitarioGfx.  Left out:    *)
(* coordinates and drawing, the score and the clock, the sound and         *)
(* fullscreen buttons (they change no member that is modelled).            *)
(***************************************************************************)
EXTENDS SolitarioCards

CONSTANTS Shuffles,          \* the orders the deck may be shuffled into
          TouchWithoutMouse, \* InputType = TouchWithoutMouse
          Commands,          \* what else the player does but moving cards
          Interrupts         \* how often in a game the player gives a command
                             \* while cards are off the table (0: never)

ASSUME GameAssumption ==
    /\ Shuffles # {} /\ \A d \in Shuffles : d \in Seq(Deck) /\ Shuffled(d)
    /\ Cardinality(Deck) >= DealtTo(NumTableau + 1)
    /\ TouchWithoutMouse \in BOOLEAN
    /\ Commands \subseteq {"NEW_GAME", "QUIT", "VICTORY"}
    /\ Interrupts \in Nat

VARIABLES
    pile,             \* _cardRegionList: the pile of each region
    dragStack,        \* _dragStack
    state, statePrev, stateAfter, stateAfterYes, stateAfterNo,
    startdrag,        \* _startdrag: a pile follows the pointer
    isInitDrag,       \* _isInitDrag: the button is still down since the tap
    selected,         \* _p_selectedCardRegion
    continueFn,       \* _continueFnCb
    continueLamda,    \* _continueLamdaCb
    dropRegion,       \* _p_DropRegionForDrag
    cardStackForDrag, \* _p_CardStackForDrag # NULL
    msgBox,           \* _p_MsgBox
    vict,             \* g_pVict # NULL
    done,             \* HandleIterate answered done: the menu is shown
    saves,            \* SaveScore calls since the deal, counted up to MaxSaves
    dealtStock,       \* the stock as dealt (no code: observes its order)
    interrupts        \* commands given while cards were off the table (no
                      \* code: bounds how often the player does so)

table == <<pile, dragStack>>
tap   == <<selected, continueFn, isInitDrag, dropRegion, cardStackForDrag>>
flow  == <<statePrev, stateAfter, stateAfterYes, stateAfterNo, msgBox, vict, done>>
observed == <<saves, dealtStock, interrupts>>
gameVars == <<table, tap, flow, state, startdrag, continueLamda, observed>>

MaxSaves == 2   \* none, one, more than one

Victory  == {"START_VICTORY", "NEW_CARD_VICTORY", "IN_CARD_VICTORY"}
InitDrag == {"INITDRAG_STEP1", "INITDRAG_STEP2", "INITDRAG_AFTER"}
TapClick == {"IN_SINGLE_TAPCLICK", "IN_DOUBLE_TAPCLICK"}
Zoom     == {"IN_ZOOM", "IN_ZOOM_TERMINATED"}
Fading   == {"FADING_OUT", "WAIT_FOR_FADING"}
State    == Victory \cup InitDrag \cup TapClick \cup Zoom \cup Fading \cup
            {"READY_TO_START", "FIRST_SCENE", "IN_GAME", "SHOW_SCORE",
             "ASK_FOR_NEW_GAME", "DO_NEWGAME", "IN_MSGBOX", "TERMINATED"}
Unset    == "UNSET"   \* a state member before its first assignment

(* _continueFnCb: InitDragAfterFromSingleTapA, B, C, ...DoubleTap;         *)
(* _continueLamdaCb: the lambda each of them, or the end of a drag, leaves.*)
ContinueFn    == {"NULL", "SingleTapA", "SingleTapB", "SingleTapC", "DoubleTap"}
ContinueLamda == {"NULL", "EndOfDrag", "SingleTapB", "SingleTapC", "DoubleTap"}
MsgBox        == [type : {"NULL", "TY_MB_YES_NO", "TY_MBOK"},
                  inProgress : BOOLEAN, result : {"RES_YES", "RES_NO"}]

TypeOK ==
    /\ pile \in [Region -> Seq(Card)]
    /\ dragStack \in Seq(Card)
    /\ state \in State
    /\ {statePrev, stateAfter, stateAfterYes, stateAfterNo} \subseteq State \cup {Unset}
    /\ startdrag \in BOOLEAN /\ isInitDrag \in BOOLEAN
    /\ selected \in Region \cup {NoRegion}
    /\ continueFn \in ContinueFn
    /\ continueLamda \in ContinueLamda
    /\ dropRegion \in Region \cup {NoRegion}
    /\ cardStackForDrag \in BOOLEAN
    /\ msgBox \in MsgBox
    /\ vict \in BOOLEAN /\ done \in BOOLEAN
    /\ saves \in 0..MaxSaves
    /\ dealtStock \in Seq(Deck)
    /\ interrupts \in 0..Interrupts
-----------------------------------------------------------------------------
(* newGame: every region is emptied and a shuffled deck dealt.  What a     *)
(* move in flight holds (dragStack, startdrag, the callbacks, the two drag *)
(* pointers) is not touched.                                               *)
newGame ==
    /\ \E deck \in Shuffles :
          /\ pile' = Deal(deck)
          /\ dealtStock' = Faces(Deal(deck)[DeckPile_Ix])
    /\ vict' = FALSE
    /\ saves' = 0

(* The constructor, Initialize and Show.                                   *)
Init ==
    /\ \E deck \in Shuffles :
          /\ pile = Deal(deck)
          /\ dealtStock = Faces(Deal(deck)[DeckPile_Ix])
    /\ dragStack = <<>>
    /\ state = "READY_TO_START"
    /\ statePrev = Unset /\ stateAfter = Unset
    /\ stateAfterYes = Unset /\ stateAfterNo = Unset
    /\ startdrag = FALSE /\ isInitDrag = FALSE
    /\ selected = NoRegion
    /\ continueFn = "NULL" /\ continueLamda = "NULL"
    /\ dropRegion = NoRegion /\ cardStackForDrag = FALSE
    /\ msgBox = [type |-> "NULL", inProgress |-> FALSE, result |-> "RES_YES"]
    /\ vict = FALSE
    /\ done = FALSE
    /\ saves = 0
    /\ interrupts = 0

(* AppGfx::startGameLoop from the menu: a new SolitarioGfx object.         *)
StartGameLoop ==
    /\ done
    /\ newGame
    /\ dragStack' = <<>>
    /\ state' = "READY_TO_START"
    /\ statePrev' = Unset /\ stateAfter' = Unset
    /\ stateAfterYes' = Unset /\ stateAfterNo' = Unset
    /\ startdrag' = FALSE /\ isInitDrag' = FALSE
    /\ selected' = NoRegion
    /\ continueFn' = "NULL" /\ continueLamda' = "NULL"
    /\ dropRegion' = NoRegion /\ cardStackForDrag' = FALSE
    /\ msgBox' = [type |-> "NULL", inProgress |-> FALSE, result |-> "RES_YES"]
    /\ done' = FALSE
    /\ interrupts' = 0
-----------------------------------------------------------------------------
(* checkForVictoryEvent on the piles p: every foundation holds a suit.     *)
WonByOneSuit(p) == \E r \in Aces : Len(p[r]) = MaxRank   \* mutant
Won(p) == \A r \in Aces : Len(p[r]) = MaxRank

(* The rest of it: a win is saved in the high scores and shown, otherwise  *)
(* the machine goes on in a state of `otherwise`.  The error that          *)
(* SaveScore returns when its file cannot be written is left out.          *)
checkForVictory(p, otherwise) ==
    IF Won(p)
    THEN /\ state' = "START_VICTORY"
         /\ saves' = IF saves < MaxSaves THEN saves + 1 ELSE saves
    ELSE /\ state' \in otherwise
         /\ UNCHANGED saves

(* DoDropEvent(pDestRegion): where the cargo falls.  Without a destination *)
(* GetBestStack takes the region the cargo overlaps most among those that  *)
(* CanDrop (a region without CRD_DODROP never overlaps); when there is     *)
(* none the cargo goes back to _p_selectedCardRegion.  The overlap is the  *)
(* player's choice.                                                        *)
UncheckedTargets(given) ==   \* mutant: CanDrop is not asked
    IF given # NoRegion THEN {given} ELSE {selected} \cup {r \in Region : DoesDrop(r)}
DropTargets(given) ==
    IF given # NoRegion
    THEN {given}
    ELSE {selected} \cup {r \in Region : DoesDrop(r) /\ CanDrop(r, pile[r], dragStack)}

DroppedOver(dest) == [pile EXCEPT ![dest] = dragStack]   \* mutant
Dropped(dest) == [pile EXCEPT ![dest] = @ \o dragStack]

(* The states it may leave: the zoom is skipped when the card did not move *)
(* or when there is no card to zoom.                                       *)
AfterDrop(dest) ==
    LET noCard == IF DragMode(selected) = "DRAGTOP"
                  THEN Dropped(dest)[dest] = <<>>
                  ELSE dragStack = <<>>
    IN IF noCard THEN {"IN_ZOOM_TERMINATED"} ELSE Zoom

(* Its assignments but for _state, when called in the state `from`.        *)
DoDropKeepingCargo(dest, from) ==   \* mutant: _dragStack is not cleared
    pile' = Dropped(dest) /\ statePrev' = from /\ UNCHANGED dragStack
DoDrop(dest, from) ==
    /\ pile' = Dropped(dest)
    /\ dragStack' = <<>>
    /\ statePrev' = from
-----------------------------------------------------------------------------
(* Taps.  The pointer is over region r (NoRegion: over none) and, in it,   *)
(* over card k (0: over no card); only the piles of the tableau are fanned *)
(* out, of the others just the top card is in reach.  `st` is the state    *)
(* the machine stays in when no move starts.                               *)
Clickable(r) == IF r \in Tableau THEN 0..Len(pile[r]) ELSE {Len(pile[r])}

(* InitDrag without cargo: may the cards from k upwards be dragged off p?  *)
CanLift(r, p, k) ==
    /\ k # 0
    /\ IF DragMode(r) = "DRAGFACEUP" THEN p[k].up ELSE k = Len(p)

(* singleTapOrLeftClick on a pile: a face-down top card of the tableau is  *)
(* turned, then InitDrag.  The callback is set even if nothing is dragged. *)
TapPile(r, k, st) ==
    LET p == IF r \in Tableau /\ k = Len(pile[r]) THEN TurnUpTop(pile[r]) ELSE pile[r]
        lift == CanLift(r, p, k)
    IN /\ selected' = r
       /\ pile' = [pile EXCEPT ![r] = IF lift THEN SubSeq(p, 1, k - 1) ELSE p]
       /\ dragStack' = dragStack \o (IF lift THEN SubSeq(p, k, Len(p)) ELSE <<>>)
       /\ state' = IF lift THEN "INITDRAG_STEP1" ELSE st
       /\ isInitDrag' = lift
       /\ continueFn' = "SingleTapA"
       /\ UNCHANGED <<dropRegion, cardStackForDrag>>

(* clickOnDeckStock: an empty stock takes the face-up pile back (redial),  *)
(* else its top card goes to the face-up pile.                             *)
RedialNothing ==   \* mutant: both piles may be empty
    /\ pile[DeckPile_Ix] = <<>>
    /\ pile' = [pile EXCEPT ![DeckFaceUp] = <<>>]
    /\ dragStack' = dragStack \o WithFaces(pile[DeckFaceUp], FALSE)
    /\ continueFn' = "SingleTapB"

Redial ==
    /\ pile[DeckPile_Ix] = <<>> /\ pile[DeckFaceUp] # <<>>
    /\ pile' = [pile EXCEPT ![DeckFaceUp] = <<>>]
    /\ dragStack' = dragStack \o WithFaces(pile[DeckFaceUp], FALSE)
    /\ continueFn' = "SingleTapB"

NextCard ==
    /\ pile[DeckPile_Ix] # <<>>
    /\ pile' = [pile EXCEPT ![DeckPile_Ix] = AfterPop(@, 1)]
    /\ dragStack' = dragStack \o WithFaces(Popped(pile[DeckPile_Ix], 1), TRUE)
    /\ continueFn' = "SingleTapC"

clickOnDeckStock(st) ==
    /\ selected' = DeckPile_Ix
    /\ UNCHANGED <<isInitDrag, dropRegion>>
    /\ \/ /\ Redial \/ NextCard
          /\ cardStackForDrag' = TRUE
          /\ state' = "INITDRAG_STEP1"
       \/ /\ pile[DeckPile_Ix] = <<>> /\ pile[DeckFaceUp] = <<>>
          /\ state' = st
          /\ UNCHANGED <<table, continueFn, cardStackForDrag>>

(* A tap that does nothing but select the region under the pointer.        *)
TapIgnored(r, st) ==
    /\ state' = st
    /\ selected' = IF r = NoRegion THEN selected ELSE r
    /\ UNCHANGED <<table, continueFn, isInitDrag, dropRegion, cardStackForDrag>>

singleTapOrLeftClick(st) ==
    \/ TapIgnored(NoRegion, st)
    \/ \E r \in Region \ {DeckPile_Ix} : \E k \in Clickable(r) : TapPile(r, k, st)
    \/ cardStackForDrag /\ TapIgnored(DeckPile_Ix, st)
    \/ ~cardStackForDrag /\ clickOnDeckStock(st)

(* doubleTapOrRightClick: the top card of the tableau or of the face-up    *)
(* pile goes to the first foundation that takes it (FindDropRegion).       *)
TakenBy(c) == {r \in Aces : CanDrop(r, pile[r], <<c>>)}
NotFound(S) == NoRegion                                      \* mutant
AfterFirstOf(S) == (CHOOSE r \in S : \A q \in S : r <= q) + 1   \* mutant
FirstOf(S) == CHOOSE r \in S : \A q \in S : r <= q

DoubleTapCard(r) ==
    /\ pile[r] # <<>> /\ Top(pile[r]).up
    /\ TakenBy(Top(pile[r])) # {}
    /\ selected' = r
    /\ dropRegion' = FirstOf(TakenBy(Top(pile[r])))
    /\ cardStackForDrag' = TRUE
    /\ pile' = [pile EXCEPT ![r] = AfterPop(@, 1)]
    /\ dragStack' = dragStack \o Popped(pile[r], 1)
    /\ state' = "INITDRAG_STEP1"
    /\ continueFn' = "DoubleTap"
    /\ UNCHANGED isInitDrag

doubleTapOrRightClick(st) ==
    LET ongoing == dropRegion # NoRegion \/ cardStackForDrag
        movable == Tableau \cup {DeckFaceUp}
    IN \/ TapIgnored(NoRegion, st)
       \/ \E r \in Region : pile[r] = <<>> /\ TapIgnored(r, st)
       \/ \E r \in Region : pile[r] # <<>> /\ ongoing /\ TapIgnored(r, st)
       \/ ~ongoing /\ \E r \in movable : DoubleTapCard(r)
       \/ ~ongoing /\ \E r \in movable :
             /\ pile[r] # <<>>
             /\ \/ ~Top(pile[r]).up
                \/ TakenBy(Top(pile[r])) = {}
                \/ r \in Tableau /\ Len(pile[r]) > 1   \* a card under the top one
             /\ TapIgnored(r, st)
       \/ ~ongoing /\ \E r \in Aces : pile[r] # <<>> /\ TapIgnored(r, st)
       \/ ~ongoing /\ pile[DeckPile_Ix] # <<>> /\ clickOnDeckStock(st)
-----------------------------------------------------------------------------
(* HandleIterate.  When the fade is over (the frames before are stuttering *)
(* steps) the same call goes on in _stateAfter.                            *)
current == IF state = "WAIT_FOR_FADING" THEN stateAfter ELSE state

FirstFrame ==       \* DrawInitialScene: the touch build has no fade
    /\ current = "READY_TO_START"
    /\ IF TouchWithoutMouse
       THEN state' = "FIRST_SCENE" /\ UNCHANGED stateAfter
       ELSE state' = "WAIT_FOR_FADING" /\ stateAfter' = "FIRST_SCENE"
    /\ UNCHANGED <<table, tap, statePrev, stateAfterYes, stateAfterNo, msgBox, vict, done,
                   startdrag, continueLamda, observed>>

FirstScene ==
    /\ current = "FIRST_SCENE"
    /\ state' = "IN_GAME"
    /\ UNCHANGED <<table, tap, flow, startdrag, continueLamda, observed>>

DoNewGame ==        \* newGame, and on into the IN_GAME part of the call
    /\ current = "DO_NEWGAME"
    /\ newGame
    /\ state' = "IN_GAME"
    /\ statePrev' = "IN_GAME"
    /\ UNCHANGED <<dragStack, tap, stateAfter, stateAfterYes, stateAfterNo, msgBox, done,
                   startdrag, continueLamda, interrupts>>

InitDragStep1 ==
    /\ current = "INITDRAG_STEP1"
    /\ state' = "INITDRAG_STEP2"
    /\ UNCHANGED <<table, tap, flow, startdrag, continueLamda, observed>>

InitDragStep2 ==    \* _dragStack.First() asserts that there is a card
    /\ current = "INITDRAG_STEP2"
    /\ dragStack # <<>>
    /\ state' = "INITDRAG_AFTER"
    /\ UNCHANGED <<table, tap, flow, startdrag, continueLamda, observed>>

(* INITDRAG_AFTER: the state is IN_GAME, then _continueFnCb is run.        *)
InitDragAfterFromSingleTapA ==    \* the pile now follows the pointer
    /\ current = "INITDRAG_AFTER"
    /\ continueFn = "NULL" \/ (continueFn = "SingleTapA" /\ isInitDrag)
    /\ IF continueFn = "SingleTapA"
       THEN startdrag' = TRUE /\ isInitDrag' = FALSE
       ELSE UNCHANGED <<startdrag, isInitDrag>>
    /\ continueFn' = "NULL"
    /\ state' = "IN_GAME"
    /\ UNCHANGED <<table, selected, dropRegion, cardStackForDrag, flow, continueLamda,
                   observed>>

NoForcedDrop ==     \* mutant: the button is up and nothing happens
    /\ current = "INITDRAG_AFTER" /\ continueFn = "SingleTapA" /\ ~isInitDrag
    /\ state' = "IN_GAME" /\ continueFn' = "NULL"
    /\ UNCHANGED <<table, selected, isInitDrag, dropRegion, cardStackForDrag, flow,
                   startdrag, continueLamda, observed>>

ForcedDrop ==       \* the same callback when the button is up again
    /\ current = "INITDRAG_AFTER" /\ continueFn = "SingleTapA" /\ ~isInitDrag
    /\ \E dest \in DropTargets(NoRegion) :
          DoDrop(dest, "IN_GAME") /\ state' \in AfterDrop(dest)
    /\ continueFn' = "NULL"
    /\ UNCHANGED <<selected, isInitDrag, dropRegion, cardStackForDrag,
                   stateAfter, stateAfterYes, stateAfterNo, msgBox, vict, done,
                   startdrag, continueLamda, observed>>

(* ...FromSingleTapB, ...FromSingleTapC and ...FromDoubleTap drop at a     *)
(* known region and leave a lambda of their own name.                      *)
InitDragAfterGiven ==
    LET given == [SingleTapB |-> DeckPile_Ix, SingleTapC |-> DeckFaceUp,
                  DoubleTap |-> dropRegion]
    IN /\ current = "INITDRAG_AFTER" /\ continueFn \in DOMAIN given
       /\ \E dest \in DropTargets(given[continueFn]) :
             DoDrop(dest, "IN_GAME") /\ state' \in AfterDrop(dest)
       /\ continueLamda' = continueFn
       /\ continueFn' = "NULL"
       /\ UNCHANGED <<selected, isInitDrag, dropRegion, cardStackForDrag,
                      stateAfter, stateAfterYes, stateAfterNo, msgBox, vict, done,
                      startdrag, observed>>

ZoomEnd ==          \* the last of the eleven frames of zoomDropCardIterate
    /\ current = "IN_ZOOM"
    /\ state' = "IN_ZOOM_TERMINATED"
    /\ UNCHANGED <<table, tap, flow, startdrag, continueLamda, observed>>

(* What _continueLamdaCb does besides giving points: a redial is reversed, *)
(* and the drag pointers are given back.                                   *)
UnreversedRedial == pile   \* mutant: the redial is not reversed
PileAfterLamda ==
    IF continueLamda = "SingleTapB"
    THEN [pile EXCEPT ![DeckPile_Ix] = Reversed(@)] ELSE pile

KeptByNextCard == continueLamda \notin {"NULL", "SingleTapC"}   \* mutant
GivesBack == continueLamda # "NULL"

(* IN_ZOOM_TERMINATED: back to _statePrev, then _continueLamdaCb is run.   *)
ZoomTerminated ==
    /\ current = "IN_ZOOM_TERMINATED"
    /\ IF continueLamda = "EndOfDrag"
       THEN checkForVictory(pile, {statePrev})
       ELSE state' = statePrev /\ UNCHANGED saves
    /\ pile' = PileAfterLamda
    /\ IF GivesBack
       THEN dropRegion' = NoRegion /\ cardStackForDrag' = FALSE
       ELSE UNCHANGED <<dropRegion, cardStackForDrag>>
    /\ continueLamda' = "NULL"
    /\ UNCHANGED <<dragStack, selected, continueFn, isInitDrag, flow, startdrag,
                   dealtStock, interrupts>>

InGame ==
    /\ current = "IN_GAME"
    /\ statePrev' = "IN_GAME"
    /\ UNCHANGED <<table, tap, state, stateAfter, stateAfterYes, stateAfterNo, msgBox, vict,
                   done, startdrag, continueLamda, observed>>

TapIterate ==
    /\ \/ current = "IN_SINGLE_TAPCLICK" /\ singleTapOrLeftClick("IN_GAME")
       \/ current = "IN_DOUBLE_TAPCLICK" /\ doubleTapOrRightClick("IN_GAME")
    /\ UNCHANGED <<flow, startdrag, continueLamda, observed>>

(* BtNewGameClick and BtQuitClick in the state st.                         *)
ShowYesOnly(st, afterYes) ==   \* mutant: _stateAfterNo is not assigned
    /\ stateAfterYes' = afterYes
    /\ UNCHANGED stateAfterNo
    /\ msgBox' = [type |-> "TY_MB_YES_NO", inProgress |-> TRUE, result |-> "RES_YES"]
ShowYesNo(st, afterYes) ==
    /\ stateAfterYes' = afterYes
    /\ stateAfterNo' = st
    /\ msgBox' = [type |-> "TY_MB_YES_NO", inProgress |-> TRUE, result |-> "RES_YES"]

AskForNewGame ==
    /\ current = "ASK_FOR_NEW_GAME"
    /\ ShowYesNo("IN_GAME", "DO_NEWGAME")
    /\ state' = "IN_MSGBOX"
    /\ UNCHANGED <<table, tap, statePrev, stateAfter, vict, done, startdrag, continueLamda,
                   observed>>

FadingBackIn ==     \* mutant: _stateAfter is not assigned
    /\ current = "FADING_OUT"
    /\ state' = "WAIT_FOR_FADING"
    /\ UNCHANGED <<table, tap, statePrev, stateAfter, stateAfterYes, stateAfterNo, msgBox,
                   vict, done, startdrag, continueLamda, observed>>
FadingOut ==
    /\ current = "FADING_OUT"
    /\ state' = "WAIT_FOR_FADING"
    /\ stateAfter' = "TERMINATED"
    /\ UNCHANGED <<table, tap, statePrev, stateAfterYes, stateAfterNo, msgBox, vict, done,
                   startdrag, continueLamda, observed>>

VictoryAnimationIterate ==
    /\ \/ current = "START_VICTORY" /\ vict' = TRUE /\ state' = "NEW_CARD_VICTORY"
       \/ /\ current \in {"NEW_CARD_VICTORY", "IN_CARD_VICTORY"}
          /\ IF vict THEN state' \in {"IN_CARD_VICTORY", "NEW_CARD_VICTORY"}
                     ELSE state' = "IN_GAME"
          /\ UNCHANGED vict
    /\ UNCHANGED <<table, tap, statePrev, stateAfter, stateAfterYes, stateAfterNo, msgBox,
                   done, startdrag, continueLamda, observed>>

ShowScore ==
    /\ current = "SHOW_SCORE"
    /\ state' = "IN_MSGBOX"
    /\ stateAfter' = "DO_NEWGAME"
    /\ msgBox' = [type |-> "TY_MBOK", inProgress |-> TRUE, result |-> "RES_YES"]
    /\ UNCHANGED <<table, tap, statePrev, stateAfterYes, stateAfterNo, vict, done, startdrag,
                   continueLamda, observed>>

Terminated ==       \* done = true: AppGfx goes back to its menu
    /\ current = "TERMINATED"
    /\ state' = "TERMINATED"
    /\ done' = TRUE
    /\ UNCHANGED <<table, tap, statePrev, stateAfter, stateAfterYes, stateAfterNo, msgBox,
                   vict, startdrag, continueLamda, observed>>

MsgBoxDone ==
    /\ current = "IN_MSGBOX"
    /\ ~msgBox.inProgress
    /\ state' = IF msgBox.type = "TY_MBOK" THEN stateAfter
                ELSE IF msgBox.result = "RES_YES" THEN stateAfterYes
                ELSE stateAfterNo
    /\ statePrev' = "IN_MSGBOX"
    /\ UNCHANGED <<table, tap, stateAfter, stateAfterYes, stateAfterNo, msgBox, vict, done,
                   startdrag, continueLamda, observed>>

HandleIterate ==
    /\ ~done
    /\ \/ FirstFrame \/ FirstScene \/ DoNewGame
       \/ InitDragStep1 \/ InitDragStep2
       \/ InitDragAfterFromSingleTapA \/ ForcedDrop \/ InitDragAfterGiven
       \/ ZoomEnd \/ ZoomTerminated
       \/ InGame \/ TapIterate \/ AskForNewGame
       \/ FadingOut \/ Terminated
       \/ VictoryAnimationIterate \/ ShowScore \/ MsgBoxDone
-----------------------------------------------------------------------------
(* HandleEvent: which events the game looks at.                            *)
ListeningInBox == ~done /\ state \notin Victory \cup Zoom \cup Fading   \* mutant
Listening == ~done /\ state \notin Victory \cup Zoom \cup Fading \cup {"IN_MSGBOX"}

(* The player gives a command by key, button or window.                    *)
Commanded(cmd) ==
    /\ cmd \in Commands
    /\ IF dragStack = <<>>
       THEN UNCHANGED interrupts
       ELSE interrupts < Interrupts /\ interrupts' = interrupts + 1

(* An event that only assigns _state.                                      *)
Goto(s) == /\ state' = s
           /\ UNCHANGED <<table, tap, flow, startdrag, continueLamda, saves, dealtStock>>

QuitEvent ==        \* SDL_EVENT_QUIT
    Listening /\ Commanded("QUIT") /\ Goto("FADING_OUT")

(* Mouse, finger, a key or QUIT ends the victory animation.                *)
DismissVictory ==
    /\ ~done /\ state \in Victory
    /\ state' = "SHOW_SCORE"
    /\ vict' = FALSE
    /\ UNCHANGED <<table, tap, statePrev, stateAfter, stateAfterYes, stateAfterNo, msgBox,
                   done, startdrag, continueLamda, observed>>

(* MesgBoxGfx: ButCmdClicked by a button, or by RETURN (the YES button).   *)
ButCmdClicked(result) ==
    /\ ~done /\ state = "IN_MSGBOX" /\ msgBox.inProgress
    /\ msgBox' = [msgBox EXCEPT !.inProgress = FALSE,
                                !.result = IF msgBox.type = "TY_MB_YES_NO" THEN result ELSE @]
    /\ UNCHANGED <<table, tap, state, statePrev, stateAfter, stateAfterYes, stateAfterNo,
                   vict, done, startdrag, continueLamda, observed>>

(* SDL_EVENT_KEY_DOWN.  ESC in a fullscreen window only leaves fullscreen. *)
KeyDownEvent ==
    \/ /\ Listening
       /\ \/ Commanded("QUIT") /\ Goto("TERMINATED")            \* ESC
          \/ Commanded("VICTORY") /\ Goto("START_VICTORY")      \* A
          \/ Commanded("NEW_GAME") /\ Goto("ASK_FOR_NEW_GAME")  \* N
    \/ ~done /\ state \in Fading /\ Commanded("QUIT") /\ Goto("TERMINATED")  \* ESC
    \/ DismissVictory                    \* ESC, SPACE, RETURN
    \/ ButCmdClicked("RES_YES")          \* RETURN

(* endOfDragAndCheckForVictory in the state st.                            *)
endOfDragAndCheckForVictory(st) ==
    /\ IF startdrag
       THEN /\ startdrag' = FALSE
            /\ \E dest \in DropTargets(NoRegion) :
                  DoDrop(dest, st) /\ checkForVictory(Dropped(dest), AfterDrop(dest))
            /\ continueLamda' = "EndOfDrag"
       ELSE /\ UNCHANGED <<startdrag, table, statePrev, continueLamda>>
            /\ checkForVictory(pile, {st})
    /\ UNCHANGED dealtStock
-----------------------------------------------------------------------------
(* PROPERTIES                                                              *)

Copies(f) ==
    Cardinality({i \in DOMAIN dragStack : Face(dragStack[i]) = f}) +
    Cardinality(UNION {{<<r, i>> : i \in {j \in DOMAIN pile[r] : Face(pile[r][j]) = f}}
                       : r \in Region})

(* Whatever the player does, and however new games cut into a move, every  *)
(* card of the deck is on the table or in the drag: the pops and pushes of *)
(* InitDrag, DoDropEvent and the lambdas lose nothing.                     *)
NoCardLost == \A f \in Deck : Copies(f) >= 1

(* If moves are not interrupted, every card is there exactly once: taps    *)
(* that merge into a pending drag, forced drops and stale callbacks do not *)
(* duplicate one either.                                                   *)
CardsConserved == \A f \in Deck : Copies(f) = 1

(* Whenever no card is off the table, the table holds one deck.            *)
TableIsOneDeck == dragStack = <<>> => \A f \in Deck : Copies(f) = 1

(* A foundation always reads ace, two, ... of one suit, face up: a cargo   *)
(* that changed between FindDropRegion and DoDropEvent would break it.     *)
FoundationsBuilt ==
    \A r \in Aces : \A i \in DOMAIN pile[r] :
        pile[r][i].up /\ pile[r][i].rank = i /\ pile[r][i].suit = pile[r][1].suit

(* On the tableau every face-up card carries only the next lower rank of   *)
(* the other colour, face up; the same holds inside the drag.              *)
Run(p) ==
    \A i \in 1..(Len(p) - 1) : p[i].up =>
        /\ p[i + 1].up
        /\ p[i + 1].rank = p[i].rank - 1
        /\ IsBlack(p[i + 1]) # IsBlack(p[i])
TableauBuilt == \A r \in Tableau : Run(pile[r])

(* Between two moves the stock is face down, the pile beside it face up,   *)
(* and together they are still in the order of the deal, however often the *)
(* player went through them: SingleTapB has to reverse what it dropped.    *)
TalonInOrder ==
    LET talon == Faces(pile[DeckPile_Ix]) \o Reversed(Faces(pile[DeckFaceUp]))
        dealtAt(f) == CHOOSE i \in DOMAIN dealtStock : dealtStock[i] = f
    IN dragStack = <<>> /\ continueLamda # "SingleTapB" =>
         /\ \A i \in DOMAIN pile[DeckPile_Ix] : ~pile[DeckPile_Ix][i].up
         /\ \A i \in DOMAIN pile[DeckFaceUp] : pile[DeckFaceUp][i].up
         /\ \A i \in DOMAIN talon : talon[i] \in {dealtStock[j] : j \in DOMAIN dealtStock}
         /\ \A i, j \in DOMAIN talon : i < j => dealtAt(talon[i]) < dealtAt(talon[j])

(* The assertion of CardStackGfx::First, called for the cargo in           *)
(* INITDRAG_STEP2: the machine never gets there without a cargo.           *)
CargoAtFirst == current = "INITDRAG_STEP2" => dragStack # <<>>

(* The lambda of a double tap dereferences _p_DropRegionForDrag: it is not *)
(* NULL while that lambda waits for the end of the zoom.                   *)
DropRegionKept == continueLamda = "DoubleTap" => dropRegion \in Aces

(* A frame can always use the state it finds: no path leads to one of the  *)
(* state members that was never assigned.                                  *)
StateIsSet == current \in State

(* A score is saved only for a table on which nothing but full foundations *)
(* is left.                                                                *)
SavesFinishedGame ==
    [][saves' > saves => \A r \in Region \ Aces : pile'[r] = <<>>]_<<pile, saves>>

(* The reservation that blocks further double clicks and stock clicks      *)
(* ("Drag/Drop already ongoing") is held by a move whose callback, or the  *)
(* lambda after it, gives it back.  It is left behind only before that     *)
(* callback has run, by a command, or by a mouse-up that finds the table   *)
(* finished, that takes the place of the move.                             *)
HeldByMove ==
    \/ state \in InitDrag /\ continueFn \in {"SingleTapB", "SingleTapC", "DoubleTap"}
    \/ state \in Zoom /\ continueLamda \in {"SingleTapB", "SingleTapC", "DoubleTap"}

LeftByCommand ==
    [][cardStackForDrag' /\ ~HeldByMove' =>
         \/ cardStackForDrag /\ ~HeldByMove
         \/ /\ state \in InitDrag
            /\ interrupts' > interrupts \/ state' = "START_VICTORY"]_gameVars

(* Cards that were taken off the table follow the pointer or are put down; *)
(* they do not stay in dragStack with nobody to drop them.                 *)
CargoNotForgotten ==
    (dragStack # <<>> /\ ~startdrag) ~> (dragStack = <<>> \/ startdrag)
=============================================================================
