----------------------- MODULE SolitarioTable_proofs -----------------------
(***************************************************************************)
(* What SolitarioMouse implements, for every deck and every number of      *)
(* piles, whatever the player does.                                        *)
(*                                                                         *)
(* GameScreen, what AppShell counts on: over the invariant of              *)
(* SolitarioMouse_proofs, which says where a message box and a zoom lead   *)
(* to, and over what a fade leads to.                                      *)
(*                                                                         *)
(* Klondike, the rules of solitaire: over the invariants of the piles, for *)
(* the cards under way count as lying where they were taken from, and that *)
(* they may be put down where the game puts them is what ICards says.      *)
(***************************************************************************)
EXTENDS SolitarioTable, SolitarioMouse_proofs

USE DEF Victory, InitDrag, TapClick, Zoom, Fading, State, Unset, GameFlowOK

IScreen == IInv /\ FadeAfter

LEMMA MouseLeadsOn == ASSUME IScreen PROVE LeadsOn
<1>1. FlowOK /\ StateMembers
  BY Invariant DEF IScreen
<1> QED BY <1>1 DEF IScreen, LeadsOn, Answers, FlowOK, StateMembers, BoxUp, YesNo, MsgBox

LEMMA ButtonDownShows ==
    ASSUME LeadsOn, NEW b \in MouseButtons, MouseDown(b)
    PROVE  FadeAfter' /\ Shows
<1>1. CASE DismissVictory
  BY <1>1, DismissShows
<1>2. CASE Listening /\ \E s \in TapClick : Goto(s)
  BY <1>2, GotoShows DEF InTheGame
<1>3. CASE UNCHANGED gameVars
  BY <1>3, SameShows DEF gameVars, flow
<1>4. \/ DismissVictory \/ (Listening /\ \E s \in TapClick : Goto(s)) \/ UNCHANGED gameVars
  BY TapsClick DEF MouseDown
<1> QED BY <1>1, <1>2, <1>3, <1>4

LEMMA ButtonUpShows ==
    ASSUME LeadsOn, NEW b \in MouseButtons, MouseUp(b)
    PROVE  FadeAfter' /\ Shows
<1>1. CASE MouseUpInGame
  <2>1. /\ Listening /\ done' = done /\ stateAfter' = stateAfter
        /\ endOfDragAndCheckForVictory(state) \/ endOfDragAndCheckForVictory("IN_MSGBOX")
    BY <1>1 DEF MouseUpInGame
  <2> QED BY <2>1, EndOfDragShows
<1>2. CASE \E res \in {"RES_YES", "RES_NO"} : ButCmdClicked(res)
  BY <1>2, ClickedShows
<1>3. CASE UNCHANGED gameVars
  BY <1>3, SameShows DEF gameVars, flow
<1> QED BY <1>1, <1>2, <1>3 DEF MouseUp

LEMMA NextScreen == IScreen /\ [MouseNext]_vars => IScreen' /\ Shows
<1> SUFFICES ASSUME IScreen, [MouseNext]_vars PROVE IScreen' /\ Shows
  OBVIOUS
<1>1. IInv' /\ LeadsOn
  BY NextIInv, MouseLeadsOn DEF IScreen
<1>2. CASE UNCHANGED vars
  BY <1>1, <1>2, SameShows DEF vars, gameVars, flow, IScreen
<1>3. CASE KeyDown \/ Quit
  BY <1>1, <1>3, KeyShows DEF KeyDown, Quit, IScreen
<1>4. CASE Iterate \/ NewGameLoop
  BY <1>1, <1>4, HandleIterateShows, StartLoopShows DEF Iterate, NewGameLoop, IScreen
<1> QED BY <1>1, <1>2, <1>3, <1>4, ButtonDownShows, ButtonUpShows, Zenon DEF MouseNext, IScreen

(* SolitarioGfx behaves as AppGfx expects of it: it fades in before it is  *)
(* played unless a tap comes first, asks before it acts, fades away when   *)
(* it is left, and answers done only then.                                 *)
THEOREM GameIsScreen == Spec => IsGameScreen
<1>1. MouseInit => IScreen /\ Screen!ScreenInit
  BY InitIInv, ScreenStarts DEF MouseInit, IScreen
<1>2. IScreen /\ [MouseNext]_vars => [Screen!ScreenNext]_<<PhaseOf, done>>
  BY NextScreen DEF Shows
<1>3. IScreen /\ [MouseNext]_vars => IScreen'
  BY NextScreen
<1> QED BY <1>1, <1>2, <1>3, PTL DEF Spec, IsGameScreen, Screen!ScreenSpec, Screen!gameScreen
-----------------------------------------------------------------------------

(* Klondike is about the same cards and piles.                             *)
LEMMA SameTable ==
    /\ Table!Region = Region /\ Table!Tableau = Tableau /\ Table!Aces = Aces
    /\ Table!DeckPile_Ix = DeckPile_Ix /\ Table!DeckFaceUp = DeckFaceUp
    /\ \A p : Table!Top(p) = Top(p)
    /\ \A p : Table!TurnUpTop(p) = TurnUpTop(p)
    /\ \A p : Table!Reversed(p) = Reversed(p)
    /\ \A p, b : Table!WithFaces(p, b) = WithFaces(p, b)
    /\ \A p, n : Table!Popped(p, n) = Popped(p, n)
    /\ \A p, n : Table!AfterPop(p, n) = AfterPop(p, n)
    /\ \A c : Table!IsBlack(c) = IsBlack(c)
<1>1. Table!NumAces = NumAces
  BY DEF Table!NumAces, NumAces, Table!Cardinality, Cardinality
<1>2. /\ Table!Region = Region /\ Table!Tableau = Tableau /\ Table!Aces = Aces
      /\ Table!DeckPile_Ix = DeckPile_Ix /\ Table!DeckFaceUp = DeckFaceUp
  BY <1>1 DEF Table!Region, Region, Table!Tableau, Tableau, Table!Aces, Aces,
     Table!DeckPile_Ix, DeckPile_Ix, Table!DeckFaceUp, DeckFaceUp
<1>3. /\ \A p : Table!Top(p) = Top(p)
      /\ \A p : Table!TurnUpTop(p) = TurnUpTop(p)
      /\ \A p : Table!Reversed(p) = Reversed(p)
  BY Zenon DEF Table!Top, Top, Table!TurnUpTop, TurnUpTop, Table!Reversed, Reversed
<1>4. /\ \A p, b : Table!WithFaces(p, b) = WithFaces(p, b)
      /\ \A p, n : Table!Popped(p, n) = Popped(p, n)
      /\ \A p, n : Table!AfterPop(p, n) = AfterPop(p, n)
      /\ \A c : Table!IsBlack(c) = IsBlack(c)
  BY Zenon DEF Table!WithFaces, WithFaces, Table!Popped, Popped, Table!AfterPop, AfterPop,
     Table!IsBlack, IsBlack
<1> QED BY <1>2, <1>3, <1>4

LEMMA SameDeal == ASSUME NEW deck PROVE Table!Deal(deck) = Deal(deck)
<1> DEFINE down == [i \in DOMAIN deck |-> [suit |-> deck[i].suit, rank |-> deck[i].rank,
                                           up |-> FALSE]]
           there(r) == CASE r = Table!DeckPile_Ix ->
                              Table!AfterPop(down, Table!DealtTo(NumTableau + 1))
                         [] r \in Table!Tableau ->
                              Table!TurnUpTop(Table!Popped(Table!AfterPop(down, Table!DealtTo(r)), r))
                         [] OTHER -> <<>>
           here(r)  == CASE r = DeckPile_Ix -> AfterPop(down, DealtTo(NumTableau + 1))
                         [] r \in Tableau -> TurnUpTop(Popped(AfterPop(down, DealtTo(r)), r))
                         [] OTHER -> <<>>
<1>1. Table!Deal(deck) = [r \in Table!Region |-> there(r)]
  BY Zenon DEF Table!Deal
<1>2. Deal(deck) = [r \in Region |-> here(r)]
  BY Zenon DEF Deal
<1>3. \A i : Table!DealtTo(i) = DealtTo(i)
  BY Zenon DEF Table!DealtTo, DealtTo
<1> HIDE DEF down
<1>4. ASSUME NEW r PROVE there(r) = here(r)
  BY <1>3, SameTable
<1> HIDE DEF here, there
<1> QED BY <1>1, <1>2, <1>4, SameTable

(* The table the player sees, and that of the next state.                  *)
LEMMA SeenIs ==
    /\ dragStack = <<>> /\ continueLamda # "SingleTapB" => CardsSeen = pile
    /\ dragStack = <<>> /\ continueLamda = "SingleTapB" =>
         CardsSeen = [pile EXCEPT ![DeckPile_Ix] = Reversed(pile[DeckPile_Ix])]
    /\ dragStack # <<>> /\ continueFn \notin {"SingleTapB", "SingleTapC"} =>
         CardsSeen = [pile EXCEPT ![selected] = pile[selected] \o dragStack]
    /\ dragStack # <<>> /\ continueFn = "SingleTapB" =>
         CardsSeen = [pile EXCEPT ![DeckFaceUp] = pile[DeckFaceUp] \o WithFaces(dragStack, TRUE)]
    /\ dragStack # <<>> /\ continueFn = "SingleTapC" =>
         CardsSeen = [pile EXCEPT ![DeckPile_Ix] = pile[DeckPile_Ix] \o WithFaces(dragStack, FALSE)]
BY DEF CardsSeen, Settled, Source, AsTheyLay

LEMMA NextSeenIs ==
    /\ dragStack' = <<>> /\ continueLamda' # "SingleTapB" => CardsSeen' = pile'
    /\ dragStack' = <<>> /\ continueLamda' = "SingleTapB" =>
         CardsSeen' = [pile' EXCEPT ![DeckPile_Ix] = Reversed(pile'[DeckPile_Ix])]
    /\ dragStack' # <<>> /\ continueFn' \notin {"SingleTapB", "SingleTapC"} =>
         CardsSeen' = [pile' EXCEPT ![selected'] = pile'[selected'] \o dragStack']
    /\ dragStack' # <<>> /\ continueFn' = "SingleTapB" =>
         CardsSeen' = [pile' EXCEPT ![DeckFaceUp] = pile'[DeckFaceUp] \o WithFaces(dragStack', TRUE)]
    /\ dragStack' # <<>> /\ continueFn' = "SingleTapC" =>
         CardsSeen' = [pile' EXCEPT ![DeckPile_Ix] = pile'[DeckPile_Ix] \o WithFaces(dragStack', FALSE)]
BY DEF CardsSeen, Settled, Source, AsTheyLay

(* A step of the machine that deals no new game: one move of the player,   *)
(* or the table stays.                                                     *)
Plays == Table!Flip \/ Table!NextFromStock \/ Table!RedialStock \/ Table!Move
           \/ CardsSeen' = CardsSeen

(* A step that deals one.                                                  *)
Deals == \E deck \in Shuffles : /\ CardsSeen' = Deal(deck)
                                /\ dealtStock' = Faces(Deal(deck)[DeckPile_Ix])

LEMMA TableStays ==
    ASSUME UNCHANGED <<pile, dragStack, continueLamda>>,
           dragStack # <<>> => UNCHANGED <<continueFn, selected>>
    PROVE  Plays
<1>1. CASE dragStack = <<>>
  BY <1>1, SeenIs, NextSeenIs DEF Plays
<1>2. CASE dragStack # <<>>
  BY <1>2, SeenIs, NextSeenIs DEF Plays
<1> QED BY <1>1, <1>2

LEMMA NewDeal ==
    ASSUME newGame, dragStack' = <<>>, continueLamda' # "SingleTapB"
    PROVE  Deals
BY NextSeenIs DEF newGame, Deals
-----------------------------------------------------------------------------
(* Facts about piles.                                                      *)

LEMMA PopBack ==
    ASSUME NEW rest \in Seq(Card), NEW run \in Seq(Card)
    PROVE  Popped(rest \o run, Len(run)) = run /\ AfterPop(rest \o run, Len(run)) = rest
<1> DEFINE m == Len(rest)
           n == Len(run)
           both == rest \o run
<1>1. m \in Nat /\ n \in Nat /\ DOMAIN rest = 1..m /\ DOMAIN run = 1..n
  OBVIOUS
<1>2. /\ both \in Seq(Card) /\ Len(both) = m + n
      /\ \A i \in 1..m : both[i] = rest[i]
      /\ \A i \in 1..n : both[m + i] = run[i]
  BY <1>1, ConcatProperties
<1> HIDE DEF m, n, both
<1>3. (IF n > Len(both) THEN 0 ELSE Len(both) - n) = m
  BY <1>1, <1>2
<1>4. Popped(both, n) = SubSeq(both, m + 1, m + n) /\ AfterPop(both, n) = SubSeq(both, 1, m)
  BY <1>2, <1>3, Zenon DEF Popped, AfterPop
<1>5. SubSeq(both, m + 1, m + n) = run
  <2>1. /\ SubSeq(both, m + 1, m + n) \in Seq(Card)
        /\ Len(SubSeq(both, m + 1, m + n)) = n
        /\ \A i \in 1..n : SubSeq(both, m + 1, m + n)[i] = both[m + i]
    BY <1>1, <1>2
  <2>2. Len(run) = n /\ run \in Seq(Card)
    BY DEF n
  <2> QED BY <1>2, <2>1, <2>2, SeqEqual
<1>6. SubSeq(both, 1, m) = rest
  <2>1. /\ SubSeq(both, 1, m) \in Seq(Card)
        /\ Len(SubSeq(both, 1, m)) = m
        /\ \A i \in 1..m : SubSeq(both, 1, m)[i] = both[i]
    BY <1>1, <1>2
  <2>2. Len(rest) = m /\ rest \in Seq(Card)
    BY DEF m
  <2> QED BY <1>2, <2>1, <2>2, SeqEqual
<1> QED BY <1>4, <1>5, <1>6 DEF n, both

LEMMA TopOfPushed ==
    ASSUME NEW p \in Seq(Card), NEW q \in Seq(Card), Len(q) = 1
    PROVE  p \o q # <<>> /\ Top(p \o q) = q[1]
<1> DEFINE m == Len(p)
           both == p \o q
<1>1. m \in Nat /\ DOMAIN p = 1..m /\ DOMAIN q = 1..1
  OBVIOUS
<1>2. Len(both) = m + 1 /\ \A i \in 1..1 : both[m + i] = q[i]
  BY <1>1, ConcatProperties
<1> HIDE DEF m, both
<1>3. both # <<>> /\ both[Len(both)] = q[1]
  BY <1>1, <1>2
<1> QED BY <1>3 DEF Top, both

LEMMA TailOfDown ==
    ASSUME NEW p \in Seq(Card), NEW q \in Seq(Card), AllDown(p \o q)
    PROVE  AllDown(q)
<1> DEFINE m == Len(p)
           n == Len(q)
           both == p \o q
<1>1. m \in Nat /\ n \in Nat /\ DOMAIN p = 1..m /\ DOMAIN q = 1..n
  OBVIOUS
<1>2. DOMAIN both = 1..(m + n) /\ \A i \in 1..n : both[m + i] = q[i]
  BY <1>1, ConcatProperties
<1> HIDE DEF m, n, both
<1>3. \A i \in 1..n : m + i \in DOMAIN both
  BY <1>1, <1>2
<1> QED BY <1>1, <1>2, <1>3 DEF AllDown, both

(* Cards laid the other way and back.                                      *)
LEMMA TurnedBack ==
    ASSUME NEW p \in Seq(Card), NEW b \in BOOLEAN, NEW c \in BOOLEAN,
           \A i \in DOMAIN p : p[i].up = b
    PROVE  WithFaces(WithFaces(p, c), b) = p
<1>1. \A i \in DOMAIN p : p[i] \in Card
  OBVIOUS
<1>2. /\ DOMAIN WithFaces(p, c) = DOMAIN p
      /\ \A i \in DOMAIN p : WithFaces(p, c)[i] = [p[i] EXCEPT !.up = c]
  BY DEF WithFaces
<1>3. /\ DOMAIN WithFaces(WithFaces(p, c), b) = DOMAIN p
      /\ \A i \in DOMAIN p : WithFaces(WithFaces(p, c), b)[i] = [WithFaces(p, c)[i] EXCEPT !.up = b]
  BY <1>2 DEF WithFaces
<1>4. \A i \in DOMAIN p : [[p[i] EXCEPT !.up = c] EXCEPT !.up = b] = p[i]
  BY <1>1 DEF Card
<1>5. \A i \in DOMAIN p : WithFaces(WithFaces(p, c), b)[i] = p[i]
  BY <1>2, <1>3, <1>4
<1>6. WithFaces(WithFaces(p, c), b) \in Seq(Card)
  BY WithFacesType
<1> QED BY <1>3, <1>5, <1>6, SeqEqual

LEMMA TopIsUp ==
    ASSUME NEW p \in Seq(Card), p # <<>> => Top(p).up
    PROVE  TurnUpTop(p) = p
<1>1. CASE p = <<>>
  BY <1>1 DEF TurnUpTop
<1>2. CASE p # <<>>
  <2>1. Len(p) \in DOMAIN p /\ p[Len(p)] \in Card
    BY <1>2
  <2>2. p[Len(p)].up = TRUE
    BY <1>2, <2>1 DEF Top, Card
  <2>3. [p[Len(p)] EXCEPT !.up = TRUE] = p[Len(p)]
    BY <2>1, <2>2 DEF Card
  <2> QED BY <1>2, <2>1, <2>3 DEF TurnUpTop
<1> QED BY <1>1, <1>2

(* A run that begins face up is face up.                                   *)
LEMMA RunIsUp ==
    ASSUME NEW p \in Seq(Card), Run(p), p[1].up
    PROVE  AllUp(p)
<1> DEFINE S == {i \in 1..Len(p) : ~p[i].up}
<1>1. Len(p) \in Nat /\ DOMAIN p = 1..Len(p)
  OBVIOUS
<1>2. SUFFICES S = {}
  BY <1>1 DEF AllUp
<1>3. SUFFICES ASSUME S # {} PROVE FALSE
  OBVIOUS
<1>4. PICK i \in S : \A j \in S : i <= j
  <2>1. S \in SUBSET Nat
    BY <1>1
  <2> HIDE DEF S
  <2> QED BY <1>3, <2>1, LeastOf
<1>5. i \in 1..Len(p) /\ ~p[i].up /\ i # 1
  BY <1>4
<1>6. i - 1 \in 1..(Len(p) - 1) /\ i - 1 \in 1..Len(p) /\ i - 1 + 1 = i /\ ~(i <= i - 1)
  BY <1>1, <1>5
<1>7. p[i - 1].up
  BY <1>4, <1>6
<1>8. p[i - 1 + 1].up
  BY <1>6, <1>7 DEF Run
<1> QED BY <1>5, <1>6, <1>8

(* CanDrop on the tableau: a King, or the next lower card of the other     *)
(* colour.                                                                 *)
LEMMA FallsOnTableau ==
    ASSUME NEW r \in Tableau, NEW p \in Seq(Card), NEW cargo \in Seq(Card),
           CanDrop(r, p, cargo)
    PROVE  Table!FitsTableau(cargo[1], p)
<1>1. cargo # <<>> /\ cargo[1].rank \in Nat
  <2>1. cargo # <<>>
    BY DEF CanDrop
  <2>2. cargo[1] \in Card
    BY <2>1
  <2> QED BY <2>1, <2>2, CardsAssumption DEF Card
<1>2. AcceptMode(r) = {"DOOPCOLOR", "DOLOWER", "DOLOWERBY1", "DOKING"}
  BY RegionFacts DEF AcceptMode
<1>3. CASE p = <<>>
  BY <1>2, <1>3 DEF CanDrop, EmptyAccepts, Table!FitsTableau
<1>4. CASE p # <<>>
  <2>1. Top(p).rank \in Nat
    <3>1. p[Len(p)] \in Card
      BY <1>4
    <3> QED BY <3>1, CardsAssumption DEF Top, Card
  <2>2. /\ Top(p).up /\ cargo[1].rank = Top(p).rank - 1
        /\ IsBlack(cargo[1]) # IsBlack(Top(p))
    BY <1>1, <1>2, <1>4, <2>1 DEF CanDrop, PileAccepts
  <2> QED BY <1>4, <2>2, SameTable DEF Table!FitsTableau
<1> QED BY <1>3, <1>4

(* What a foundation is built of after the drop: the ace or the next card. *)
LEMMA FallsOnFoundation ==
    ASSUME NEW p \in Seq(Card), NEW cargo \in Seq(Card), cargo # <<>>, Built(p \o cargo)
    PROVE  /\ Table!FitsFoundation(cargo[1], p)
           /\ AllUp(cargo)
           /\ Run(cargo) => Len(cargo) = 1
<1> DEFINE m == Len(p)
           n == Len(cargo)
           both == p \o cargo
<1>1. m \in Nat /\ n \in Nat \ {0} /\ (p = <<>> <=> m = 0)
  OBVIOUS
<1>2. /\ DOMAIN both = 1..(m + n)
      /\ \A i \in 1..m : both[i] = p[i]
      /\ \A i \in 1..n : both[m + i] = cargo[i]
  BY <1>1, ConcatProperties
<1>3. \A i \in 1..n : cargo[i] \in Card
  OBVIOUS
<1> HIDE DEF m, n, both
<1>4. \A i \in 1..(m + n) : both[i].up /\ both[i].rank = i /\ both[i].suit = both[1].suit
  BY <1>2 DEF Built, both
<1>5. \A i \in 1..n : cargo[i].up /\ cargo[i].rank = m + i /\ cargo[i].suit = both[1].suit
  <2> TAKE i \in 1..n
  <2>1. m + i \in 1..(m + n)
    BY <1>1
  <2> QED BY <1>2, <1>4, <2>1
<1>6. m # 0 => m \in 1..(m + n) /\ p[m].rank = m /\ p[m].suit = both[1].suit
  <2> SUFFICES ASSUME m # 0 PROVE m \in 1..(m + n) /\ p[m].rank = m /\ p[m].suit = both[1].suit
    OBVIOUS
  <2>1. m \in 1..(m + n) /\ m \in 1..m
    BY <1>1
  <2> QED BY <1>2, <1>4, <2>1
<1>7. 1 \in 1..n
  BY <1>1
<1>8. Table!FitsFoundation(cargo[1], p)
  <2>1. CASE p = <<>>
    BY <1>1, <1>5, <1>7, <2>1 DEF Table!FitsFoundation
  <2>2. CASE p # <<>>
    <3>1. Table!Top(p) = p[m]
      BY SameTable DEF Top, m
    <3>2. cargo[1].rank = p[m].rank + 1 /\ cargo[1].suit = p[m].suit
      BY <1>1, <1>5, <1>6, <1>7, <2>2
    <3> QED BY <2>2, <3>1, <3>2 DEF Table!FitsFoundation
  <2> QED BY <2>1, <2>2
<1>9. ASSUME Run(cargo), n # 1 PROVE FALSE
  <2>1. 1 \in 1..(n - 1) /\ 1 + 1 \in 1..n
    BY <1>1, <1>9
  <2>2. cargo[1 + 1].rank = cargo[1].rank - 1
    BY <1>5, <1>7, <1>9, <2>1 DEF Run, n
  <2> QED BY <1>1, <1>5, <1>7, <2>1, <2>2
<1>10. AllUp(cargo)
  <2>1. DOMAIN cargo = 1..n
    BY DEF n
  <2> QED BY <1>5, <2>1 DEF AllUp
<1> QED BY <1>8, <1>9, <1>10 DEF n
-----------------------------------------------------------------------------
(* The cargo is put down: a move, or back where it came from.              *)

LEMMA MoveIs ==
    ASSUME CardsSeen \in [Region -> Seq(Card)],
           NEW from \in Region \ {DeckPile_Ix}, NEW to \in (Tableau \cup Aces) \ {from},
           NEW rest \in Seq(Card), NEW run \in Seq(Card), run # <<>>, AllUp(run),
           CardsSeen[from] = rest \o run,
           Len(run) > 1 => {from, to} \subseteq Tableau,
           IF to \in Tableau THEN Table!FitsTableau(run[1], CardsSeen[to])
                             ELSE Table!FitsFoundation(run[1], CardsSeen[to]),
           CardsSeen' = [CardsSeen EXCEPT ![from] = rest, ![to] = CardsSeen[to] \o run]
    PROVE  Plays
<1> DEFINE n == Len(run)
<1>1. n \in Nat \ {0} /\ DOMAIN run = 1..n
  OBVIOUS
<1>2. n \in 1..Len(CardsSeen[from])
  <2>1. Len(rest \o run) = Len(rest) + n /\ Len(rest) \in Nat
    OBVIOUS
  <2> HIDE DEF n
  <2> QED BY <1>1, <2>1
<1>3. /\ Table!Popped(CardsSeen[from], n) = run
      /\ Table!AfterPop(CardsSeen[from], n) = rest
  BY PopBack, SameTable
<1> HIDE DEF n
<1>4. \A i \in 1..n : run[i].up
  BY <1>1 DEF AllUp
<1>5. /\ from \in Table!Playable /\ to \in (Table!Tableau \cup Table!Aces) \ {from}
      /\ n > 1 => {from, to} \subseteq Table!Tableau
      /\ to \in Table!Tableau <=> to \in Tableau
  BY SameTable DEF Table!Playable, n
<1>6. CardsSeen' = [CardsSeen EXCEPT ![from] = Table!AfterPop(CardsSeen[from], n),
                                     ![to] = CardsSeen[to] \o Table!Popped(CardsSeen[from], n)]
  BY <1>3
<1>7. /\ \A i \in 1..n : Table!Popped(CardsSeen[from], n)[i].up
      /\ IF to \in Table!Tableau
         THEN Table!FitsTableau(Table!Popped(CardsSeen[from], n)[1], CardsSeen[to])
         ELSE Table!FitsFoundation(Table!Popped(CardsSeen[from], n)[1], CardsSeen[to])
  BY <1>3, <1>4, <1>5
<1>8. Table!Move
  <2> SUFFICES \E f \in Table!Playable : \E t \in (Table!Tableau \cup Table!Aces) \ {f} :
               \E k \in 1..Len(CardsSeen[f]) :
                  /\ k > 1 => {f, t} \subseteq Table!Tableau
                  /\ \A i \in 1..k : Table!Popped(CardsSeen[f], k)[i].up
                  /\ IF t \in Table!Tableau
                     THEN Table!FitsTableau(Table!Popped(CardsSeen[f], k)[1], CardsSeen[t])
                     ELSE Table!FitsFoundation(Table!Popped(CardsSeen[f], k)[1], CardsSeen[t])
                  /\ CardsSeen' = [CardsSeen EXCEPT
                                      ![f] = Table!AfterPop(CardsSeen[f], k),
                                      ![t] = CardsSeen[t] \o Table!Popped(CardsSeen[f], k)]
    BY DEF Table!Move
  <2> USE <1>2, <1>5
  <2> WITNESS from \in Table!Playable
  <2> WITNESS to \in (Table!Tableau \cup Table!Aces) \ {from}
  <2> WITNESS n \in 1..Len(CardsSeen[from])
  <2> QED BY <1>6, <1>7
<1> QED BY <1>8 DEF Plays

LEMMA FallsPlays ==
    ASSUME TableOK, dragStack # <<>>, continueFn \notin {"SingleTapB", "SingleTapC"},
           selected \in Region \ {DeckPile_Ix}, NEW to \in Region, NEW st, DoDrop(to, st),
           continueLamda' # "SingleTapB",
           to # selected =>
             /\ to \in Tableau \cup Aces
             /\ AllUp(dragStack)
             /\ Len(dragStack) > 1 => {selected, to} \subseteq Tableau
             /\ IF to \in Tableau THEN Table!FitsTableau(dragStack[1], pile[to])
                                   ELSE Table!FitsFoundation(dragStack[1], pile[to])
    PROVE  Plays
<1>1. pile \in [Region -> Seq(Card)] /\ dragStack \in Seq(Card)
  BY DEF TableOK
<1>2. pile[selected] \in Seq(Card) /\ pile[selected] \o dragStack \in Seq(Card)
  BY <1>1
<1>3. CardsSeen = [pile EXCEPT ![selected] = pile[selected] \o dragStack]
  BY SeenIs
<1>4. CardsSeen' = [pile EXCEPT ![to] = pile[to] \o dragStack]
  BY NextSeenIs DEF DoDrop, Dropped
<1>5. CASE to = selected
  BY <1>3, <1>4, <1>5 DEF Plays
<1>6. CASE to # selected
  <2>1. /\ CardsSeen \in [Region -> Seq(Card)]
        /\ CardsSeen[selected] = pile[selected] \o dragStack
        /\ CardsSeen[to] = pile[to]
    BY <1>1, <1>2, <1>3, <1>6
  <2>2. CardsSeen' = [CardsSeen EXCEPT ![selected] = pile[selected],
                                       ![to] = CardsSeen[to] \o dragStack]
    BY <1>1, <1>2, <1>3, <1>4, <1>6
  <2> QED BY <1>1, <1>2, <1>6, <2>1, <2>2, MoveIs
<1> QED BY <1>5, <1>6

(* The player lets go of the cards somewhere.                              *)
LEMMA LetGoPlays ==
    ASSUME TableOK, ICards, dragStack # <<>>, Lifted, NEW to \in DropTargets(NoRegion),
           NEW st, DoDrop(to, st), continueLamda' # "SingleTapB"
    PROVE  Plays
<1>1. /\ selected \in Region \ {DeckPile_Ix} /\ Run(dragStack) /\ dragStack[1].up
      /\ selected \notin Tableau => Len(dragStack) = 1
  BY DEF ICards, CargoFits
<1>2. dragStack \in Seq(Card) /\ continueFn \notin {"SingleTapB", "SingleTapC"}
  BY DEF TableOK, Lifted
<1>3. to \in Region /\ Fits(to, pile[to] \o dragStack)
  BY LetGo
<1>4. pile[to] \in Seq(Card)
  BY <1>3 DEF TableOK
<1>5. AllUp(dragStack)
  BY <1>1, <1>2, RunIsUp
<1>6. ASSUME to # selected
      PROVE  /\ to \in Tableau \cup Aces
             /\ Len(dragStack) > 1 => {selected, to} \subseteq Tableau
             /\ IF to \in Tableau THEN Table!FitsTableau(dragStack[1], pile[to])
                                   ELSE Table!FitsFoundation(dragStack[1], pile[to])
  <2>1. DoesDrop(to) /\ CanDrop(to, pile[to], dragStack)
    BY <1>6 DEF DropTargets
  <2>2. to \in Tableau \cup Aces
    BY <1>3, <2>1, RegionFacts DEF DoesDrop, RegionTypeId
  <2>3. CASE to \in Tableau
    <3>1. Table!FitsTableau(dragStack[1], pile[to])
      BY <1>2, <1>4, <2>1, <2>3, FallsOnTableau
    <3>2. Len(dragStack) > 1 => selected \in Tableau
      BY <1>1
    <3> QED BY <2>3, <3>1, <3>2
  <2>4. CASE to \in Aces
    <3>1. to \notin Tableau /\ Built(pile[to] \o dragStack)
      BY <1>3, <2>4, RegionFacts DEF Fits
    <3>2. Table!FitsFoundation(dragStack[1], pile[to]) /\ Len(dragStack) = 1
      BY <1>1, <1>2, <1>4, <3>1, FallsOnFoundation
    <3>3. ~(Len(dragStack) > 1)
      BY <3>2
    <3> QED BY <2>2, <3>1, <3>2, <3>3
  <2> QED BY <2>2, <2>3, <2>4
<1> QED BY <1>1, <1>2, <1>3, <1>5, <1>6, FallsPlays

LEMMA ForcedDropPlays == ASSUME IInv, ICards, ForcedDrop PROVE Plays
<1>1. TableOK /\ state = "INITDRAG_AFTER" /\ dragStack # <<>>
  BY Invariant, CurrentFacts DEF ForcedDrop, CargoOnTheWay, OnTheWay
<1>2. continueLamda' # "SingleTapB" /\ Lifted
  BY <1>1 DEF ForcedDrop, ICards, Busy, Lifted
<1> QED BY <1>1, <1>2, LetGoPlays DEF ForcedDrop

(* The cargo falls where its callback says.                                *)
LEMMA GivenDrop ==
    ASSUME IInv, InitDragAfterGiven
    PROVE  LET to == [SingleTapB |-> DeckPile_Ix, SingleTapC |-> DeckFaceUp,
                      DoubleTap |-> dropRegion][continueFn]
           IN /\ TableOK /\ dragStack # <<>>
              /\ continueFn \in {"SingleTapB", "SingleTapC", "DoubleTap"}
              /\ continueFn = "DoubleTap" => dropRegion \in Aces
              /\ continueLamda' = continueFn
              /\ DoDrop(to, "IN_GAME")
<1> DEFINE to == [SingleTapB |-> DeckPile_Ix, SingleTapC |-> DeckFaceUp,
                  DoubleTap |-> dropRegion][continueFn]
<1>1. TableOK /\ state = "INITDRAG_AFTER" /\ dragStack # <<>>
      /\ (continueFn = "DoubleTap" => dropRegion \in Aces)
  BY Invariant, CurrentFacts DEF InitDragAfterGiven, CargoOnTheWay, OnTheWay
<1>2. continueFn \in {"SingleTapB", "SingleTapC", "DoubleTap"} /\ continueLamda' = continueFn
  BY DEF InitDragAfterGiven
<1>3. to # NoRegion
  BY <1>1, <1>2, RegionFacts
<1>4. DropTargets(to) = {to}
  BY <1>3 DEF DropTargets
<1>5. DoDrop(to, "IN_GAME")
  BY <1>4 DEF InitDragAfterGiven
<1> QED BY <1>1, <1>2, <1>5

LEMMA RedialPlays ==
    ASSUME TableOK, ICards, dragStack # <<>>, continueFn = "SingleTapB",
           continueLamda' = "SingleTapB", NEW st, DoDrop(DeckPile_Ix, st)
    PROVE  Plays
<1>1. /\ pile \in [Region -> Seq(Card)] /\ dragStack \in Seq(Card)
      /\ DeckPile_Ix \in Region /\ DeckFaceUp \in Region /\ DeckPile_Ix # DeckFaceUp
  BY RegionFacts DEF TableOK
<1>2. pile[DeckPile_Ix] = <<>> /\ pile[DeckFaceUp] = <<>> /\ AllDown(dragStack)
  BY DEF ICards, CargoFits
<1> DEFINE shown == WithFaces(dragStack, TRUE)
<1>3. shown \in Seq(Card) /\ WithFaces(shown, FALSE) = dragStack
  <2>1. \A i \in DOMAIN dragStack : dragStack[i].up = FALSE
    <3>1. \A i \in DOMAIN dragStack : dragStack[i] \in Card
      BY <1>1
    <3> QED BY <1>2, <3>1 DEF AllDown, Card
  <2> QED BY <1>1, <2>1, WithFacesType, TurnedBack
<1> HIDE DEF shown
<1>4. CardsSeen = [pile EXCEPT ![DeckFaceUp] = shown]
  <2>1. <<>> \o shown = shown
    BY <1>3
  <2> QED BY <1>2, <2>1, SeenIs DEF shown
<1>5. pile' = [pile EXCEPT ![DeckPile_Ix] = dragStack] /\ dragStack' = <<>>
  <2>1. <<>> \o dragStack = dragStack
    BY <1>1
  <2> QED BY <1>2, <2>1 DEF DoDrop, Dropped
<1>6. CardsSeen' = [pile EXCEPT ![DeckPile_Ix] = Reversed(dragStack)]
  <2>1. pile'[DeckPile_Ix] = dragStack
    BY <1>1, <1>5
  <2> QED BY <1>1, <1>5, <2>1, NextSeenIs
<1>7. CardsSeen[DeckPile_Ix] = <<>> /\ CardsSeen[DeckFaceUp] = shown
  BY <1>1, <1>2, <1>4
<1>8. CardsSeen' = [CardsSeen EXCEPT ![DeckPile_Ix] = Reversed(dragStack), ![DeckFaceUp] = <<>>]
  BY <1>1, <1>2, <1>4, <1>6
<1>9. Reversed(dragStack)
        = Table!Reversed(Table!WithFaces(CardsSeen[Table!DeckFaceUp], FALSE))
  BY <1>3, <1>7, SameTable
<1>10. Table!RedialStock
  BY <1>7, <1>8, <1>9, SameTable DEF Table!RedialStock
<1> QED BY <1>10 DEF Plays

LEMMA NextCardPlays ==
    ASSUME TableOK, ICards, dragStack # <<>>, continueFn = "SingleTapC",
           continueLamda' = "SingleTapC", NEW st, DoDrop(DeckFaceUp, st)
    PROVE  Plays
<1>1. /\ pile \in [Region -> Seq(Card)] /\ dragStack \in Seq(Card)
      /\ DeckPile_Ix \in Region /\ DeckFaceUp \in Region /\ DeckPile_Ix # DeckFaceUp
      /\ pile[DeckPile_Ix] \in Seq(Card) /\ pile[DeckFaceUp] \in Seq(Card)
  BY RegionFacts DEF TableOK
<1>2. Len(dragStack) = 1 /\ dragStack[1] \in Card /\ dragStack[1].up = TRUE
  <2>1. Len(dragStack) = 1 /\ AllUp(dragStack)
    BY DEF ICards, CargoFits
  <2>2. 1 \in DOMAIN dragStack /\ dragStack[1] \in Card
    BY <1>1, <2>1
  <2> QED BY <2>1, <2>2 DEF AllUp, Card
<1> DEFINE hidden == WithFaces(dragStack, FALSE)
           stock  == pile[DeckPile_Ix] \o hidden
<1>3. hidden \in Seq(Card) /\ Len(hidden) = 1
  BY <1>1, <1>2, WithFacesType
<1>4. hidden[1] = [dragStack[1] EXCEPT !.up = FALSE]
  <2>1. 1 \in DOMAIN dragStack
    BY <1>1, <1>2
  <2> QED BY <2>1 DEF WithFaces
<1>5. [hidden[1] EXCEPT !.up = TRUE] = dragStack[1]
  BY <1>2, <1>4 DEF Card
<1>6. dragStack = <<dragStack[1]>>
  BY <1>1, <1>2
<1> HIDE DEF hidden
<1>7. AfterPop(stock, 1) = pile[DeckPile_Ix]
  BY <1>1, <1>3, PopBack
<1>8. stock # <<>> /\ Top(stock) = hidden[1]
  BY <1>1, <1>3, TopOfPushed
<1> HIDE DEF stock
<1>9. CardsSeen = [pile EXCEPT ![DeckPile_Ix] = stock]
  BY SeenIs DEF stock, hidden
<1>10. CardsSeen' = [pile EXCEPT ![DeckFaceUp] = pile[DeckFaceUp] \o dragStack]
  BY NextSeenIs DEF DoDrop, Dropped
<1>11. pile[DeckFaceUp] \o dragStack = Append(pile[DeckFaceUp], [Top(stock) EXCEPT !.up = TRUE])
  <2>1. [Top(stock) EXCEPT !.up = TRUE] = dragStack[1]
    BY <1>5, <1>8
  <2>2. pile[DeckFaceUp] \o <<dragStack[1]>> = Append(pile[DeckFaceUp], dragStack[1])
    BY <1>1, <1>2
  <2> QED BY <1>6, <2>1, <2>2
<1>12. CardsSeen[DeckPile_Ix] = stock /\ CardsSeen[DeckFaceUp] = pile[DeckFaceUp]
  BY <1>1, <1>9
<1>13. CardsSeen' = [CardsSeen EXCEPT
                       ![DeckPile_Ix] = AfterPop(CardsSeen[DeckPile_Ix], 1),
                       ![DeckFaceUp] = Append(CardsSeen[DeckFaceUp],
                                              [Top(CardsSeen[DeckPile_Ix]) EXCEPT !.up = TRUE])]
  BY <1>1, <1>7, <1>9, <1>10, <1>11, <1>12
<1>14. Table!NextFromStock
  BY <1>8, <1>12, <1>13, SameTable DEF Table!NextFromStock
<1> QED BY <1>14 DEF Plays

LEMMA DoubleTapPlays ==
    ASSUME TableOK, ICards, dragStack # <<>>, continueFn = "DoubleTap", dropRegion \in Aces,
           continueLamda' = "DoubleTap", NEW st, DoDrop(dropRegion, st)
    PROVE  Plays
<1>1. /\ selected \in Tableau \cup {DeckFaceUp} /\ Len(dragStack) = 1
      /\ Fits(dropRegion, pile[dropRegion] \o dragStack)
  BY DEF ICards, CargoFits
<1>2. /\ dropRegion \in Region /\ dropRegion \notin Tableau /\ dropRegion # selected
      /\ selected \in Region \ {DeckPile_Ix}
  BY <1>1, RegionFacts
<1>3. pile[dropRegion] \in Seq(Card) /\ dragStack \in Seq(Card)
  BY <1>2 DEF TableOK
<1>4. Built(pile[dropRegion] \o dragStack)
  BY <1>1 DEF Fits
<1>5. Table!FitsFoundation(dragStack[1], pile[dropRegion]) /\ AllUp(dragStack)
  BY <1>3, <1>4, FallsOnFoundation
<1> QED BY <1>1, <1>2, <1>5, FallsPlays
-----------------------------------------------------------------------------
(* A tap turns a card over, or takes cards off the table: nothing moves.   *)

LEMMA TapPilePlays ==
    ASSUME TableOK, dragStack = <<>>, continueLamda # "SingleTapB", UNCHANGED continueLamda,
           NEW st, NEW r \in Region \ {DeckPile_Ix}, NEW k \in Clickable(r), TapPile(r, k, st)
    PROVE  Plays
<1> DEFINE p == IF r \in Tableau /\ k = Len(pile[r]) THEN TurnUpTop(pile[r]) ELSE pile[r]
           lift == CanLift(r, p, k)
<1>1. pile[r] \in Seq(Card) /\ pile \in [Region -> Seq(Card)]
  BY DEF TableOK
<1>2. p \in Seq(Card) /\ Len(p) = Len(pile[r])
  BY <1>1, TurnUpTopType
<1>3. /\ pile' = [pile EXCEPT ![r] = IF lift THEN SubSeq(p, 1, k - 1) ELSE p]
      /\ dragStack' = <<>> \o (IF lift THEN SubSeq(p, k, Len(p)) ELSE <<>>)
      /\ selected' = r /\ continueFn' = "SingleTapA"
  BY DEF TapPile
<1>4. lift => k \in 1..Len(p)
  <2>1. k \in 0..Len(p)
    BY <1>1, <1>2 DEF Clickable
  <2> QED BY <1>2, <2>1 DEF CanLift
<1>5. CardsSeen = pile
  BY SeenIs
<1>6. p = pile[r] \/ Table!Flip \/ CardsSeen' # [pile EXCEPT ![r] = p]
  <2>1. CASE p = pile[r]
    BY <2>1
  <2>2. CASE r \in Tableau /\ p = TurnUpTop(pile[r]) /\ p # pile[r]
    <3>1. pile[r] # <<>> /\ ~Top(pile[r]).up
      BY <1>1, <2>2, TopIsUp
    <3> HIDE DEF p
    <3> QED BY <1>5, <2>2, <3>1, SameTable DEF Table!Flip
  <2> QED BY <2>1, <2>2
<1> HIDE DEF p, lift
<1>7. CardsSeen' = [pile EXCEPT ![r] = p]
  <2>1. CASE lift
    <3> DEFINE rest == SubSeq(p, 1, k - 1)
               cargo == SubSeq(p, k, Len(p))
    <3>1. rest \in Seq(Card) /\ cargo \in Seq(Card) /\ cargo # <<>>
      BY <1>2, <1>4, <2>1, CutType
    <3>2. rest \o cargo = p
      BY <1>2, <1>4, <2>1, Rejoin
    <3> HIDE DEF rest, cargo
    <3>3. pile' = [pile EXCEPT ![r] = rest] /\ dragStack' = cargo
      BY <1>3, <2>1, <3>1 DEF rest, cargo
    <3>4. pile'[r] = rest
      BY <1>1, <3>3
    <3>5. CardsSeen' = [pile' EXCEPT ![r] = rest \o cargo]
      BY <1>3, <3>1, <3>3, <3>4, NextSeenIs
    <3> QED BY <1>1, <3>2, <3>3, <3>5
  <2>2. CASE ~lift
    BY <1>3, <2>2, NextSeenIs
  <2> QED BY <2>1, <2>2
<1>8. CASE p = pile[r]
  BY <1>1, <1>5, <1>7, <1>8 DEF Plays
<1> QED BY <1>6, <1>7, <1>8 DEF Plays

(* A card that is taken off, turned over, lies where it lay for Klondike.  *)
LEMMA TakenTop ==
    ASSUME NEW p \in Seq(Card), p # <<>>
    PROVE  /\ AfterPop(p, 1) \in Seq(Card) /\ Popped(p, 1) \in Seq(Card)
           /\ Popped(p, 1) # <<>> /\ AfterPop(p, 1) \o Popped(p, 1) = p
<1> DEFINE n == Len(p)
<1>1. n \in 1..Len(p) /\ n \in Nat /\ 1 <= n
  OBVIOUS
<1>2. (IF 1 > Len(p) THEN 0 ELSE Len(p) - 1) = n - 1 /\ n - 1 + 1 = n
  BY <1>1
<1>3. AfterPop(p, 1) = SubSeq(p, 1, n - 1) /\ Popped(p, 1) = SubSeq(p, n, Len(p))
  BY <1>2 DEF AfterPop, Popped
<1>4. /\ SubSeq(p, 1, n - 1) \in Seq(Card) /\ SubSeq(p, n, Len(p)) \in Seq(Card)
      /\ SubSeq(p, n, Len(p)) # <<>>
  BY <1>1, CutType
<1>5. SubSeq(p, 1, n - 1) \o SubSeq(p, n, Len(p)) = p
  BY <1>1, Rejoin
<1> HIDE DEF n
<1> QED BY <1>3, <1>4, <1>5

LEMMA StockTapPlays ==
    ASSUME TableOK, ICards, dragStack = <<>>, continueLamda # "SingleTapB",
           UNCHANGED continueLamda, NEW st, clickOnDeckStock(st)
    PROVE  Plays
<1>1. /\ pile \in [Region -> Seq(Card)]
      /\ DeckPile_Ix \in Region /\ DeckFaceUp \in Region /\ DeckPile_Ix # DeckFaceUp
      /\ pile[DeckPile_Ix] \in Seq(Card) /\ pile[DeckFaceUp] \in Seq(Card)
  BY RegionFacts DEF TableOK
<1>2. AllDown(pile[DeckPile_Ix]) /\ AllUp(pile[DeckFaceUp])
  BY <1>1 DEF ICards, TableFits, Fits
<1>3. CardsSeen = pile
  BY SeenIs
<1>4. CASE Redial
  <2> DEFINE back == WithFaces(pile[DeckFaceUp], FALSE)
  <2>1. back \in Seq(Card) /\ back # <<>>
    <3>1. back \in Seq(Card) /\ Len(back) = Len(pile[DeckFaceUp])
      BY <1>1, WithFacesType
    <3>2. Len(pile[DeckFaceUp]) # 0
      BY <1>1, <1>4 DEF Redial
    <3> HIDE DEF back
    <3> QED BY <3>1, <3>2
  <2>2. WithFaces(back, TRUE) = pile[DeckFaceUp]
    <3>1. \A i \in DOMAIN pile[DeckFaceUp] : pile[DeckFaceUp][i].up = TRUE
      <4>1. \A i \in DOMAIN pile[DeckFaceUp] : pile[DeckFaceUp][i] \in Card
        BY <1>1
      <4> QED BY <1>2, <4>1 DEF AllUp, Card
    <3> QED BY <1>1, <3>1, TurnedBack
  <2> HIDE DEF back
  <2>3. /\ pile' = [pile EXCEPT ![DeckFaceUp] = <<>>] /\ dragStack' = back
        /\ continueFn' = "SingleTapB"
    <3>1. <<>> \o back = back
      BY <2>1
    <3> QED BY <1>4, <3>1 DEF Redial, back
  <2>4. pile'[DeckFaceUp] \o WithFaces(back, TRUE) = pile[DeckFaceUp]
    <3>1. pile'[DeckFaceUp] = <<>>
      BY <1>1, <2>3
    <3>2. <<>> \o pile[DeckFaceUp] = pile[DeckFaceUp]
      BY <1>1
    <3> QED BY <2>2, <3>1, <3>2
  <2>5. CardsSeen' = [pile' EXCEPT ![DeckFaceUp] = pile[DeckFaceUp]]
    BY <2>1, <2>3, <2>4, NextSeenIs
  <2> QED BY <1>1, <1>3, <2>3, <2>5 DEF Plays
<1>5. CASE NextCard
  <2> DEFINE top  == Popped(pile[DeckPile_Ix], 1)
             rest == AfterPop(pile[DeckPile_Ix], 1)
             next == WithFaces(top, TRUE)
  <2>1. /\ rest \in Seq(Card) /\ top \in Seq(Card) /\ top # <<>>
        /\ rest \o top = pile[DeckPile_Ix]
    BY <1>1, <1>5, TakenTop DEF NextCard
  <2>2. AllDown(top)
    <3> HIDE DEF rest, top
    <3> QED BY <1>2, <2>1, TailOfDown
  <2>3. next \in Seq(Card) /\ next # <<>> /\ WithFaces(next, FALSE) = top
    <3> HIDE DEF top
    <3>1. \A i \in DOMAIN top : top[i].up = FALSE
      <4>1. \A i \in DOMAIN top : top[i] \in Card
        BY <2>1
      <4> QED BY <2>2, <4>1 DEF AllDown, Card
    <3>2. next \in Seq(Card) /\ Len(next) = Len(top)
      BY <2>1, WithFacesType
    <3>3. Len(top) # 0
      BY <2>1
    <3>4. WithFaces(next, FALSE) = top
      BY <2>1, <3>1, TurnedBack
    <3> HIDE DEF next
    <3> QED BY <3>2, <3>3, <3>4
  <2> HIDE DEF top, rest, next
  <2>4. /\ pile' = [pile EXCEPT ![DeckPile_Ix] = rest] /\ dragStack' = next
        /\ continueFn' = "SingleTapC"
    <3>1. <<>> \o next = next
      BY <2>3
    <3> QED BY <1>5, <3>1 DEF NextCard, rest, next, top
  <2>5. pile'[DeckPile_Ix] = rest
    BY <1>1, <2>4
  <2>6. CardsSeen' = [pile' EXCEPT ![DeckPile_Ix] = pile[DeckPile_Ix]]
    BY <2>1, <2>3, <2>4, <2>5, NextSeenIs
  <2> QED BY <1>1, <1>3, <2>4, <2>6 DEF Plays
<1>6. CASE UNCHANGED table
  BY <1>6, TableStays DEF table
<1> QED BY <1>4, <1>5, <1>6 DEF clickOnDeckStock

LEMMA DoubleTapCardPlays ==
    ASSUME TableOK, dragStack = <<>>, continueLamda # "SingleTapB", UNCHANGED continueLamda,
           NEW r \in Region, DoubleTapCard(r)
    PROVE  Plays
<1> DEFINE top  == Popped(pile[r], 1)
           rest == AfterPop(pile[r], 1)
<1>1. pile \in [Region -> Seq(Card)] /\ pile[r] \in Seq(Card) /\ CardsSeen = pile
  BY SeenIs DEF TableOK
<1>2. rest \in Seq(Card) /\ top \in Seq(Card) /\ top # <<>> /\ rest \o top = pile[r]
  BY <1>1, TakenTop DEF DoubleTapCard
<1> HIDE DEF top, rest
<1>3. /\ pile' = [pile EXCEPT ![r] = rest] /\ dragStack' = top
      /\ selected' = r /\ continueFn' = "DoubleTap"
  <2>1. <<>> \o top = top
    BY <1>2
  <2> QED BY <2>1 DEF DoubleTapCard, rest, top
<1>4. pile'[r] = rest
  BY <1>1, <1>3
<1>5. CardsSeen' = [pile' EXCEPT ![r] = pile[r]]
  BY <1>2, <1>3, <1>4, NextSeenIs
<1> QED BY <1>1, <1>3, <1>5 DEF Plays

LEMMA TapPlays == ASSUME IInv, ICards, TapIterate PROVE Plays
<1>1. TableOK /\ state \in TapClick /\ UNCHANGED continueLamda
  BY Invariant, CurrentFacts DEF TapIterate
<1>2. dragStack = <<>> /\ continueLamda # "SingleTapB"
  BY <1>1 DEF ICards, Busy
<1>3. ASSUME NEW r, TapIgnored(r, "IN_GAME") PROVE Plays
  BY <1>1, <1>2, <1>3, TableStays DEF TapIgnored, table
<1>4. CASE singleTapOrLeftClick("IN_GAME")
  BY <1>1, <1>2, <1>3, <1>4, TapPilePlays, StockTapPlays DEF singleTapOrLeftClick
<1>5. CASE doubleTapOrRightClick("IN_GAME")
  <2>1. Tableau \cup {DeckFaceUp} \subseteq Region
    BY RegionFacts
  <2> QED BY <1>1, <1>2, <1>3, <1>5, <2>1, DoubleTapCardPlays, StockTapPlays
          DEF doubleTapOrRightClick
<1> QED BY <1>4, <1>5 DEF TapIterate
-----------------------------------------------------------------------------
(* The other frames and the events.                                        *)

LEMMA ZoomTerminatedPlays == ASSUME IInv, ICards, ZoomTerminated PROVE Plays
<1>1. state = "IN_ZOOM_TERMINATED"
  BY CurrentFacts DEF ZoomTerminated
<1>2. dragStack = <<>> /\ dragStack' = <<>> /\ continueLamda' = "NULL" /\ pile' = PileAfterLamda
  BY <1>1 DEF ICards, Busy, ZoomTerminated
<1>3. CardsSeen' = PileAfterLamda
  BY <1>2, NextSeenIs
<1> QED BY <1>2, <1>3, SeenIs DEF PileAfterLamda, Plays

LEMMA IteratePlays == ASSUME IInv, ICards, Iterate PROVE Deals \/ (Plays /\ UNCHANGED dealtStock)
<1>1. CASE ControlFrame
  <2>1. UNCHANGED <<table, tap, continueLamda, dealtStock>>
    BY <1>1 DEF ControlFrame, FirstFrame, FirstScene, InitDragStep1, InitDragStep2, ZoomEnd,
         InGame, AskForNewGame, FadingOut, VictoryAnimationIterate, ShowScore,
         Terminated, MsgBoxDone, observed
  <2> QED BY <2>1, TableStays DEF table, tap
<1>2. CASE DoNewGame
  <2>1. state \in {"DO_NEWGAME", "WAIT_FOR_FADING"}
    BY <1>2, CurrentFacts DEF DoNewGame
  <2>2. dragStack = <<>> /\ continueLamda # "SingleTapB"
    BY <2>1 DEF ICards, Busy
  <2> QED BY <1>2, <2>2, NewDeal DEF DoNewGame
<1>3. CASE InitDragAfterFromSingleTapA
  <2>1. /\ UNCHANGED <<table, selected, continueLamda, dealtStock>> /\ continueFn' = "NULL"
        /\ continueFn \in {"NULL", "SingleTapA"}
    BY <1>3 DEF InitDragAfterFromSingleTapA, observed
  <2>2. CASE dragStack = <<>>
    BY <2>1, <2>2, TableStays DEF table
  <2>3. CASE dragStack # <<>>
    BY <2>1, <2>3, SeenIs, NextSeenIs DEF table, Plays
  <2> QED BY <2>1, <2>2, <2>3
<1>4. CASE InitDragAfterGiven
  <2>1. UNCHANGED dealtStock
    BY <1>4 DEF InitDragAfterGiven, observed
  <2> QED BY <1>4, <2>1, GivenDrop, RedialPlays, NextCardPlays, DoubleTapPlays
<1>5. CASE ForcedDrop
  BY <1>5, ForcedDropPlays DEF ForcedDrop, observed
<1>6. CASE ZoomTerminated
  BY <1>6, ZoomTerminatedPlays DEF ZoomTerminated
<1>7. CASE TapIterate
  BY <1>7, TapPlays DEF TapIterate, observed
<1> QED BY <1>1, <1>2, <1>3, <1>4, <1>5, <1>6, <1>7 DEF Iterate, HandleIterate, ControlFrame

LEMMA MouseUpPlays ==
    ASSUME IInv, ICards, NEW b, MouseUp(b) PROVE Plays /\ UNCHANGED dealtStock
<1>1. CASE MouseUpInGame
  <2>1. /\ UNCHANGED <<selected, continueFn>>
        /\ \E st : endOfDragAndCheckForVictory(st)
    BY <1>1 DEF MouseUpInGame
  <2>2. UNCHANGED dealtStock
    BY <2>1 DEF endOfDragAndCheckForVictory
  <2>3. CASE startdrag
    <3>1. TableOK /\ dragStack # <<>> /\ Lifted
      BY <1>1, <2>3, Invariant DEF ICards, Busy, Lifted, MouseUpInGame, Listening
    <3>2. /\ continueLamda' = "EndOfDrag"
          /\ \E st : \E dest \in DropTargets(NoRegion) : DoDrop(dest, st)
      BY <2>1, <2>3 DEF endOfDragAndCheckForVictory
    <3> QED BY <2>2, <3>1, <3>2, LetGoPlays
  <2>4. CASE ~startdrag
    BY <2>1, <2>2, <2>4, TableStays DEF endOfDragAndCheckForVictory, table
  <2> QED BY <2>3, <2>4
<1>2. CASE \E res \in {"RES_YES", "RES_NO"} : ButCmdClicked(res)
  BY <1>2, TableStays DEF ButCmdClicked, table, tap, observed
<1>3. CASE UNCHANGED gameVars
  BY <1>3, TableStays DEF gameVars, table, tap, observed
<1> QED BY <1>1, <1>2, <1>3 DEF MouseUp

LEMMA OtherEventPlays ==
    ASSUME KeyDown \/ Quit \/ \E b \in MouseButtons : MouseDown(b)
    PROVE  Plays /\ UNCHANGED dealtStock
<1>1. UNCHANGED <<table, tap, continueLamda, dealtStock>>
  BY DEF KeyDown, KeyDownEvent, Quit, QuitEvent, MouseDown, Goto, DismissVictory,
     ButCmdClicked, gameVars, observed
<1> QED BY <1>1, TableStays DEF table, tap

(* What every step does to the table and to what is known of the deal.     *)
LEMMA NextPlays ==
    ASSUME IInv, ICards, [MouseNext]_vars PROVE Deals \/ (Plays /\ UNCHANGED dealtStock)
<1>1. CASE UNCHANGED vars
  BY <1>1, TableStays DEF vars, gameVars, table, tap, observed
<1>2. CASE NewGameLoop
  BY <1>2, NewDeal DEF NewGameLoop, StartGameLoop
<1> QED BY <1>1, <1>2, IteratePlays, MouseUpPlays, OtherEventPlays DEF MouseNext

(* As long as no move is interrupted, whatever the pointer does the player *)
(* plays solitaire: each step of SolitarioGfx is one legal move, a new     *)
(* deal, or no change of the table.                                        *)
THEOREM GameIsKlondike == ASSUME Interrupts = 0 PROVE Spec => PlaysKlondike
<1>1. MouseInit => Table!KlondikeInit
  <2> SUFFICES ASSUME MouseInit PROVE Table!KlondikeInit
    OBVIOUS
  <2>1. PICK deck \in Shuffles : pile = Deal(deck)
    BY DEF MouseInit, Init
  <2>2. dragStack = <<>> /\ continueLamda = "NULL"
    BY DEF MouseInit, Init
  <2>3. CardsSeen = Table!Deal(deck)
    BY <2>1, <2>2, SeenIs, SameDeal
  <2> QED BY <2>3 DEF Table!KlondikeInit
<1>2. IInv /\ ICards /\ [MouseNext]_vars => [Table!KlondikeNext]_CardsSeen
  <2>1. Deals => Table!NewGame
    BY SameDeal DEF Deals, Table!NewGame
  <2>2. Plays \/ Table!NewGame => [Table!KlondikeNext]_CardsSeen
    BY Zenon DEF Plays, Table!KlondikeNext
  <2> QED BY <2>1, <2>2, NextPlays
<1> QED BY <1>1, <1>2, InitIInv, NextIInv, InitCards, NextCards, PTL
        DEF Spec, PlaysKlondike, Table!KlondikeSpec
-----------------------------------------------------------------------------
(* THE ORDER OF THE TALON                                                  *)
(* The stock from its bottom to its top, then the pile beside it from its  *)
(* top to its bottom, is what is left of the stock as it was dealt.        *)

TalonOf(stock, shown) == Faces(stock) \o Reversed(Faces(shown))
PlaceIn(f, dealt) == CHOOSE i \in DOMAIN dealt : dealt[i] = f
Follows(t, dealt) ==
    /\ \A i \in DOMAIN t : t[i] \in {dealt[j] : j \in DOMAIN dealt}
    /\ \A i, j \in DOMAIN t : i < j => PlaceIn(t[i], dealt) < PlaceIn(t[j], dealt)
InDealOrder(stock, shown) ==
    AllDown(stock) /\ AllUp(shown) /\ Follows(TalonOf(stock, shown), dealtStock)

SeenTyped == CardsSeen \in [Region -> Seq(Card)]
SeenInOrder == InDealOrder(CardsSeen[DeckPile_Ix], CardsSeen[DeckFaceUp])

LEMMA TalonIs ==
    ASSUME NEW s \in Seq(Card), NEW u \in Seq(Card)
    PROVE  /\ TalonOf(s, u) \in Seq(Deck)
           /\ DOMAIN TalonOf(s, u) = 1..(Len(s) + Len(u))
           /\ \A i \in 1..Len(s) : TalonOf(s, u)[i] = Face(s[i])
           /\ \A i \in 1..Len(u) : TalonOf(s, u)[Len(s) + i] = Face(u[Len(u) - i + 1])
<1> DEFINE a == Len(s)
           b == Len(u)
           f == Faces(s)
           g == Faces(u)
           r == Reversed(g)
<1>1. a \in Nat /\ b \in Nat /\ DOMAIN s = 1..a /\ DOMAIN u = 1..b
  OBVIOUS
<1>2. f \in Seq(Deck) /\ DOMAIN f = 1..a /\ \A i \in 1..a : f[i] = Face(s[i])
  BY <1>1, FacesType DEF Faces
<1>3. g \in Seq(Deck) /\ DOMAIN g = 1..b /\ \A i \in 1..b : g[i] = Face(u[i])
  BY <1>1, FacesType DEF Faces
<1> HIDE DEF a, b, f, g
<1>4. Len(f) = a /\ Len(g) = b
  BY <1>1, <1>2, <1>3
<1>5. r \in Seq(Deck) /\ Len(r) = b
  BY <1>3, <1>4, ReversedType
<1>6. \A i \in 1..b : r[i] = Face(u[b - i + 1])
  <2> TAKE i \in 1..b
  <2>1. b - i + 1 \in 1..b
    BY <1>1
  <2>2. r[i] = g[b - i + 1]
    BY <1>4 DEF Reversed
  <2> QED BY <1>3, <2>1, <2>2
<1> HIDE DEF r
<1>7. /\ f \o r \in Seq(Deck) /\ Len(f \o r) = a + b
      /\ \A i \in 1..a : (f \o r)[i] = f[i]
      /\ \A i \in 1..b : (f \o r)[a + i] = r[i]
  <2>1. /\ f \o r \in Seq(Deck) /\ Len(f \o r) = Len(f) + Len(r)
        /\ \A i \in 1..Len(f) : (f \o r)[i] = f[i]
    <3>1. f \in Seq(Deck) /\ r \in Seq(Deck)
      BY <1>2, <1>5
    <3>2. f \o r \in Seq(Deck) /\ Len(f \o r) = Len(f) + Len(r)
      BY <3>1, ConcatProperties
    <3>3. \A i \in 1..Len(f) : (f \o r)[i] = f[i]
      BY <3>1
    <3> QED BY <3>2, <3>3
  <2>2. \A i \in 1..Len(r) : (f \o r)[Len(f) + i] = r[i]
    BY <1>2, <1>5
  <2> QED BY <1>4, <1>5, <2>1, <2>2
<1>8. DOMAIN (f \o r) = 1..(a + b)
  BY <1>1, <1>7
<1>9. TalonOf(s, u) = f \o r
  BY DEF TalonOf, f, g, r
<1> QED BY <1>2, <1>6, <1>7, <1>8, <1>9 DEF a, b

(* Cards that leave the talon do not disturb the others.                   *)
LEMMA LeftInOrder ==
    ASSUME NEW t, NEW v, NEW d, NEW g, Follows(t, d), DOMAIN v \subseteq Nat, DOMAIN t \subseteq Nat,
           \A i \in DOMAIN v : g[i] \in DOMAIN t /\ v[i] = t[g[i]],
           \A i, j \in DOMAIN v : i < j => g[i] < g[j]
    PROVE  Follows(v, d)
<1>1. ASSUME NEW i \in DOMAIN v PROVE v[i] \in {d[j] : j \in DOMAIN d}
  BY <1>1 DEF Follows
<1>2. ASSUME NEW i \in DOMAIN v, NEW j \in DOMAIN v, i < j
      PROVE  PlaceIn(v[i], d) < PlaceIn(v[j], d)
  <2>1. g[i] \in DOMAIN t /\ g[j] \in DOMAIN t /\ g[i] < g[j] /\ v[i] = t[g[i]] /\ v[j] = t[g[j]]
    BY <1>2
  <2>2. PlaceIn(t[g[i]], d) < PlaceIn(t[g[j]], d)
    BY <2>1 DEF Follows
  <2> QED BY <2>1, <2>2
<1> QED BY <1>1, <1>2 DEF Follows

(* The next card of the stock is laid on the pile beside it: the talon is  *)
(* the same.                                                               *)
LEMMA NextCardInOrder ==
    ASSUME NEW s \in Seq(Card), s # <<>>, NEW u \in Seq(Card), InDealOrder(s, u)
    PROVE  /\ TalonOf(AfterPop(s, 1), Append(u, [Top(s) EXCEPT !.up = TRUE])) = TalonOf(s, u)
           /\ AllDown(AfterPop(s, 1)) /\ AllUp(Append(u, [Top(s) EXCEPT !.up = TRUE]))
<1> DEFINE a == Len(s)
           b == Len(u)
           c == [Top(s) EXCEPT !.up = TRUE]
           rest == AfterPop(s, 1)
           more == Append(u, c)
<1>1. a \in Nat \ {0} /\ b \in Nat /\ DOMAIN s = 1..a /\ DOMAIN u = 1..b
  OBVIOUS
<1>2. Top(s) \in Card /\ c \in Card /\ Face(c) = Face(s[a]) /\ c.up = TRUE
  <2>1. s[a] \in Card
    BY <1>1
  <2>2. Face([s[a] EXCEPT !.up = TRUE]) = Face(s[a]) /\ [s[a] EXCEPT !.up = TRUE] \in Card
    BY <2>1, FaceTurned DEF Card
  <2>3. [s[a] EXCEPT !.up = TRUE].up = TRUE
    BY <2>1 DEF Card
  <2> QED BY <2>1, <2>2, <2>3 DEF Top
<1>3. rest \in Seq(Card) /\ Len(rest) = a - 1 /\ \A i \in 1..(a - 1) : rest[i] = s[i]
  <2>1. rest = SubSeq(s, 1, a - 1)
    <3>1. (IF 1 > Len(s) THEN 0 ELSE Len(s) - 1) = a - 1
      BY <1>1
    <3> QED BY <3>1 DEF AfterPop
  <2>2. \A i \in 1..(a - 1) : s[i] \in Card
    BY <1>1
  <2> HIDE DEF a, rest
  <2> QED BY <1>1, <2>1, <2>2, SubSeqProperties
<1> HIDE DEF c
<1>4. /\ more \in Seq(Card) /\ Len(more) = b + 1 /\ more[b + 1] = c
      /\ \A i \in 1..b : more[i] = u[i]
  BY <1>2, AppendProperties
<1> HIDE DEF a, b, rest, more
<1> DEFINE old == TalonOf(s, u)
           new == TalonOf(rest, more)
<1>5. /\ old \in Seq(Deck) /\ DOMAIN old = 1..(a + b)
      /\ \A i \in 1..a : old[i] = Face(s[i])
      /\ \A i \in 1..b : old[a + i] = Face(u[b - i + 1])
  BY TalonIs DEF a, b
<1>6. /\ new \in Seq(Deck) /\ DOMAIN new = 1..(a - 1 + (b + 1))
      /\ \A i \in 1..(a - 1) : new[i] = Face(rest[i])
      /\ \A i \in 1..(b + 1) : new[a - 1 + i] = Face(more[b + 1 - i + 1])
  <2> HIDE DEF new
  <2>1. /\ new \in Seq(Deck) /\ DOMAIN new = 1..(Len(rest) + Len(more))
        /\ \A i \in 1..Len(rest) : new[i] = Face(rest[i])
        /\ \A i \in 1..Len(more) : new[Len(rest) + i] = Face(more[Len(more) - i + 1])
    BY <1>3, <1>4, TalonIs DEF new
  <2>2. Len(rest) = a - 1 /\ Len(more) = b + 1
    BY <1>3, <1>4
  <2>3. a - 1 + (b + 1) = Len(rest) + Len(more)
    BY <1>1, <2>2
  <2>4. DOMAIN new = 1..(a - 1 + (b + 1)) /\ \A i \in 1..(a - 1) : new[i] = Face(rest[i])
    BY <2>1, <2>2, <2>3
  <2>5. \A i \in 1..(b + 1) : new[a - 1 + i] = Face(more[b + 1 - i + 1])
    <3> TAKE i \in 1..(b + 1)
    <3>1. new[Len(rest) + i] = Face(more[Len(more) - i + 1])
      BY <2>1, <2>2
    <3>2. Len(rest) + i = a - 1 + i /\ Len(more) - i + 1 = b + 1 - i + 1
      BY <1>1, <2>2
    <3> QED BY <3>1, <3>2
  <2> QED BY <2>1, <2>4, <2>5
<1> HIDE DEF old, new
<1>7. ASSUME NEW i \in 1..(a + b) PROVE new[i] = old[i]
  <2>1. CASE i < a
    <3>1. i \in 1..(a - 1) /\ i \in 1..a
      BY <1>1, <2>1
    <3> QED BY <1>3, <1>5, <1>6, <3>1
  <2>2. CASE i = a
    <3>1. 1 \in 1..(b + 1) /\ a - 1 + 1 = a /\ b + 1 - 1 + 1 = b + 1 /\ a \in 1..a
      BY <1>1
    <3>2. new[a] = Face(more[b + 1])
      BY <1>6, <3>1
    <3> QED BY <1>2, <1>4, <1>5, <2>2, <3>1, <3>2
  <2>3. CASE i > a
    <3> DEFINE k == i - a
    <3>1. /\ k \in 1..b /\ a + k = i /\ k + 1 \in 1..(b + 1) /\ a - 1 + (k + 1) = i
          /\ b + 1 - (k + 1) + 1 = b - k + 1 /\ b - k + 1 \in 1..b
      BY <1>1, <2>3
    <3> HIDE DEF k
    <3>2. old[i] = Face(u[b - k + 1])
      BY <1>5, <3>1
    <3>3. new[i] = Face(more[b - k + 1])
      BY <1>6, <3>1
    <3> QED BY <1>4, <3>1, <3>2, <3>3
  <2> QED BY <1>1, <2>1, <2>2, <2>3
<1>8. new = old
  <2>1. a - 1 + (b + 1) = a + b
    BY <1>1
  <2>2. Len(new) = a + b /\ Len(old) = a + b
    BY <1>1, <1>5, <1>6, <2>1
  <2> QED BY <1>5, <1>6, <1>7, <2>2, SeqEqual
<1>9. AllDown(rest)
  <2>1. \A i \in 1..(a - 1) : i \in 1..a
    BY <1>1
  <2>2. DOMAIN rest = 1..(a - 1)
    BY <1>1, <1>3
  <2> QED BY <1>1, <1>3, <2>1, <2>2 DEF InDealOrder, AllDown
<1>10. AllUp(more)
  <2>1. DOMAIN more = 1..(b + 1) /\ \A i \in 1..(b + 1) : i \in 1..b \/ i = b + 1
    BY <1>1, <1>4
  <2> QED BY <1>1, <1>2, <1>4, <2>1 DEF InDealOrder, AllUp
<1> QED BY <1>8, <1>9, <1>10 DEF old, new, rest, more, c

(* An empty stock takes the pile beside it back: it has to be turned as a  *)
(* whole, and then the talon is the same.                                  *)
LEMMA RedialInOrder ==
    ASSUME NEW u \in Seq(Card)
    PROVE  LET back == Reversed(WithFaces(u, FALSE))
           IN TalonOf(back, <<>>) = TalonOf(<<>>, u) /\ AllDown(back)
<1> DEFINE b == Len(u)
           turned == WithFaces(u, FALSE)
           back == Reversed(turned)
<1>1. b \in Nat /\ DOMAIN u = 1..b /\ \A i \in 1..b : u[i] \in Card
  OBVIOUS
<1>2. /\ turned \in Seq(Card) /\ Len(turned) = b
      /\ \A i \in 1..b : turned[i] = [u[i] EXCEPT !.up = FALSE]
  BY <1>1, WithFacesType DEF WithFaces
<1>3. \A i \in 1..b : Face(turned[i]) = Face(u[i]) /\ turned[i].up = FALSE
  <2> TAKE i \in 1..b
  <2>1. [u[i] EXCEPT !.up = FALSE].up = FALSE
    BY <1>1 DEF Card
  <2> QED BY <1>1, <1>2, <2>1, FaceTurned
<1> HIDE DEF b, turned
<1>4. back \in Seq(Card) /\ Len(back) = b
  BY <1>2, ReversedType
<1>5. \A i \in 1..b : b - i + 1 \in 1..b /\ back[i] = turned[b - i + 1]
  BY <1>1, <1>2 DEF Reversed
<1> HIDE DEF back
<1> DEFINE old == TalonOf(<<>>, u)
           new == TalonOf(back, <<>>)
<1>6. <<>> \in Seq(Card) /\ Len(<<>>) = 0
  OBVIOUS
<1>7. /\ old \in Seq(Deck) /\ DOMAIN old = 1..(0 + b)
      /\ \A i \in 1..b : old[0 + i] = Face(u[b - i + 1])
  BY <1>6, TalonIs DEF b
<1>8. /\ new \in Seq(Deck) /\ DOMAIN new = 1..(b + 0)
      /\ \A i \in 1..b : new[i] = Face(back[i])
  BY <1>4, <1>6, TalonIs
<1> HIDE DEF old, new
<1>9. 0 + b = b /\ b + 0 = b /\ \A i \in 1..b : 0 + i = i
  BY <1>1
<1>10. new = old
  <2>1. \A i \in 1..b : new[i] = old[i]
    <3> TAKE i \in 1..b
    <3>1. old[i] = Face(u[b - i + 1])
      BY <1>7, <1>9
    <3>2. new[i] = Face(turned[b - i + 1])
      BY <1>5, <1>8
    <3> QED BY <1>3, <1>5, <3>1, <3>2
  <2>2. Len(new) = b /\ Len(old) = b
    BY <1>1, <1>7, <1>8, <1>9
  <2> QED BY <1>7, <1>8, <2>1, <2>2, SeqEqual
<1>11. AllDown(back)
  <2>1. DOMAIN back = 1..b
    BY <1>1, <1>4
  <2> QED BY <1>3, <1>5, <2>1 DEF AllDown
<1> QED BY <1>10, <1>11 DEF old, new, back, turned

(* The top card of the pile beside the stock is moved away.                *)
LEMMA TakenInOrder ==
    ASSUME NEW s \in Seq(Card), NEW u \in Seq(Card), u # <<>>, InDealOrder(s, u)
    PROVE  InDealOrder(s, AfterPop(u, 1))
<1> DEFINE a == Len(s)
           b == Len(u)
           rest == AfterPop(u, 1)
<1>1. a \in Nat /\ b \in Nat \ {0} /\ DOMAIN s = 1..a /\ DOMAIN u = 1..b
  OBVIOUS
<1>2. rest \in Seq(Card) /\ Len(rest) = b - 1 /\ \A i \in 1..(b - 1) : rest[i] = u[i]
  <2>1. rest = SubSeq(u, 1, b - 1)
    <3>1. (IF 1 > Len(u) THEN 0 ELSE Len(u) - 1) = b - 1
      BY <1>1
    <3> QED BY <3>1 DEF AfterPop
  <2>2. \A i \in 1..(b - 1) : u[i] \in Card
    BY <1>1
  <2> HIDE DEF b, rest
  <2> QED BY <1>1, <2>1, <2>2, SubSeqProperties
<1> HIDE DEF a, b, rest
<1> DEFINE old == TalonOf(s, u)
           new == TalonOf(s, rest)
           g == [i \in 1..(a + (b - 1)) |-> IF i <= a THEN i ELSE i + 1]
<1>3. /\ DOMAIN old = 1..(a + b)
      /\ \A i \in 1..a : old[i] = Face(s[i])
      /\ \A i \in 1..b : old[a + i] = Face(u[b - i + 1])
  BY TalonIs DEF a, b
<1>4. /\ DOMAIN new = 1..(a + (b - 1))
      /\ \A i \in 1..a : new[i] = Face(s[i])
      /\ \A i \in 1..(b - 1) : new[a + i] = Face(rest[b - 1 - i + 1])
  <2> HIDE DEF new
  <2>1. /\ DOMAIN new = 1..(Len(s) + Len(rest))
        /\ \A i \in 1..Len(s) : new[i] = Face(s[i])
        /\ \A i \in 1..Len(rest) : new[Len(s) + i] = Face(rest[Len(rest) - i + 1])
    BY <1>2, TalonIs DEF new
  <2> QED BY <1>2, <2>1 DEF a
<1> HIDE DEF old, new
<1>5. ASSUME NEW i \in DOMAIN new PROVE g[i] \in DOMAIN old /\ new[i] = old[g[i]]
  <2>1. CASE i <= a
    <3>1. i \in 1..a /\ g[i] = i /\ i \in 1..(a + b)
      BY <1>1, <1>4, <1>5, <2>1
    <3> QED BY <1>3, <1>4, <3>1
  <2>2. CASE ~(i <= a)
    <3> DEFINE k == i - a
    <3>1. /\ k \in 1..(b - 1) /\ a + k = i /\ k + 1 \in 1..b /\ a + (k + 1) = i + 1
          /\ i + 1 \in 1..(a + b) /\ b - 1 - k + 1 = b - k /\ b - (k + 1) + 1 = b - k
          /\ b - k \in 1..(b - 1)
      BY <1>1, <1>4, <1>5, <2>2
    <3>2. g[i] = i + 1
      BY <1>4, <1>5, <2>2
    <3> HIDE DEF k, g
    <3>3. new[i] = Face(rest[b - k])
      BY <1>4, <3>1
    <3>4. old[i + 1] = Face(u[b - k])
      BY <1>3, <3>1
    <3> QED BY <1>2, <1>3, <3>1, <3>2, <3>3, <3>4
  <2> QED BY <2>1, <2>2
<1>6. ASSUME NEW i \in DOMAIN new, NEW j \in DOMAIN new, i < j PROVE g[i] < g[j]
  BY <1>1, <1>4, <1>6
<1> HIDE DEF g
<1>7. DOMAIN new \subseteq Nat /\ DOMAIN old \subseteq Nat
  BY <1>1, <1>3, <1>4
<1>8. Follows(new, dealtStock)
  <2>1. Follows(old, dealtStock)
    BY DEF InDealOrder, old
  <2> QED BY <1>5, <1>6, <1>7, <2>1, LeftInOrder
<1>9. AllUp(rest)
  <2>1. DOMAIN rest = 1..(b - 1) /\ \A i \in 1..(b - 1) : i \in 1..b
    BY <1>1, <1>2
  <2> QED BY <1>1, <1>2, <2>1 DEF InDealOrder, AllUp
<1> QED BY <1>8, <1>9 DEF InDealOrder, new, rest

(* A deal.                                                                 *)
LEMMA DealtInOrder ==
    ASSUME NEW deck \in Shuffles
    PROVE  /\ Deal(deck) \in [Region -> Seq(Card)] /\ Deal(deck)[DeckFaceUp] = <<>>
           /\ AllDown(Deal(deck)[DeckPile_Ix])
           /\ Follows(TalonOf(Deal(deck)[DeckPile_Ix], <<>>), Faces(Deal(deck)[DeckPile_Ix]))
<1> DEFINE s == Deal(deck)[DeckPile_Ix]
           a == Len(s)
           d == Faces(s)
           t == TalonOf(s, <<>>)
<1>1. Deal(deck) \in [Region -> Seq(Card)]
  BY GameAssumption, DealType
<1>2. s \in Seq(Card) /\ AllDown(s) /\ Distinct(s)
  BY <1>1, DealFits, RegionFacts DEF Fits
<1>3. Deal(deck)[DeckFaceUp] = <<>>
  BY RegionFacts, DealtNothing
<1> HIDE DEF s
<1>4. a \in Nat /\ DOMAIN s = 1..a
  BY <1>2
<1>5. DOMAIN d = 1..a /\ \A i \in 1..a : d[i] = Face(s[i])
  BY <1>4 DEF Faces
<1>6. DOMAIN t = 1..a /\ \A i \in 1..a : t[i] = Face(s[i])
  <2>1. <<>> \in Seq(Card) /\ Len(<<>>) = 0 /\ a + 0 = a
    BY <1>4
  <2>2. DOMAIN t = 1..(a + 0) /\ \A i \in 1..a : t[i] = Face(s[i])
    BY <1>2, <2>1, TalonIs
  <2> QED BY <2>1, <2>2
<1> HIDE DEF a, d, t
<1>7. ASSUME NEW i \in 1..a PROVE PlaceIn(t[i], d) = i
  <2>1. \A j \in DOMAIN d : d[j] = t[i] <=> j = i
    BY <1>2, <1>4, <1>5, <1>6, <1>7 DEF Distinct
  <2> QED BY <1>5, <1>7, <2>1 DEF PlaceIn
<1>8. Follows(t, d)
  BY <1>5, <1>6, <1>7 DEF Follows
<1> QED BY <1>1, <1>2, <1>3, <1>8 DEF s, d, t
-----------------------------------------------------------------------------
(* The table the player sees is a table.                                   *)
LEMMA SeenType == ASSUME IInv, ICards PROVE SeenTyped
<1>1. /\ pile \in [Region -> Seq(Card)] /\ dragStack \in Seq(Card)
      /\ DeckPile_Ix \in Region /\ DeckFaceUp \in Region
      /\ continueFn \in ContinueFn
  BY Invariant, RegionFacts DEF TableOK, TapOK
<1>2. /\ WithFaces(dragStack, TRUE) \in Seq(Card) /\ WithFaces(dragStack, FALSE) \in Seq(Card)
      /\ Reversed(pile[DeckPile_Ix]) \in Seq(Card)
  <2>1. pile[DeckPile_Ix] \in Seq(Card)
    BY <1>1
  <2> QED BY <1>1, <2>1, WithFacesType, ReversedType
<1>3. \A r \in Region : \A p \in Seq(Card) : [pile EXCEPT ![r] = p] \in [Region -> Seq(Card)]
  BY <1>1
<1>4. \A r \in Region : \A q \in Seq(Card) : pile[r] \o q \in Seq(Card)
  BY <1>1
<1>5. CASE dragStack = <<>>
  BY <1>1, <1>2, <1>3, <1>5, SeenIs DEF SeenTyped
<1>6. CASE dragStack # <<>> /\ continueFn \in {"SingleTapB", "SingleTapC"}
  <2>1. CASE continueFn = "SingleTapB"
    <3>1. CardsSeen = [pile EXCEPT ![DeckFaceUp] = pile[DeckFaceUp] \o WithFaces(dragStack, TRUE)]
      BY <1>6, <2>1, SeenIs
    <3>2. pile[DeckFaceUp] \o WithFaces(dragStack, TRUE) \in Seq(Card)
      BY <1>1, <1>2, <1>4
    <3> QED BY <1>1, <1>3, <3>1, <3>2 DEF SeenTyped
  <2>2. CASE continueFn = "SingleTapC"
    <3>1. CardsSeen = [pile EXCEPT ![DeckPile_Ix] = pile[DeckPile_Ix] \o WithFaces(dragStack, FALSE)]
      BY <1>6, <2>2, SeenIs
    <3>2. pile[DeckPile_Ix] \o WithFaces(dragStack, FALSE) \in Seq(Card)
      BY <1>1, <1>2, <1>4
    <3> QED BY <1>1, <1>3, <3>1, <3>2 DEF SeenTyped
  <2> QED BY <1>6, <2>1, <2>2
<1>7. CASE dragStack # <<>> /\ continueFn \notin {"SingleTapB", "SingleTapC"}
  <2>1. selected \in Region
    BY <1>1, <1>7, RegionFacts DEF ICards, CargoFits, Lifted, ContinueFn
  <2>2. CardsSeen = [pile EXCEPT ![selected] = pile[selected] \o dragStack]
    BY <1>7, SeenIs
  <2> QED BY <1>1, <1>3, <1>4, <2>1, <2>2 DEF SeenTyped
<1> QED BY <1>5, <1>6, <1>7

(* Moves that leave the stock and the pile beside it alone.                *)
LEMMA TalonKept ==
    ASSUME SeenInOrder, UNCHANGED dealtStock,
           CardsSeen'[DeckPile_Ix] = CardsSeen[DeckPile_Ix],
           CardsSeen'[DeckFaceUp] = CardsSeen[DeckFaceUp]
    PROVE  SeenInOrder'
BY DEF SeenInOrder, InDealOrder

LEMMA MoveInOrder ==
    ASSUME SeenTyped, SeenInOrder, UNCHANGED dealtStock, Table!Move
    PROVE  SeenInOrder'
<1>1. PICK from \in Region \ {DeckPile_Ix} : \E to \in (Tableau \cup Aces) \ {from} :
         \E n \in 1..Len(CardsSeen[from]) :
         /\ n > 1 => {from, to} \subseteq Tableau
         /\ CardsSeen' = [CardsSeen EXCEPT ![from] = AfterPop(CardsSeen[from], n),
                                           ![to] = CardsSeen[to] \o Popped(CardsSeen[from], n)]
  <2>1. PICK f \in Table!Playable : \E t \in (Table!Tableau \cup Table!Aces) \ {f} :
               \E k \in 1..Len(CardsSeen[f]) :
                  /\ k > 1 => {f, t} \subseteq Table!Tableau
                  /\ CardsSeen' = [CardsSeen EXCEPT
                                      ![f] = Table!AfterPop(CardsSeen[f], k),
                                      ![t] = CardsSeen[t] \o Table!Popped(CardsSeen[f], k)]
    BY Zenon DEF Table!Move
  <2>2. f \in Region \ {DeckPile_Ix}
    BY SameTable DEF Table!Playable
  <2>3. \A p, k : Table!AfterPop(p, k) = AfterPop(p, k) /\ Table!Popped(p, k) = Popped(p, k)
    BY SameTable
  <2>4. Table!Tableau = Tableau /\ Table!Aces = Aces
    BY SameTable
  <2> QED BY <2>1, <2>2, <2>3, <2>4
<1>2. PICK to \in (Tableau \cup Aces) \ {from}, n \in 1..Len(CardsSeen[from]) :
         /\ n > 1 => {from, to} \subseteq Tableau
         /\ CardsSeen' = [CardsSeen EXCEPT ![from] = AfterPop(CardsSeen[from], n),
                                           ![to] = CardsSeen[to] \o Popped(CardsSeen[from], n)]
  BY <1>1
<1>3. /\ DeckPile_Ix \in Region /\ DeckFaceUp \in Region /\ DeckPile_Ix # DeckFaceUp
      /\ to \notin {DeckPile_Ix, DeckFaceUp} /\ to \in Region /\ DeckFaceUp \notin Tableau
  BY RegionFacts
<1>4. CardsSeen'[DeckPile_Ix] = CardsSeen[DeckPile_Ix]
  BY <1>2, <1>3 DEF SeenTyped
<1>5. CASE from # DeckFaceUp
  <2>1. CardsSeen'[DeckFaceUp] = CardsSeen[DeckFaceUp]
    BY <1>2, <1>3, <1>5 DEF SeenTyped
  <2> QED BY <1>4, <2>1, TalonKept
<1>6. CASE from = DeckFaceUp
  <2>1. CardsSeen[DeckFaceUp] \in Seq(Card) /\ CardsSeen[DeckPile_Ix] \in Seq(Card)
    BY <1>3 DEF SeenTyped
  <2>2. CardsSeen[DeckFaceUp] # <<>> /\ n = 1
    <3>1. Len(CardsSeen[DeckFaceUp]) \in Nat /\ n \in 1..Len(CardsSeen[DeckFaceUp])
      BY <1>6, <2>1
    <3>2. ~(n > 1)
      BY <1>2, <1>3, <1>6
    <3> QED BY <3>1, <3>2
  <2>3. CardsSeen'[DeckFaceUp] = AfterPop(CardsSeen[DeckFaceUp], 1)
    BY <1>2, <1>3, <1>6, <2>2 DEF SeenTyped
  <2>4. InDealOrder(CardsSeen[DeckPile_Ix], AfterPop(CardsSeen[DeckFaceUp], 1))
    BY <2>1, <2>2, TakenInOrder DEF SeenInOrder
  <2> QED BY <1>4, <2>3, <2>4 DEF SeenInOrder, InDealOrder
<1> QED BY <1>5, <1>6

LEMMA PlaysInOrder ==
    ASSUME SeenTyped, SeenInOrder, Plays, UNCHANGED dealtStock
    PROVE  SeenInOrder'
<1> DEFINE s == CardsSeen[DeckPile_Ix]
           u == CardsSeen[DeckFaceUp]
<1>1. /\ DeckPile_Ix \in Region /\ DeckFaceUp \in Region /\ DeckPile_Ix # DeckFaceUp
      /\ DeckPile_Ix \notin Tableau /\ DeckFaceUp \notin Tableau
      /\ s \in Seq(Card) /\ u \in Seq(Card) /\ InDealOrder(s, u)
  BY RegionFacts DEF SeenTyped, SeenInOrder
<1> HIDE DEF s, u
<1>2. CASE Table!Flip
  <2>1. PICK r \in Tableau : CardsSeen' = [CardsSeen EXCEPT ![r] = Table!TurnUpTop(CardsSeen[r])]
    BY <1>2, SameTable DEF Table!Flip
  <2>2. CardsSeen'[DeckPile_Ix] = s /\ CardsSeen'[DeckFaceUp] = u
    BY <1>1, <2>1 DEF SeenTyped, s, u
  <2> QED BY <2>2, TalonKept DEF s, u
<1>3. CASE Table!NextFromStock
  <2> DEFINE c == [Top(s) EXCEPT !.up = TRUE]
  <2>1. /\ s # <<>>
        /\ CardsSeen' = [CardsSeen EXCEPT ![DeckPile_Ix] = AfterPop(s, 1),
                                          ![DeckFaceUp] = Append(u, c)]
    BY <1>3, SameTable DEF Table!NextFromStock, s, u
  <2>2. CardsSeen'[DeckPile_Ix] = AfterPop(s, 1) /\ CardsSeen'[DeckFaceUp] = Append(u, c)
    <3> HIDE DEF c
    <3> QED BY <1>1, <2>1 DEF SeenTyped
  <2>3. /\ TalonOf(AfterPop(s, 1), Append(u, c)) = TalonOf(s, u)
        /\ AllDown(AfterPop(s, 1)) /\ AllUp(Append(u, c))
    BY <1>1, <2>1, NextCardInOrder
  <2> HIDE DEF c
  <2> QED BY <1>1, <2>2, <2>3 DEF SeenInOrder, InDealOrder
<1>4. CASE Table!RedialStock
  <2> DEFINE back == Reversed(WithFaces(u, FALSE))
  <2>1. /\ s = <<>>
        /\ CardsSeen' = [CardsSeen EXCEPT ![DeckPile_Ix] = back, ![DeckFaceUp] = <<>>]
    BY <1>4, SameTable DEF Table!RedialStock, s, u
  <2>2. TalonOf(back, <<>>) = TalonOf(<<>>, u) /\ AllDown(back)
    BY <1>1, RedialInOrder
  <2> HIDE DEF back
  <2>3. CardsSeen'[DeckPile_Ix] = back /\ CardsSeen'[DeckFaceUp] = <<>>
    BY <1>1, <2>1 DEF SeenTyped
  <2>4. AllUp(<<>>)
    BY DEF AllUp
  <2> QED BY <1>1, <2>1, <2>2, <2>3, <2>4 DEF SeenInOrder, InDealOrder
<1>5. CASE CardsSeen' = CardsSeen
  BY <1>5, TalonKept
<1> QED BY <1>2, <1>3, <1>4, <1>5, MoveInOrder DEF Plays

LEMMA DealsInOrder == ASSUME Deals PROVE SeenInOrder'
<1>1. PICK deck \in Shuffles : /\ CardsSeen' = Deal(deck)
                               /\ dealtStock' = Faces(Deal(deck)[DeckPile_Ix])
  BY DEF Deals
<1>2. AllUp(<<>>)
  BY DEF AllUp
<1> QED BY <1>1, <1>2, DealtInOrder DEF SeenInOrder, InDealOrder

(* The stock and the pile beside it stay in the order of the deal, however *)
(* often the player goes through them and whatever is taken from them, as  *)
(* long as no move is interrupted.                                         *)
THEOREM TalonStaysInOrder == ASSUME Interrupts = 0 PROVE Spec => []TalonInOrder
<1>1. MouseInit => SeenInOrder
  <2> SUFFICES ASSUME MouseInit PROVE SeenInOrder
    OBVIOUS
  <2>1. PICK deck \in Shuffles : pile = Deal(deck) /\ dealtStock = Faces(Deal(deck)[DeckPile_Ix])
    BY DEF MouseInit, Init
  <2>2. dragStack = <<>> /\ continueLamda = "NULL"
    BY DEF MouseInit, Init
  <2>3. CardsSeen = Deal(deck) /\ AllUp(<<>>)
    BY <2>1, <2>2, SeenIs DEF AllUp
  <2> QED BY <2>1, <2>3, DealtInOrder DEF SeenInOrder, InDealOrder
<1>2. IInv /\ ICards => SeenTyped
  BY SeenType
<1>3. SeenTyped /\ SeenInOrder /\ IInv /\ ICards /\ [MouseNext]_vars => SeenInOrder'
  BY NextPlays, PlaysInOrder, DealsInOrder
<1>4. SeenInOrder => TalonInOrder
  <2> SUFFICES ASSUME SeenInOrder, dragStack = <<>>, continueLamda # "SingleTapB"
               PROVE  TalonInOrder
    BY DEF TalonInOrder
  <2>1. InDealOrder(pile[DeckPile_Ix], pile[DeckFaceUp])
    BY SeenIs DEF SeenInOrder
  <2> QED BY <2>1 DEF TalonInOrder, InDealOrder, AllUp, AllDown, Follows, TalonOf, PlaceIn
<1> QED BY <1>1, <1>2, <1>3, <1>4, InitIInv, NextIInv, InitCards, NextCards, PTL DEF Spec
=============================================================================
