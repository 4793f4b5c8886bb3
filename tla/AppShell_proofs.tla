-------------------------- MODULE AppShell_proofs ---------------------------
(***************************************************************************)
(* For either kind of input, with and without an item to quit: the stack   *)
(* of menus, the surfaces, the music and the caption of the sound button   *)
(* are as AppShell says.  Three invariants are proved one after the other, *)
(* each with the help of those before: the stack with the types, the       *)
(* sound, the surfaces.                                                    *)
(***************************************************************************)
EXTENDS AppShell, MusicManager_proofs, SequenceTheorems

(* The stack: the exit, the menu on it, at most one screen on that.        *)
IsStack(h) ==
    \/ h = <<"QUIT">>
    \/ h = <<"QUIT", "MENU_ROOT">>
    \/ \E s \in Screens \cup {"NOTHING"} : h = <<"QUIT", "MENU_ROOT", s>>

Ongoing ==
    /\ \A v \in Views : view[v] # "READY_TO_START" => Top = v
    /\ isShown => Top = "MENU_HELP"
    /\ optInProgress => Top = "MENU_OPTIONS"

Types ==
    /\ focused \in Focusable
    /\ phase \in Game!Phase /\ noGame \in BOOLEAN
    /\ caption \in {"ON", "OFF", "HIDDEN"}
    /\ view \in [Views -> ViewState]
    /\ fading \in BOOLEAN /\ isShown \in BOOLEAN /\ optInProgress \in BOOLEAN /\ cut \in BOOLEAN
    /\ fresh \subseteq Holders
    /\ music \in Music
    /\ result \in {"CONTINUE", "SUCCESS"}

IStack == Types /\ IsStack(histMenu) /\ (noGame <=> Top # "MENU_GAME") /\ Ongoing
-----------------------------------------------------------------------------
(* The moves of the stack.                                                 *)
LEMMA Appended ==
    ASSUME NEW a, NEW b, NEW c
    PROVE  Append(<<a, b>>, c) = <<a, b, c>>
<1> DEFINE S == {a, b, c}
           s == Append(<<a, b>>, c)
           t == <<a, b, c>>
<1>1. <<a, b>> \in Seq(S) /\ t \in Seq(S) /\ Len(<<a, b>>) = 2 /\ Len(t) = 3
  OBVIOUS
<1>2. s \in Seq(S) /\ Len(s) = 3
  BY <1>1
<1>3. \A i \in 1..3 : s[i] = t[i]
  BY <1>1
<1> HIDE DEF S, s, t
<1> QED BY <1>1, <1>2, <1>3, SeqEqual DEF s, t

LEMMA WithoutThird ==
    ASSUME NEW a, NEW b, NEW c
    PROVE  SubSeq(<<a, b, c>>, 1, 2) = <<a, b>>
<1> DEFINE S == {a, b, c}
           s == SubSeq(<<a, b, c>>, 1, 2)
           t == <<a, b>>
<1>1. <<a, b, c>> \in Seq(S) /\ t \in Seq(S) /\ Len(<<a, b, c>>) = 3 /\ Len(t) = 2
  OBVIOUS
<1>2. s \in Seq(S) /\ Len(s) = 2
  BY <1>1
<1>3. \A i \in 1..2 : s[i] = t[i]
  BY <1>1
<1> HIDE DEF S, s, t
<1> QED BY <1>1, <1>2, <1>3, SeqEqual DEF s, t

LEMMA WithoutSecond ==
    ASSUME NEW a, NEW b
    PROVE  SubSeq(<<a, b>>, 1, 1) = <<a>>
<1> DEFINE S == {a, b}
           s == SubSeq(<<a, b>>, 1, 1)
           t == <<a>>
<1>1. <<a, b>> \in Seq(S) /\ t \in Seq(S) /\ Len(<<a, b>>) = 2 /\ Len(t) = 1
  OBVIOUS
<1>2. s \in Seq(S) /\ Len(s) = 1
  BY <1>1
<1>3. \A i \in 1..1 : s[i] = t[i]
  BY <1>1
<1> HIDE DEF S, s, t
<1> QED BY <1>1, <1>2, <1>3, SeqEqual DEF s, t

LEMMA StackForms ==
    ASSUME IsStack(histMenu)
    PROVE  /\ Top \in Screens \cup {"QUIT", "MENU_ROOT", "NOTHING"}
           /\ Top = "QUIT" => histMenu = <<"QUIT">>
           /\ Top = "MENU_ROOT" => histMenu = <<"QUIT", "MENU_ROOT">>
           /\ Top \in Screens \cup {"NOTHING"} => histMenu = <<"QUIT", "MENU_ROOT", Top>>
<1>1. CASE histMenu = <<"QUIT">>
  BY <1>1 DEF Top, Screens, Views
<1>2. CASE histMenu = <<"QUIT", "MENU_ROOT">>
  BY <1>2 DEF Top, Screens, Views
<1>3. ASSUME NEW s \in Screens \cup {"NOTHING"}, histMenu = <<"QUIT", "MENU_ROOT", s>>
      PROVE  Top = s
  BY <1>3 DEF Top
<1>4. CASE \E s \in Screens \cup {"NOTHING"} : histMenu = <<"QUIT", "MENU_ROOT", s>>
  BY <1>3, <1>4 DEF Screens, Views
<1> QED BY <1>1, <1>2, <1>4 DEF IsStack

LEMMA Pushed ==
    ASSUME IsStack(histMenu), Top = "MENU_ROOT", NEW item \in Screens \cup {"NOTHING"},
           histMenu' = Append(histMenu, item)
    PROVE  IsStack(histMenu)' /\ Top' = item
<1>1. histMenu' = <<"QUIT", "MENU_ROOT", item>>
  BY StackForms, Appended
<1> QED BY <1>1 DEF IsStack, Top

LEMMA Popped ==
    ASSUME IsStack(histMenu), LeaveMenu
    PROVE  /\ Top = "MENU_ROOT" => IsStack(histMenu)' /\ Top' = "QUIT"
           /\ Top \in Screens => IsStack(histMenu)' /\ Top' = "MENU_ROOT"
<1>1. ASSUME Top = "MENU_ROOT" PROVE IsStack(histMenu)' /\ Top' = "QUIT"
  <2>1. histMenu = <<"QUIT", "MENU_ROOT">>
    BY <1>1, StackForms
  <2>2. histMenu' = <<"QUIT">>
    BY <2>1, WithoutSecond DEF LeaveMenu, Left
  <2> QED BY <2>2 DEF IsStack, Top
<1>2. ASSUME Top \in Screens PROVE IsStack(histMenu)' /\ Top' = "MENU_ROOT"
  <2>1. histMenu = <<"QUIT", "MENU_ROOT", Top>>
    BY <1>2, StackForms
  <2>2. histMenu' = SubSeq(histMenu, 1, 2)
    BY <2>1 DEF LeaveMenu, Left
  <2>3. histMenu' = <<"QUIT", "MENU_ROOT">>
    BY <2>1, <2>2, WithoutThird
  <2> QED BY <2>3 DEF IsStack, Top
<1> QED BY <1>1, <1>2

LEMMA Stays == ASSUME UNCHANGED histMenu PROVE Top' = Top /\ (IsStack(histMenu) => IsStack(histMenu)')
BY DEF Top, IsStack
-----------------------------------------------------------------------------
(* Types of what the operations are made of.                               *)
LEMMA GivenType ==
    ASSUME NEW f \in SUBSET Holders, NEW from, NEW to \in Holders
    PROVE  Given(f, from, to) \in SUBSET Holders
BY DEF Given

LEMMA HoldersFacts ==
    /\ Screens \subseteq Holders /\ Views \subseteq Screens /\ Screens \subseteq Focusable
    /\ {"App", "MsgBox", "Fade", "MENU_ROOT"} \subseteq Holders
    /\ {"MENU_GAME", "MENU_HELP", "MENU_OPTIONS"} \subseteq Screens
BY DEF Holders, Screens, Views, Focusable

LEMMA SurfaceTypes ==
    ASSUME NEW f \in SUBSET Holders, NEW s \in Holders
    PROVE  /\ Drawn(f, s) \in SUBSET Holders /\ HandedTo(f, s) \in SUBSET Holders
           /\ Given(f, s, "Fade") \in SUBSET Holders
           /\ Given(Drawn(f, s), s, "Fade") \in SUBSET Holders
           /\ Given(f, s, "MsgBox") \in SUBSET Holders
<1>1. Drawn(f, s) \in SUBSET Holders
  BY GivenType, HoldersFacts DEF Drawn
<1>2. HandedTo(f, s) \in SUBSET Holders
  BY GivenType DEF HandedTo
<1> QED BY <1>1, <1>2, GivenType, HoldersFacts

LEMMA GameDrawsType == ASSUME fresh \in SUBSET Holders, GameDraws PROVE fresh' \in SUBSET Holders
<1> DEFINE boxed == IF phase' = "IN_MSGBOX" /\ phase # "IN_MSGBOX"
                    THEN Given(fresh, "MENU_GAME", "MsgBox") ELSE fresh
<1>1. "MENU_GAME" \in Holders
  BY HoldersFacts
<1>2. boxed \in SUBSET Holders
  BY <1>1, SurfaceTypes
<1>3. fresh' \in {boxed, Drawn(boxed, "MENU_GAME")}
  BY DEF GameDraws
<1> HIDE DEF boxed
<1> QED BY <1>1, <1>2, <1>3, SurfaceTypes

LEMMA MusicStep ==
    ASSUME music \in Music, [Next]_vars
    PROVE  music' \in Music
<1> DEFINE Played == {Silenced(music)} \cup {PlayMusic(m, t) : m \in {music, Silenced(music)}, t \in Track}
<1>1. Silenced(music) \in Music
  BY OperationTypes
<1>2. \A m \in {music, Silenced(music)}, t \in Track : PlayMusic(m, t) \in Music
  BY <1>1, PlayTypes
<1>3. "INIT" \in Track /\ "CREDITS" \in Track /\ "PLAY" \in Track
  BY DEF Track
<1>4. CASE Select
  <2>1. ASSUME NEW item, EnterMenu(item) PROVE music' \in Music
    BY <1>1, <1>2, <1>3, <2>1 DEF EnterMenu, startGameLoop, showHelp, showView,
       showGeneralOptions, alreadyStarted
  <2> QED BY <1>4, <2>1 DEF Select, rootMenuNext
<1>5. CASE BtToggleSoundClick
  BY <1>5, OperationTypes DEF BtToggleSoundClick
<1>6. CASE CheckboxMusicClicked
  <2>1. EnableMusic(music) \in Music /\ StopMusic(music) \in Music
    BY OperationTypes
  <2>2. PlayCurrentMusic(EnableMusic(music)) \in Music
    BY <1>3, <2>1, PlayTypes
  <2>3. DisableMusic(StopMusic(music)) \in Music
    BY <2>1, OperationTypes
  <2> QED BY <1>6, <2>2, <2>3 DEF CheckboxMusicClicked
<1>7. CASE RootFrame
  BY <1>2, <1>3, <1>7 DEF RootFrame
<1>8. CASE GameFadingOut
  BY <1>1, <1>8 DEF GameFadingOut
<1>9. CASE GameDone
  BY <1>2, <1>3, <1>9 DEF GameDone, backToMenuRootWithMusic
<1>10. CASE \E v \in Views : ViewInit(v)
  BY <1>2, <1>3, <1>10 DEF ViewInit
<1>11. CASE CreditsDone \/ HighScoreDone \/ HelpDone
  BY <1>2, <1>3, <1>11 DEF CreditsDone, HighScoreDone, HelpDone, backToMenuRootWithMusic
<1>12. CASE UNCHANGED music
  BY <1>12
<1>13. \/ Select \/ BtToggleSoundClick \/ CheckboxMusicClicked \/ RootFrame
       \/ GameFadingOut \/ GameDone \/ (\E v \in Views : ViewInit(v))
       \/ CreditsDone \/ HighScoreDone \/ HelpDone \/ UNCHANGED music
  BY Zenon DEF Next, ShellEvent, ShellFrame, ViewFrame, TimeUp, vars,
     Focus, QuitMenu, EndProgram, Resize, GameEvent, DismissView, HomePage, OptionsEnd,
     FadeFrame, FadeOver, GameFirstFrame, GameFrame, GameBoxFrame, ViewDone,
     CreditsScroll, HighScoreFrame, CreditsTimeUp, HighScoreTimeUp, HelpFrame, OptionsFrame
<1> QED BY <1>4, <1>5, <1>6, <1>7, <1>8, <1>9, <1>10, <1>11, <1>12, <1>13

LEMMA InitStack == Init => IStack
<1> SUFFICES ASSUME Init PROVE IStack
  OBVIOUS
<1>1. music \in Music
  BY InitializedType DEF Init
<1>2. Types
  BY <1>1, HoldersFacts DEF Init, Types, Game!Phase, Game!Listens, ViewState, Focusable, Screens
<1>3. IsStack(histMenu) /\ Top = "MENU_ROOT"
  BY DEF Init, IsStack, Top
<1> QED BY <1>2, <1>3 DEF Init, IStack, Ongoing
-----------------------------------------------------------------------------
(* The operations and the stack.                                           *)
LEMMA FocusType ==
    ASSUME focused \in Focusable
    PROVE  previousMenu \in Focusable /\ nextMenu \in Focusable
<1>1. /\ DOMAIN Order = 1..5
      /\ Order[1] = "MENU_GAME" /\ Order[2] = "MENU_OPTIONS" /\ Order[3] = "MENU_CREDITS"
      /\ Order[4] = "MENU_HELP" /\ Order[5] = "MENU_HIGHSCORE"
  BY DEF Order
<1>2. \A i \in DOMAIN Order : Order[i] \in Focusable
  BY <1>1, HoldersFacts DEF Screens, Views
<1>3. ASSUME focused \in Screens
      PROVE  /\ Place(focused) \in 1..5 /\ Order[Place(focused)] = focused
  <2>1. \E i \in DOMAIN Order : Order[i] = focused
    BY <1>1, <1>3 DEF Screens, Views
  <2> QED BY <1>1, <2>1 DEF Place
<1>4. previousMenu \in Focusable
  <2>1. CASE focused \in {"QUIT", "NOTHING"} \/ focused = Order[1]
    BY <1>1, <1>2, <2>1 DEF previousMenu, Focusable, Screens, Views
  <2>2. CASE focused \in Screens /\ focused # Order[1]
    <3>1. Place(focused) - 1 \in DOMAIN Order
      BY <1>1, <1>3, <2>2
    <3>2. previousMenu = Order[Place(focused) - 1]
      BY <1>1, <2>2 DEF previousMenu, Screens, Views
    <3> QED BY <1>2, <3>1, <3>2
  <2> QED BY <2>1, <2>2 DEF Focusable
<1>5. nextMenu \in Focusable
  <2>1. CASE focused \in {"QUIT", "NOTHING", "MENU_HIGHSCORE"}
    BY <1>1, <1>2, <2>1 DEF nextMenu, Focusable, Screens, Views
  <2>2. CASE focused \in Screens /\ focused # "MENU_HIGHSCORE"
    <3>1. Place(focused) + 1 \in DOMAIN Order
      BY <1>1, <1>3, <2>2
    <3>2. nextMenu = Order[Place(focused) + 1]
      BY <2>2 DEF nextMenu, Screens, Views
    <3> QED BY <1>2, <3>1, <3>2
  <2> QED BY <2>1, <2>2 DEF Focusable
<1> QED BY <1>4, <1>5

LEMMA ItemsFocusable == MenuItems \subseteq Focusable
BY DEF MenuItems, Focusable

(* Steps on one screen.                                                    *)
LEMMA SameScreen ==
    ASSUME IStack, Types', UNCHANGED <<histMenu, noGame, view, isShown, optInProgress>>
    PROVE  IStack'
BY Stays DEF IStack, Ongoing

LEMMA ShellStepsStack ==
    ASSUME IStack, [Next]_vars,
           \/ Focus \/ EndProgram \/ Resize \/ RootFrame \/ FadeFrame \/ FadeOver
           \/ CheckboxMusicClicked \/ HelpFrame \/ UNCHANGED vars
    PROVE  IStack'
<1>1. music' \in Music
  BY MusicStep DEF IStack, Types
<1>2. "MENU_ROOT" \in Holders /\ "Fade" \in Holders /\ "MENU_HELP" \in Holders
  BY HoldersFacts
<1> USE DEF menu, game, views, dialogs, surfaces
<1>3. CASE Focus
  <2>1. focused' \in Focusable
    BY <1>3, FocusType, ItemsFocusable DEF IStack, Types, Focus, Focusable
  <2> QED BY <1>1, <1>3, <2>1, SameScreen DEF IStack, Types, Focus
<1>4. CASE EndProgram
  BY <1>1, <1>4, SameScreen DEF IStack, Types, EndProgram
<1>5. CASE Resize
  <2>1. fresh' \subseteq Holders
    BY <1>5, HoldersFacts DEF Resize, UpdatedComponents, Holders
  <2>2. cut' \in BOOLEAN
    BY <1>5 DEF IStack, Types, Resize, KeepsOld
  <2> QED BY <1>1, <1>5, <2>1, <2>2, SameScreen DEF IStack, Types, Resize
<1>6. CASE RootFrame
  BY <1>1, <1>2, <1>6, SurfaceTypes, SameScreen DEF IStack, Types, RootFrame
<1>7. CASE FadeFrame
  BY <1>1, <1>2, <1>7, SurfaceTypes, SameScreen DEF IStack, Types, FadeFrame
<1>8. CASE FadeOver
  BY <1>1, <1>8, SameScreen DEF IStack, Types, FadeOver
<1>9. CASE CheckboxMusicClicked
  BY <1>1, <1>9, SameScreen DEF IStack, Types, CheckboxMusicClicked
<1>10. CASE HelpFrame
  BY <1>1, <1>2, <1>10, SurfaceTypes, SameScreen DEF IStack, Types, HelpFrame
<1>11. CASE UNCHANGED vars
  BY <1>11, SameScreen DEF IStack, Types, vars
<1> QED BY <1>3, <1>4, <1>5, <1>6, <1>7, <1>8, <1>9, <1>10, <1>11

LEMMA GameStepsStack ==
    ASSUME IStack, [Next]_vars,
           \/ GameEvent \/ BtToggleSoundClick \/ GameFirstFrame \/ GameFrame
           \/ GameBoxFrame \/ GameFadingOut
    PROVE  IStack'
<1>1. music' \in Music /\ fresh \in SUBSET Holders
  BY MusicStep DEF IStack, Types
<1>2. "MENU_GAME" \in Holders /\ "MsgBox" \in Holders
  BY HoldersFacts
<1> USE DEF menu, game, views, dialogs, surfaces, Game!Phase, Game!Listens, Game!Fade
<1>3. CASE GameEvent
  <2>1. fresh' \in SUBSET Holders
    BY <1>1, <1>3, GameDrawsType DEF GameEvent
  <2>2. phase' \in Game!Phase /\ noGame' = noGame
    BY <1>3 DEF GameEvent, IStack, Types, Game!Event
  <2> QED BY <1>1, <1>3, <2>1, <2>2, SameScreen DEF IStack, Types, GameEvent
<1>4. CASE BtToggleSoundClick
  BY <1>1, <1>2, <1>4, SurfaceTypes, SameScreen DEF IStack, Types, BtToggleSoundClick, CaptionAfterClick
<1>5. CASE GameFirstFrame
  <2>1. fresh' \in SUBSET Holders /\ fading' \in BOOLEAN
    BY <1>1, <1>2, <1>5, SurfaceTypes DEF IStack, Types, GameFirstFrame, Fade
  <2>2. phase' \in Game!Phase /\ noGame' = noGame
    BY <1>5 DEF GameFirstFrame, Game!FirstFrame
  <2> QED BY <1>1, <1>5, <2>1, <2>2, SameScreen DEF IStack, Types, GameFirstFrame
<1>6. CASE GameFrame
  <2>1. fresh' \in SUBSET Holders
    BY <1>1, <1>6, GameDrawsType DEF GameFrame
  <2>2. phase' \in Game!Phase /\ noGame' = noGame
    BY <1>6 DEF GameFrame, IStack, Types, Game!FirstScene, Game!Play
  <2> QED BY <1>1, <1>6, <2>1, <2>2, SameScreen DEF IStack, Types, GameFrame
<1>7. CASE GameBoxFrame
  <2>1. fresh' \in SUBSET Holders
    BY <1>1, <1>2, <1>7, SurfaceTypes DEF GameBoxFrame
  <2>2. phase' \in Game!Phase /\ noGame' = noGame
    BY <1>7 DEF GameBoxFrame, IStack, Types, Game!Answered
  <2> QED BY <1>1, <1>7, <2>1, <2>2, SameScreen DEF IStack, Types, GameBoxFrame
<1>8. CASE GameFadingOut
  <2>1. fresh' \in SUBSET Holders /\ fading' \in BOOLEAN
    BY <1>1, <1>2, <1>8, SurfaceTypes DEF IStack, Types, GameFadingOut, Fade
  <2>2. phase' \in Game!Phase /\ noGame' = noGame
    BY <1>8 DEF GameFadingOut, Game!FadingOut
  <2> QED BY <1>1, <1>8, <2>1, <2>2, SameScreen DEF IStack, Types, GameFadingOut
<1> QED BY <1>3, <1>4, <1>5, <1>6, <1>7, <1>8

(* The steps of credits and high scores on their screen.                   *)
LEMMA ViewStays ==
    ASSUME IStack, Types', NEW v \in Views, Top = v, NEW s, ViewGoes(v, s),
           UNCHANGED <<histMenu, noGame, isShown, optInProgress>>
    PROVE  IStack'
<1>1. \A w \in Views : view'[w] = IF w = v THEN s ELSE view[w]
  BY DEF ViewGoes, IStack, Types
<1> QED BY <1>1, Stays DEF IStack, Ongoing

LEMMA ViewTyped ==
    ASSUME Types, NEW v \in Views, NEW s \in ViewState, ViewGoes(v, s)
    PROVE  view' \in [Views -> ViewState]
BY DEF ViewGoes, Types

LEMMA ViewStepsStack ==
    ASSUME IStack, [Next]_vars,
           \/ DismissView \/ (\E v \in Views : ViewInit(v) \/ ViewDone(v))
           \/ CreditsScroll \/ CreditsTimeUp \/ HighScoreFrame \/ HighScoreTimeUp
    PROVE  IStack'
<1>1. music' \in Music /\ fresh \in SUBSET Holders /\ Types
  BY MusicStep DEF IStack, Types
<1>2. /\ "MENU_CREDITS" \in Views /\ "MENU_HIGHSCORE" \in Views
      /\ \A v \in Views : v \in Holders
  BY HoldersFacts DEF Views
<1> USE DEF menu, game, dialogs, surfaces, On
<1>3. CASE DismissView
  <2>1. PICK v \in Views : Top = v /\ ViewGoes(v, "DONE")
    BY <1>3 DEF DismissView
  <2>2. view' \in [Views -> ViewState]
    BY <1>1, <2>1, ViewTyped DEF ViewState
  <2>3. Types'
    BY <1>1, <1>3, <2>2 DEF Types, DismissView
  <2> QED BY <1>3, <2>1, <2>3, ViewStays DEF DismissView
<1>4. ASSUME NEW v \in Views, ViewInit(v) PROVE IStack'
  <2>1. PICK s \in ViewState : ViewGoes(v, s)
    BY <1>4 DEF ViewInit, ViewState
  <2>2. view' \in [Views -> ViewState]
    BY <1>1, <2>1, ViewTyped
  <2>3. fresh' \in SUBSET Holders /\ fading' \in BOOLEAN
    BY <1>1, <1>2, <1>4, SurfaceTypes DEF ViewInit, Fade, Types
  <2>4. Types'
    BY <1>1, <1>4, <2>2, <2>3 DEF Types, ViewInit
  <2> QED BY <1>4, <2>1, <2>4, ViewStays DEF ViewInit
<1>5. ASSUME NEW v \in Views, ViewDone(v) PROVE IStack'
  <2>1. view' \in [Views -> ViewState]
    BY <1>1, <1>5, ViewTyped DEF ViewDone, ViewState
  <2>2. fresh' \in SUBSET Holders /\ fading' \in BOOLEAN
    BY <1>1, <1>2, <1>5, SurfaceTypes DEF ViewDone, Fade, Types
  <2>3. Types'
    BY <1>1, <1>5, <2>1, <2>2 DEF Types, ViewDone
  <2> QED BY <1>5, <2>3, ViewStays DEF ViewDone
<1>6. CASE CreditsScroll
  <2>1. view' \in [Views -> ViewState]
    BY <1>1, <1>2, <1>6, ViewTyped DEF CreditsScroll, ViewState
  <2>2. fresh' \in SUBSET Holders
    BY <1>1, <1>2, <1>6, SurfaceTypes DEF CreditsScroll
  <2>3. Types'
    BY <1>1, <1>6, <2>1, <2>2 DEF Types, CreditsScroll
  <2> QED BY <1>2, <1>6, <2>3, ViewStays DEF CreditsScroll
<1>7. CASE CreditsTimeUp
  <2>1. view' \in [Views -> ViewState]
    BY <1>1, <1>2, <1>7, ViewTyped DEF CreditsTimeUp, ViewState
  <2>2. fresh' \in SUBSET Holders
    BY <1>1, <1>2, <1>7, SurfaceTypes DEF CreditsTimeUp
  <2>3. Types'
    BY <1>1, <1>7, <2>1, <2>2 DEF Types, CreditsTimeUp
  <2> QED BY <1>2, <1>7, <2>3, ViewStays DEF CreditsTimeUp
<1>8. CASE HighScoreFrame
  <2>1. PICK s \in ViewState : ViewGoes("MENU_HIGHSCORE", s)
    BY <1>8 DEF HighScoreFrame, ViewState
  <2>2. view' \in [Views -> ViewState]
    BY <1>1, <1>2, <2>1, ViewTyped
  <2>3. fresh' \in SUBSET Holders
    BY <1>1, <1>2, <1>8, SurfaceTypes DEF HighScoreFrame
  <2>4. Types'
    BY <1>1, <1>8, <2>2, <2>3 DEF Types, HighScoreFrame
  <2> QED BY <1>2, <1>8, <2>1, <2>4, ViewStays DEF HighScoreFrame
<1>9. CASE HighScoreTimeUp
  <2>1. view' \in [Views -> ViewState]
    BY <1>1, <1>2, <1>9, ViewTyped DEF HighScoreTimeUp, ViewState
  <2>2. fresh' \in SUBSET Holders
    BY <1>1, <1>2, <1>9, SurfaceTypes DEF HighScoreTimeUp
  <2>3. Types'
    BY <1>1, <1>9, <2>1, <2>2 DEF Types, HighScoreTimeUp
  <2> QED BY <1>2, <1>9, <2>3, ViewStays DEF HighScoreTimeUp
<1> QED BY <1>3, <1>4, <1>5, <1>6, <1>7, <1>8, <1>9

(* Into a screen: none is found already started.                           *)
LEMMA OngoingIs ==
    ASSUME IStack, NEW item \in Screens \cup {"QUIT", "NOTHING"}, IsOngoing(item)
    PROVE  Top = item
<1>1. CASE item \in Views
  BY <1>1 DEF IsOngoing, IStack, Ongoing
<1>2. CASE item \in {"MENU_HELP", "MENU_OPTIONS"}
  BY <1>2 DEF IsOngoing, IStack, Ongoing, Views
<1>3. CASE item \in {"MENU_GAME", "QUIT", "NOTHING"}
  BY <1>3 DEF IsOngoing, Views
<1> QED BY <1>1, <1>2, <1>3 DEF Screens

LEMMA EnterStack ==
    ASSUME IStack, music' \in Music, On("MENU_ROOT"), NEW item \in Screens \cup {"NOTHING"},
           EnterMenu(item), focused' \in Focusable
    PROVE  IStack'
<1>1. Top = "MENU_ROOT" /\ result = "CONTINUE" /\ fresh \in SUBSET Holders
  BY DEF On, IStack, Types
<1>2. IsStack(histMenu)' /\ Top' = item
  BY <1>1, Pushed DEF EnterMenu, IStack
<1>3. /\ noGame /\ ~isShown /\ ~optInProgress
      /\ \A v \in Views : view[v] = "READY_TO_START"
  BY <1>1 DEF IStack, Ongoing, Views
<1>4. item # "MENU_ROOT"
  BY DEF Screens, Views
<1>5. ~IsOngoing(item)
  BY <1>1, <1>4, OngoingIs
<1>6. cut' = cut
  BY DEF EnterMenu
<1> USE DEF game, views, dialogs
<1>7. CASE item = "MENU_GAME" /\ startGameLoop
  <2>1. fresh' \in SUBSET Holders
    BY <1>1, <1>7, HoldersFacts, SurfaceTypes DEF startGameLoop
  <2>2. Types'
    BY <1>1, <1>6, <1>7, <2>1 DEF IStack, Types, startGameLoop, Game!Phase, Game!Listens
  <2> QED BY <1>2, <1>3, <1>7, <2>2 DEF IStack, Ongoing, startGameLoop
<1>8. CASE item = "MENU_HELP" /\ showHelp
  <2>1. fresh' \in SUBSET Holders
    BY <1>1, <1>8, HoldersFacts, SurfaceTypes DEF showHelp
  <2>2. Types'
    BY <1>1, <1>6, <1>8, <2>1 DEF IStack, Types, showHelp
  <2> QED BY <1>2, <1>3, <1>8, <2>2 DEF IStack, Ongoing, showHelp
<1>9. CASE item \in Views /\ showView(item)
  <2>1. fresh' \in SUBSET Holders
    BY <1>1, <1>9, HoldersFacts, SurfaceTypes DEF showView
  <2>2. view' \in [Views -> ViewState]
    BY <1>9 DEF IStack, Types, showView, ViewState
  <2>3. \A v \in Views : view'[v] # "READY_TO_START" => v = item
    BY <1>3, <1>9 DEF IStack, Types, showView
  <2>4. Types'
    BY <1>1, <1>6, <1>9, <2>1, <2>2 DEF IStack, Types, showView
  <2>5. noGame' /\ item # "MENU_GAME" /\ ~isShown' /\ ~optInProgress'
    BY <1>3, <1>9 DEF showView, Views
  <2> QED BY <1>2, <2>3, <2>4, <2>5 DEF IStack, Ongoing
<1>10. CASE item = "MENU_OPTIONS" /\ showGeneralOptions
  <2>1. fresh' \in SUBSET Holders
    BY <1>1, <1>10, HoldersFacts, SurfaceTypes DEF showGeneralOptions
  <2>2. Types'
    BY <1>1, <1>6, <1>10, <2>1 DEF IStack, Types, showGeneralOptions
  <2> QED BY <1>2, <1>3, <1>10, <2>2 DEF IStack, Ongoing, showGeneralOptions
<1>11. CASE item = "NOTHING" /\ UNCHANGED <<game, views, dialogs, fresh, music, result>>
  <2>1. Types'
    BY <1>6, <1>11 DEF IStack, Types
  <2> QED BY <1>2, <1>3, <1>11, <2>1 DEF IStack, Ongoing
<1>12. \/ item = "MENU_GAME" /\ startGameLoop
       \/ item = "MENU_HELP" /\ showHelp
       \/ item \in Views /\ showView(item)
       \/ item = "MENU_OPTIONS" /\ showGeneralOptions
       \/ item \in {"QUIT", "NOTHING"} /\ UNCHANGED <<game, views, dialogs, fresh, music, result>>
  BY <1>5, Zenon DEF EnterMenu, alreadyStarted
<1>13. item # "QUIT"
  BY DEF Screens, Views
<1> QED BY <1>7, <1>8, <1>9, <1>10, <1>11, <1>12, <1>13

(* Out of a screen, or out of the menu.                                    *)
LEMMA LeaveStack ==
    ASSUME IStack, Types', LeaveMenu, Top = "MENU_ROOT" \/ Top \in Screens,
           ~isShown', ~optInProgress', \A v \in Views : view'[v] = "READY_TO_START"
    PROVE  IStack'
<1>1. IsStack(histMenu)' /\ Top' \in {"QUIT", "MENU_ROOT"}
  BY Popped DEF IStack
<1>2. noGame'
  BY DEF LeaveMenu
<1> QED BY <1>1, <1>2 DEF IStack, Ongoing

LEMMA InsAndOutsStack ==
    ASSUME IStack, [Next]_vars,
           \/ Select \/ QuitMenu \/ GameDone \/ CreditsDone \/ HighScoreDone \/ HelpDone
           \/ HomePage \/ OptionsEnd \/ OptionsFrame
    PROVE  IStack'
<1>1. music' \in Music /\ fresh \in SUBSET Holders /\ Types
  BY MusicStep DEF IStack, Types
<1>2. /\ "MENU_CREDITS" \in Views /\ "MENU_HIGHSCORE" \in Views
      /\ "MENU_CREDITS" \in Screens /\ "MENU_HIGHSCORE" \in Screens
      /\ "MENU_OPTIONS" \in Holders
  BY HoldersFacts DEF Views
<1> USE DEF game, views, dialogs, surfaces, On
<1>3. CASE Select
  <2>1. focused' \in Focusable
    BY <1>1, <1>3, ItemsFocusable DEF Select, Types
  <2>2. CASE focused' = "QUIT"
    <3>1. LeaveMenu /\ UNCHANGED <<phase, caption, views, dialogs, surfaces, music, result>>
      BY <1>3, <2>2 DEF Select, rootMenuNext
    <3>2. Types'
      BY <1>1, <2>1, <3>1 DEF Types, LeaveMenu
    <3>3. Top = "MENU_ROOT"
      BY <1>3 DEF Select
    <3> QED BY <3>1, <3>2, <3>3, LeaveStack DEF IStack, Ongoing, Views
  <2>3. CASE focused' # "QUIT"
    <3>1. EnterMenu(focused')
      BY <1>3, <2>3 DEF Select, rootMenuNext
    <3>2. focused' \in Screens \cup {"NOTHING"}
      BY <2>1, <2>3 DEF Focusable
    <3> QED BY <1>1, <1>3, <2>1, <3>1, <3>2, EnterStack DEF Select
  <2> QED BY <2>2, <2>3
<1>4. CASE QuitMenu
  <2>1. Types'
    BY <1>1, <1>4 DEF Types, QuitMenu, LeaveMenu
  <2> QED BY <1>4, <2>1, LeaveStack DEF QuitMenu, IStack, Ongoing, Views
<1>5. CASE GameDone
  <2>1. Types'
    BY <1>1, <1>5 DEF Types, GameDone, backToMenuRootWithMusic, LeaveMenu,
       Game!Terminated, Game!Phase, Game!Listens
  <2>2. Top = "MENU_GAME" /\ LeaveMenu /\ UNCHANGED <<views, dialogs>>
    BY <1>5 DEF GameDone, backToMenuRootWithMusic
  <2> QED BY <2>1, <2>2, HoldersFacts, LeaveStack DEF IStack, Ongoing, Views
<1>6. CASE CreditsDone
  <2>1. view' \in [Views -> ViewState]
    BY <1>1, <1>6 DEF Types, CreditsDone, CreditsReset, ViewState
  <2>2. Types'
    BY <1>1, <1>6, <2>1 DEF Types, CreditsDone, backToMenuRootWithMusic, LeaveMenu
  <2>3. Top = "MENU_CREDITS" /\ LeaveMenu /\ UNCHANGED dialogs
    BY <1>6 DEF CreditsDone, backToMenuRootWithMusic
  <2>4. \A v \in Views : view'[v] = "READY_TO_START"
    BY <1>1, <1>6, <2>3 DEF CreditsDone, CreditsReset, Types, IStack, Ongoing
  <2> QED BY <1>2, <2>2, <2>3, <2>4, LeaveStack DEF IStack, Ongoing, Views
<1>7. CASE HighScoreDone
  <2>1. view' \in [Views -> ViewState]
    BY <1>1, <1>7 DEF Types, HighScoreDone, ViewGoes, ViewState
  <2>2. Types'
    BY <1>1, <1>7, <2>1 DEF Types, HighScoreDone, backToMenuRootWithMusic, LeaveMenu
  <2>3. Top = "MENU_HIGHSCORE" /\ LeaveMenu /\ UNCHANGED dialogs
    BY <1>7 DEF HighScoreDone, backToMenuRootWithMusic
  <2>4. \A v \in Views : view'[v] = "READY_TO_START"
    BY <1>1, <1>7, <2>3 DEF HighScoreDone, ViewGoes, Types, IStack, Ongoing
  <2> QED BY <1>2, <2>2, <2>3, <2>4, LeaveStack DEF IStack, Ongoing, Views
<1>8. CASE HelpDone
  <2>1. Types'
    BY <1>1, <1>8 DEF Types, HelpDone, backToMenuRootWithMusic, LeaveMenu
  <2>2. Top = "MENU_HELP" /\ ~isShown /\ LeaveMenu /\ UNCHANGED <<views, dialogs>>
    BY <1>8 DEF HelpDone, backToMenuRootWithMusic
  <2> QED BY <2>1, <2>2, HoldersFacts, LeaveStack DEF IStack, Ongoing, Views
<1>9. CASE HomePage
  <2>1. Types'
    BY <1>1, <1>9 DEF Types, HomePage, menu
  <2> QED BY <1>9, <2>1, Stays DEF HomePage, IStack, Ongoing, menu
<1>10. CASE OptionsEnd
  <2>1. Types'
    BY <1>1, <1>10 DEF Types, OptionsEnd, menu
  <2> QED BY <1>10, <2>1, Stays DEF OptionsEnd, IStack, Ongoing, menu
<1>11. CASE OptionsFrame
  <2>1. fresh' \in SUBSET Holders
    BY <1>1, <1>2, <1>11, SurfaceTypes DEF OptionsFrame
  <2>2. noGame' \in BOOLEAN
    BY <1>1, <1>11 DEF OptionsFrame, LeaveMenu, Types
  <2>3. Types'
    BY <1>1, <1>11, <2>1, <2>2 DEF Types, OptionsFrame
  <2>4. CASE optInProgress
    BY <1>11, <2>3, <2>4, SameScreen DEF OptionsFrame
  <2>5. CASE ~optInProgress
    BY <1>11, <2>3, <2>5, HoldersFacts, LeaveStack DEF OptionsFrame, IStack, Ongoing, Views
  <2> QED BY <2>4, <2>5
<1> QED BY <1>3, <1>4, <1>5, <1>6, <1>7, <1>8, <1>9, <1>10, <1>11

LEMMA NextStack == IStack /\ [Next]_vars => IStack'
BY ShellStepsStack, GameStepsStack, ViewStepsStack, InsAndOutsStack, Zenon
   DEF Next, ShellEvent, ShellFrame, ViewFrame, TimeUp

LEMMA StackIs == IStack => ShellTypeOK /\ MenuStack /\ NeverFails
<1> SUFFICES ASSUME IStack PROVE ShellTypeOK /\ MenuStack /\ NeverFails
  OBVIOUS
<1>1. \A s \in Screens : IsOngoing(s) => Top = s
  BY OngoingIs
<1>2. histMenu \in Seq(Focusable \cup {"MENU_ROOT"}) /\ histMenu # <<>>
  <2>0. "QUIT" \in Focusable
    BY DEF Focusable
  <2>1. CASE histMenu = <<"QUIT">>
    BY <2>0, <2>1
  <2>3. CASE histMenu = <<"QUIT", "MENU_ROOT">>
    BY <2>0, <2>3
  <2>2. ASSUME NEW s \in Screens \cup {"NOTHING"}, histMenu = <<"QUIT", "MENU_ROOT", s>>
        PROVE  histMenu \in Seq(Focusable \cup {"MENU_ROOT"}) /\ histMenu # <<>>
    <3>1. s \in Focusable /\ "QUIT" \in Focusable
      BY DEF Focusable
    <3> QED BY <2>2, <3>1
  <2> QED BY <2>1, <2>2, <2>3 DEF IStack, IsStack
<1>3. {fading, isShown, optInProgress, cut} \subseteq BOOLEAN
  BY Zenon DEF IStack, Types
<1>4. ShellTypeOK
  BY <1>2, <1>3 DEF IStack, Types, ShellTypeOK, Game!ScreenTypeOK
<1>5. MenuStack
  BY <1>1 DEF IStack, IsStack, MenuStack
<1>6. NeverFails
  BY DEF IStack, Types, NeverFails
<1> QED BY <1>4, <1>5, <1>6

LEMMA StackHolds == Spec => []IStack
BY InitStack, NextStack, PTL DEF Spec

(* The members of AppGfx, the music and the screens it shows keep their    *)
(* types, in both builds and for every order of frames and events.         *)
THEOREM ShellTyped == Spec => []ShellTypeOK
BY StackHolds, StackIs, PTL

(* AppGfx::EnterMenu and AppGfx::LeaveMenu are balanced: the stack is one  *)
(* of those a player can make, and there is a game when it is on top and   *)
(* AppGfx::MainLoopEvent and AppGfx::MainLoopIterate use it.               *)
THEOREM StackBalanced == Spec => []MenuStack
BY StackHolds, StackIs, PTL

(* No screen is found already started: the frame that enters a screen      *)
(* never gets the error for which AppIterate ends the program.             *)
THEOREM ScreensStartOnce == Spec => []NeverFails
BY StackHolds, StackIs, PTL
-----------------------------------------------------------------------------
(* The sound.  Without hardware the music is disabled, and when it is      *)
(* disabled nothing plays; where the options can be entered or are on top  *)
(* the music remembered, which the check box starts, is that of the menu.  *)
Sane(m) == (m.disabled => m.track = "NONE") /\ (~m.hardware => m.disabled)

SoundOK(m, top, cap) ==
    /\ Sane(m)
    /\ m.hardware /\ top \in {"QUIT", "MENU_ROOT", "NOTHING", "MENU_OPTIONS"} => m.current = "INIT"
    /\ m.track # "NONE" => m.track = TrackOf(top) /\ (~m.active => top = "MENU_GAME")
    /\ top = "MENU_GAME" /\ cap # "HIDDEN" /\ m.track # "NONE" => (cap = "ON" <=> m.active)

ISound == SoundOK(music, Top, caption)

LEMMA SilencedIs ==
    ASSUME NEW m \in Music, Sane(m)
    PROVE  LET p == Silenced(m)
           IN p \in Music /\ Sane(p) /\ p.track = "NONE" /\ p.hardware = m.hardware
              /\ p.disabled = m.disabled /\ p.current = m.current
<1>1. /\ StopMusic(m) \in Music /\ Sane(StopMusic(m)) /\ StopMusic(m).track = "NONE"
      /\ StopMusic(m).hardware = m.hardware /\ StopMusic(m).disabled = m.disabled
      /\ StopMusic(m).current = m.current
  BY OperationTypes DEF StopMusic, Sane, Music
<1> QED BY <1>1 DEF Silenced, IsPlayingMusic

LEMMA PlayedIs ==
    ASSUME NEW m \in Music, Sane(m), NEW t \in Track
    PROVE  LET p == PlayMusic(m, t)
           IN p \in Music /\ Sane(p) /\ p.hardware = m.hardware /\ p.disabled = m.disabled
              /\ (p.hardware => p.current = t)
              /\ (p.track # "NONE" => p.track = t /\ p.active)
              /\ (~p.disabled => p.track = t)
<1>1. PlayMusic(m, t) \in Music
  BY PlayTypes
<1>2. CASE ~m.hardware
  BY <1>1, <1>2 DEF PlayMusic, Sane
<1>3. CASE m.hardware /\ m.disabled
  BY <1>1, <1>3 DEF PlayMusic, Sane, Music
<1>4. CASE m.hardware /\ ~m.disabled
  BY <1>1, <1>4 DEF PlayMusic, Sane, Music, Track
<1> QED BY <1>2, <1>3, <1>4

LEMMA SwitchedOff ==
    ASSUME NEW m \in Music
    PROVE  LET p == DisableMusic(StopMusic(m))
           IN (m.disabled => m.track = "NONE") =>
                p.disabled /\ p.track = "NONE" /\ p.hardware = m.hardware /\ p.current = m.current
BY DEF DisableMusic, StopMusic, Music

LEMMA SwitchedOn ==
    ASSUME NEW m \in Music, Sane(m)
    PROVE  LET p == PlayCurrentMusic(EnableMusic(m))
           IN Sane(p) /\ p.hardware = m.hardware /\ p.current = m.current
              /\ (p.track # "NONE" => p.hardware /\ p.track = m.current /\ p.active)
<1>1. CASE ~m.hardware
  BY <1>1 DEF EnableMusic, PlayCurrentMusic, Sane
<1>2. CASE m.hardware
  <2> DEFINE e == EnableMusic(m)
  <2>1. e = [m EXCEPT !.disabled = FALSE]
    BY <1>2 DEF EnableMusic
  <2>2. e \in Music /\ e.hardware /\ ~e.disabled /\ e.current = m.current
    BY <1>2, <2>1 DEF Music
  <2> HIDE DEF e
  <2>3. PlayCurrentMusic(e) = [[[e EXCEPT !.current = e.current] EXCEPT !.track = e.current] EXCEPT !.active = TRUE]
    BY <2>2 DEF PlayCurrentMusic, PlayMusic
  <2>4. /\ PlayCurrentMusic(e).hardware = e.hardware /\ PlayCurrentMusic(e).current = e.current
        /\ PlayCurrentMusic(e).disabled = e.disabled
        /\ PlayCurrentMusic(e).track = e.current /\ PlayCurrentMusic(e).active
    BY <2>2, <2>3 DEF Music
  <2>5. e.current # "NONE"
    BY <2>2 DEF Music, Track
  <2> QED BY <1>2, <2>2, <2>4, <2>5 DEF e, Sane
<1> QED BY <1>1, <1>2

LEMMA InitSound == Init => ISound
<1> SUFFICES ASSUME Init PROVE ISound
  OBVIOUS
<1>1. Top = "MENU_ROOT"
  BY DEF Init, Top
<1>2. PICK hardware \in BOOLEAN, enabled \in BOOLEAN : music = Initialized(hardware, enabled)
  BY DEF Init
<1>3. /\ music.track = "NONE" /\ music.current = "INIT"
      /\ music.hardware = hardware /\ music.disabled = ~(hardware /\ enabled)
  BY <1>2 DEF Initialized
<1> QED BY <1>1, <1>3 DEF ISound, SoundOK, Sane

LEMMA TrackNames ==
    /\ "INIT" \in Track /\ "CREDITS" \in Track /\ "PLAY" \in Track
    /\ TrackOf("MENU_GAME") = "PLAY" /\ TrackOf("MENU_HELP") = "CREDITS"
    /\ \A v \in Views : TrackOf(v) = "CREDITS"
    /\ \A s \in {"QUIT", "MENU_ROOT", "NOTHING", "MENU_OPTIONS"} : TrackOf(s) = "INIT"
BY DEF Track, TrackOf, Views

(* Entering a screen.                                                      *)
LEMMA EnterSound ==
    ASSUME IStack, ISound, On("MENU_ROOT"), NEW item \in Screens \cup {"NOTHING"}, EnterMenu(item)
    PROVE  ISound'
<1>1. /\ Top = "MENU_ROOT" /\ music \in Music /\ Sane(music)
      /\ music.hardware => music.current = "INIT"
      /\ music.track # "NONE" => music.track = "INIT" /\ music.active
  <2>1. Top = "MENU_ROOT" /\ music \in Music /\ Sane(music)
    BY DEF On, IStack, Types, ISound, SoundOK
  <2>2. music.hardware => music.current = "INIT"
    BY <2>1 DEF ISound, SoundOK
  <2>3. music.track # "NONE" => music.track = TrackOf("MENU_ROOT") /\ music.active
    BY <2>1 DEF ISound, SoundOK
  <2> QED BY <2>1, <2>2, <2>3, TrackNames
<1>2. Top' = item
  BY <1>1, Pushed DEF EnterMenu, IStack
<1> DEFINE quiet == Silenced(music)
<1>3. quiet \in Music /\ Sane(quiet) /\ quiet.track = "NONE" /\ quiet.current = music.current
  BY <1>1, SilencedIs
<1>4. item \notin {"QUIT", "MENU_ROOT"}
  BY DEF Screens, Views
<1> SUFFICES SoundOK(music', item, caption')
  BY <1>2 DEF ISound
<1>5. CASE item = "MENU_GAME" /\ startGameLoop
  <2> DEFINE p == music'
  <2>1. p = PlayMusic(quiet, "PLAY")
    BY <1>5 DEF startGameLoop
  <2>2. /\ Sane(p) /\ (p.track # "NONE" => p.track = "PLAY" /\ p.active)
        /\ (~p.disabled => p.track = "PLAY")
    BY <1>3, <2>1, TrackNames, PlayedIs
  <2>3. caption' = IF p.disabled THEN "HIDDEN" ELSE IF IsPlayingMusic(p) THEN "ON" ELSE "OFF"
    BY <1>5 DEF startGameLoop
  <2>4. p.track # "NONE" /\ caption' # "HIDDEN" => caption' = "ON"
    BY <2>2, <2>3 DEF IsPlayingMusic
  <2> QED BY <1>5, <2>2, <2>4, TrackNames DEF SoundOK
<1>6. CASE item = "MENU_HELP" /\ showHelp
  <2>1. music' = PlayMusic(quiet, "CREDITS")
    BY <1>6 DEF showHelp
  <2>2. Sane(music') /\ (music'.track # "NONE" => music'.track = "CREDITS" /\ music'.active)
    BY <1>3, <2>1, TrackNames, PlayedIs
  <2> QED BY <1>6, <2>2, TrackNames DEF SoundOK
<1>7. CASE item \in Views /\ showView(item)
  BY <1>3, <1>7 DEF SoundOK, showView, Views
<1>8. CASE item \in {"MENU_OPTIONS", "NOTHING"} /\ music' = music
  BY <1>1, <1>8, TrackNames DEF SoundOK
<1>9. \/ item = "MENU_GAME" /\ startGameLoop
      \/ item = "MENU_HELP" /\ showHelp
      \/ item \in Views /\ showView(item)
      \/ item \in {"MENU_OPTIONS", "NOTHING"} /\ music' = music
  <2>1. ~IsOngoing(item)
    BY <1>1, <1>4, OngoingIs
  <2> QED BY <1>4, <2>1, Zenon DEF EnterMenu, alreadyStarted, showGeneralOptions
<1> QED BY <1>5, <1>6, <1>7, <1>8, <1>9

(* Leaving it: the music of the menu, or silence.                          *)
LEMMA BackSound ==
    ASSUME IStack, ISound, Top \in Screens, NEW m \in Music, Sane(m), backToMenuRootWithMusic(m)
    PROVE  ISound'
<1>1. Top' = "MENU_ROOT"
  BY Popped DEF IStack, backToMenuRootWithMusic
<1>2. music' = PlayMusic(m, "INIT")
  BY DEF backToMenuRootWithMusic
<1>3. /\ Sane(music') /\ (music'.hardware => music'.current = "INIT")
      /\ (music'.track # "NONE" => music'.track = "INIT" /\ music'.active)
  BY <1>2, TrackNames, PlayedIs
<1> QED BY <1>1, <1>3, TrackNames DEF ISound, SoundOK

(* Steps that touch neither the stack nor the sound.                       *)
LEMMA SameSound == ASSUME ISound, UNCHANGED <<histMenu, music, caption>> PROVE ISound'
BY Stays DEF ISound

LEMMA NextSound == IStack /\ ISound /\ [Next]_vars => ISound'
<1> SUFFICES ASSUME IStack, ISound, [Next]_vars PROVE ISound'
  OBVIOUS
<1>1. music \in Music /\ Sane(music)
  BY DEF IStack, Types, ISound, SoundOK
<1>2. Silenced(music) \in Music /\ Sane(Silenced(music)) /\ Silenced(music).track = "NONE"
  BY <1>1, SilencedIs
<1> USE DEF menu, game, views, dialogs, surfaces, On
<1>3. CASE Select
  <2>1. CASE focused' = "QUIT"
    <3>1. LeaveMenu /\ UNCHANGED <<caption, music>> /\ Top = "MENU_ROOT"
      BY <1>3, <2>1 DEF Select, rootMenuNext
    <3>2. Top' = "QUIT"
      BY <3>1, Popped DEF IStack
    <3> QED BY <3>1, <3>2, TrackNames DEF ISound, SoundOK
  <2>2. CASE focused' # "QUIT"
    <3>1. EnterMenu(focused') /\ On("MENU_ROOT")
      BY <1>3, <2>2 DEF Select, rootMenuNext
    <3>2. focused' \in Screens \cup {"NOTHING"}
      BY <1>3, <2>2, ItemsFocusable DEF Select, Focusable, IStack, Types
    <3> QED BY <3>1, <3>2, EnterSound
  <2> QED BY <2>1, <2>2
<1>4. CASE QuitMenu
  <2>1. LeaveMenu /\ UNCHANGED <<caption, music>> /\ Top = "MENU_ROOT"
    BY <1>4 DEF QuitMenu
  <2>2. Top' = "QUIT"
    BY <2>1, Popped DEF IStack
  <2> QED BY <2>1, <2>2, TrackNames DEF ISound, SoundOK
<1>5. CASE RootFrame
  <2>1. Top = "MENU_ROOT" /\ Top' = "MENU_ROOT"
    BY <1>5, Stays DEF RootFrame
  <2>2. CASE music' = music
    BY <1>5, <2>2, SameSound DEF RootFrame
  <2>3. CASE music' = PlayMusic(music, "INIT")
    <3>1. /\ Sane(music') /\ (music'.hardware => music'.current = "INIT")
          /\ (music'.track # "NONE" => music'.track = "INIT" /\ music'.active)
      BY <1>1, <2>3, TrackNames, PlayedIs
    <3> QED BY <2>1, <3>1, TrackNames DEF ISound, SoundOK
  <2> QED BY <1>5, <2>2, <2>3 DEF RootFrame
<1>6. CASE BtToggleSoundClick
  <2>1. Top = "MENU_GAME" /\ Top' = "MENU_GAME"
    BY <1>6, Stays DEF BtToggleSoundClick
  <2>2. caption' = CaptionAfterClick
    BY <1>6 DEF BtToggleSoundClick
  <2>3. music' = IF ~IsPlayingMusic(music) THEN music
                 ELSE IF music.paused THEN ResumeMusic(music) ELSE PauseMusic(music)
    BY <1>6 DEF BtToggleSoundClick
  <2>4. CASE music.disabled \/ music.track = "NONE"
    <3>1. music'.track = "NONE" /\ Sane(music')
      BY <1>1, <2>3, <2>4 DEF ResumeMusic, PauseMusic, IsPlayingMusic, Sane
    <3> QED BY <2>1, <3>1 DEF ISound, SoundOK
  <2>5. CASE ~music.disabled /\ music.track # "NONE" /\ music.paused
    <3>1. music' = [[music EXCEPT !.active = TRUE] EXCEPT !.paused = FALSE]
      BY <2>3, <2>5 DEF ResumeMusic, IsPlayingMusic
    <3>2. /\ music'.active /\ music'.track = music.track
          /\ music'.disabled = music.disabled /\ music'.hardware = music.hardware
      BY <1>1, <3>1 DEF Music
    <3>3. caption' = "ON"
      BY <2>2, <2>5 DEF CaptionAfterClick, IsPlayingMusic
    <3> QED BY <2>1, <3>2, <3>3 DEF ISound, SoundOK, Sane
  <2>6. CASE ~music.disabled /\ music.track # "NONE" /\ ~music.paused
    <3>1. music' = [[music EXCEPT !.active = FALSE] EXCEPT !.paused = TRUE]
      BY <2>3, <2>6 DEF PauseMusic, IsPlayingMusic
    <3>2. /\ ~music'.active /\ music'.track = music.track
          /\ music'.disabled = music.disabled /\ music'.hardware = music.hardware
      BY <1>1, <3>1 DEF Music
    <3>3. caption' = "OFF"
      BY <2>2, <2>6 DEF CaptionAfterClick, IsPlayingMusic
    <3> QED BY <2>1, <3>2, <3>3 DEF ISound, SoundOK, Sane
  <2> QED BY <2>4, <2>5, <2>6
<1>7. CASE GameFadingOut
  <2>1. Top = "MENU_GAME" /\ Top' = "MENU_GAME" /\ music' = Silenced(music)
    BY <1>7, Stays DEF GameFadingOut
  <2> QED BY <1>2, <2>1 DEF ISound, SoundOK
<1>8. CASE GameDone
  BY <1>2, <1>8, HoldersFacts, BackSound DEF GameDone
<1>9. ASSUME NEW v \in Views, ViewInit(v) PROVE ISound'
  <2>1. Top = v /\ Top' = v /\ music' = PlayMusic(music, "CREDITS")
    BY <1>9, Stays DEF ViewInit
  <2>2. Sane(music') /\ (music'.track # "NONE" => music'.track = "CREDITS" /\ music'.active)
    BY <1>1, <2>1, TrackNames, PlayedIs
  <2>3. v \notin {"QUIT", "MENU_ROOT", "NOTHING", "MENU_OPTIONS", "MENU_GAME"}
    BY DEF Views
  <2> QED BY <2>1, <2>2, <2>3, TrackNames DEF ISound, SoundOK
<1>10. CASE CreditsDone
  BY <1>2, <1>10, HoldersFacts, BackSound DEF CreditsDone, Views
<1>11. CASE HighScoreDone
  BY <1>1, <1>11, HoldersFacts, BackSound DEF HighScoreDone, Views
<1>12. CASE HelpDone
  BY <1>1, <1>12, HoldersFacts, BackSound DEF HelpDone
<1>13. CASE CheckboxMusicClicked
  <2>1. Top = "MENU_OPTIONS" /\ Top' = "MENU_OPTIONS"
    BY <1>13, Stays DEF CheckboxMusicClicked
  <2>2. music.hardware => music.current = "INIT"
    BY <2>1 DEF ISound, SoundOK
  <2>3. CASE music' = DisableMusic(StopMusic(music))
    BY <1>1, <2>1, <2>2, <2>3, SwitchedOff DEF ISound, SoundOK, Sane
  <2>4. CASE music' = PlayCurrentMusic(EnableMusic(music))
    BY <1>1, <2>1, <2>2, <2>4, SwitchedOn, TrackNames DEF ISound, SoundOK
  <2> QED BY <1>13, <2>3, <2>4 DEF CheckboxMusicClicked
<1>14. CASE OptionsFrame
  <2>1. CASE optInProgress
    BY <1>14, <2>1, SameSound DEF OptionsFrame
  <2>2. CASE ~optInProgress
    <3>1. Top = "MENU_OPTIONS" /\ LeaveMenu /\ UNCHANGED <<caption, music>>
      BY <1>14, <2>2 DEF OptionsFrame
    <3>2. Top' = "MENU_ROOT"
      BY <3>1, Popped, HoldersFacts DEF IStack
    <3> QED BY <3>1, <3>2, TrackNames DEF ISound, SoundOK
  <2> QED BY <2>1, <2>2
<1>15. CASE UNCHANGED <<histMenu, music, caption>>
  BY <1>15, SameSound
<1>16. \/ Select \/ QuitMenu \/ RootFrame \/ BtToggleSoundClick \/ GameFadingOut \/ GameDone
       \/ (\E v \in Views : ViewInit(v)) \/ CreditsDone \/ HighScoreDone \/ HelpDone
       \/ CheckboxMusicClicked \/ OptionsFrame \/ UNCHANGED <<histMenu, music, caption>>
  BY Zenon DEF Next, ShellEvent, ShellFrame, ViewFrame, TimeUp, vars,
     Focus, EndProgram, Resize, GameEvent, DismissView, HomePage, OptionsEnd,
     FadeFrame, FadeOver, GameFirstFrame, GameFrame, GameBoxFrame, ViewDone,
     CreditsScroll, HighScoreFrame, CreditsTimeUp, HighScoreTimeUp, HelpFrame
<1> QED BY <1>3, <1>4, <1>5, <1>6, <1>7, <1>8, <1>9, <1>10, <1>11, <1>12, <1>13, <1>14, <1>15, <1>16

LEMMA SoundHolds == Spec => []ISound
BY InitStack, NextStack, InitSound, NextSound, PTL DEF Spec

(* The music heard is that of the screen on top: MusicManager under AppGfx *)
(* and SolitarioGfx, whichever screens the player goes through.            *)
THEOREM SoundRight == Spec => []RightMusic
<1>1. ISound => RightMusic
  BY DEF ISound, SoundOK, RightMusic, On
<1> QED BY <1>1, SoundHolds, PTL

(* The caption of the sound button of the game tells whether music is      *)
(* heard, wherever it can be clicked.                                      *)
THEOREM CaptionTrue == Spec => []CaptionTells
<1>1. ISound => CaptionTells
  BY DEF ISound, SoundOK, CaptionTells, On
<1> QED BY <1>1, SoundHolds, PTL
-----------------------------------------------------------------------------
(* The surfaces.  The root menu always has the newest one, and unless a    *)
(* resize came in between, so have all who may draw next.                  *)
SurfacesOK(f, c, top, fad, ph) ==
    /\ "MENU_ROOT" \in f
    /\ ~c => /\ "App" \in f
             /\ top \in Screens => top \in f
             /\ fad /\ top \in Views \cup {"MENU_GAME"} => "Fade" \in f
             /\ top = "MENU_GAME" /\ ph = "IN_MSGBOX" => "MsgBox" \in f

ISurfaces == SurfacesOK(fresh, cut, Top, fading, phase)

LEMMA GivenIs ==
    ASSUME NEW f, NEW from, NEW to
    PROVE  /\ to \in Given(f, from, to) <=> from \in f
           /\ \A x : x # to => (x \in Given(f, from, to) <=> x \in f)
BY DEF Given

LEMMA ScreenNames ==
    /\ {"App", "MENU_ROOT", "Fade", "MsgBox", "QUIT", "NOTHING"} \cap Screens = {}
    /\ "MENU_GAME" \notin Views /\ Views \subseteq Screens
    /\ {"MENU_GAME", "MENU_HELP", "MENU_OPTIONS", "MENU_CREDITS", "MENU_HIGHSCORE"} \subseteq Screens
    /\ "MENU_CREDITS" \in Views /\ "MENU_HIGHSCORE" \in Views
BY DEF Screens, Views

(* Who draws with the newest surface leaves it to the window.              *)
LEMMA DrawnOK ==
    ASSUME NEW f, NEW c, NEW top, NEW fad, NEW ph, NEW s,
           SurfacesOK(f, c, top, fad, ph), ~c => s \in f
    PROVE  SurfacesOK(Drawn(f, s), c, top, fad, ph)
BY GivenIs, ScreenNames DEF Drawn, SurfacesOK

LEMMA HandedOK ==
    ASSUME NEW f, NEW c, NEW top, NEW fad, NEW ph, NEW s \in Screens, NEW fad2, NEW ph2,
           SurfacesOK(f, c, top, fad, ph),
           fad2 => s \notin Views \cup {"MENU_GAME"}, s = "MENU_GAME" => ph2 # "IN_MSGBOX"
    PROVE  SurfacesOK(HandedTo(f, s), c, s, fad2, ph2)
BY GivenIs, ScreenNames DEF HandedTo, SurfacesOK

LEMMA InitSurfaces == Init => ISurfaces
<1>1. Init => Top = "MENU_ROOT"
  BY DEF Init, Top
<1> QED BY <1>1, ScreenNames, HoldersFacts DEF Init, ISurfaces, SurfacesOK

LEMMA EnterSurfaces ==
    ASSUME IStack, ISurfaces, On("MENU_ROOT"), NEW item \in Screens \cup {"NOTHING"},
           EnterMenu(item)
    PROVE  ISurfaces'
<1>1. Top' = item
  BY Pushed DEF EnterMenu, IStack, On
<1>2. ~IsOngoing(item)
  BY OngoingIs, ScreenNames DEF On
<1>3. cut' = cut
  BY DEF EnterMenu
<1> SUFFICES SurfacesOK(fresh', cut, item, fading', phase')
  BY <1>1, <1>3 DEF ISurfaces
<1>4. CASE item = "MENU_GAME" /\ startGameLoop
  BY <1>4, HandedOK, ScreenNames DEF startGameLoop, ISurfaces
<1>5. CASE item = "MENU_HELP" /\ showHelp
  BY <1>5, HandedOK, ScreenNames DEF showHelp, ISurfaces, Views
<1>6. CASE item \in Views /\ showView(item)
  BY <1>6, HandedOK, ScreenNames DEF showView, ISurfaces
<1>7. CASE item = "MENU_OPTIONS" /\ showGeneralOptions
  BY <1>7, HandedOK, ScreenNames DEF showGeneralOptions, ISurfaces, Views
<1>8. CASE item = "NOTHING" /\ fresh' = fresh
  BY <1>8, ScreenNames DEF ISurfaces, SurfacesOK
<1>9. \/ item = "MENU_GAME" /\ startGameLoop
      \/ item = "MENU_HELP" /\ showHelp
      \/ item \in Views /\ showView(item)
      \/ item = "MENU_OPTIONS" /\ showGeneralOptions
      \/ item \in {"QUIT", "NOTHING"} /\ fresh' = fresh
  BY <1>2, Zenon DEF EnterMenu, alreadyStarted
<1>10. item # "QUIT"
  BY ScreenNames
<1> QED BY <1>4, <1>5, <1>6, <1>7, <1>8, <1>9, <1>10

(* Back to the menu.                                                       *)
LEMMA BackSurfaces ==
    ASSUME IStack, ISurfaces, LeaveMenu, Top = "MENU_ROOT" \/ Top \in Screens,
           fresh' = fresh, cut' = cut
    PROVE  ISurfaces'
<1>1. Top' \in {"QUIT", "MENU_ROOT"}
  BY Popped DEF IStack
<1> QED BY <1>1, ScreenNames DEF ISurfaces, SurfacesOK

(* The steps of the shell itself and of its fades.                         *)
LEMMA ShellStepsSurfaces ==
    ASSUME IStack, ISurfaces,
           \/ Resize \/ RootFrame \/ FadeFrame \/ FadeOver \/ HelpFrame \/ OptionsFrame
    PROVE  ISurfaces'
<1> USE DEF menu, game, views, dialogs, surfaces, On
<1>1. CASE Resize
  <2>1. Top' = Top /\ fading' = fading /\ phase' = phase
    BY <1>1, Stays DEF Resize
  <2>2. Top \in Screens /\ ~KeepsOld => Top \in fresh'
    BY <1>1 DEF Resize, UpdatedComponents, KeepsOld, Screens, IStack
  <2>3. "App" \in fresh' /\ "MENU_ROOT" \in fresh'
    BY <1>1 DEF Resize, UpdatedComponents
  <2>4. cut' = KeepsOld
    BY <1>1 DEF Resize
  <2>5. ~KeepsOld => ~fading /\ ~(Top = "MENU_GAME" /\ phase = "IN_MSGBOX")
    BY DEF KeepsOld
  <2> QED BY <2>1, <2>2, <2>3, <2>4, <2>5 DEF ISurfaces, SurfacesOK
<1>2. CASE RootFrame
  <2>1. Top = "MENU_ROOT" /\ Top' = "MENU_ROOT"
    BY <1>2, Stays DEF RootFrame
  <2>2. "MENU_ROOT" \in fresh' /\ "App" \in fresh'
    BY <1>2, GivenIs DEF RootFrame, Drawn, ISurfaces, SurfacesOK
  <2> QED BY <2>1, <2>2, ScreenNames DEF ISurfaces, SurfacesOK
<1>3. CASE FadeFrame
  <2>1. Top' = Top /\ cut' = cut /\ fading' = fading /\ phase' = phase /\ fresh' = Drawn(fresh, "Fade")
    BY <1>3, Stays DEF FadeFrame
  <2>2. fading /\ Top \in Views \cup {"MENU_GAME"}
    BY <1>3 DEF FadeFrame, Waiting
  <2>3. ~cut => "Fade" \in fresh
    BY <2>2 DEF ISurfaces, SurfacesOK
  <2> QED BY <2>1, <2>3, DrawnOK DEF ISurfaces
<1>4. CASE FadeOver
  <2>1. Top' = Top /\ cut' = cut /\ ~fading' /\ phase' = phase /\ fresh' = fresh
    BY <1>4, Stays DEF FadeOver
  <2> QED BY <2>1 DEF ISurfaces, SurfacesOK
<1>5. CASE HelpFrame
  <2>1. Top' = Top /\ cut' = cut /\ fading' = fading /\ phase' = phase /\ fresh' = Drawn(fresh, "MENU_HELP")
    BY <1>5, Stays DEF HelpFrame
  <2>2. ~cut => "MENU_HELP" \in fresh
    BY <1>5, ScreenNames DEF HelpFrame, ISurfaces, SurfacesOK
  <2> QED BY <2>1, <2>2, DrawnOK DEF ISurfaces
<1>6. CASE OptionsFrame
  <2>1. Top = "MENU_OPTIONS" /\ cut' = cut /\ fading' = fading /\ phase' = phase /\ fresh' = Drawn(fresh, "MENU_OPTIONS")
    BY <1>6 DEF OptionsFrame
  <2>2. ~cut => "MENU_OPTIONS" \in fresh
    BY <2>1, ScreenNames DEF ISurfaces, SurfacesOK
  <2>3. SurfacesOK(fresh', cut', Top, fading', phase')
    BY <2>1, <2>2, DrawnOK DEF ISurfaces
  <2>4. Top' \in {Top, "MENU_ROOT"}
    BY <1>6, <2>1, Stays, Popped, ScreenNames DEF OptionsFrame, IStack
  <2> QED BY <2>3, <2>4, ScreenNames DEF ISurfaces, SurfacesOK
<1> QED BY <1>1, <1>2, <1>3, <1>4, <1>5, <1>6

(* The game and its message box.                                           *)
LEMMA GameDrawsOK ==
    ASSUME ISurfaces, Top = "MENU_GAME", GameDraws
    PROVE  SurfacesOK(fresh', cut, Top, fading, phase')
<1> DEFINE boxed == IF phase' = "IN_MSGBOX" /\ phase # "IN_MSGBOX"
                    THEN Given(fresh, "MENU_GAME", "MsgBox") ELSE fresh
<1>1. ~cut => "MENU_GAME" \in fresh
  BY ScreenNames DEF ISurfaces, SurfacesOK
<1>2. SurfacesOK(boxed, cut, Top, fading, phase') /\ (~cut => "MENU_GAME" \in boxed)
  <2>1. CASE phase' = "IN_MSGBOX" /\ phase # "IN_MSGBOX"
    <3>1. boxed = Given(fresh, "MENU_GAME", "MsgBox")
      BY <2>1
    <3> QED BY <1>1, <3>1, GivenIs, ScreenNames DEF ISurfaces, SurfacesOK
  <2>2. CASE ~(phase' = "IN_MSGBOX" /\ phase # "IN_MSGBOX")
    BY <1>1, <2>2 DEF ISurfaces, SurfacesOK
  <2> QED BY <2>1, <2>2
<1>3. fresh' \in {boxed, Drawn(boxed, "MENU_GAME")}
  BY DEF GameDraws
<1> HIDE DEF boxed
<1> QED BY <1>2, <1>3, DrawnOK

(* A FadeAction that begins has the surface of its screen.                 *)
LEMMA FadeOK ==
    ASSUME ISurfaces, Top \in Views \cup {"MENU_GAME"}, Fade(Top), NEW ph,
           ph = "IN_MSGBOX" => phase = "IN_MSGBOX"
    PROVE  SurfacesOK(fresh', cut, Top, fading', ph)
<1>1. ~cut => Top \in fresh
  BY ScreenNames DEF ISurfaces, SurfacesOK
<1>2. CASE fading
  BY <1>2, ScreenNames DEF Fade, ISurfaces, SurfacesOK
<1>3. CASE ~fading
  <2>1. fresh' = Given(fresh, Top, "Fade")
    BY <1>3 DEF Fade
  <2> QED BY <1>1, <2>1, GivenIs, ScreenNames DEF ISurfaces, SurfacesOK
<1> QED BY <1>2, <1>3

LEMMA GameStepsSurfaces ==
    ASSUME IStack, ISurfaces,
           \/ GameEvent \/ BtToggleSoundClick \/ GameFirstFrame \/ GameFrame
           \/ GameBoxFrame \/ GameFadingOut
    PROVE  ISurfaces'
<1> USE DEF menu, game, views, dialogs, surfaces, On
<1>1. CASE GameEvent \/ GameFrame
  <2>1. Top = "MENU_GAME" /\ Top' = Top /\ cut' = cut /\ fading' = fading /\ GameDraws
    BY <1>1, Stays DEF GameEvent, GameFrame
  <2> QED BY <2>1, GameDrawsOK DEF ISurfaces
<1>2. CASE BtToggleSoundClick
  <2>1. Top = "MENU_GAME" /\ Top' = Top /\ cut' = cut /\ fading' = fading /\ fresh' = Drawn(fresh, "MENU_GAME")
    BY <1>2, Stays DEF BtToggleSoundClick
  <2>2. phase' # "IN_MSGBOX"
    BY <1>2 DEF BtToggleSoundClick, Game!Listens
  <2>3. ~cut => "MENU_GAME" \in fresh
    BY <2>1, ScreenNames DEF ISurfaces, SurfacesOK
  <2>4. SurfacesOK(fresh, cut, Top, fading, phase')
    BY <2>2 DEF ISurfaces, SurfacesOK
  <2> QED BY <2>1, <2>3, <2>4, DrawnOK DEF ISurfaces
<1>3. CASE GameFirstFrame
  <2>1. Top = "MENU_GAME" /\ Top' = Top /\ cut' = cut /\ phase' # "IN_MSGBOX"
    BY <1>3, Stays DEF GameFirstFrame, Game!FirstFrame
  <2>2. CASE TouchWithoutMouse
    <3>1. fresh' = fresh /\ fading' = fading
      BY <1>3, <2>2 DEF GameFirstFrame
    <3> QED BY <2>1, <3>1 DEF ISurfaces, SurfacesOK
  <2>3. CASE ~TouchWithoutMouse
    <3>1. Fade(Top)
      BY <1>3, <2>1, <2>3 DEF GameFirstFrame
    <3>2. SurfacesOK(fresh', cut, Top, fading', phase')
      BY <2>1, <3>1, FadeOK
    <3> QED BY <2>1, <3>2 DEF ISurfaces
  <2> QED BY <2>2, <2>3
<1>4. CASE GameBoxFrame
  <2>1. Top = "MENU_GAME" /\ Top' = Top /\ cut' = cut /\ fading' = fading /\ phase = "IN_MSGBOX"
    BY <1>4, Stays DEF GameBoxFrame, Game!Answered
  <2>2. PICK s \in {"MsgBox", "MENU_GAME"} : fresh' = Drawn(fresh, s)
    BY <1>4 DEF GameBoxFrame
  <2>3. ~cut => s \in fresh
    BY <2>1, <2>2, ScreenNames DEF ISurfaces, SurfacesOK
  <2>4. SurfacesOK(fresh, cut, Top, fading, phase')
    BY <2>1 DEF ISurfaces, SurfacesOK
  <2> QED BY <2>1, <2>2, <2>3, <2>4, DrawnOK DEF ISurfaces
<1>5. CASE GameFadingOut
  <2>1. Top = "MENU_GAME" /\ Top' = Top /\ cut' = cut /\ phase' # "IN_MSGBOX" /\ Fade(Top)
    BY <1>5, Stays DEF GameFadingOut, Game!FadingOut
  <2>2. SurfacesOK(fresh', cut, Top, fading', phase')
    BY <2>1, FadeOK
  <2> QED BY <2>1, <2>2 DEF ISurfaces
<1> QED BY <1>1, <1>2, <1>3, <1>4, <1>5

LEMMA ViewStepsSurfaces ==
    ASSUME IStack, ISurfaces,
           \/ (\E v \in Views : ViewInit(v) \/ ViewDone(v))
           \/ CreditsScroll \/ CreditsTimeUp \/ HighScoreFrame \/ HighScoreTimeUp
    PROVE  ISurfaces'
<1> USE DEF menu, game, views, dialogs, surfaces, On
<1>1. ASSUME NEW v \in Views, ViewInit(v) \/ ViewDone(v) PROVE ISurfaces'
  <2>1. Top = v /\ Top' = Top /\ cut' = cut /\ phase' = phase
    BY <1>1, Stays DEF ViewInit, ViewDone
  <2>2. CASE Fade(v)
    <3>1. SurfacesOK(fresh', cut, Top, fading', phase)
      BY <2>1, <2>2, FadeOK
    <3> QED BY <2>1, <3>1 DEF ISurfaces
  <2>3. CASE UNCHANGED <<fading, fresh>>
    BY <2>1, <2>3 DEF ISurfaces
  <2> QED BY <1>1, <2>2, <2>3, Zenon DEF ViewInit, ViewDone
<1>2. CASE CreditsScroll
  <2>1. Top = "MENU_CREDITS" /\ Top' = Top /\ cut' = cut /\ fading' = fading /\ phase' = phase
        /\ fresh' = Drawn(fresh, "MENU_CREDITS")
    BY <1>2, Stays DEF CreditsScroll
  <2>2. ~cut => "MENU_CREDITS" \in fresh
    BY <2>1, ScreenNames DEF ISurfaces, SurfacesOK
  <2> QED BY <2>1, <2>2, DrawnOK DEF ISurfaces
<1>3. CASE CreditsTimeUp
  <2>1. Top = "MENU_CREDITS" /\ Top' = Top /\ cut' = cut /\ phase' = phase
        /\ fresh' = Given(Drawn(fresh, "MENU_CREDITS"), "MENU_CREDITS", "Fade")
    BY <1>3, Stays DEF CreditsTimeUp
  <2>2. ~cut => "MENU_CREDITS" \in fresh
    BY <2>1, ScreenNames DEF ISurfaces, SurfacesOK
  <2>3. SurfacesOK(Drawn(fresh, "MENU_CREDITS"), cut, Top, fading, phase)
    BY <2>2, DrawnOK DEF ISurfaces
  <2>4. ~cut => "MENU_CREDITS" \in Drawn(fresh, "MENU_CREDITS")
    BY <2>2, GivenIs, ScreenNames DEF Drawn
  <2> QED BY <2>1, <2>3, <2>4, GivenIs, ScreenNames DEF ISurfaces, SurfacesOK
<1>4. CASE HighScoreFrame
  <2>1. Top = "MENU_HIGHSCORE" /\ Top' = Top /\ cut' = cut /\ fading' = fading /\ phase' = phase
        /\ fresh' \in {fresh, Drawn(fresh, "MENU_HIGHSCORE")}
    BY <1>4, Stays DEF HighScoreFrame
  <2>2. ~cut => "MENU_HIGHSCORE" \in fresh
    BY <2>1, ScreenNames DEF ISurfaces, SurfacesOK
  <2> QED BY <2>1, <2>2, DrawnOK DEF ISurfaces
<1>5. CASE HighScoreTimeUp
  <2>1. Top = "MENU_HIGHSCORE" /\ Top' = Top /\ cut' = cut /\ fading' = fading /\ phase' = phase
        /\ fresh' = Drawn(fresh, "MENU_HIGHSCORE")
    BY <1>5, Stays DEF HighScoreTimeUp
  <2>2. ~cut => "MENU_HIGHSCORE" \in fresh
    BY <2>1, ScreenNames DEF ISurfaces, SurfacesOK
  <2> QED BY <2>1, <2>2, DrawnOK DEF ISurfaces
<1> QED BY <1>1, <1>2, <1>3, <1>4, <1>5

LEMMA InsAndOutsSurfaces ==
    ASSUME IStack, ISurfaces,
           Select \/ QuitMenu \/ GameDone \/ CreditsDone \/ HighScoreDone \/ HelpDone
    PROVE  ISurfaces'
<1> USE DEF menu, game, views, dialogs, surfaces, On
<1>1. CASE Select
  <2>1. CASE focused' = "QUIT"
    <3>1. LeaveMenu /\ fresh' = fresh /\ cut' = cut /\ Top = "MENU_ROOT"
      BY <1>1, <2>1 DEF Select, rootMenuNext
    <3> QED BY <3>1, BackSurfaces
  <2>2. CASE focused' # "QUIT"
    <3>1. EnterMenu(focused') /\ On("MENU_ROOT")
      BY <1>1, <2>2 DEF Select, rootMenuNext
    <3>2. focused' \in Screens \cup {"NOTHING"}
      BY <1>1, <2>2, ItemsFocusable DEF Select, Focusable, IStack, Types
    <3> QED BY <3>1, <3>2, EnterSurfaces
  <2> QED BY <2>1, <2>2
<1>2. CASE QuitMenu
  BY <1>2, BackSurfaces DEF QuitMenu
<1>3. CASE GameDone
  BY <1>3, BackSurfaces, ScreenNames DEF GameDone, backToMenuRootWithMusic
<1>4. CASE CreditsDone
  BY <1>4, BackSurfaces, ScreenNames DEF CreditsDone, backToMenuRootWithMusic
<1>5. CASE HighScoreDone
  BY <1>5, BackSurfaces, ScreenNames DEF HighScoreDone, backToMenuRootWithMusic
<1>6. CASE HelpDone
  BY <1>6, BackSurfaces, ScreenNames DEF HelpDone, backToMenuRootWithMusic
<1> QED BY <1>1, <1>2, <1>3, <1>4, <1>5, <1>6

LEMMA SameSurfaces ==
    ASSUME ISurfaces, UNCHANGED <<histMenu, fresh, cut, fading, phase>>
    PROVE  ISurfaces'
BY Stays DEF ISurfaces

LEMMA NextSurfaces == IStack /\ ISurfaces /\ [Next]_vars => ISurfaces'
<1> SUFFICES ASSUME IStack, ISurfaces, [Next]_vars PROVE ISurfaces'
  OBVIOUS
<1>1. CASE \/ Focus \/ EndProgram \/ DismissView \/ HomePage \/ OptionsEnd
           \/ CheckboxMusicClicked \/ UNCHANGED vars
  BY <1>1, SameSurfaces DEF Focus, EndProgram, DismissView, HomePage, OptionsEnd,
     CheckboxMusicClicked, vars, menu, game, views, dialogs, surfaces
<1>2. CASE ~ (\/ Focus \/ EndProgram \/ DismissView \/ HomePage \/ OptionsEnd
              \/ CheckboxMusicClicked \/ UNCHANGED vars)
  BY <1>2, ShellStepsSurfaces, GameStepsSurfaces, ViewStepsSurfaces, InsAndOutsSurfaces, Zenon
     DEF Next, ShellEvent, ShellFrame, ViewFrame, TimeUp
<1> QED BY <1>1, <1>2

(* The window and the screen on top draw on the same surface:              *)
(* AppGfx::updateComponentsScreen reaches everyone that can be on top.     *)
THEOREM SurfacesAgree == Spec => []ScreensAgree
<1>1. ISurfaces => ScreensAgree
  BY DEF ISurfaces, SurfacesOK, ScreensAgree
<1> QED BY <1>1, InitStack, NextStack, InitSurfaces, NextSurfaces, PTL DEF Spec
=============================================================================
