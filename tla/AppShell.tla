------------------------------ MODULE AppShell ------------------------------
(***************************************************************************)
(* AppGfx with MenuMgr: the stack of menus that decides which screen gets  *)
(* the events and the frames, the way into each screen and back, the music *)
(* that goes with it, and the surfaces that the screens draw on.  Credits, *)
(* high scores and help are modelled here; of the options only what the    *)
(* shell sees (OptionsGfx has the rest); the game is a GameScreen.         *)
(*                                                                         *)
(* A resize replaces the surface of the window and hands the new one to    *)
(* every screen.  Whoever still holds the old one brings it back: to draw  *)
(* is to make one's own surface that of the window (UpdateScreen).         *)
(***************************************************************************)
EXTENDS MusicManager, Integers, Sequences

CONSTANTS TouchWithoutMouse, \* InputType: no fades into a screen, no mouse
          HasQuitMenu        \* HASQUITMENU: the menu has an item to quit

ASSUME ShellAssumption == TouchWithoutMouse \in BOOLEAN /\ HasQuitMenu \in BOOLEAN

VARIABLES
    histMenu,      \* _histMenu, its top at the end
    focused,       \* _focusedMenuItem
    noGame,        \* _fnGameGfxCb.tc is NULL
    phase,         \* of the game, see GameScreen
    caption,       \* of the sound button: ON, OFF, or HIDDEN
    view,          \* _state of CreditsView and of HighScore
    fading,        \* the FadeAction of the screen on top is in progress
    isShown,       \* GameHelp::_isShown
    optInProgress, \* OptionsGfx::_inProgress
    fresh,         \* who holds the newest surface
    cut,           \* no code: a resize came between a surface being taken and
                   \* its last use, and the menu was not drawn since
    music,         \* the music manager
    result         \* what SDL was answered last: CONTINUE, SUCCESS, FAILURE

menu     == <<histMenu, focused>>
game     == <<noGame, phase, caption>>
views    == <<view, fading>>
dialogs  == <<isShown, optInProgress>>
surfaces == <<fresh, cut>>
vars     == <<menu, game, views, dialogs, surfaces, music, result>>

Game == INSTANCE GameScreen WITH done <- noGame

Views     == {"MENU_CREDITS", "MENU_HIGHSCORE"}
Screens   == Views \cup {"MENU_GAME", "MENU_HELP", "MENU_OPTIONS"}
MenuItems == Screens \cup (IF HasQuitMenu THEN {"QUIT"} ELSE {})
Focusable == Screens \cup {"QUIT", "NOTHING"}
(* WAIT_FOR_FADING is split by the _stateAfter that waits behind it.       *)
ViewState == {"READY_TO_START", "INIT", "FADE_TO_IN_PROGRESS", "IN_PROGRESS",
              "IN_PROGRESS_WAIT", "DONE", "FADE_TO_TERMINATED", "TERMINATED"}
Holders   == Screens \cup {"MENU_ROOT", "App", "MsgBox", "Fade"}

ShellTypeOK ==
    /\ histMenu \in Seq(Focusable \cup {"MENU_ROOT"}) /\ histMenu # <<>>
    /\ focused \in Focusable
    /\ Game!ScreenTypeOK
    /\ caption \in {"ON", "OFF", "HIDDEN"}
    /\ view \in [Views -> ViewState]
    /\ {fading, isShown, optInProgress, cut} \subseteq BOOLEAN
    /\ fresh \subseteq Holders
    /\ music \in Music
    /\ result \in {"CONTINUE", "SUCCESS", "FAILURE"}

Top == histMenu[Len(histMenu)]

(* SDL calls while the program runs; the screen s is on top.               *)
On(s) == result = "CONTINUE" /\ Top = s

(* `to` takes the surface that `from` holds.  A screen that draws gives    *)
(* its own to the application, one that is shown is given that one.        *)
Given(f, from, to) == IF from \in f THEN f \cup {to} ELSE f \ {to}
Drawn(f, s)    == Given(f, s, "App")
HandedTo(f, s) == Given(f, "App", s)
-----------------------------------------------------------------------------
(* AppGfx::Init.                                                           *)
Init ==
    /\ histMenu = <<"QUIT", "MENU_ROOT">>
    /\ focused = "MENU_GAME"
    /\ noGame = TRUE /\ phase = "READY_TO_START" /\ caption = "HIDDEN"
    /\ view = [v \in Views |-> "READY_TO_START"]
    /\ fading = FALSE
    /\ isShown = FALSE /\ optInProgress = FALSE
    /\ fresh = Holders /\ cut = FALSE
    /\ \E hardware, enabled \in BOOLEAN : music = Initialized(hardware, enabled)
    /\ result = "CONTINUE"
-----------------------------------------------------------------------------
(* EnterMenu, from the root menu: the item is pushed, then its screen is   *)
(* shown.  A screen that is still ongoing is an error, which ends the      *)
(* program.                                                                *)
startGameLoop ==
    /\ phase' = "READY_TO_START" /\ noGame' = FALSE
    /\ music' = PlayMusic(Silenced(music), "PLAY")
    /\ caption' = IF music'.disabled THEN "HIDDEN"
                  ELSE IF IsPlayingMusic(music') THEN "ON" ELSE "OFF"
    /\ fading' = FALSE
    /\ fresh' = HandedTo(fresh, "MENU_GAME")
    /\ UNCHANGED <<view, dialogs, result>>

showHelp ==
    /\ ~isShown
    /\ isShown' = TRUE
    /\ music' = PlayMusic(Silenced(music), "CREDITS")
    /\ fresh' = HandedTo(fresh, "MENU_HELP")
    /\ UNCHANGED <<game, views, optInProgress, result>>

showView(v) ==      \* showCredits, showHighScore
    /\ view[v] = "READY_TO_START"
    /\ view' = [view EXCEPT ![v] = "INIT"]
    /\ fading' = FALSE
    /\ music' = Silenced(music)
    /\ fresh' = HandedTo(fresh, v)
    /\ UNCHANGED <<game, dialogs, result>>

showGeneralOptions ==
    /\ ~optInProgress
    /\ optInProgress' = TRUE
    /\ fresh' = HandedTo(fresh, "MENU_OPTIONS")
    /\ UNCHANGED <<game, views, isShown, music, result>>

IsOngoing(item) ==
    CASE item \in Views          -> view[item] # "READY_TO_START"
      [] item = "MENU_HELP"      -> isShown
      [] item = "MENU_OPTIONS"   -> optInProgress
      [] OTHER                   -> FALSE

alreadyStarted(item) ==
    /\ IsOngoing(item)
    /\ result' = "FAILURE"
    /\ UNCHANGED <<game, views, dialogs, fresh, music>>

EnterMenu(item) ==
    /\ histMenu' = Append(histMenu, item)
    /\ UNCHANGED cut
    /\ \/ item = "MENU_GAME" /\ startGameLoop
       \/ item = "MENU_HELP" /\ showHelp
       \/ item \in Views /\ showView(item)
       \/ item = "MENU_OPTIONS" /\ showGeneralOptions
       \/ alreadyStarted(item)
       \/ /\ item \in {"QUIT", "NOTHING"}   \* pushed, and nothing else
          /\ UNCHANGED <<game, views, dialogs, fresh, music, result>>

(* LeaveMenu.                                                              *)
Left == SubSeq(histMenu, 1, Len(histMenu) - 1)

LeaveMenu == histMenu' = Left /\ noGame' = TRUE

silentlyBack(m) ==   \* mutant: the music of the menu is not started
    LeaveMenu /\ music' = m
backToMenuRootWithMusic(m) == LeaveMenu /\ music' = PlayMusic(m, "INIT")
-----------------------------------------------------------------------------
(* MenuMgr: the events of the root menu.                                   *)
Order == <<"MENU_GAME", "MENU_OPTIONS", "MENU_CREDITS", "MENU_HELP", "MENU_HIGHSCORE">>
Place(item) == CHOOSE i \in DOMAIN Order : Order[i] = item

previousMenu ==
    CASE focused = "QUIT"    -> "MENU_HIGHSCORE"
      [] focused = "NOTHING" -> IF HasQuitMenu THEN "QUIT" ELSE "MENU_HIGHSCORE"
      [] focused = Order[1]  -> focused
      [] OTHER               -> Order[Place(focused) - 1]

nextMenu ==
    CASE focused = "QUIT"           -> "QUIT"
      [] focused = "NOTHING"        -> Order[1]
      [] focused = "MENU_HIGHSCORE" -> IF HasQuitMenu THEN "QUIT" ELSE "NOTHING"
      [] OTHER                      -> Order[Place(focused) + 1]

Focus ==            \* the keys UP and DOWN, the pointer over the menu or off it
    /\ On("MENU_ROOT")
    /\ \/ focused' \in {previousMenu, nextMenu}
       \/ ~TouchWithoutMouse /\ focused' \in MenuItems
       \/ focused' = "NOTHING"
    /\ UNCHANGED <<histMenu, game, views, dialogs, surfaces, music, result>>

enterAlways(item) == EnterMenu(item)   \* mutant: QUIT is entered like the others
rootMenuNext(item) ==
    IF item = "QUIT"
    THEN LeaveMenu /\ UNCHANGED <<phase, caption, views, dialogs, surfaces, music, result>>
    ELSE EnterMenu(item)

Select ==           \* RETURN takes what has the focus, a click or tap an item
    /\ On("MENU_ROOT")
    /\ focused' \in {focused} \cup MenuItems
    /\ rootMenuNext(focused')

QuitMenu ==         \* ESC, or SDL_EVENT_QUIT
    /\ On("MENU_ROOT")
    /\ LeaveMenu
    /\ UNCHANGED <<focused, phase, caption, views, dialogs, surfaces, music, result>>

(* Its frames.                                                             *)
RootFrame ==
    /\ On("MENU_ROOT")
    /\ music' = IF IsPlayingMusic(music) THEN music ELSE PlayMusic(music, "INIT")
    /\ fresh' = Drawn(fresh, "MENU_ROOT")
    /\ cut' = FALSE
    /\ UNCHANGED <<menu, game, views, dialogs, result>>

(* Below the root menu every event ends the program, and nothing else      *)
(* does; so it is with the NOTHING that RETURN pushes when nothing has the *)
(* focus.                                                                  *)
MenuLeft ==         \* mutant: QUIT is popped as well
    /\ On("QUIT") \/ On("NOTHING")
    /\ result' = "SUCCESS"
    /\ LeaveMenu
    /\ UNCHANGED <<focused, phase, caption, views, dialogs, surfaces, music>>
EndProgram ==
    /\ On("QUIT") \/ On("NOTHING")
    /\ result' = "SUCCESS"
    /\ UNCHANGED <<menu, game, views, dialogs, surfaces, music>>
-----------------------------------------------------------------------------
(* SDL_EVENT_WINDOW_RESIZED: selectLayout, createScreenLayout and          *)
(* updateComponentsScreen.  The screens take the new surface (the options  *)
(* only while in progress, the game only while there is one), the message  *)
(* box and the FadeAction do not.  Then the event goes on to the screen on *)
(* top, of which none looks at it.                                         *)
KeepsOld ==
    \/ Top = "MENU_GAME" /\ phase = "IN_MSGBOX"
    \/ fading
    \/ Top = "MENU_OPTIONS" /\ ~optInProgress

UpdatedButHelp ==   \* mutant: the help is not told
    {"App", "MENU_ROOT"} \cup Views \cup (IF noGame THEN {} ELSE {"MENU_GAME"})
        \cup (IF optInProgress THEN {"MENU_OPTIONS"} ELSE {})
UpdatedComponents ==
    {"App", "MENU_ROOT", "MENU_HELP"} \cup Views \cup (IF noGame THEN {} ELSE {"MENU_GAME"})
        \cup (IF optInProgress THEN {"MENU_OPTIONS"} ELSE {})

ShownAgain ==       \* mutant: like the options, the screen on top is shown anew
    /\ result = "CONTINUE"
    /\ fresh' = UpdatedComponents
    /\ cut' = KeepsOld
    /\ view' = [v \in Views |-> IF On(v) THEN "INIT" ELSE view[v]]
    /\ UNCHANGED <<menu, game, fading, dialogs, music, result>>
Resize ==
    /\ result = "CONTINUE"
    /\ fresh' = UpdatedComponents
    /\ cut' = KeepsOld
    /\ result' = IF Top \in {"QUIT", "NOTHING"} THEN "SUCCESS" ELSE result
    /\ UNCHANGED <<menu, game, views, dialogs, music>>

(* A FadeAction that is begun draws on the surface it is given; one that   *)
(* is in progress is not begun again.                                      *)
Fade(s) ==
    /\ fading' = TRUE
    /\ fresh' = IF fading THEN fresh ELSE Given(fresh, s, "Fade")

(* The state WAIT_FOR_FADING: the frames of the fade, the last of which    *)
(* draws nothing.                                                          *)
Waiting ==
    \/ On("MENU_GAME") /\ phase \in {"FADING_IN", "FADING_AWAY"}
    \/ \E v \in Views : On(v) /\ view[v] \in {"FADE_TO_IN_PROGRESS", "FADE_TO_TERMINATED"}

FadeFrame ==
    /\ Waiting /\ fading
    /\ fresh' = Drawn(fresh, "Fade")
    /\ UNCHANGED <<menu, game, views, dialogs, cut, music, result>>

FadeOver ==
    /\ Waiting /\ fading
    /\ fading' = FALSE
    /\ UNCHANGED <<menu, game, view, dialogs, surfaces, music, result>>
-----------------------------------------------------------------------------
(* The game: an event or a frame of it moves its phase as GameScreen says, *)
(* and may draw; a message box takes the surface of the game.              *)
GameDraws ==
    LET boxed == IF phase' = "IN_MSGBOX" /\ phase # "IN_MSGBOX"
                 THEN Given(fresh, "MENU_GAME", "MsgBox") ELSE fresh
    IN fresh' \in {boxed, Drawn(boxed, "MENU_GAME")}

GameEvent ==
    /\ On("MENU_GAME")
    /\ Game!Event \/ (phase \in Game!Listens /\ UNCHANGED <<phase, noGame>>)
    /\ GameDraws
    /\ UNCHANGED <<menu, caption, views, dialogs, cut, music, result>>

(* A click on the sound button may also drop a pile that is being dragged. *)
ToggledCaption == IF caption = "ON" THEN "OFF" ELSE "ON"   \* mutant: the caption just flips
CaptionAfterClick ==
    IF IsPlayingMusic(music) /\ music.paused THEN "ON" ELSE "OFF"

BtToggleSoundClick ==
    /\ On("MENU_GAME") /\ phase \in Game!Listens /\ caption # "HIDDEN"
    /\ music' = IF ~IsPlayingMusic(music) THEN music
                ELSE IF music.paused THEN ResumeMusic(music) ELSE PauseMusic(music)
    /\ caption' = CaptionAfterClick
    /\ phase' \in {phase, "IN_GAME"}
    /\ fresh' = Drawn(fresh, "MENU_GAME")
    /\ UNCHANGED <<menu, noGame, views, dialogs, cut, result>>

GameFirstFrame ==
    /\ On("MENU_GAME") /\ Game!FirstFrame
    /\ IF TouchWithoutMouse THEN UNCHANGED <<fading, fresh>> ELSE Fade("MENU_GAME")
    /\ UNCHANGED <<menu, caption, view, dialogs, cut, music, result>>

GameFrame ==
    /\ On("MENU_GAME")
    /\ \/ Game!FirstScene /\ ~(Waiting /\ fading)
       \/ Game!Play
       \/ phase = "IN_GAME" /\ UNCHANGED <<phase, noGame>>
    /\ GameDraws
    /\ UNCHANGED <<menu, caption, views, dialogs, cut, music, result>>

GameBoxFrame ==     \* the message box draws, or a zoom under it
    /\ On("MENU_GAME")
    /\ Game!Answered \/ (phase = "IN_MSGBOX" /\ UNCHANGED <<phase, noGame>>)
    /\ \E s \in {"MsgBox", "MENU_GAME"} : fresh' = Drawn(fresh, s)
    /\ UNCHANGED <<menu, caption, views, dialogs, cut, music, result>>

GameFadingOut ==
    /\ On("MENU_GAME") /\ Game!FadingOut
    /\ Fade("MENU_GAME")
    /\ music' = Silenced(music)
    /\ UNCHANGED <<menu, caption, view, dialogs, cut, result>>

GameDone ==
    /\ On("MENU_GAME") /\ Game!Terminated /\ ~(Waiting /\ fading)
    /\ backToMenuRootWithMusic(Silenced(music))
    /\ UNCHANGED <<focused, caption, views, dialogs, surfaces, result>>
-----------------------------------------------------------------------------
(* Credits and high scores.                                                *)
ViewGoes(v, s) == view' = [view EXCEPT ![v] = s]

DismissView ==      \* ESC, RETURN, a finger, a mouse button
    /\ \E v \in Views : /\ On(v) /\ view[v] \in {"IN_PROGRESS", "IN_PROGRESS_WAIT"}
                        /\ ViewGoes(v, "DONE")
    /\ UNCHANGED <<menu, game, fading, dialogs, surfaces, music, result>>

ViewInit(v) ==
    /\ On(v) /\ view[v] = "INIT"
    /\ IF TouchWithoutMouse
       THEN ViewGoes(v, "IN_PROGRESS") /\ UNCHANGED <<fading, fresh>>
       ELSE ViewGoes(v, "FADE_TO_IN_PROGRESS") /\ Fade(v)
    /\ music' = PlayMusic(music, "CREDITS")
    /\ UNCHANGED <<menu, game, dialogs, cut, result>>

ViewDone(v) ==
    /\ On(v) /\ view[v] = "DONE"
    /\ ViewGoes(v, "FADE_TO_TERMINATED") /\ Fade(v)
    /\ UNCHANGED <<menu, game, dialogs, cut, music, result>>

(* CreditsView goes on in the frame in which it finds the fade over.       *)
Scrolling == \/ view["MENU_CREDITS"] = "IN_PROGRESS"
             \/ view["MENU_CREDITS"] = "FADE_TO_IN_PROGRESS" /\ ~fading

CreditsScroll ==
    /\ On("MENU_CREDITS") /\ Scrolling
    /\ ViewGoes("MENU_CREDITS", "IN_PROGRESS")
    /\ fresh' = Drawn(fresh, "MENU_CREDITS")
    /\ UNCHANGED <<menu, game, fading, dialogs, cut, music, result>>

CreditsTimeUp ==    \* the text is at its end, and 20 seconds are over
    /\ On("MENU_CREDITS") /\ Scrolling
    /\ ViewGoes("MENU_CREDITS", "FADE_TO_TERMINATED")
    /\ fading' = TRUE
    /\ fresh' = Given(Drawn(fresh, "MENU_CREDITS"), "MENU_CREDITS", "Fade")
    /\ UNCHANGED <<menu, game, dialogs, cut, music, result>>

LeftTerminated == [view EXCEPT !["MENU_CREDITS"] = "TERMINATED"]   \* mutant: _state is not reset
CreditsReset == [view EXCEPT !["MENU_CREDITS"] = "READY_TO_START"]

CreditsDone ==
    /\ On("MENU_CREDITS") /\ view["MENU_CREDITS"] = "FADE_TO_TERMINATED" /\ ~fading
    /\ view' = CreditsReset
    /\ backToMenuRootWithMusic(Silenced(music))
    /\ UNCHANGED <<focused, phase, caption, fading, dialogs, surfaces, result>>

(* HighScore takes a frame of its own for every state.                     *)
HighScoreFrame ==
    LET after == [FADE_TO_IN_PROGRESS |-> "IN_PROGRESS", FADE_TO_TERMINATED |-> "TERMINATED",
                  IN_PROGRESS |-> "IN_PROGRESS_WAIT", IN_PROGRESS_WAIT |-> "IN_PROGRESS_WAIT"]
        s == view["MENU_HIGHSCORE"]
    IN /\ On("MENU_HIGHSCORE") /\ s \in DOMAIN after /\ ~(Waiting /\ fading)
       /\ ViewGoes("MENU_HIGHSCORE", after[s])
       /\ \/ UNCHANGED fresh      \* less than 30 ms since it last drew
          \/ ~Waiting /\ fresh' = Drawn(fresh, "MENU_HIGHSCORE")
       /\ UNCHANGED <<menu, game, fading, dialogs, cut, music, result>>

HighScoreTimeUp ==  \* 20 seconds are over
    /\ On("MENU_HIGHSCORE") /\ view["MENU_HIGHSCORE"] \in {"IN_PROGRESS", "IN_PROGRESS_WAIT"}
    /\ ViewGoes("MENU_HIGHSCORE", "DONE")
    /\ fresh' = Drawn(fresh, "MENU_HIGHSCORE")
    /\ UNCHANGED <<menu, game, fading, dialogs, cut, music, result>>

HighScoreDone ==
    /\ On("MENU_HIGHSCORE") /\ view["MENU_HIGHSCORE"] = "TERMINATED"
    /\ ViewGoes("MENU_HIGHSCORE", "READY_TO_START")
    /\ backToMenuRootWithMusic(music)
    /\ UNCHANGED <<focused, phase, caption, fading, dialogs, surfaces, result>>
-----------------------------------------------------------------------------
(* Help and options.                                                       *)
HomePage ==         \* ESC, UP, or the button
    /\ On("MENU_HELP") /\ isShown
    /\ isShown' = FALSE
    /\ UNCHANGED <<menu, game, views, optInProgress, surfaces, music, result>>

HelpFrame ==
    /\ On("MENU_HELP") /\ isShown
    /\ fresh' = Drawn(fresh, "MENU_HELP")
    /\ UNCHANGED <<menu, game, views, dialogs, cut, music, result>>

HelpDone ==
    /\ On("MENU_HELP") /\ ~isShown
    /\ backToMenuRootWithMusic(music)
    /\ UNCHANGED <<focused, phase, caption, views, dialogs, surfaces, result>>

OptionsEnd ==       \* also when the window is closed
    /\ On("MENU_OPTIONS") /\ optInProgress
    /\ optInProgress' = FALSE
    /\ UNCHANGED <<menu, game, views, isShown, surfaces, music, result>>

CheckboxMusicClicked ==
    /\ On("MENU_OPTIONS")
    /\ music' \in {PlayCurrentMusic(EnableMusic(music)), DisableMusic(StopMusic(music))}
    /\ UNCHANGED <<menu, game, views, dialogs, surfaces, result>>

OptionsFrame ==     \* draws; back to the menu with the same music when done
    /\ On("MENU_OPTIONS")
    /\ fresh' = Drawn(fresh, "MENU_OPTIONS")
    /\ IF optInProgress THEN UNCHANGED <<histMenu, noGame>> ELSE LeaveMenu
    /\ UNCHANGED <<focused, phase, caption, views, dialogs, cut, music, result>>
-----------------------------------------------------------------------------
ShellEvent ==
    \/ Focus \/ Select \/ QuitMenu \/ EndProgram \/ Resize
    \/ GameEvent \/ BtToggleSoundClick
    \/ DismissView \/ HomePage \/ OptionsEnd \/ CheckboxMusicClicked

ViewFrame ==
    \/ \E v \in Views : ViewInit(v) \/ ViewDone(v)
    \/ CreditsScroll \/ CreditsDone
    \/ HighScoreFrame \/ HighScoreDone

TimeUp == CreditsTimeUp \/ HighScoreTimeUp

ShellFrame ==
    \/ RootFrame \/ FadeFrame \/ FadeOver
    \/ GameFirstFrame \/ GameFrame \/ GameBoxFrame \/ GameFadingOut \/ GameDone
    \/ ViewFrame \/ TimeUp
    \/ HelpFrame \/ HelpDone \/ OptionsFrame

Next == ShellEvent \/ ShellFrame

Spec == Init /\ [][Next]_vars

(* Frames keep coming and the clock runs; nothing is assumed of the player.*)
FairSpec == Spec /\ WF_vars(FadeOver) /\ WF_vars(ViewFrame) /\ WF_vars(TimeUp)
-----------------------------------------------------------------------------
(* PROPERTIES                                                              *)

(* Every way into a screen is matched by one way out: the stack is the     *)
(* exit, the menu on it and at most one screen on that, no screen is       *)
(* ongoing that is not on top, and there is a game exactly when the game   *)
(* is on top - the condition under which MainLoopEvent and MainLoopIterate *)
(* may use its callbacks.                                                  *)
MenuStack ==
    /\ histMenu \in {<<"QUIT">>, <<"QUIT", "MENU_ROOT">>} \cup
                    {<<"QUIT", "MENU_ROOT", s>> : s \in Screens \cup {"NOTHING"}}
    /\ noGame <=> Top # "MENU_GAME"
    /\ \A s \in Screens : IsOngoing(s) => Top = s

(* No screen is found "already started" when the player comes back to it.  *)
NeverFails == result # "FAILURE"

(* After a resize the window, the menu and the screen on top draw on the   *)
(* same surface, unless the resize cut into a fade, a message box or the   *)
(* end of the options, which still draw on the old one.                    *)
ScreensAgree ==
    ~cut => /\ {"App", "MENU_ROOT"} \subseteq fresh
            /\ Top \in Screens => Top \in fresh

(* What is heard belongs to the screen, or nothing is heard; and only the  *)
(* game leaves its music paused.                                           *)
TrackOf(s) == CASE s = "MENU_GAME" -> "PLAY"
                [] s \in Views \cup {"MENU_HELP"} -> "CREDITS"
                [] OTHER -> "INIT"
RightMusic ==
    music.track # "NONE" => /\ music.track = TrackOf(Top)
                            /\ ~music.active => Top = "MENU_GAME"

(* The sound button tells whether the music of the game is heard, although *)
(* _musicPaused may still be set from an earlier game.                     *)
CaptionTells ==
    On("MENU_GAME") /\ caption # "HIDDEN" /\ music.track # "NONE"
        => (caption = "ON" <=> music.active)

(* Credits and high scores end by themselves, however often the window is  *)
(* resized meanwhile.                                                      *)
ShowsEnd == \A v \in Views : Top = v ~> Top # v
=============================================================================
