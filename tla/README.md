# A formal model of Solitario

AndroSolitario is a Klondike solitaire for the desktop, Android and the browser,
written in C++ on SDL 3 (`src/app/jni/src`, about 13000 lines; the rest of the
tree is SDL and its satellites, assets and build projects). This directory holds
TLA+ modules for the parts of it that have behaviour worth checking, TLC
configurations for small instances and TLAPS proofs for all instances.

## The system

Everything runs on one thread: SDL calls `SDL_AppEvent` once per queued event and
`SDL_AppIterate` once per frame (16 ms). What makes it hard is not threads but that
nothing waits: a move of cards, a fade, a message box or a victory animation is
spread over many frames, any number of events falls in between two of them, and
what comes next is remembered in state members and callbacks.

| Component | State | Operations | Properties that make it right |
|---|---|---|---|
| Cards and piles (`CardGfx`, `CardStackGfx`, `CardRegionGfx`) | a vector of cards per region | deal, pop, push, reverse, turn, `CanDrop` | piles lose nothing; only legal drops are accepted |
| Game machine (`SolitarioGfx`) | `_state` and its four companions, `_dragStack`, two callbacks, two drag pointers, message box | `HandleIterate`, taps, drags, drops, new game, victory | cards are conserved, play is legal, pointers are set when dereferenced, moves end, a win is noticed and saved once |
| Mouse/keyboard, touch | which buttons or fingers are down; the double-click clock | `HandleEvent` | events between two frames may come in any order |
| Message box, buttons (`MesgBoxGfx`, `ButtonGfx`) | type, result, in progress; visible, enabled | click, key | an answer leads to the state its question promised |
| Score and clock (`SolitarioGfx`, `CurrentTime`) | score, elapsed seconds | points per move, penalties, floor, bonus | every second is charged once; the bonus is the promised one |
| High scores (`HighScore`) | ten entries, a file | insert, save, load | a ranking at all times; loss only by a crash while saving |
| Application shell (`AppGfx`, `Main`, `GameSelector`) | stack of menus, one object per screen, the window's surface | enter and leave a screen, dispatch events and frames, resize | the stack and the screen shown agree; all screens draw on the same surface |
| Menu, options, help, credits, high-score view | a small state machine each, with fades | keys, mouse, fingers | shows end by themselves; confirmed settings are the ones in the file |
| Settings file (`GameSettings`) | fields, a file | save, load | what is loaded is one whole set of settings or the defaults |
| Music (`MusicManager`) | enabled, paused, current track | play, stop, pause, resume | the music belongs to the screen; the sound button tells the truth |
| Fading, drawing, languages, decks, traces | surfaces, string tables | drawing | not behaviour |

The shell calls `HandleEvent`/`HandleIterate` of the screen on top of its menu stack;
the game answers `done` and is deleted when the next game starts; the game calls back
into the shell to save a score; buttons and message boxes call back into the screen
that shows them, inside the event that clicks them.

## Modules

The game:

* `SolitarioCards`: cards, regions, and the pure operations on piles. A pile is the
  sequence of its cards from bottom to top. Regions carry the index they have in
  `_cardRegionList`. Suits, ranks and tableau piles are constants (the program has
  4, 10 or 14, and 7).
* `SolitarioGame` (extends it): the state machine of a game. The variables are the
  members of `SolitarioGfx` under their own names without the leading underscore;
  there is one action per branch of `HandleIterate`, one operator per handler.
  The part of an action that two input builds share is an operator with the state
  the machine stays in as a parameter.
* `SolitarioMouse` (extends it through `SolitarioScreen`): the desktop build. A tap is only recorded by the
  event (`_state` becomes `IN_SINGLE_TAPCLICK` or `IN_DOUBLE_TAPCLICK`) and done by
  the next frame; the mouse-up clicks a button and ends a drag at once.
* `SolitarioTouch` (likewise): the touch build, where the finger event
  itself runs the tap, in whatever state the machine is.
* `Klondike`: the rules of the game on one variable, each move one step. An abstract
  specification of the game as the player sees it.
* `GameScreen`: the phases of a game and when it is done, without cards. An abstract
  specification of the game as the application shell sees it.
* `SolitarioTable` (extends `SolitarioMouse`): the mapping of the mouse game to `Klondike`.
  The cards in `dragStack` count as lying where they came from.
* `SolitarioScreen` (extends `SolitarioGame`, and both builds extend it): the mapping of the
  game to `GameScreen`. Each group of values of `_state` is a phase, and a wait for the end
  of a fade takes the phase of the state behind it.

Scores:

* `HighScore`: the score table with its file, one step per entry written, a crash
  anywhere, and the load that follows.
* `GameScore` (extends it): the clock of a game (`CurrentTime`), the points, the second's
  penalty, the floor of `drawScore`, the unsigned bonus, and the victory that offers the
  score to the table. Many games and many runs of the program follow each other; the
  table's steps are those of `HighScore` (the lemma `GamesUseTable`).

The application:

* `MusicManager`: the manager's flags and the music channel of SDL_mixer as a record,
  its operations as functions from one record to the next.
* `AppShell` (extends it): `_histMenu` and the focus of the menu, entering and leaving of
  every screen, events and frames of credits, high scores, help and options as far as
  the shell sees them, the sound button, fades, and who holds the newest surface after
  a resize. The game in it is an instance of `GameScreen`, which both builds
  implement: the two specifications meet there and neither has to carry the other's
  state.
* `GameSettings`: settings, what `SaveSettings` writes and `LoadSettings` reads, what a
  crash leaves of it, as operators on sequences of items.
* `OptionsGfx` (extends it and `MusicManager`): the options screen, its controls, what is
  in force at once and what with OK, the ways to leave it, and the file.

`SolitarioGame_proofs` (what both builds share), `SolitarioMouse_proofs`,
`SolitarioTable_proofs`, `SolitarioTouch_proofs`, `GameScore_proofs`, `MusicManager_proofs`,
`OptionsGfx_proofs` and `AppShell_proofs` hold the theorems; the modules `MC*` decks, scores and names for TLC.

Definitions marked `mutant` are not part of a model: each is a definition with a
plausible bug in it, and a property of a run is shown to notice it when it takes the
place of the definition below it.

### What the models choose and leave out

Where the pointer is, is a choice: any region, any card of a fanned-out pile, the top
card of the others. Which of the regions that accept a cargo it overlaps most is a
choice too (`DropTargets`), and so is whether a second click comes within 300 ms (the
first of a game has none before it: `clicked`, `tapped`) and whether a dropped card needs a zoom (`AfterDrop`). A fade and a zoom take some
frames; the frames in between change nothing that is modelled, so they are stutter
(in `AppShell` they draw, so there they are the action `FadeFrame`). Errors that
functions return end the program; they are left out, but for the two the code really
can return without a fault of the machine: a screen that is already started
(`NeverFails`), and a name that cannot be saved (`failed`).

Some variables have no counterpart in the code and only observe. In the game `saves`
counts the calls of `SaveScore` since the deal up to `MaxSaves` (2: none, one, more than
one), `dealtStock` remembers the stock as dealt, and `interrupts` counts the commands
given while cards are off the table, up to the constant `Interrupts`. In `GameScore`
`points`, `forgiven` and `late` keep what the moves brought, what the floor gave back and
whether a frame came late. In `AppShell` `cut` says that a resize came between a surface
being taken and its last use. In `OptionsGfx` `loose` says that settings were touched in a
way that OK does not save.

In `OptionsGfx` the five settings are three: `lang` stands for language and background,
which are in force with the next frame, `name` for name and deck, which wait for OK.

## Runs

| Run | Instance | What it shows |
|---|---|---|
| `MouseCards` | 2 suits x 3 ranks, 2 tableau piles, 2 deals, left button, no commands | Cards are conserved, foundations and tableau are well built, the stock keeps its order through redials, a score is saved only for a finished table, and the machine implements Klondike. |
| `MouseInterrupted` | 1 suit x 2 ranks, 1 pile; a new game or victory may come once while cards are off the table | The invariant of the proofs; no card is lost; cargo and destination are there when used; the reservation that blocks the stock is held by a move that will give it back, and is left behind only when something takes the move's place before its callback (`LeftByCommand`). |
| `MouseProgress` | the same deck, all commands between moves, fair frames | Types; no state member is read before it is set; Klondike and the game screen are implemented also when games are abandoned, won by the victory key, left and started again; cards off the table are put down or follow the pointer. |
| `TouchCards` | the same deck, one finger, the game may be left and started again | Types; cards are conserved and state members set although taps interleave with moves; the game screen is implemented by this build too. |
| `HighScore` | 3 places, seconds of 2 ticks, minutes, hours and days of 2, 17 ticks, points 3 and -2, floor -3, integers modulo 1024 | The clock is exact or late in the way the code makes it late; the penalty is exact; the bonus is the promised one; ranking, defaults, file and memory agree; loss only in an interrupted save. |
| `AppShell` | the desktop build with a menu item to quit | The menu stack, the music, the caption of the sound button and the surfaces are right; credits and high scores end by themselves. |
| `Options` | 2 languages, music, names that are empty, cut off, of 8, 256 and 300 characters | What is loaded is one whole set of settings or the defaults; outside the options it is the set in force. |

Five runs end in a counterexample; each is a disagreement of the code with what the
program says of itself (`findings` in `PROJECT.json` quotes both):

| Run | Counterexample |
|---|---|
| `DragCutByNewGame` | While a pile follows the pointer a new game is asked for and confirmed: it deals the whole deck although cards are still in the drag, where the next mouse-up finds them. |
| `WinningMoveUnpaid` | The drag that wins is saved before its points are given. |
| `WinByDoubleClick` | The win by double click stays unnoticed until the next click. |
| `TouchSecondFinger` | Another finger drops the cargo that `First` then asks for. |
| `SettingsLost` | OK with an empty name leaves the file open; at the program's end its header is written over the name saved since. |

Also met while modelling, allowed by the models and no run of their own:

* When the button whose press dismisses the victory animation is up again before the
  next frame, the mouse-up finds the won table once more: bonus and high score are given
  a second time. A press and release between two frames leave a pile that follows the
  pointer with no button held.
* The N key is accepted in the first steps of a drag. When the move does not go on
  afterwards (another click comes before the frame, or a Yes deals a new game), its
  callback never runs, `_p_CardStackForDrag` stays set, and clicks on the stock and double
  clicks are refused until another card is dragged.
* In the touch build the finger that presses a button also taps the pile under it, and a
  move that begins takes the place of the question the button has just asked.
* An event that comes before the frame a state was meant for takes its place: a tap
  before the fade in, ESC in a fade, a mouse-down after the last frame. A game that was
  about to end goes on then, in silence if the music was stopped, with the caption still
  saying ON (`CaptionTells` speaks of a music that is playing).
* `_musicPaused` outlives the game that set it: after pause, leave, new game, the first
  click on the sound button only clears the flag.
* The message box and a fade keep the surface they were given; after a resize their next
  frame puts the old one back (`cut`), until the menu is drawn again.
* RETURN with nothing focused enters the item `NOTHING`: no screen, and the next event
  ends the program. The credits ignore `SDL_EVENT_QUIT`.
* Language and background are in force before OK; closing or resizing the window keeps
  them without saving. A second OK before the frame compares with what `Show` found, so a
  change taken back in between stays in the file (`loose`). The music check box is not
  undone by leaving.

### Bounds and why they are enough

The control of a move does not depend on how many cards there are, only on which
piles are empty, so one suit of two cards (one on the tableau, one in the stock)
reaches every state of the machine with every combination of callbacks: empty and
non-empty stock, redial, double tap to an empty and to a started foundation, a win.
What depends on cards is checked on two suits of three: runs of two cards, colours,
face-down cards that get turned, kings to empty piles, redials of up to three cards.
Two deals are used because a single one need not bring each kind of move about.
`Interrupts = 1` lets one command fall into a move, in every place of it; the proofs
need no such bound. The run with two fingers only looks for its counterexample.

In `HighScore` a whole day of the clock is 16 ticks and `LastTick` is 17, so seconds,
minutes, hours and the day all run over, and a frame may find any number of seconds at
once. `MaxPoints` and `MaxScore` bound the points of moves; with them a score may be
negative, touch the floor, be saved, miss the table, tie with a default or beat all
three. `Width` stands for 2^64: the bonus wraps around it, the score does not come near.
The entries of the table are 16 bits; the run stays below (`ScoreLimit`), the theorems
say what follows when the program does, and the hazard list what if not.

`AppShell` and `OptionsGfx` have no bounds: their state is finite once languages and
names are given (115 thousand and 3 million states). The names are one of each kind the
code tells apart: empty, of a length the byte can hold, of a length that wraps to zero
and of one that wraps to something else, and one cut off by a crash.

Deadlock is not checked in two runs. `TouchCards`: after a second tap has taken the cargo
away the machine really stops at the assertion of `First` (`TouchSecondFinger`).
`AppShell`: the program ends.

### Fairness

`FairSpec` of the game assumes that frames keep coming, which SDL guarantees while the
program runs. `FairMouseSpec` (only for `WinNoticed`) also assumes that no button is held
for ever. `FairSpec` of the shell assumes the same of the frames of a view, that a fade,
which is made of finitely many frames, ends (`FadeOver`), and that the 20 seconds of
`SDL_GetTicks` pass (`TimeUp`). Nothing is assumed about what the player does next;
weak fairness is enough because nothing the player does in these states disables a
frame for long: an event that changes the state leads to the end by itself.

## Proofs

All theorems hold for every value of the constants that satisfies the assumptions named
in the modules. None of the properties below but the types is inductive by itself.

**The mouse game** (`SolitarioMouse_proofs`, over the lemmas about piles and the
operations of the game in `SolitarioGame_proofs`): `TypeCorrect`, `ControlHolds`, and from it `StateAlwaysSet`,
`CargoAlwaysAtFirst` and `DropRegionAlwaysKept`. That the cargo is there in
`INITDRAG_STEP2` needs that nobody took it since the tap, that the only way back into a
move is the answer No to a message box that was opened during it (`OnTheWay`), and that a
pile that follows the pointer excludes another move (`OneMoveAtATime`); that the answer
leads somewhere needs to know which members are set in which state (`StateMembers`).
`ControlInv` is the conjunction of these; together with the type invariant it is
inductive, one lemma per action or group of actions. TLC checks the same formula in
`MouseInterrupted`. Assumptions: `CardsAssumption`, `GameAssumption` (a shuffle is an
order of the deck, and the deck is large enough to deal) and `MouseAssumption`.

**Where the cards are** (`SolitarioMouse_proofs`, over `SolitarioGame_proofs`, which says
which cards a pile holds after each operation, that a deal puts each card of the deck
on one pile, and that a tap, a drop and a lambda neither lose nor double one).
`NothingLost` holds however often a new game or the victory key cuts into a
move: a step only moves cards between the drag and a pile, or deals anew. The other
theorems assume `Interrupts = 0`, as `MouseCards` does; what an interrupted move does is
shown by `DragCutByNewGame`. Their invariant `ICards` says that no card is anywhere twice
(`OnceEach`), that every pile fits its region (`TableFits`), that cards are off the table
only while their move is under way (`Busy`), and that these cards fit where they were
taken from or where they are going (`CargoFits`). Each part needs the others: a pile that
comes back from the pointer is well built because what was left behind is what it was
lifted from, and that is so because nothing else moves in between. With the control
invariant it gives `EveryCardOnce`, `FoundationsAlwaysBuilt` and `TableauAlwaysBuilt`.
`SavedGamesFinished` is a counting argument: `Won` only counts the cards of each
foundation, and as no card is there twice the foundations are of different suits, hold
every card of each, and so nothing can lie elsewhere (`WonMeansDone`).

**The mouse game is solitaire** (`SolitarioTable_proofs`): `GameIsKlondike`, again with
`Interrupts = 0`. The mapping `CardsSeen` lets cards under way lie where they were taken
from, so taking cards off, zooming and putting them back are stutters, and the step that
puts them down elsewhere is the legal move. That it is legal needs the invariant of the
piles: what is let go of was lifted as a face-up run from the top of its pile; a card the
game flies to a foundation fits there, is a single one, and comes from a tableau or the
face-up pile; when the stock is redialled both stock piles are empty on the table, for all
their cards are under way (`CargoFits`).

The order of the stock is a theorem about the whole history of a game:
`TalonStaysInOrder` (also `Interrupts = 0`) is an invariant of Klondike that the refinement
carries over. `SeenInOrder` says of the cards of the talon as Klondike sees them, the stock
and then the face-up pile reversed, that they are in the order of the deal, the stock face
down and the pile face up. A new deal starts it (`DealsInOrder`); every legal move keeps it
(`PlaysInOrder`): drawing and redialling leave this sequence as it is, and a card taken from
the face-up pile leaves the rest in order. Between moves what Klondike sees is the table,
and that is `TalonInOrder`.

**The touch game** (`SolitarioTouch_proofs`): for any number of fingers. What the mouse
build rests on is gone there: a second finger takes cards while a move is under way, its
cargo merges with the one that is there, a callback may find no cargo at all
(`TouchSecondFinger`). What is still true is: whatever is in the drag, a region was
selected that it can go back to (`CanGoBack`), and the state a frame goes on in was set
(`GoesOn`). With the types this is inductive (`ITouch`) and gives `TouchTyped`,
`TouchStateAlwaysSet` and, with the cards followed as above, `NothingLostByTouch`: no card
is lost, also when commands cut into moves. With `Interrupts = 0`, cards are off the table
only in `IN_GAME` and the states of a drag (`CargoPlaces`), so no deal can come between,
and no card is there twice: `TouchCardsOnce`, and `TouchSavesFinished` by the counting
argument of the mouse build. `NoCardLost` is no property of a run with fingers, for
`CardsConserved` says more; with two fingers and interrupted moves only the theorem does.

**Both builds are a game screen**: `GameIsScreen` (`SolitarioTable_proofs`) and
`TouchIsScreen` (`SolitarioTouch_proofs`), initial states map to initial states and every
step to a step of `GameScreen` or a stutter. The lemmas, one per frame and event, are in
`SolitarioGame_proofs` and use only that fades, zooms and message boxes lead to states a
screen can go on in (`LeadsOn`). The mouse build has that from `ControlInv` and one more
invariant, that a fade leads only to `FIRST_SCENE` or `TERMINATED` (`FadeAfter`); the touch
build from `ITouch`, and its only fade is the one that leaves (`FadesAway`). With this,
`AppShell`, which has only the `GameScreen`, speaks of the real game in both builds.

**The application shell** (`AppShell_proofs`): three inductive invariants, each using the
one before. `IStack` (stack, game and ongoing screens agree) gives `ShellTyped`,
`StackBalanced` and `ScreensStartOnce`: a screen is entered only when it is not under way,
because every way of leaving it either ended it or keeps it on the stack. `ISound` gives
`SoundRight` and `CaptionTrue`: without hardware music is disabled, disabled means silence,
and in the menus and the options the remembered music is the menu's, which is what
makes it right that the check box of the options plays the "current" music; the caption
agrees with `_musicPaused` or with the music where both could be asked. `ISurfaces`
gives `SurfacesAgree`: the menu always has the newest surface, and unless a resize has
cut into them so have the application, the screen on top, a fade and a message box that
are going on.

**Options and settings** (`OptionsGfx_proofs`, over `MusicManager_proofs`): `OptionsTyped`,
`SettingsInStep`, `SettingsWhole`. The inductive invariant `IOptions` says that the file
holds what `Show` captured while the options are open (then it is `prev`, not the live
settings, that is in the file), and that only a save that fails adds a late header, all
of size 0. Nothing is assumed of names but their sizes.

**Scores** (`GameScore_proofs`): `RankingHolds` and `LossNeedsCrash` for
every table length and all strictly falling defaults; the assumption `ScoresFit` is
needed, for `SaveScore` accepts scores up to 1000000 and stores 16 bits of them.
`TimeIsKept` and `ClockNeverAhead` for every length of seconds, minutes and days: no part
of a second is lost or charged twice, and the clock is never ahead and exact until a frame
comes late; `ScoreTyped` with them. `FinalScoreHolds` under
the condition that bonus and score fit into the integers. `TableKept` and
`RankingInGames` say of any number of games that no place loses points but by a restart
in the middle of a save, and that the table is a ranking, under the condition that the
scores offered are among those `HighScore` is about. `TableTyped`
and `FileAgrees` need no such condition: memory and file agree, and survive crashes,
whatever the games end with, for what is stored is what is loaded.

Only model-checked: liveness (`CargoNotForgotten`, `ShowsEnd`), which is out of the
prover's reach, and `LeftByCommand`. Every other invariant, action property and refinement
that a passing run checks is a theorem. The proofs contain no induction over data (the values of recursive
functions are not computed in them) and reach no recursive operator.

## Not modelled

* Drawing, coordinates, hit tests, overlap ratios, text layout, the alpha of a fade: the
  models choose where the pointer is and whether something overlaps.
* Languages, deck tables, traces and error texts: tables and logging without state.
* The storage of scores and settings in the browser and SDL's Windows file back end, a
  full disk, and the creation of windows and textures.
* The single characters of a name, the focus of the text input, and ENTER on the
  on-screen keyboard, which deletes the keyboard inside its own click handler and is
  undefined from then on.
* Fullscreen, sound effects, volume, and the time a music takes to fade out.
* Which move gives which points is a choice in `GameScore`, and so a lone ace carried from
  one foundation to another, paid each time, is not found there.
* SDL, SDL_image, SDL_mixer, SDL_ttf and the platform projects, which are nearly all the
  lines of the tree: vendored code. What the program uses of SDL_mixer is in
  `MusicManager`.

What could be added: the composition of `GameScore` with the moves that earn the points, and
the storage of the browser.
