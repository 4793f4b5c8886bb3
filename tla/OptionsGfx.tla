----------------------------- MODULE OptionsGfx -----------------------------
(***************************************************************************)
(* OptionsGfx over GameSettings: the options screen from its opening to    *)
(* the frame that leaves it, the settings in force, and their file, which  *)
(* is written behind OK and read when the program starts.                  *)
(*                                                                         *)
(* Some edits are in force at once (the language with the next frame, the  *)
(* music with the click), the others with OK.  The screen can be left in   *)
(* three ways that save nothing: the window is closed, its size changes    *)
(* (Show starts over), the program dies.                                   *)
(*                                                                         *)
(* An error in SaveSettings leaves the file open, truncated by "wb", with  *)
(* the header in the buffer of the C library; the library writes it to the *)
(* beginning of the file when the program exits, whatever is there then.   *)
(* That is SDL's stdio back end (Linux, macOS, Android); the builds for    *)
(* Windows and the browser keep the settings otherwise.                    *)
(***************************************************************************)
EXTENDS GameSettings, MusicManager

VARIABLES
    settings,    \* CurrentLanguage, MusicEnabled, PlayerName
    prev,        \* _prevLangId, _prevMusicEnabled, _prevName
    controls,    \* the combo boxes, the check box and the text input
    inProgress,  \* _inProgress
    onTop,       \* the options are on top of _histMenu
    keyboard,    \* _p_KeyboardGfx is not NULL
    music,       \* the music manager
    file,        \* the settings file
    unflushed,   \* headers of the files that SaveSettings left open
    failed,      \* an error was returned to AppGfx: the program ends
    loose        \* no code: the settings were touched other than by OK, or
                 \* could not be saved as they are, since they last were
screen == <<prev, controls, inProgress, onTop, keyboard>>
disk   == <<file, unflushed>>
vars   == <<settings, screen, music, disk, failed, loose>>

TextLimit == 20      \* of TextInputGfx, not of the on-screen keyboard

Item == <<Langs, BOOLEAN, Nat, Names>>
OptionsTypeOK ==
    /\ {settings, prev, controls} \subseteq Settings
    /\ {inProgress, onTop, keyboard, failed, loose} \subseteq BOOLEAN
    /\ music \in Music
    /\ Len(file) <= 4
    /\ \A i \in DOMAIN file : file[i] \in Item[i]
    /\ unflushed \subseteq Langs \X BOOLEAN \X {0}

(* AppGfx::Init: loadProfile, then the music manager; the first frame of   *)
(* the menu starts the music.                                              *)
MusicOfMenu(s) == {PlayMusic(Initialized(hardware, s.music), "INIT") : hardware \in BOOLEAN}

Started(s) ==
    /\ settings' = s /\ prev' = s /\ controls' = s
    /\ inProgress' = FALSE /\ onTop' = FALSE /\ keyboard' = FALSE
    /\ music' \in MusicOfMenu(s)
    /\ unflushed' = {} /\ failed' = FALSE /\ loose' = FALSE

Init ==
    /\ settings = Default /\ prev = Default /\ controls = Default
    /\ inProgress = FALSE /\ onTop = FALSE /\ keyboard = FALSE
    /\ music \in MusicOfMenu(Default)
    /\ file = <<>> /\ unflushed = {}
    /\ failed = FALSE /\ loose = FALSE
-----------------------------------------------------------------------------
(* Show, called by AppGfx to enter the options, after Initialize, which    *)
(* makes the controls anew, and by UpdateScreen.                           *)
Captured == prev' = settings /\ controls' = settings /\ inProgress' = TRUE

Show ==
    /\ ~onTop /\ ~failed
    /\ onTop' = TRUE
    /\ Captured
    /\ keyboard' = FALSE
    /\ UNCHANGED <<settings, music, disk, failed, loose>>

(* UpdateScreen, when the size of the window changes.                      *)
UpdateScreen ==
    /\ onTop /\ ~failed /\ inProgress
    /\ Captured
    /\ keyboard' = FALSE
    /\ loose' = TRUE
    /\ UNCHANGED <<settings, onTop, music, disk, failed>>
-----------------------------------------------------------------------------
(* HandleEvent: the controls.  They also listen after OK, until the frame. *)
Listening == onTop /\ ~failed

SelectLang ==
    /\ Listening /\ ~keyboard
    /\ \E l \in Langs : controls' = [controls EXCEPT !.lang = l]
    /\ loose' = (loose \/ ~inProgress)
    /\ UNCHANGED <<settings, prev, inProgress, onTop, keyboard, music, disk, failed>>

CheckboxMusicClicked ==
    /\ Listening /\ ~keyboard
    /\ controls' = [controls EXCEPT !.music = ~@]
    /\ music' = IF controls'.music THEN PlayCurrentMusic(EnableMusic(music))
                ELSE DisableMusic(StopMusic(music))
    /\ UNCHANGED <<settings, prev, inProgress, onTop, keyboard, disk, failed, loose>>

(* The text input takes twenty characters, TextFromKeyboard any number.    *)
EditName ==
    /\ Listening
    /\ \E n \in Names : /\ keyboard \/ Size[n] <= TextLimit
                        /\ controls' = [controls EXCEPT !.name = n]
    /\ UNCHANGED <<settings, prev, inProgress, onTop, keyboard, music, disk, failed, loose>>

ToggleScreenKeyboard ==
    /\ Listening
    /\ keyboard' = ~keyboard
    /\ UNCHANGED <<settings, prev, controls, inProgress, onTop, music, disk, failed, loose>>

(* OptionsEnd: the controls become the settings, and are saved if they are *)
(* not what they were in Show.                                             *)
NamelessChanged(s) ==  \* mutant: the name is not compared
    s.lang # prev.lang \/ s.music # prev.music
Changed(s) == s # prev

SaveSettings(s) ==
    /\ file' = IF SaveFails(s) THEN <<>> ELSE Written(s)
    /\ unflushed' = IF SaveFails(s) THEN unflushed \cup {Header(s)} ELSE unflushed
    /\ loose' = (Size[s.name] \notin 1..(ByteLimit - 1))

OptionsEnd ==
    /\ Listening /\ ~keyboard
    /\ inProgress' = FALSE
    /\ settings' = controls
    /\ IF Changed(controls) THEN SaveSettings(controls)
       ELSE loose' = (loose \/ ~inProgress) /\ UNCHANGED disk
    /\ UNCHANGED <<prev, controls, onTop, keyboard, music>>

(* The button OK ignores the error of OptionsEnd, ESC and RETURN do not.   *)
EndByButton == OptionsEnd /\ UNCHANGED failed
EndByKey    == OptionsEnd /\ failed' = (Changed(controls) /\ SaveFails(controls))

(* SDL_EVENT_QUIT.                                                         *)
CloseWindow ==
    /\ Listening
    /\ inProgress' = FALSE
    /\ loose' = TRUE
    /\ UNCHANGED <<settings, prev, controls, onTop, keyboard, music, disk, failed>>

(* HandleIterate: the language of the combo box is put in force; done when *)
(* no more in progress.                                                    *)
HandleIterate ==
    /\ Listening
    /\ settings' = [settings EXCEPT !.lang = controls.lang]
    /\ onTop' = inProgress
    /\ UNCHANGED <<prev, controls, inProgress, keyboard, music, disk, failed, loose>>
-----------------------------------------------------------------------------
(* The end of the program and its next start.  The C library writes the    *)
(* headers it still has, in an order of its own.                           *)
Exit ==
    /\ ~onTop \/ failed
    /\ file' \in IF unflushed = {} THEN {file} ELSE {Over(h, file) : h \in unflushed}
    /\ Started(Loaded(file'))

(* The program is killed, at any moment and in the middle of SaveSettings. *)
Crash ==
    /\ file' = file
    /\ Started(Loaded(file'))

CrashInSave ==
    /\ Listening /\ ~keyboard /\ Changed(controls)
    /\ file' \in Torn(controls)
    /\ Started(Loaded(file'))

Next ==
    \/ Show \/ UpdateScreen
    \/ SelectLang \/ CheckboxMusicClicked \/ EditName \/ ToggleScreenKeyboard
    \/ EndByButton \/ EndByKey \/ CloseWindow \/ HandleIterate
    \/ Exit \/ Crash \/ CrashInSave

Spec == Init /\ [][Next]_vars
-----------------------------------------------------------------------------
(* PROPERTIES                                                              *)

(* Whatever befalls the file - a crash in the middle of writing it, a name *)
(* that does not fit, a forgotten header written over it - the next start  *)
(* finds the defaults, or settings that were together behind one OK, with  *)
(* at worst the end of the name missing; never a mixture.                  *)
Remains(s) == {[s EXCEPT !.name = n] : n \in {s.name, CutName, NoName}}
Recovered  == {[lang |-> h[1], music |-> h[2], name |-> NoName] : h \in unflushed}
LoadedWhole ==
    [][file' # file => Loaded(file') \in {Default} \cup Remains(controls) \cup Recovered]_vars

(* Outside the options the settings in force are those the next start will *)
(* find after a crash, unless the window was closed or resized over the    *)
(* options, the controls were used again after OK and before the frame, or *)
(* the name could not be saved.  This is what makes it right that          *)
(* OptionsEnd saves only settings that differ from those of Show.          *)
InStep == ~inProgress /\ ~loose => Loaded(file) = settings

(* A name that the player has confirmed in the options is still there when *)
(* the program has ended in the ordinary way and starts again.             *)
NameKept == [][Exit => settings'.name = settings.name]_vars
=============================================================================
