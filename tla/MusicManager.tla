---------------------------- MODULE MusicManager ----------------------------
(***************************************************************************)
(* MusicManager: its flags, the music channel of SDL_mixer behind them,    *)
(* and its operations as functions from one record of both to the next.    *)
(*                                                                         *)
(* Of SDL_mixer (not part of the program) only this is used: a music that  *)
(* is paused still counts as playing; halting it leaves the pause as it    *)
(* is; playing a music starts it unpaused.  Effects, volume and the time a *)
(* fade-out takes are left out: StopMusic halts the music at once.         *)
(***************************************************************************)
Track == {"INIT", "CREDITS", "PLAY"}   \* MUSIC_INIT_SND ...; NONE: silence

Music == [hardware : BOOLEAN,               \* _musicHardwareAvail
          disabled : BOOLEAN,               \* _musicDisabled
          paused   : BOOLEAN,               \* _musicPaused
          current  : Track,                 \* _currentMusicID
          track    : Track \cup {"NONE"},   \* SDL_mixer: the music playing
          active   : BOOLEAN]               \* SDL_mixer: it is not paused

(* The constructor and Initialize.  Without hardware Initialize fails; the *)
(* program goes on without music.                                          *)
Initialized(hardware, musicEnabled) ==
    [hardware |-> hardware, disabled |-> ~(hardware /\ musicEnabled), paused |-> FALSE,
     current |-> "INIT", track |-> "NONE", active |-> TRUE]

IsPlayingMusic(m) == m.disabled \/ m.track # "NONE"

StopMusic(m) == IF m.disabled THEN m ELSE [m EXCEPT !.track = "NONE"]

PauseMusic(m) == IF m.disabled THEN m ELSE [m EXCEPT !.active = FALSE, !.paused = TRUE]

ResumeMusic(m) == IF m.disabled THEN m ELSE [m EXCEPT !.active = TRUE, !.paused = FALSE]

(* The music is remembered even if it is not played; the flag of a pause   *)
(* stays.  Without hardware no music was ever loaded.                      *)
PlayMusic(m, t) ==
    IF ~m.hardware THEN m
    ELSE IF m.disabled THEN [m EXCEPT !.current = t]
    ELSE [m EXCEPT !.current = t, !.track = t, !.active = TRUE]

PlayCurrentMusic(m) == IF m.disabled THEN m ELSE PlayMusic(m, m.current)

EnableMusic(m) == IF m.hardware THEN [m EXCEPT !.disabled = FALSE] ELSE m

DisableMusic(m) == [m EXCEPT !.disabled = TRUE]

(* What the callers write: stop what is playing, if anything is.           *)
Silenced(m) == IF IsPlayingMusic(m) THEN StopMusic(m) ELSE m
=============================================================================
