----------------------------- MODULE GameScore ------------------------------
(***************************************************************************)
(* The score of a game and its clock (CurrentTime), from the new game to   *)
(* the win that is offered to the table of HighScore.                      *)
(*                                                                         *)
(* The clock has no thread of its own: it looks at SDL_GetTicks in those   *)
(* frames that find the game in IN_GAME.  While a card zooms, a pile is    *)
(* dragged slowly by the system or a question is on the screen nobody      *)
(* looks, and the next frame finds more than one second at once.           *)
(*                                                                         *)
(* Ticks are counted from the new game.  The lengths of second, minute and *)
(* day, the points and the width of the integers are parameters, so that   *)
(* TLC sees them all overflow.                                             *)
(***************************************************************************)
EXTENDS HighScore

CONSTANTS Second,    \* ticks: 1000
          Sixty,     \* seconds of a minute, minutes of an hour: 60
          Day,       \* hours: 24
          Gains,     \* points for moves: 60, 45, 25, -75, -175
          Floor,     \* -2000, where drawScore stops
          Width,     \* 2^64, the values of uint64_t
          LastTick, MaxPoints, MaxScore   \* bounds of the model

ASSUME GameScoreAssumption ==
    /\ {Second, Sixty, Day, Width} \subseteq Nat \ {0}
    /\ Gains \subseteq Int
    /\ Floor \in Int /\ Floor <= 0
    /\ {LastTick, MaxPoints, MaxScore} \subseteq Nat

VARIABLES
    now,              \* SDL_GetTicks
    startSecondTick,  \* _startSecondTick
    time,             \* _sec, _min, _hour
    updateStopped,    \* _updateStopped
    scoreGame,        \* _scoreGame
    points, forgiven, late   \* no code: the points of the moves so far, what
                             \* drawScore gave back, whether a frame found
                             \* more than one second
clock   == <<now, startSecondTick, time, updateStopped>>
history == <<points, forgiven, late>>
table   == vars
allVars == <<clock, scoreGame, history, table>>

ScoreTypeOK ==
    /\ now \in Nat /\ startSecondTick \in 0..now
    /\ time \in [sec : 0..(Sixty - 1), min : 0..(Sixty - 1), hour : 0..(Day - 1)]
    /\ {updateStopped, late} \subseteq BOOLEAN
    /\ scoreGame \in Int /\ points \in Int /\ forgiven \in Nat

Midnight == [sec |-> 0, min |-> 0, hour |-> 0]

ScoreInit ==
    /\ now = 0 /\ startSecondTick = 0 /\ time = Midnight /\ updateStopped = FALSE
    /\ scoreGame = 0
    /\ points = 0 /\ forgiven = 0 /\ late = FALSE
    /\ Init
-----------------------------------------------------------------------------
GetNumOfSeconds == time.hour * Sixty * Sixty + time.min * Sixty + time.sec

(* The seconds above a full minute are not carried over.                   *)
EarlyMinute(gap) ==   \* mutant: the last second of a minute is skipped
    IF time.sec + gap < Sixty - 1 THEN [time EXCEPT !.sec = @ + gap]
    ELSE IF time.min + 1 < Sixty THEN [time EXCEPT !.sec = 0, !.min = @ + 1]
    ELSE [sec |-> 0, min |-> 0, hour |-> (time.hour + 1) % Day]
NoHourCarry(gap) ==   \* mutant: sixty minutes stand on the clock
    IF time.sec + gap < Sixty THEN [time EXCEPT !.sec = @ + gap]
    ELSE [time EXCEPT !.sec = 0, !.min = @ + 1]
Advanced(gap) ==
    IF time.sec + gap < Sixty THEN [time EXCEPT !.sec = @ + gap]
    ELSE IF time.min + 1 < Sixty THEN [time EXCEPT !.sec = 0, !.min = @ + 1]
    ELSE [sec |-> 0, min |-> 0, hour |-> (time.hour + 1) % Day]

Gap == (now - startSecondTick) \div Second

RemainderLost == now        \* mutant: the part of a second is dropped
SecondStart   == now - ((now - startSecondTick) % Second)

(* drawScore.                                                              *)
Drawn(score) == IF score < Floor THEN Floor ELSE score

Show(score) ==
    /\ scoreGame' = Drawn(score)
    /\ forgiven' = IF updateStopped THEN forgiven ELSE forgiven + Drawn(score) - score

(* Time goes by.                                                           *)
Tick ==
    /\ now < LastTick
    /\ now' = now + 1
    /\ UNCHANGED <<startSecondTick, time, updateStopped, scoreGame, history, table>>

newGame ==          \* Reset and clearScore
    /\ ~saving
    /\ now' = 0 /\ startSecondTick' = 0 /\ time' = Midnight /\ updateStopped' = FALSE
    /\ scoreGame' = 0
    /\ points' = 0 /\ forgiven' = 0 /\ late' = FALSE
    /\ UNCHANGED table

(* A frame in IN_GAME: updateBadScoreScoreOnTime and drawScore.            *)
Frame ==
    /\ ~saving
    /\ IF updateStopped \/ Gap = 0
       THEN Show(scoreGame) /\ UNCHANGED <<startSecondTick, time, late>>
       ELSE /\ startSecondTick' = SecondStart
            /\ time' = Advanced(Gap)
            /\ late' = (late \/ Gap > 1)
            /\ Show(scoreGame - Gap)
    /\ UNCHANGED <<now, updateStopped, points, table>>

(* A move is paid or fined, between the frames that draw.                  *)
Scored(gain) ==
    /\ ~saving
    /\ points + gain \in -MaxPoints..MaxPoints /\ scoreGame < MaxScore
    /\ points' = points + gain
    /\ scoreGame' = scoreGame + gain
    /\ UNCHANGED <<clock, forgiven, late, table>>

(* bonusScore: the bonus is unsigned, so that a negative one passes the    *)
(* test too, and makes the score smaller by wrapping around.               *)
Signed(n) == IF 2 * (n % Width) < Width THEN n % Width ELSE (n % Width) - Width

NoMalus(score, seconds) ==  \* mutant: the bonus is signed
    LET bonus == 2 * score - 10 * seconds
    IN IF bonus > 0 THEN score + bonus ELSE score
BonusScore(score, seconds) ==
    LET bonus == (2 * score - 10 * seconds) % Width
    IN IF bonus > 0 THEN Signed(score + bonus) ELSE score

(* checkForVictoryEvent on a finished table: the score of the table is the *)
(* one just drawn.                                                         *)
Victory ==
    LET final == Drawn(BonusScore(scoreGame, GetNumOfSeconds))
    IN /\ ~saving /\ scoreGame < MaxScore
       /\ updateStopped' = TRUE
       /\ scoreGame' = final
       /\ IF 0 <= final /\ final <= 1000000 /\ Beaten(final) # {}
          THEN SaveScore(final) ELSE UNCHANGED table
       /\ UNCHANGED <<now, startSecondTick, time, history>>

(* HighScore.  The program runs on when Save is over, and starts anew.     *)
Storing == (WriteEntry \/ CloseFile) /\ UNCHANGED <<clock, scoreGame, history>>

NewProgram ==
    /\ Restart
    /\ now' = 0 /\ startSecondTick' = 0 /\ time' = Midnight /\ updateStopped' = FALSE
    /\ scoreGame' = 0
    /\ points' = 0 /\ forgiven' = 0 /\ late' = FALSE

ScoreNext ==
    \/ Tick \/ newGame \/ Frame \/ Victory \/ Storing \/ NewProgram
    \/ \E gain \in Gains : Scored(gain)

ScoreSpec == ScoreInit /\ [][ScoreNext]_allVars
-----------------------------------------------------------------------------
(* PROPERTIES                                                              *)

Elapsed == startSecondTick \div Second

(* The penalty for time is exact however the frames fall: no part of a     *)
(* second is lost between them and none is taken twice; only the floor of  *)
(* drawScore ever gives points back.                                       *)
TimeKept ==
    /\ startSecondTick % Second = 0
    /\ ~updateStopped => scoreGame = points - Elapsed + forgiven

(* The clock is never ahead of the time that was taken from the score, and *)
(* agrees with it while every frame found one second at most: what falls   *)
(* over the end of a minute is lost to the clock alone.                    *)
ClockBehind ==
    /\ GetNumOfSeconds <= Elapsed
    /\ ~late /\ Elapsed < Day * Sixty * Sixty => GetNumOfSeconds = Elapsed

(* Bonus plus score is what the help promises, three times the points less *)
(* ten for every second on the clock, also when that is negative.          *)
FinalScore ==
    [][Victory /\ ~updateStopped =>
        scoreGame' = Drawn(3 * (points - Elapsed + forgiven) - 10 * GetNumOfSeconds)]_allVars
=============================================================================
