----------------------------- MODULE HighScore ------------------------------
(***************************************************************************)
(* HighScore: the table of the ten best scores, in memory and in its file. *)
(* Save truncates the file and writes the entries one after the other; a   *)
(* crash (or an I/O error, which ends the application) may come between    *)
(* two of them.  The next run of the program loads what there is on top of *)
(* the default entries; that Load fails half way is not looked at by its   *)
(* caller.  Names and numbers of cards are left out.  An entry cut in the  *)
(* middle counts as missing: the number of cards, its last byte, is read   *)
(* before the entry is stored.                                             *)
(***************************************************************************)
EXTENDS Integers, Sequences

CONSTANTS NumOfScore,  \* NUMOFSCORE, length of the table
          Default,     \* the scores the constructor stores
          Scores,      \* the scores games end with (int64_t)
          ScoreLimit   \* 2^16: ScoreInfo::Score is a uint16_t

Rank == 1..NumOfScore

ASSUME HighScoreAssumption ==
    /\ NumOfScore \in Nat \ {0}
    /\ Default \in [Rank -> Nat]
    /\ \A i, j \in Rank : i < j => Default[i] > Default[j]
    /\ Scores \subseteq Int
    /\ ScoreLimit \in Nat \ {0}

VARIABLES scoreInfo,  \* _scoreInfo: the scores in memory
          file,       \* the entries in the score file
          fileExists,
          saving      \* Save has opened the file and not yet closed it

vars == <<scoreInfo, file, fileExists, saving>>

TypeOK ==
    /\ scoreInfo \in [Rank -> Nat]
    /\ file \in Seq(Nat) /\ Len(file) <= NumOfScore
    /\ fileExists \in BOOLEAN
    /\ saving \in BOOLEAN

Init ==
    /\ scoreInfo = Default
    /\ file = <<>> /\ fileExists = FALSE
    /\ saving = FALSE
-----------------------------------------------------------------------------
(* SaveScore: the entry goes in front of the first one it beats, the last  *)
(* one falls off the table.                                                *)
Beaten(score) == {i \in Rank : score > scoreInfo[i]}

InsertedPastEnd(score, j) ==   \* mutant: the last entry moves out of the table
    [i \in 1..(NumOfScore + 1) |-> IF i < j THEN scoreInfo[i]
                                   ELSE IF i = j THEN score % ScoreLimit
                                   ELSE scoreInfo[i - 1]]
InsertedBehind(score, j) ==   \* mutant: behind the entry it beats
    [i \in Rank |-> IF i <= j THEN scoreInfo[i]
                    ELSE IF i = j + 1 THEN score % ScoreLimit
                    ELSE scoreInfo[i - 1]]
Inserted(score, j) ==
    [i \in Rank |-> IF i < j THEN scoreInfo[i]
                    ELSE IF i = j THEN score % ScoreLimit
                    ELSE scoreInfo[i - 1]]

SaveScore(score) ==
    /\ ~saving
    /\ 0 <= score /\ score <= 1000000
    /\ \E j \in Beaten(score) :
          /\ \A i \in Beaten(score) : j <= i
          /\ scoreInfo' = Inserted(score, j)
    /\ file' = <<>> /\ fileExists' = TRUE      \* Save: SDL_IOFromFile "wb"
    /\ saving' = TRUE

(* Save: the next entry, or the end of the file.                           *)
WriteEntry ==
    /\ saving /\ Len(file) < NumOfScore
    /\ file' = Append(file, scoreInfo[Len(file) + 1])
    /\ UNCHANGED <<scoreInfo, fileExists, saving>>

CloseFile ==
    /\ saving /\ Len(file) = NumOfScore
    /\ saving' = FALSE
    /\ UNCHANGED <<scoreInfo, file, fileExists>>

(* The program ends, at any point, and is started again: the constructor   *)
(* and Load.                                                               *)
NotLoaded == Default   \* mutant: Load is not called
ZeroLoaded ==          \* mutant: a missing entry counts nothing
    [i \in Rank |-> IF fileExists /\ i <= Len(file) THEN file[i] ELSE 0]
AllButLastLoaded ==    \* mutant: the loop ends too early
    [i \in Rank |-> IF fileExists /\ i <= Len(file) /\ i < NumOfScore THEN file[i] ELSE Default[i]]
Loaded == [i \in Rank |-> IF fileExists /\ i <= Len(file) THEN file[i] ELSE Default[i]]

Restart ==
    /\ scoreInfo' = Loaded
    /\ saving' = FALSE
    /\ UNCHANGED <<file, fileExists>>

Next == \/ \E score \in Scores : SaveScore(score)
        \/ WriteEntry \/ CloseFile \/ Restart

Spec == Init /\ [][Next]_vars
-----------------------------------------------------------------------------
(* PROPERTIES                                                              *)

(* Scores that fit into the entry.  SaveScore does not ask for this: it    *)
(* lets scores up to 1000000 pass.                                         *)
ScoresFit == \A score \in Scores : score < ScoreLimit

(* The table is a ranking: also after a crash in the middle of Save, when  *)
(* entries of the file stand above default entries.                        *)
Sorted == \A i, j \in Rank : i < j => scoreInfo[i] >= scoreInfo[j]

(* No entry ever falls below the default of its place; this is why a file  *)
(* that is cut off still loads as a ranking.                               *)
AboveDefault == \A i \in Rank : scoreInfo[i] >= Default[i]

(* What is in the file is what is in memory, up to where Save has got.     *)
FileMatches == \A i \in DOMAIN file : file[i] = scoreInfo[i]

(* Only a crash in the middle of Save takes anything from the player: any  *)
(* other restart, and any new score, leaves every place at least as high.  *)
LostOnlyInSave ==
    [][~saving => \A i \in Rank : scoreInfo'[i] >= scoreInfo[i]]_vars
=============================================================================
