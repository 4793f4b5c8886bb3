-------------------------- MODULE GameScore_proofs --------------------------
(***************************************************************************)
(* For every length of a second, a minute and a day, every set of points,  *)
(* every floor and however the frames fall: the penalty for time is exact, *)
(* the clock is never ahead of it, the bonus is the one of the help as     *)
(* long as the numbers fit into their integers, and the games use the      *)
(* table of high scores as HighScore says.                                 *)
(***************************************************************************)
EXTENDS GameScore, TLAPS

-----------------------------------------------------------------------------
(* THE TABLE OF HIGH SCORES, for every length of the table, every strictly *)
(* falling table of defaults and every set of scores that fit into an      *)
(* entry: it stays a ranking through games, crashes and restarts.          *)

(* What a place without an entry in the file holds when no Save is running. *)
TailIsDefault == ~saving => \A i \in Rank : i > Len(file) => scoreInfo[i] = Default[i]

FileOnlyIfExists == ~fileExists => file = <<>>
SavingHasFile == saving => fileExists

IInv == /\ TypeOK
        /\ Sorted
        /\ AboveDefault
        /\ FileMatches
        /\ TailIsDefault
        /\ FileOnlyIfExists
        /\ SavingHasFile

LEMMA InitIInv == Init => IInv
<1> SUFFICES ASSUME Init PROVE IInv
  OBVIOUS
<1>1. /\ Default \in [Rank -> Nat] /\ NumOfScore \in Nat
      /\ \A i, j \in Rank : i < j => Default[i] > Default[j]
  BY HighScoreAssumption
<1>2. file \in Seq(Nat) /\ Len(file) = 0 /\ DOMAIN file = {}
  BY DEF Init
<1>3. TypeOK
  <2>1. scoreInfo \in [Rank -> Nat] /\ fileExists \in BOOLEAN /\ saving \in BOOLEAN
    BY <1>1 DEF Init
  <2>2. file \in Seq(Nat) /\ Len(file) <= NumOfScore
    BY <1>1, <1>2
  <2> QED BY <2>1, <2>2 DEF TypeOK
<1>4. Sorted /\ AboveDefault
  BY <1>1 DEF Init, Sorted, AboveDefault
<1>5. FileMatches /\ TailIsDefault /\ FileOnlyIfExists /\ SavingHasFile
  BY <1>2 DEF Init, FileMatches, TailIsDefault, FileOnlyIfExists, SavingHasFile
<1> QED BY <1>3, <1>4, <1>5 DEF IInv

(* A restart finds a ranking that is nowhere below the defaults, whatever  *)
(* prefix of the table a crash has left in the file.                       *)
LEMMA LoadedIsRanking ==
    ASSUME IInv
    PROVE  /\ Loaded \in [Rank -> Nat]
           /\ \A i, j \in Rank : i < j => Loaded[i] >= Loaded[j]
           /\ \A i \in Rank : Loaded[i] >= Default[i]
           /\ \A i \in DOMAIN file : file[i] = Loaded[i]
           /\ \A i \in Rank : i > Len(file) => Loaded[i] = Default[i]
           /\ ~saving => Loaded = scoreInfo
<1>1. /\ scoreInfo \in [Rank -> Nat] /\ file \in Seq(Nat) /\ Len(file) \in 0..NumOfScore
      /\ Default \in [Rank -> Nat]
      /\ \A i, j \in Rank : i < j => Default[i] > Default[j]
  BY HighScoreAssumption DEF IInv, TypeOK
<1>2. \A i \in Rank : Loaded[i] = IF i <= Len(file) THEN scoreInfo[i] ELSE Default[i]
  BY <1>1 DEF IInv, FileMatches, FileOnlyIfExists, Loaded, Rank
<1>3. Loaded \in [Rank -> Nat]
  BY <1>1, <1>2 DEF Loaded
<1>4. \A i \in Rank : Loaded[i] >= Default[i]
  BY <1>1, <1>2 DEF IInv, AboveDefault
<1>5. \A i, j \in Rank : i < j => Loaded[i] >= Loaded[j]
  <2> SUFFICES ASSUME NEW i \in Rank, NEW j \in Rank, i < j
               PROVE  Loaded[i] >= Loaded[j]
    OBVIOUS
  <2>1. CASE j <= Len(file)
    BY <1>1, <1>2, <2>1 DEF IInv, Sorted, Rank
  <2>2. CASE ~(j <= Len(file))
    <3>1. Loaded[j] = Default[j]
      BY <1>1, <1>2, <2>2
    <3>2. Loaded[i] >= Default[i] /\ Default[i] > Default[j]
      BY <1>1, <1>4
    <3>3. Loaded[i] \in Nat /\ Default[i] \in Nat /\ Default[j] \in Nat
      BY <1>1, <1>3
    <3> QED BY <3>1, <3>2, <3>3
  <2> QED BY <2>1, <2>2
<1>6. \A i \in DOMAIN file : file[i] = Loaded[i]
  <2>1. DOMAIN file = 1..Len(file) /\ NumOfScore \in Nat
    BY <1>1, HighScoreAssumption
  <2>2. \A i \in DOMAIN file : i \in Rank /\ i <= Len(file)
    BY <1>1, <2>1 DEF Rank
  <2> QED BY <1>2, <2>2 DEF IInv, FileMatches
<1>7. \A i \in Rank : i > Len(file) => Loaded[i] = Default[i]
  BY <1>1, <1>2 DEF Rank
<1>8. ASSUME ~saving PROVE Loaded = scoreInfo
  <2>1. \A i \in Rank : Loaded[i] = scoreInfo[i]
    BY <1>1, <1>2, <1>8 DEF IInv, TailIsDefault, Rank
  <2> QED BY <1>1, <1>3, <2>1
<1> QED BY <1>3, <1>4, <1>5, <1>6, <1>7, <1>8

(* Putting a score in front of the first one it beats keeps the order, and *)
(* no place gets a lower score than it had.                                *)
LEMMA InsertedIsRanking ==
    ASSUME ScoresFit, IInv,
           NEW score \in Scores, 0 <= score,
           NEW j \in Beaten(score), \A i \in Beaten(score) : j <= i
    PROVE  /\ Inserted(score, j) \in [Rank -> Nat]
           /\ \A i, k \in Rank : i < k => Inserted(score, j)[i] >= Inserted(score, j)[k]
           /\ \A i \in Rank : Inserted(score, j)[i] >= scoreInfo[i]
<1> DEFINE new == Inserted(score, j)
<1>1. /\ scoreInfo \in [Rank -> Nat] /\ score \in Nat /\ NumOfScore \in Nat
      /\ \A i, k \in Rank : i < k => scoreInfo[i] >= scoreInfo[k]
  BY HighScoreAssumption DEF IInv, TypeOK, Sorted
<1>2. /\ j \in Rank /\ score > scoreInfo[j]
      /\ \A i \in Rank : i < j => ~(score > scoreInfo[i])
  BY <1>1 DEF Beaten, Rank
<1>3. score % ScoreLimit = score
  BY <1>1, HighScoreAssumption DEF ScoresFit
<1>4. \A i \in Rank : new[i] = IF i < j THEN scoreInfo[i]
                               ELSE IF i = j THEN score ELSE scoreInfo[i - 1]
  BY <1>3 DEF Inserted
<1>5. \A i \in Rank : i > j => i - 1 \in Rank
  BY <1>1, <1>2 DEF Rank
<1>6. new \in [Rank -> Nat]
  <2>1. \A i \in Rank : new[i] \in Nat
    BY <1>1, <1>2, <1>4, <1>5 DEF Rank
  <2> QED BY <2>1 DEF Inserted
<1>7. \A i \in Rank : new[i] >= scoreInfo[i]
  BY <1>1, <1>2, <1>4, <1>5 DEF Rank
<1>8. ASSUME NEW i \in Rank, NEW k \in Rank, i < k
      PROVE  new[i] >= new[k]
  <2>1. CASE k < j
    BY <1>1, <1>2, <1>4, <1>8, <2>1 DEF Rank
  <2>2. CASE k = j
    BY <1>1, <1>2, <1>4, <1>8, <2>2 DEF Rank
  <2>3. CASE k > j
    <3>1. k - 1 \in Rank /\ i <= k - 1 /\ new[k] = scoreInfo[k - 1]
      BY <1>1, <1>2, <1>4, <1>5, <1>8, <2>3 DEF Rank
    <3>2. scoreInfo[i] >= scoreInfo[k - 1]
      BY <1>1, <3>1 DEF Rank
    <3> QED BY <1>1, <1>6, <1>7, <3>1, <3>2
  <2> QED BY <1>2, <1>8, <2>1, <2>2, <2>3 DEF Rank
<1> QED BY <1>6, <1>7, <1>8

LEMMA StepIInv == ASSUME ScoresFit, IInv, [Next]_vars PROVE IInv'
<1>1. ASSUME NEW score \in Scores, SaveScore(score) PROVE IInv'
  <2>1. PICK j \in Beaten(score) : /\ \A i \in Beaten(score) : j <= i
                                   /\ scoreInfo' = Inserted(score, j)
    BY <1>1 DEF SaveScore
  <2>2. /\ scoreInfo' \in [Rank -> Nat]
        /\ \A i, k \in Rank : i < k => scoreInfo'[i] >= scoreInfo'[k]
        /\ \A i \in Rank : scoreInfo'[i] >= scoreInfo[i]
    BY <1>1, <2>1, InsertedIsRanking DEF SaveScore
  <2>3. \A i \in Rank : scoreInfo'[i] >= Default[i]
    BY <2>2, HighScoreAssumption DEF IInv, TypeOK, AboveDefault
  <2> QED
    BY <1>1, <2>2, <2>3, HighScoreAssumption
       DEF SaveScore, IInv, TypeOK, Sorted, AboveDefault, FileMatches, TailIsDefault,
           FileOnlyIfExists, SavingHasFile
<1>2. ASSUME WriteEntry PROVE IInv'
  <2>1. /\ Len(file) \in Nat /\ Len(file) + 1 \in Rank /\ scoreInfo[Len(file) + 1] \in Nat
        /\ file \in Seq(Nat)
    BY <1>2, HighScoreAssumption DEF WriteEntry, IInv, TypeOK, Rank
  <2>2. file' \in Seq(Nat) /\ Len(file') = Len(file) + 1 /\ Len(file') <= NumOfScore
    BY <1>2, <2>1, HighScoreAssumption DEF WriteEntry, Rank
  <2>3. \A i \in DOMAIN file' : file'[i] = scoreInfo[i]
    <3>1. DOMAIN file = 1..Len(file) /\ DOMAIN file' = 1..(Len(file) + 1)
      BY <2>1, <2>2
    <3>2. /\ \A i \in 1..Len(file) : file'[i] = file[i]
          /\ file'[Len(file) + 1] = scoreInfo[Len(file) + 1]
      BY <1>2, <2>1 DEF WriteEntry
    <3> QED BY <2>1, <3>1, <3>2 DEF IInv, FileMatches
  <2>4. saving' /\ fileExists' = fileExists /\ scoreInfo' = scoreInfo
    BY <1>2 DEF WriteEntry
  <2>5. fileExists
    BY <1>2 DEF WriteEntry, IInv, SavingHasFile
  <2>6. TypeOK'
    BY <2>2, <2>4 DEF IInv, TypeOK
  <2>7. FileMatches'
    BY <2>3, <2>4 DEF FileMatches
  <2>8. (Sorted /\ AboveDefault)'
    BY <2>4 DEF IInv, Sorted, AboveDefault
  <2> QED
    BY <2>4, <2>5, <2>6, <2>7, <2>8
       DEF IInv, TailIsDefault, FileOnlyIfExists, SavingHasFile
<1>3. ASSUME CloseFile PROVE IInv'
  <2>1. UNCHANGED <<scoreInfo, file, fileExists>> /\ saving' = FALSE
    BY <1>3 DEF CloseFile
  <2>2. \A i \in Rank : ~(i > Len(file))
    BY <1>3, HighScoreAssumption DEF CloseFile, Rank
  <2>3. TypeOK'
    BY <2>1 DEF IInv, TypeOK
  <2>4. (Sorted /\ AboveDefault /\ FileMatches)'
    BY <2>1 DEF IInv, Sorted, AboveDefault, FileMatches
  <2>5. TailIsDefault'
    BY <2>1, <2>2 DEF TailIsDefault
  <2>6. (FileOnlyIfExists /\ SavingHasFile)'
    BY <2>1 DEF IInv, FileOnlyIfExists, SavingHasFile
  <2> QED
    BY <2>3, <2>4, <2>5, <2>6 DEF IInv
<1>4. ASSUME Restart PROVE IInv'
  BY <1>4, LoadedIsRanking
     DEF Restart, IInv, TypeOK, Sorted, AboveDefault, FileMatches, TailIsDefault,
         FileOnlyIfExists, SavingHasFile
<1>5. ASSUME UNCHANGED vars PROVE IInv'
  BY <1>5 DEF vars, IInv, TypeOK, Sorted, AboveDefault, FileMatches, TailIsDefault,
              FileOnlyIfExists, SavingHasFile
<1> QED BY <1>1, <1>2, <1>3, <1>4, <1>5 DEF Next

(* The high-score table is a ranking at all times, and no place is ever    *)
(* below its default, for scores that fit into a uint16_t.                 *)
THEOREM RankingHolds ==
    ASSUME ScoresFit PROVE Spec => [](Sorted /\ AboveDefault /\ FileMatches)
<1>1. Init => IInv
  BY InitIInv
<1>2. IInv /\ [Next]_vars => IInv'
  BY StepIInv
<1>3. IInv => Sorted /\ AboveDefault /\ FileMatches
  BY DEF IInv
<1> QED BY <1>1, <1>2, <1>3, PTL DEF Spec

(* Nothing is lost but by a crash while Save is writing.                   *)
THEOREM LossNeedsCrash == ASSUME ScoresFit PROVE Spec => LostOnlyInSave
<1>1. ASSUME IInv, [Next]_vars
      PROVE  [~saving => \A i \in Rank : scoreInfo'[i] >= scoreInfo[i]]_vars
  <2> SUFFICES ASSUME ~saving, Next, NEW i \in Rank
               PROVE  scoreInfo'[i] >= scoreInfo[i]
    BY <1>1
  <2>0. scoreInfo[i] \in Nat
    BY <1>1 DEF IInv, TypeOK
  <2>1. ASSUME NEW score \in Scores, SaveScore(score)
        PROVE  scoreInfo'[i] >= scoreInfo[i]
    BY <1>1, <2>1, InsertedIsRanking DEF SaveScore
  <2>2. CASE WriteEntry BY <2>0, <2>2 DEF WriteEntry
  <2>3. CASE CloseFile BY <2>0, <2>3 DEF CloseFile
  <2>4. CASE Restart BY <1>1, <2>0, <2>4, LoadedIsRanking DEF Restart
  <2> QED BY <2>1, <2>2, <2>3, <2>4 DEF Next
<1>2. Init => IInv
  BY InitIInv
<1>3. IInv /\ [Next]_vars => IInv'
  BY StepIInv
<1> QED BY <1>1, <1>2, <1>3, PTL DEF Spec, LostOnlyInSave
-----------------------------------------------------------------------------
(* SCORE AND CLOCK                                                         *)

IScore == ScoreTypeOK /\ TimeKept /\ ClockBehind

-----------------------------------------------------------------------------
(* Arithmetic of the clock and of unsigned integers.                       *)

LEMMA Division ==
    ASSUME NEW a \in Nat, NEW d \in Nat \ {0}
    PROVE  /\ a \div d \in Nat /\ a % d \in 0..(d - 1)
           /\ a = (d * (a \div d)) + (a % d)
OBVIOUS

LEMMA Multiple ==
    ASSUME NEW q \in Nat, NEW d \in Nat \ {0}
    PROVE  (d * q) \div d = q /\ (d * q) % d = 0
OBVIOUS

LEMMA Sum == ASSUME NEW q \in Nat, NEW g \in Nat, NEW d \in Nat
             PROVE  (d * q) + (d * g) = d * (q + g)
OBVIOUS

LEMMA Remainder ==
    ASSUME NEW w \in Nat \ {0}, NEW n \in Int
    PROVE  /\ 0 <= n /\ n < w => n % w = n
           /\ n < 0 /\ -w <= n => n % w = n + w
           /\ w <= n /\ n < 2 * w => n % w = n - w
OBVIOUS

(* Seconds, minutes and hours as one number: what a step of the clock adds. *)
LEMMA Carry ==
    ASSUME NEW s \in Nat, NEW m \in Nat, NEW h \in Nat
    PROVE  /\ h * s * s + m * s \in Nat
           /\ h * s * s + (m + 1) * s = (h * s * s + m * s) + s
           /\ (h + 1) * s * s = (h * s * s + (s - 1) * s) + s
OBVIOUS
-----------------------------------------------------------------------------
LEMMA ConstantTypes ==
    /\ Second \in Nat \ {0} /\ Sixty \in Nat \ {0} /\ Day \in Nat \ {0} /\ Width \in Nat \ {0}
    /\ Gains \subseteq Int /\ Floor \in Int /\ Floor <= 0
BY GameScoreAssumption

LEMMA DrawnType == ASSUME NEW n \in Int PROVE Drawn(n) \in Int /\ Drawn(n) - n \in Nat
BY ConstantTypes DEF Drawn

LEMMA BonusType == ASSUME NEW s \in Int, NEW t \in Int PROVE BonusScore(s, t) \in Int
<1>1. \A n \in Int : n % Width \in Int
  BY ConstantTypes
<1>2. \A n \in Int : Signed(n) \in Int
  BY <1>1, ConstantTypes DEF Signed
<1> DEFINE bonus == (2 * s - 10 * t) % Width
<1>3. bonus \in Int
  BY <1>1
<1>4. s + bonus \in Int
  BY <1>3
<1>5. BonusScore(s, t) = IF bonus > 0 THEN Signed(s + bonus) ELSE s
  BY DEF BonusScore
<1> QED BY <1>2, <1>4, <1>5

LEMMA SecondsType == ASSUME ScoreTypeOK PROVE GetNumOfSeconds \in Nat
BY ConstantTypes DEF ScoreTypeOK, GetNumOfSeconds

(* A frame that finds the gap g moves the start of the second on by g      *)
(* seconds, and so the time that was taken from the score.                 *)
LEMMA GapCounted ==
    ASSUME ScoreTypeOK, startSecondTick % Second = 0
    PROVE  /\ Gap \in Nat /\ SecondStart \in 0..now
           /\ SecondStart % Second = 0
           /\ SecondStart \div Second = Elapsed + Gap
           /\ Elapsed \in Nat
<1> DEFINE q == startSecondTick \div Second
           r == (now - startSecondTick) % Second
<1>1. Second \in Nat \ {0} /\ startSecondTick \in Nat /\ now - startSecondTick \in Nat /\ now \in Nat
  BY ConstantTypes DEF ScoreTypeOK
<1>2. q \in Nat /\ startSecondTick = Second * q
  <2>1. /\ q \in Nat
        /\ startSecondTick = (Second * q) + (startSecondTick % Second)
    BY <1>1, Division
  <2>2. Second * q \in Nat
    BY <1>1, <2>1
  <2> QED BY <1>1, <2>1, <2>2
<1>3. /\ Gap \in Nat /\ r \in 0..(Second - 1)
      /\ now - startSecondTick = (Second * Gap) + r
  BY <1>1, Division DEF Gap
<1>4. SecondStart = now - r
  BY DEF SecondStart
<1> HIDE DEF r, q
<1>5. Second * Gap \in Nat
  BY <1>1, <1>3
<1>6. SecondStart = startSecondTick + (Second * Gap)
  BY <1>1, <1>3, <1>4, <1>5
<1>7. SecondStart = Second * (q + Gap)
  BY <1>1, <1>2, <1>3, <1>6, Sum
<1>8. q + Gap \in Nat
  BY <1>2, <1>3
<1>9. SecondStart \div Second = q + Gap /\ SecondStart % Second = 0
  BY <1>1, <1>7, <1>8, Multiple
<1>10. SecondStart \in 0..now
  BY <1>1, <1>3, <1>4, <1>5, <1>6
<1> QED BY <1>2, <1>3, <1>9, <1>10 DEF Elapsed, q

(* The clock after a gap of g seconds: it shows g more, or less if a       *)
(* minute got full; one second more exactly, but for the end of the day.   *)
SecondsOf(t) == t.hour * Sixty * Sixty + t.min * Sixty + t.sec

LEMMA ClockSteps ==
    ASSUME ScoreTypeOK, NEW g \in Nat \ {0}
    PROVE  /\ Advanced(g) \in [sec : 0..(Sixty - 1), min : 0..(Sixty - 1), hour : 0..(Day - 1)]
           /\ SecondsOf(Advanced(g)) <= GetNumOfSeconds + g
           /\ g = 1 /\ GetNumOfSeconds + 1 < Day * Sixty * Sixty
                => SecondsOf(Advanced(g)) = GetNumOfSeconds + 1
<1> DEFINE s == time.sec
           m == time.min
           h == time.hour
<1>1. /\ s \in 0..(Sixty - 1) /\ m \in 0..(Sixty - 1) /\ h \in 0..(Day - 1)
      /\ time = [sec |-> s, min |-> m, hour |-> h]
      /\ Sixty \in Nat \ {0} /\ Day \in Nat \ {0}
  BY ConstantTypes DEF ScoreTypeOK
<1>2. GetNumOfSeconds = (h * Sixty * Sixty + m * Sixty) + s
  BY DEF GetNumOfSeconds
<1> HIDE DEF s, m, h
<1>3. /\ h * Sixty * Sixty + m * Sixty \in Nat
      /\ h * Sixty * Sixty + (m + 1) * Sixty = (h * Sixty * Sixty + m * Sixty) + Sixty
      /\ (h + 1) * Sixty * Sixty = (h * Sixty * Sixty + (Sixty - 1) * Sixty) + Sixty
  BY <1>1, Carry
<1>4. CASE s + g < Sixty
  <2>1. Advanced(g) = [sec |-> s + g, min |-> m, hour |-> h]
    BY <1>1, <1>4 DEF Advanced
  <2>2. SecondsOf(Advanced(g)) = (h * Sixty * Sixty + m * Sixty) + (s + g)
    BY <2>1 DEF SecondsOf
  <2> QED BY <1>1, <1>2, <1>3, <1>4, <2>1, <2>2
<1>5. CASE ~(s + g < Sixty) /\ m + 1 < Sixty
  <2>1. Advanced(g) = [sec |-> 0, min |-> m + 1, hour |-> h]
    BY <1>1, <1>5 DEF Advanced
  <2>2. SecondsOf(Advanced(g)) = h * Sixty * Sixty + (m + 1) * Sixty + 0
    BY <2>1 DEF SecondsOf
  <2>3. SecondsOf(Advanced(g)) = (h * Sixty * Sixty + m * Sixty) + Sixty
    BY <1>1, <1>3, <2>2
  <2>4. Advanced(g) \in [sec : 0..(Sixty - 1), min : 0..(Sixty - 1), hour : 0..(Day - 1)]
    BY <1>1, <1>5, <2>1
  <2> QED BY <1>1, <1>2, <1>3, <1>5, <2>3, <2>4
<1>6. CASE ~(s + g < Sixty) /\ ~(m + 1 < Sixty)
  <2>1. m = Sixty - 1
    BY <1>1, <1>6
  <2>2. Advanced(g) = [sec |-> 0, min |-> 0, hour |-> (h + 1) % Day]
    BY <1>1, <1>6 DEF Advanced
  <2>3. GetNumOfSeconds + Sixty = ((h + 1) * Sixty * Sixty) + s
    BY <1>1, <1>2, <1>3, <2>1
  <2>4. CASE h + 1 < Day
    <3>1. (h + 1) % Day = h + 1
      <4>1. h + 1 \in Int /\ 0 <= h + 1 /\ Day \in Nat \ {0}
        BY <1>1
      <4> QED BY <2>4, <4>1, Remainder
    <3>2. SecondsOf(Advanced(g)) = (h + 1) * Sixty * Sixty
      BY <1>1, <2>2, <3>1 DEF SecondsOf
    <3>3. (h + 1) * Sixty * Sixty \in Nat
      BY <1>1
    <3>4. SecondsOf(Advanced(g)) + s = GetNumOfSeconds + Sixty
      BY <1>1, <1>2, <1>3, <2>3, <3>2
    <3>5. GetNumOfSeconds \in Nat /\ SecondsOf(Advanced(g)) \in Nat
      BY <1>1, <1>2, <1>3, <3>2, <3>3
    <3>6. Advanced(g) \in [sec : 0..(Sixty - 1), min : 0..(Sixty - 1), hour : 0..(Day - 1)]
      BY <1>1, <2>2, <2>4, <3>1
    <3> QED BY <1>1, <1>6, <3>4, <3>5, <3>6
  <2>5. CASE h + 1 = Day
    <3>1. (h + 1) % Day = 0
      BY <1>1, <2>5
    <3>2. SecondsOf(Advanced(g)) = 0
      BY <1>1, <2>2, <3>1 DEF SecondsOf
    <3>3. g = 1 => ~(GetNumOfSeconds + 1 < Day * Sixty * Sixty)
      <4>1. Day * Sixty * Sixty \in Nat
        BY <1>1
      <4> QED BY <1>1, <1>2, <1>3, <1>6, <2>3, <2>5, <4>1
    <3> QED BY <1>1, <1>2, <1>3, <2>2, <3>1, <3>2, <3>3
  <2> QED BY <1>1, <2>4, <2>5
<1> QED BY <1>4, <1>5, <1>6
-----------------------------------------------------------------------------
LEMMA MidnightType ==
    Midnight \in [sec : 0..(Sixty - 1), min : 0..(Sixty - 1), hour : 0..(Day - 1)]
<1>1. 0 \in 0..(Sixty - 1) /\ 0 \in 0..(Day - 1)
  BY ConstantTypes
<1> QED BY <1>1 DEF Midnight

LEMMA InitScore == ScoreInit => IScore
<1> SUFFICES ASSUME ScoreInit PROVE IScore
  OBVIOUS
<1>1. Second \in Nat \ {0} /\ Sixty \in Nat \ {0} /\ Day \in Nat \ {0}
  BY ConstantTypes
<1>2. 0 \div Second = 0 /\ 0 % Second = 0 /\ 0 \div Second \in Nat
  BY <1>1
<1>3. GetNumOfSeconds = 0 /\ Elapsed = 0
  BY <1>1, <1>2 DEF ScoreInit, Midnight, GetNumOfSeconds, Elapsed
<1>4. ScoreTypeOK
  <2>1. {updateStopped, late} \subseteq BOOLEAN
    BY Zenon DEF ScoreInit
  <2>2. now \in Nat /\ startSecondTick \in 0..now /\ time = Midnight
    BY DEF ScoreInit
  <2>3. scoreGame \in Int /\ points \in Int /\ forgiven \in Nat
    BY DEF ScoreInit
  <2> QED BY <2>1, <2>2, <2>3, MidnightType DEF ScoreTypeOK
<1> QED BY <1>2, <1>3, <1>4 DEF IScore, ScoreInit, TimeKept, ClockBehind

(* The members of the score and the clock that a step leaves alone.        *)
LEMMA ScoreUnchanged ==
    ASSUME IScore, UNCHANGED <<clock, scoreGame, history>> PROVE IScore'
BY DEF IScore, ScoreTypeOK, TimeKept, ClockBehind, GetNumOfSeconds, Elapsed, clock, history

LEMMA TickScore == ASSUME IScore, Tick PROVE IScore'
BY DEF IScore, Tick, ScoreTypeOK, TimeKept, ClockBehind, GetNumOfSeconds, Elapsed, history

(* A new game, or a new program.                                           *)
LEMMA FromZero ==
    ASSUME now' = 0, startSecondTick' = 0, time' = Midnight, updateStopped' = FALSE,
           scoreGame' = 0, points' = 0, forgiven' = 0, late' = FALSE
    PROVE  IScore'
<1>1. Second \in Nat \ {0} /\ Sixty \in Nat \ {0} /\ Day \in Nat \ {0}
  BY ConstantTypes
<1>2. 0 \div Second = 0 /\ 0 % Second = 0 /\ 0 \div Second \in Nat
  BY <1>1
<1>3. GetNumOfSeconds' = 0 /\ Elapsed' = 0
  BY <1>1, <1>2 DEF Midnight, GetNumOfSeconds, Elapsed
<1>4. ScoreTypeOK'
  <2>1. {updateStopped', late'} \subseteq BOOLEAN
    BY Zenon
  <2>2. now' \in Nat /\ startSecondTick' \in 0..now'
    OBVIOUS
  <2>3. scoreGame' \in Int /\ points' \in Int /\ forgiven' \in Nat
    OBVIOUS
  <2> QED BY <2>1, <2>2, <2>3, MidnightType DEF ScoreTypeOK
<1> QED BY <1>2, <1>3, <1>4 DEF IScore, TimeKept, ClockBehind

LEMMA FrameScore == ASSUME IScore, Frame PROVE IScore'
<1>1. /\ now' = now /\ updateStopped' = updateStopped /\ points' = points
      /\ scoreGame \in Int /\ points \in Int /\ forgiven \in Nat
      /\ updateStopped \in BOOLEAN /\ late \in BOOLEAN
  BY DEF Frame, IScore, ScoreTypeOK
<1>2. /\ Gap \in Nat /\ SecondStart \in 0..now /\ SecondStart % Second = 0
      /\ SecondStart \div Second = Elapsed + Gap /\ Elapsed \in Nat
  BY GapCounted DEF IScore, TimeKept
<1>3. CASE updateStopped \/ Gap = 0
  <2>1. Show(scoreGame) /\ UNCHANGED <<startSecondTick, time, late>>
    BY <1>3 DEF Frame
  <2>2. /\ scoreGame' \in Int
        /\ forgiven' = IF updateStopped THEN forgiven ELSE forgiven + (scoreGame' - scoreGame)
        /\ forgiven' \in Nat
    BY <1>1, <2>1, DrawnType DEF Show
  <2>3. ScoreTypeOK' /\ ClockBehind'
    BY <1>1, <2>1, <2>2 DEF IScore, ScoreTypeOK, ClockBehind, GetNumOfSeconds, Elapsed
  <2>4. TimeKept'
    BY <1>1, <1>2, <2>1, <2>2 DEF IScore, TimeKept, Elapsed
  <2> QED BY <2>3, <2>4 DEF IScore
<1>4. CASE ~updateStopped /\ Gap # 0
  <2>1. /\ startSecondTick' = SecondStart /\ time' = Advanced(Gap)
        /\ late' = (late \/ Gap > 1) /\ Show(scoreGame - Gap)
    BY <1>4 DEF Frame
  <2>2. /\ scoreGame' \in Int
        /\ forgiven' = forgiven + (scoreGame' - (scoreGame - Gap))
        /\ forgiven' \in Nat
    <3>1. scoreGame - Gap \in Int
      BY <1>1, <1>2
    <3> QED BY <1>1, <1>2, <1>4, <2>1, <3>1, DrawnType DEF Show
  <2>3. Elapsed' = Elapsed + Gap
    BY <1>2, <2>1 DEF Elapsed
  <2>4. TimeKept'
    <3>1. scoreGame = points - Elapsed + forgiven
      BY <1>4 DEF IScore, TimeKept
    <3>2. startSecondTick' % Second = 0
      BY <1>2, <2>1
    <3>3. scoreGame' = points' - Elapsed' + forgiven'
      <4>1. Gap \in Nat /\ Elapsed \in Nat
        BY <1>2
      <4>2. points' = points /\ points \in Int /\ scoreGame \in Int /\ forgiven \in Nat
        BY <1>1
      <4>3. PICK drawn \in Int : drawn = scoreGame'
        BY <2>2
      <4>4. PICK back \in Int : back = forgiven'
        BY <2>2
      <4>5. back = forgiven + (drawn - (scoreGame - Gap))
        BY <2>2, <4>3, <4>4
      <4>6. drawn = points - (Elapsed + Gap) + back
        BY <3>1, <4>1, <4>2, <4>5
      <4> QED BY <2>3, <4>2, <4>3, <4>4, <4>6
    <3> QED BY <3>2, <3>3 DEF TimeKept
  <2>5. /\ Advanced(Gap) \in [sec : 0..(Sixty - 1), min : 0..(Sixty - 1), hour : 0..(Day - 1)]
        /\ SecondsOf(Advanced(Gap)) <= GetNumOfSeconds + Gap
        /\ Gap = 1 /\ GetNumOfSeconds + 1 < Day * Sixty * Sixty
             => SecondsOf(Advanced(Gap)) = GetNumOfSeconds + 1
    BY <1>2, <1>4, ClockSteps DEF IScore
  <2>6. ScoreTypeOK'
    <3>1. late' \in BOOLEAN
      BY <2>1
    <3>2. now \in Nat
      BY DEF IScore, ScoreTypeOK
    <3>3. startSecondTick' \in 0..now' /\ time' = Advanced(Gap) /\ scoreGame' \in Int
      BY <1>1, <1>2, <2>1, <2>2
    <3> QED BY <1>1, <2>2, <2>5, <3>1, <3>2, <3>3 DEF ScoreTypeOK
  <2>7. GetNumOfSeconds' = SecondsOf(Advanced(Gap))
    BY <2>1 DEF GetNumOfSeconds, SecondsOf
  <2>8. ClockBehind'
    <3>1. /\ GetNumOfSeconds \in Nat /\ GetNumOfSeconds <= Elapsed
          /\ ~late /\ Elapsed < Day * Sixty * Sixty => GetNumOfSeconds = Elapsed
      BY SecondsType DEF IScore, ClockBehind
    <3>2. GetNumOfSeconds' \in Nat
      BY <2>6, SecondsType, ConstantTypes DEF ScoreTypeOK, GetNumOfSeconds
    <3>3. GetNumOfSeconds' <= Elapsed'
      BY <1>2, <2>3, <2>5, <2>7, <3>1, <3>2
    <3>4. ASSUME ~late', Elapsed' < Day * Sixty * Sixty PROVE GetNumOfSeconds' = Elapsed'
      <4>1. ~late /\ ~(Gap > 1)
        BY <2>1, <3>4
      <4>2. Gap = 1
        BY <1>2, <1>4, <4>1
      <4>3. Day * Sixty * Sixty \in Nat
        BY ConstantTypes
      <4>4. GetNumOfSeconds = Elapsed /\ GetNumOfSeconds + 1 < Day * Sixty * Sixty
        BY <1>2, <2>3, <3>1, <3>4, <4>1, <4>2, <4>3
      <4> QED BY <1>2, <2>3, <2>5, <2>7, <4>2, <4>4
    <3> QED BY <3>3, <3>4 DEF ClockBehind
  <2> QED BY <2>4, <2>6, <2>8 DEF IScore
<1> QED BY <1>1, <1>3, <1>4

LEMMA ScoredScore == ASSUME IScore, NEW gain \in Gains, Scored(gain) PROVE IScore'
<1>1. /\ gain \in Int /\ points' = points + gain /\ scoreGame' = scoreGame + gain
      /\ UNCHANGED <<now, startSecondTick, time, updateStopped, forgiven, late>>
  BY ConstantTypes DEF Scored, clock
<1>2. scoreGame \in Int /\ points \in Int /\ forgiven \in Nat
  BY DEF IScore, ScoreTypeOK
<1>3. Elapsed \in Nat
  BY GapCounted DEF IScore, TimeKept
<1>4. ScoreTypeOK' /\ ClockBehind'
  BY <1>1, <1>2 DEF IScore, ScoreTypeOK, ClockBehind, GetNumOfSeconds, Elapsed
<1>5. TimeKept'
  BY <1>1, <1>2, <1>3 DEF IScore, TimeKept, Elapsed
<1> QED BY <1>4, <1>5 DEF IScore

LEMMA VictoryScore == ASSUME IScore, Victory PROVE IScore'
<1>1. /\ updateStopped' = TRUE
      /\ scoreGame' = Drawn(BonusScore(scoreGame, GetNumOfSeconds))
      /\ UNCHANGED <<now, startSecondTick, time, points, forgiven, late>>
  BY DEF Victory, history
<1>2. scoreGame' \in Int
  <2>1. GetNumOfSeconds \in Int /\ scoreGame \in Int
    BY SecondsType DEF IScore, ScoreTypeOK
  <2>2. BonusScore(scoreGame, GetNumOfSeconds) \in Int
    BY <2>1, BonusType
  <2> QED BY <1>1, <2>2, DrawnType
<1> QED BY <1>1, <1>2 DEF IScore, ScoreTypeOK, TimeKept, ClockBehind, GetNumOfSeconds, Elapsed

LEMMA NextIScore == IScore /\ [ScoreNext]_allVars => IScore'
<1> SUFFICES ASSUME IScore, [ScoreNext]_allVars PROVE IScore'
  OBVIOUS
<1>1. CASE Tick       BY <1>1, TickScore
<1>2. CASE newGame    BY <1>2, FromZero DEF newGame
<1>3. CASE Frame      BY <1>3, FrameScore
<1>4. CASE Victory    BY <1>4, VictoryScore
<1>5. CASE Storing    BY <1>5, ScoreUnchanged DEF Storing
<1>6. CASE NewProgram BY <1>6, FromZero DEF NewProgram
<1>7. CASE \E gain \in Gains : Scored(gain)
  BY <1>7, ScoredScore
<1>8. CASE UNCHANGED allVars
  BY <1>8, ScoreUnchanged DEF allVars
<1> QED BY <1>1, <1>2, <1>3, <1>4, <1>5, <1>6, <1>7, <1>8 DEF ScoreNext

LEMMA ScoreHolds == ScoreSpec => []IScore
BY InitScore, NextIScore, PTL DEF ScoreSpec

(* The clock, the score and what they are compared with keep their types   *)
(* in every game.                                                          *)
THEOREM ScoreTyped == ScoreSpec => []ScoreTypeOK
BY ScoreHolds, PTL DEF IScore

(* The penalty for time is exact: IsMoreThenOneSecElapsed finds every      *)
(* second once, however the frames fall.                                   *)
THEOREM TimeIsKept == ScoreSpec => []TimeKept
BY ScoreHolds, PTL DEF IScore

(* The clock of drawScore is never ahead of the time that was charged, and *)
(* shows exactly that as long as no frame comes late and no day is over.   *)
THEOREM ClockNeverAhead == ScoreSpec => []ClockBehind
BY ScoreHolds, PTL DEF IScore
-----------------------------------------------------------------------------
(* The bonus and the final score fit into their integers.                  *)
Fit(score, seconds) ==
    /\ -Width < 2 * score - 10 * seconds /\ 2 * score - 10 * seconds < Width
    /\ -Width <= 2 * (3 * score - 10 * seconds) /\ 2 * (3 * score - 10 * seconds) < Width

LEMMA SignedIs ==
    ASSUME NEW n \in Int, -Width <= 2 * n, 2 * n < Width
    PROVE  Signed(n) = n /\ Signed(n + Width) = n
<1>1. Width \in Nat \ {0}
  BY ConstantTypes
<1>2. CASE 0 <= n
  <2>1. n % Width = n
    BY <1>1, <1>2, Remainder
  <2>2. (n + Width) % Width = n
    <3>1. Width <= n + Width /\ n + Width < 2 * Width /\ n + Width \in Int
      BY <1>1, <1>2
    <3> QED BY <1>1, <3>1, Remainder
  <2> QED BY <1>1, <2>1, <2>2 DEF Signed
<1>3. CASE n < 0
  <2>1. n % Width = n + Width
    <3>1. -Width <= n
      BY <1>1, <1>3
    <3> QED BY <1>1, <1>3, <3>1, Remainder
  <2>2. (n + Width) % Width = n + Width
    <3>1. 0 <= n + Width /\ n + Width < Width /\ n + Width \in Int
      BY <1>1, <1>3
    <3> QED BY <1>1, <3>1, Remainder
  <2>3. ~(2 * (n + Width) < Width)
    BY <1>1
  <2> QED BY <1>1, <2>1, <2>2, <2>3 DEF Signed
<1> QED BY <1>2, <1>3

(* Bonus plus score, although bonusScore keeps the bonus in an unsigned    *)
(* integer: a negative bonus wraps around twice.                           *)
LEMMA BonusPromised ==
    ASSUME NEW s \in Int, NEW t \in Int, Fit(s, t)
    PROVE  BonusScore(s, t) = 3 * s - 10 * t
<1> DEFINE x == 2 * s - 10 * t
           n == 3 * s - 10 * t
<1>1. Width \in Nat \ {0}
  BY ConstantTypes
<1>2. /\ x \in Int /\ n \in Int /\ n = s + x
      /\ -Width < x /\ x < Width /\ -Width <= 2 * n /\ 2 * n < Width
  BY DEF Fit
<1>3. BonusScore(s, t) = IF x % Width > 0 THEN Signed(s + (x % Width)) ELSE s
  BY DEF BonusScore
<1> HIDE DEF x, n
<1>4. Signed(n) = n /\ Signed(n + Width) = n
  BY <1>2, SignedIs
<1>5. CASE 0 <= x
  <2>1. x % Width = x
    BY <1>1, <1>2, <1>5, Remainder
  <2>2. x = 0 => BonusScore(s, t) = n
    BY <1>1, <1>2, <1>3, <2>1
  <2>3. x > 0 => BonusScore(s, t) = Signed(n)
    BY <1>2, <1>3, <2>1
  <2> QED BY <1>2, <1>4, <1>5, <2>2, <2>3 DEF n
<1>6. CASE x < 0
  <2>1. x % Width = x + Width
    <3>1. -Width <= x
      BY <1>1, <1>2
    <3> QED BY <1>1, <1>2, <1>6, <3>1, Remainder
  <2>2. x + Width > 0 /\ s + (x + Width) = n + Width
    BY <1>1, <1>2
  <2>3. BonusScore(s, t) = Signed(n + Width)
    BY <1>3, <2>1, <2>2
  <2> QED BY <1>4, <2>3 DEF n
<1> QED BY <1>2, <1>5, <1>6

(* The final score is what the help promises, as long as it and the bonus  *)
(* fit into 64 bits: BonusScore of the score that TimeIsKept describes.    *)
Fits == Fit(scoreGame, GetNumOfSeconds)

THEOREM FinalScoreHolds == ScoreSpec /\ []Fits => FinalScore
<1>1. IScore /\ Fits /\ [ScoreNext]_allVars
        => [Victory /\ ~updateStopped =>
              scoreGame' = Drawn(3 * (points - Elapsed + forgiven) - 10 * GetNumOfSeconds)]_allVars
  <2> SUFFICES ASSUME IScore, Fits, Victory, ~updateStopped
               PROVE  scoreGame' = Drawn(3 * (points - Elapsed + forgiven) - 10 * GetNumOfSeconds)
    OBVIOUS
  <2>1. scoreGame \in Int /\ GetNumOfSeconds \in Int
    BY SecondsType DEF IScore, ScoreTypeOK
  <2>2. scoreGame = points - Elapsed + forgiven
    BY DEF IScore, TimeKept
  <2>3. BonusScore(scoreGame, GetNumOfSeconds) = 3 * scoreGame - 10 * GetNumOfSeconds
    BY <2>1, BonusPromised DEF Fits
  <2>4. scoreGame' = Drawn(BonusScore(scoreGame, GetNumOfSeconds))
    BY SMT DEF Victory
  <2> QED BY <2>2, <2>3, <2>4
<1>2. ScoreSpec => []IScore
  BY InitScore, NextIScore, PTL DEF ScoreSpec
<1> QED BY <1>1, <1>2, PTL DEF ScoreSpec, FinalScore
-----------------------------------------------------------------------------
(* The score a game would offer to the table of high scores now, and that  *)
(* it would pass the limits of SaveScore and beat an entry.                *)
Offered == Drawn(BonusScore(scoreGame, GetNumOfSeconds))
Taken   == 0 <= Offered /\ Offered <= 1000000 /\ Beaten(Offered) # {}

(* A win either stores the score it offers or leaves the table alone.      *)
LEMMA VictoryOffers == Victory => (Taken /\ SaveScore(Offered)) \/ (~Taken /\ UNCHANGED table)
BY SMT DEF Victory, Offered, Taken

(* Games use the table as HighScore says: every step of a game is a step   *)
(* of HighScore or leaves the table alone, if Scores names what games end  *)
(* with.                                                                   *)
LEMMA GamesUseTable ==
    ScoreSpec /\ [](Taken => Offered \in Scores) => Spec
<1>1. ScoreInit => Init
  BY DEF ScoreInit
<1>2. (Taken => Offered \in Scores) /\ [ScoreNext]_allVars => [Next]_vars
  <2> SUFFICES ASSUME Taken => Offered \in Scores, [ScoreNext]_allVars
               PROVE  [Next]_vars
    OBVIOUS
  <2>1. CASE Tick       BY <2>1, Zenon DEF Tick, table
  <2>2. CASE newGame    BY <2>2, Zenon DEF newGame, table
  <2>3. CASE Frame      BY <2>3, Zenon DEF Frame, table
  <2>4. CASE Victory
    <3>1. CASE Taken /\ SaveScore(Offered)
      BY <3>1, Zenon DEF Next
    <3>2. CASE UNCHANGED table
      BY <3>2, Zenon DEF table
    <3> QED BY <2>4, <3>1, <3>2, VictoryOffers, Zenon
  <2>5. CASE Storing    BY <2>5, Zenon DEF Storing, Next
  <2>6. CASE NewProgram BY <2>6, Zenon DEF NewProgram, Next
  <2>7. CASE \E gain \in Gains : Scored(gain)
    BY <2>7, Zenon DEF Scored, table
  <2>8. CASE UNCHANGED allVars
    BY <2>8, Zenon DEF allVars, table
  <2> QED BY <2>1, <2>2, <2>3, <2>4, <2>5, <2>6, <2>7, <2>8, Zenon DEF ScoreNext
<1> QED BY <1>1, <1>2, PTL DEF ScoreSpec, Spec

(* However games, saves, crashes and restarts follow each other, no place  *)
(* of the ranking loses points but by a restart in the middle of a save:   *)
(* a lower score never takes a place, and a win never finds a save open.   *)
THEOREM TableKept ==
    ASSUME ScoresFit
    PROVE  ScoreSpec /\ [](Taken => Offered \in Scores) => LostOnlyInSave
<1>1. Spec => LostOnlyInSave
  BY LossNeedsCrash
<1> QED BY <1>1, GamesUseTable, PTL

(* The file.  That it holds what is in memory does not depend on what the  *)
(* games end with: also a score that does not fit into an entry is cut to  *)
(* the same number in memory and in the file.                              *)
IStored == TypeOK /\ FileMatches /\ FileOnlyIfExists /\ SavingHasFile

LEMMA InitStored == ScoreInit => IStored
BY InitIInv DEF ScoreInit, IInv, IStored

LEMMA SameStored == ASSUME IStored, UNCHANGED table PROVE IStored'
BY DEF IStored, TypeOK, FileMatches, FileOnlyIfExists, SavingHasFile, table, vars

LEMMA SaveScoreStored == ASSUME IStored, NEW score \in Int, SaveScore(score) PROVE IStored'
<1>1. PICK j \in Beaten(score) : scoreInfo' = Inserted(score, j)
  BY DEF SaveScore
<1>2. scoreInfo \in [Rank -> Nat] /\ j \in Rank /\ NumOfScore \in Nat /\ score % ScoreLimit \in Nat
  BY HighScoreAssumption DEF IStored, TypeOK, Beaten
<1>3. scoreInfo' \in [Rank -> Nat]
  <2>1. \A i \in Rank : i > j => i - 1 \in Rank
    BY <1>2 DEF Rank
  <2>2. \A i \in Rank : i < j \/ i = j \/ i > j
    BY <1>2 DEF Rank
  <2>3. \A i \in Rank : scoreInfo'[i] \in Nat
    BY <1>1, <1>2, <2>1, <2>2 DEF Inserted
  <2> QED BY <1>1, <2>3 DEF Inserted
<1>4. file' = <<>> /\ fileExists' = TRUE /\ saving' = TRUE
  BY DEF SaveScore
<1>5. TypeOK'
  BY <1>2, <1>3, <1>4 DEF TypeOK
<1> QED BY <1>4, <1>5 DEF IStored, FileMatches, FileOnlyIfExists, SavingHasFile

LEMMA WriteEntryStored == ASSUME IStored, WriteEntry PROVE IStored'
<1>1. /\ file \in Seq(Nat) /\ Len(file) + 1 \in Rank /\ scoreInfo[Len(file) + 1] \in Nat
      /\ file' = Append(file, scoreInfo[Len(file) + 1])
      /\ UNCHANGED <<scoreInfo, fileExists, saving>> /\ fileExists
  BY HighScoreAssumption DEF WriteEntry, IStored, TypeOK, Rank, SavingHasFile
<1>2. file' \in Seq(Nat) /\ Len(file') = Len(file) + 1 /\ Len(file') <= NumOfScore
  BY <1>1, HighScoreAssumption DEF Rank
<1>3. \A i \in DOMAIN file' : file'[i] = scoreInfo[i]
  <2>1. DOMAIN file = 1..Len(file) /\ DOMAIN file' = 1..(Len(file) + 1)
    BY <1>1, <1>2
  <2>2. /\ \A i \in 1..Len(file) : file'[i] = file[i]
        /\ file'[Len(file) + 1] = scoreInfo[Len(file) + 1]
    BY <1>1
  <2> QED BY <1>1, <2>1, <2>2 DEF IStored, FileMatches
<1>4. TypeOK'
  BY <1>1, <1>2 DEF IStored, TypeOK
<1> QED BY <1>1, <1>3, <1>4 DEF IStored, FileMatches, FileOnlyIfExists, SavingHasFile

LEMMA CloseFileStored == ASSUME IStored, CloseFile PROVE IStored'
BY DEF CloseFile, IStored, TypeOK, FileMatches, FileOnlyIfExists, SavingHasFile

LEMMA RestartStored == ASSUME IStored, Restart PROVE IStored'
<1>1. /\ file \in Seq(Nat) /\ Len(file) <= NumOfScore /\ NumOfScore \in Nat
      /\ Default \in [Rank -> Nat] /\ (~fileExists => file = <<>>)
  BY HighScoreAssumption DEF IStored, TypeOK, FileOnlyIfExists
<1>2. DOMAIN file = 1..Len(file) /\ Len(file) \in Nat /\ \A i \in DOMAIN file : file[i] \in Nat
  BY <1>1
<1>3. scoreInfo' = Loaded /\ saving' = FALSE /\ UNCHANGED <<file, fileExists>>
  BY DEF Restart
<1>4. scoreInfo' \in [Rank -> Nat]
  <2>1. \A i \in Rank : i <= Len(file) => i \in DOMAIN file
    BY <1>1, <1>2 DEF Rank
  <2>2. \A i \in Rank : Loaded[i] \in Nat
    BY <1>1, <1>2, <2>1 DEF Loaded
  <2> QED BY <1>3, <2>2 DEF Loaded
<1>5. \A i \in DOMAIN file : file[i] = scoreInfo'[i]
  <2>1. \A i \in DOMAIN file : i \in Rank /\ i <= Len(file) /\ fileExists
    BY <1>1, <1>2 DEF Rank, IStored, TypeOK
  <2> QED BY <1>3, <2>1 DEF Loaded
<1>6. TypeOK'
  BY <1>3, <1>4 DEF IStored, TypeOK
<1> QED BY <1>1, <1>3, <1>5, <1>6 DEF IStored, FileMatches, FileOnlyIfExists, SavingHasFile

LEMMA VictoryStored == ASSUME IStored, IScore, Victory PROVE IStored'
<1>1. Offered \in Int
  <2>1. GetNumOfSeconds \in Int /\ scoreGame \in Int
    BY SecondsType DEF IScore, ScoreTypeOK
  <2>2. BonusScore(scoreGame, GetNumOfSeconds) \in Int
    BY <2>1, BonusType
  <2> QED BY <2>2, DrawnType DEF Offered
<1> QED BY <1>1, VictoryOffers, SameStored, SaveScoreStored

LEMMA NextStored == IStored /\ IScore /\ [ScoreNext]_allVars => IStored'
<1> SUFFICES ASSUME IStored, IScore, [ScoreNext]_allVars PROVE IStored'
  OBVIOUS
<1>1. CASE Tick       BY <1>1, SameStored, Zenon DEF Tick
<1>2. CASE newGame    BY <1>2, SameStored, Zenon DEF newGame
<1>3. CASE Frame      BY <1>3, SameStored, Zenon DEF Frame
<1>4. CASE Victory    BY <1>4, VictoryStored
<1>5. CASE Storing    BY <1>5, WriteEntryStored, CloseFileStored DEF Storing
<1>6. CASE NewProgram BY <1>6, RestartStored DEF NewProgram
<1>7. CASE \E gain \in Gains : Scored(gain)
  BY <1>7, SameStored, Zenon DEF Scored
<1>8. CASE UNCHANGED allVars
  BY <1>8, SameStored, Zenon DEF allVars, table
<1> QED BY <1>1, <1>2, <1>3, <1>4, <1>5, <1>6, <1>7, <1>8 DEF ScoreNext

LEMMA StoredHolds == ScoreSpec => []IStored
BY InitStored, NextStored, ScoreHolds, PTL DEF ScoreSpec

(* The table in memory and the score file keep their types, in games with  *)
(* whatever points, through crashes and restarts of the program.           *)
THEOREM TableTyped == ScoreSpec => []TypeOK
BY StoredHolds, PTL DEF IStored

(* What Save has written so far is what is in memory, and what Load finds  *)
(* after a crash is in memory again, whatever the games end with.          *)
THEOREM FileAgrees == ScoreSpec => []FileMatches
BY StoredHolds, PTL DEF IStored

(* So the high scores stay a ranking in the program as a whole, as long as *)
(* games end with scores that fit into an entry.                           *)
THEOREM RankingInGames ==
    ASSUME ScoresFit
    PROVE  ScoreSpec /\ [](Taken => Offered \in Scores) => [](Sorted /\ AboveDefault /\ FileMatches)
<1>1. Spec => [](Sorted /\ AboveDefault /\ FileMatches)
  BY RankingHolds
<1> QED BY <1>1, GamesUseTable, PTL
=============================================================================
