CONSTANTS
  NumOfScore = 3
  Default <- ThreeDefaults
  Scores <- FinalScores
  ScoreLimit = 32
  Second = 2
  Sixty = 2
  Day = 2
  Gains <- SomeGains
  Floor <- FloorValue
  Width = 1024
  LastTick = 17
  MaxPoints = 3
  MaxScore = 4
SPECIFICATION ScoreSpec
INVARIANTS
  TypeOK
  Sorted
  AboveDefault
  FileMatches
  ScoreTypeOK
  TimeKept
  ClockBehind
PROPERTIES
  LostOnlyInSave
  FinalScore
