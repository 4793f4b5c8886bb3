CONSTANTS
  Suits = {"BASTONI"}
  BlackSuits = {"BASTONI"}
  MaxRank = 2
  NumTableau = 1
  Shuffles <- OneSuit2
  TouchWithoutMouse = TRUE
  Commands = {"QUIT"}
  Interrupts = 0
  MaxFingers = 1
SPECIFICATION Spec
INVARIANTS
  TouchTypeOK
  CardsConserved
  StateIsSet
PROPERTIES
  IsGameScreen
CHECK_DEADLOCK FALSE
