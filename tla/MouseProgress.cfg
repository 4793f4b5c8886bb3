CONSTANTS
  Suits = {"BASTONI"}
  BlackSuits = {"BASTONI"}
  MaxRank = 2
  NumTableau = 1
  Shuffles <- OneSuit2
  TouchWithoutMouse = FALSE
  Commands = {"NEW_GAME", "QUIT", "VICTORY"}
  Interrupts = 0
  MouseButtons = {"LEFT"}
SPECIFICATION FairSpec
INVARIANTS
  MouseTypeOK
  StateIsSet
PROPERTIES
  PlaysKlondike
  IsGameScreen
  CargoNotForgotten
