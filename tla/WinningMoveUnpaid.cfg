CONSTANTS
  Suits = {"BASTONI"}
  BlackSuits = {"BASTONI"}
  MaxRank = 2
  NumTableau = 1
  Shuffles <- OneSuit2
  TouchWithoutMouse = FALSE
  Commands = {}
  Interrupts = 0
  MouseButtons = {"LEFT"}
SPECIFICATION Spec
PROPERTY WinningMovePaid
