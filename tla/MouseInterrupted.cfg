CONSTANTS
  Suits = {"BASTONI"}
  BlackSuits = {"BASTONI"}
  MaxRank = 2
  NumTableau = 1
  Shuffles <- OneSuit2
  TouchWithoutMouse = FALSE
  Commands = {"NEW_GAME", "VICTORY"}
  Interrupts = 1
  MouseButtons = {"LEFT"}
SPECIFICATION Spec
INVARIANTS
  ControlInv
  NoCardLost
  CargoAtFirst
  DropRegionKept
PROPERTIES
  LeftByCommand
