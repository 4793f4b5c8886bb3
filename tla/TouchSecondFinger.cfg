CONSTANTS
  Suits = {"BASTONI"}
  BlackSuits = {"BASTONI"}
  MaxRank = 2
  NumTableau = 1
  Shuffles <- OneSuit2
  TouchWithoutMouse = TRUE
  Commands = {"NEW_GAME"}
  Interrupts = 0
  MaxFingers = 2
SPECIFICATION Spec
INVARIANT CargoAtFirst
