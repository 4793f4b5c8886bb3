CONSTANTS
  Suits = {"BASTONI"}
  BlackSuits = {"BASTONI"}
  MaxRank = 2
  NumTableau = 1
  Shuffles <- OneSuit2
  TouchWithoutMouse = FALSE
  Commands = {"NEW_GAME"}
  Interrupts = 1
  MouseButtons = {"LEFT"}
SPECIFICATION Spec
INVARIANT TableIsOneDeck
