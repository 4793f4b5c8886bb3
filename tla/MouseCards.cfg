CONSTANTS
  Suits = {"BASTONI", "COPPE"}
  BlackSuits = {"BASTONI"}
  MaxRank = 3
  NumTableau = 2
  Shuffles <- TwoSuits3
  TouchWithoutMouse = FALSE
  Commands = {}
  Interrupts = 0
  MouseButtons = {"LEFT"}
SPECIFICATION Spec
INVARIANTS
  CardsConserved
  FoundationsBuilt
  TableauBuilt
  TalonInOrder
PROPERTIES
  SavesFinishedGame
  PlaysKlondike
