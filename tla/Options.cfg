CONSTANTS
  Eng = Eng
  Ita = Ita
  NoName = NoName
  CutName = CutName
  Virginio = Virginio
  Long = Long
  Longer = Longer
  Langs = {Eng, Ita}
  Names = {NoName, CutName, Virginio, Long, Longer}
  Size <- Sizes
  Default <- Constructed
SPECIFICATION Spec
INVARIANTS
  OptionsTypeOK
  InStep
PROPERTY LoadedWhole
