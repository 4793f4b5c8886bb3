CONSTANTS
  Eng = Eng
  Ita = Ita
  NoName = NoName
  CutName = CutName
  Virginio = Virginio
  Long = Long
  Longer = Longer
  Langs = {Eng, Ita}
  Names = {NoName, CutName, Virginio}
  Size <- Sizes
  Default <- Constructed
SPECIFICATION Spec
PROPERTY NameKept
