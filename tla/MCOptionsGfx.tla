---------------------------- MODULE MCOptionsGfx ----------------------------
EXTENDS OptionsGfx

CONSTANTS Virginio, Long,  \* the name of the constructor, one of 256 characters
          Longer,          \* one of 300
          Eng, Ita

Sizes == [n \in Names |-> CASE n = NoName   -> 0
                            [] n = CutName  -> 1
                            [] n = Virginio -> 8
                            [] n = Long     -> 256
                            [] OTHER        -> 300]
Constructed == [lang |-> Eng, music |-> TRUE, name |-> Virginio]
=============================================================================
