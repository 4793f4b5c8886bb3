-------------------------- MODULE MCSolitarioTouch --------------------------
(***************************************************************************)
(* Small decks for SolitarioTouch (see MCSolitarioMouse).                  *)
(***************************************************************************)
EXTENDS SolitarioTouch

CardOf(s, r) == [suit |-> s, rank |-> r]

(* One suit of two cards, one tableau pile: a card on the tableau, one in  *)
(* the stock.                                                              *)
OneSuit2 == {<<CardOf("BASTONI", 1), CardOf("BASTONI", 2)>>}

(* One suit of three cards, one tableau pile, two cards in the stock.      *)
OneSuit3 == {<<CardOf("BASTONI", 1), CardOf("BASTONI", 2), CardOf("BASTONI", 3)>>}
=============================================================================
