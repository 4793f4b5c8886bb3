-------------------------- MODULE MCSolitarioMouse --------------------------
(***************************************************************************)
(* Small decks for SolitarioMouse.  A shuffle is given as the sequence of  *)
(* the deck from the bottom of the stock to its top; the tableau is dealt  *)
(* from its end.                                                           *)
(***************************************************************************)
EXTENDS SolitarioTable

CardOf(s, r) == [suit |-> s, rank |-> r]
black(r) == CardOf("BASTONI", r)
red(r) == CardOf("COPPE", r)

(* One suit of two cards, one tableau pile: a card on the tableau, one in  *)
(* the stock.                                                              *)
OneSuit2 == {<<black(1), black(2)>>}

(* One suit of three cards, one tableau pile, two cards in the stock.      *)
OneSuit3 == {<<black(1), black(2), black(3)>>}

(* Two suits of two cards, two tableau piles, one card in the stock.       *)
TwoSuits2 == {<<black(1), red(2), black(2), red(1)>>}

(* Two suits of three cards, two tableau piles, three cards in the stock.  *)
TwoSuits3 == {<<black(1), black(2), red(1), black(3), red(2), red(3)>>,
              <<red(1), black(3), black(1), red(2), black(2), red(3)>>}
=============================================================================
