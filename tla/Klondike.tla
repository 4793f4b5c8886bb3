------------------------------ MODULE Klondike ------------------------------
(***************************************************************************)
(* The game the player believes to play: a table of piles and the moves of *)
(* solitaire on it, each of them one step.  No pointer, no drag, no zoom.  *)
(* SolitarioGfx has to implement it; SolitarioTable says how.              *)
(***************************************************************************)
EXTENDS SolitarioCards

CONSTANT Shuffles   \* the orders the deck may be dealt in

VARIABLE cards      \* the pile of each region

Playable == Region \ {DeckPile_Ix}     \* the piles a card may be taken from

(* May c be put on a pile?  The tableau is built down in alternating       *)
(* colours from a King, the foundations up in suit from an Ace.            *)
FitsTableau(c, p) ==
    IF p = <<>> THEN c.rank = MaxRank
    ELSE Top(p).up /\ c.rank = Top(p).rank - 1 /\ IsBlack(c) # IsBlack(Top(p))

FitsFoundation(c, p) ==
    IF p = <<>> THEN c.rank = 1
    ELSE c.rank = Top(p).rank + 1 /\ c.suit = Top(p).suit

NewGame == \E deck \in Shuffles : cards' = Deal(deck)

Flip ==      \* turn over the top card of a tableau pile
    \E r \in Tableau :
        /\ cards[r] # <<>> /\ ~Top(cards[r]).up
        /\ cards' = [cards EXCEPT ![r] = TurnUpTop(@)]

NextFromStock ==
    /\ cards[DeckPile_Ix] # <<>>
    /\ cards' = [cards EXCEPT ![DeckPile_Ix] = AfterPop(@, 1),
                              ![DeckFaceUp] = Append(@, [Top(cards[DeckPile_Ix]) EXCEPT !.up = TRUE])]

RedialStock ==
    /\ cards[DeckPile_Ix] = <<>>
    /\ cards' = [cards EXCEPT ![DeckPile_Ix] = Reversed(WithFaces(cards[DeckFaceUp], FALSE)),
                              ![DeckFaceUp] = <<>>]

(* The n top cards of one pile, all face up, go to another; only from the  *)
(* tableau may they be more than one, and only onto the tableau.           *)
Move ==
    \E from \in Playable : \E to \in (Tableau \cup Aces) \ {from} :
    \E n \in 1..Len(cards[from]) :
        LET run   == Popped(cards[from], n)
            start == run[1]
        IN /\ n > 1 => {from, to} \subseteq Tableau
           /\ \A i \in 1..n : run[i].up
           /\ IF to \in Tableau THEN FitsTableau(start, cards[to])
                                ELSE FitsFoundation(start, cards[to])
           /\ cards' = [cards EXCEPT ![from] = AfterPop(@, n), ![to] = @ \o run]

KlondikeInit == \E deck \in Shuffles : cards = Deal(deck)
KlondikeNext == NewGame \/ Flip \/ NextFromStock \/ RedialStock \/ Move
KlondikeSpec == KlondikeInit /\ [][KlondikeNext]_cards
=============================================================================
