--------------------------- MODULE SolitarioCards ---------------------------
(***************************************************************************)
(* The cards, the regions of the table and the pure operations on piles:   *)
(* CardGfx, CardStackGfx and CardRegionGfx of the source.  A pile is the   *)
(* sequence of its cards from the bottom to the top; where the source      *)
(* reads .back(), the model reads the last element.                        *)
(*                                                                         *)
(* The game has 4 suits, 7 tableau piles and 10 (or 14, Tarock) ranks; all *)
(* three are constants here.  Coordinates, bitmaps and scale factors are   *)
(* left out: which region a point hits is a choice of the environment.     *)
(***************************************************************************)
EXTENDS Integers, Sequences, FiniteSets

CONSTANTS Suits,      \* the suits of the deck: BASTONI, COPPE, DENARI, SPADE
          BlackSuits, \* those of them that CardGfx::IsBlack accepts
          MaxRank,    \* number of cards in a suit, the rank of the King
          NumTableau  \* number of tableau piles (Found_Ix1 .. Found_Ix7)

ASSUME CardsAssumption ==
    /\ IsFiniteSet(Suits) /\ Suits # {}
    /\ BlackSuits \subseteq Suits
    /\ MaxRank \in Nat \ {0}
    /\ NumTableau \in Nat \ {0}
-----------------------------------------------------------------------------
(* The faces of the deck, and a card lying on the table.                   *)
Deck == [suit : Suits, rank : 1..MaxRank]
Card == [suit : Suits, rank : 1..MaxRank, up : BOOLEAN]

Face(c) == [suit |-> c.suit, rank |-> c.rank]
Faces(p) == [i \in DOMAIN p |-> Face(p[i])]
IsBlack(c) == c.suit \in BlackSuits

(* eRegionIx: the index of a region is its place in _cardRegionList.       *)
DeckPile_Ix == 0
Tableau     == 1..NumTableau
DeckFaceUp  == NumTableau + 1
NumAces     == Cardinality(Suits)
Aces        == (NumTableau + 2)..(NumTableau + 1 + NumAces)
Region      == 0..(NumTableau + 1 + NumAces)
NoRegion    == -1   \* a NULL LPCardRegionGfx

(* What Show gives to CreateRegion for the region at an index.             *)
RegionTypeId(r) ==
    CASE r = DeckPile_Ix -> "RT_DECKSTOCK"
      [] r \in Tableau   -> "RT_TABLEAU"
      [] r = DeckFaceUp  -> "RT_DECKSTOCK_FACEUP"
      [] OTHER           -> "RT_ACE_FOUNDATION"

DoesDrop(r) == RegionTypeId(r) \in {"RT_TABLEAU", "RT_ACE_FOUNDATION"}

AnySuitMode(r) ==   \* mutant: CRD_DOSUIT forgotten
    CASE r = DeckPile_Ix -> {}
      [] r \in Tableau   -> {"DOOPCOLOR", "DOLOWER", "DOLOWERBY1", "DOKING"}
      [] r = DeckFaceUp  -> {"DOALL"}
      [] OTHER -> {"DOSINGLE", "DOHIGHER", "DOHIGHERBY1", "DOACE"}
AnyColourMode(r) ==   \* mutant: CRD_DOOPCOLOR forgotten
    CASE r = DeckPile_Ix -> {}
      [] r \in Tableau   -> {"DOLOWER", "DOLOWERBY1", "DOKING"}
      [] r = DeckFaceUp  -> {"DOALL"}
      [] OTHER -> {"DOSINGLE", "DOHIGHER", "DOHIGHERBY1", "DOACE", "DOSUIT"}
AcceptMode(r) ==
    CASE r = DeckPile_Ix -> {}
      [] r \in Tableau   -> {"DOOPCOLOR", "DOLOWER", "DOLOWERBY1", "DOKING"}
      [] r = DeckFaceUp  -> {"DOALL"}
      [] OTHER -> {"DOSINGLE", "DOHIGHER", "DOHIGHERBY1", "DOACE", "DOSUIT"}

DragMode(r) ==
    CASE r = DeckPile_Ix -> "DONOTHING"
      [] r \in Tableau   -> "DRAGFACEUP"
      [] OTHER           -> "DRAGTOP"
-----------------------------------------------------------------------------
(* CardStackGfx.                                                           *)
Top(p) == p[Len(p)]
WithFaces(p, b) == [i \in DOMAIN p |-> [p[i] EXCEPT !.up = b]]
TurnUpTop(p) == IF p = <<>> THEN p ELSE [p EXCEPT ![Len(p)].up = TRUE]
Reversed(p) == [i \in 1..Len(p) |-> p[Len(p) - i + 1]]

(* PopStack(items): the cards it returns and the cards it leaves.          *)
Popped(p, items) == SubSeq(p, (IF items > Len(p) THEN 0 ELSE Len(p) - items) + 1, Len(p))
AfterPop(p, items) == SubSeq(p, 1, IF items > Len(p) THEN 0 ELSE Len(p) - items)
-----------------------------------------------------------------------------
(* CardRegionGfx::CanDrop for the region r whose pile is dest.             *)
EmptyAcceptsAll(r, start) == DoesDrop(r)   \* mutant
EmptyAccepts(r, start) ==
    \/ "DOKING" \in AcceptMode(r) /\ start.rank = MaxRank
    \/ "DOACE" \in AcceptMode(r) /\ start.rank = 1

PileAccepts(r, last, cargo) ==
    LET start == cargo[1]
        mode  == AcceptMode(r)
        Only(a, b) == a \in mode /\ b \notin mode
    IN /\ last.up
       /\ DoesDrop(r)
       /\ \/ "DOALL" \in mode
          \/ /\ "DOSINGLE" \in mode => Len(cargo) = 1
             /\ "DOOPCOLOR" \in mode => IsBlack(start) # IsBlack(last)
             /\ Only("DOHIGHER", "DOLOWER") => start.rank > last.rank
             /\ Only("DOLOWER", "DOHIGHER") => start.rank < last.rank
             /\ mode \cap {"DOHIGHER", "DOLOWER"} = {} => start.rank # last.rank
             /\ Only("DOHIGHERBY1", "DOLOWERBY1") => start.rank - last.rank <= 1
             /\ Only("DOLOWERBY1", "DOHIGHERBY1") => start.rank - last.rank >= -1
             /\ "DOSUIT" \in mode => start.suit = last.suit

CanDrop(r, dest, cargo) ==
    /\ cargo # <<>>
    /\ IF dest = <<>> THEN EmptyAccepts(r, cargo[1])
                      ELSE PileAccepts(r, Top(dest), cargo)
-----------------------------------------------------------------------------
(* newGame: the deal of a shuffled deck.  Tableau pile i pops its i cards  *)
(* off the stock after the piles before it, and only its top lies face up. *)
DealtTo(i) == (i * (i - 1)) \div 2    \* cards dealt before tableau pile i

Deal(deck) ==
    LET down == [i \in DOMAIN deck |-> [suit |-> deck[i].suit, rank |-> deck[i].rank,
                                        up |-> FALSE]]
    IN [r \in Region |->
          CASE r = DeckPile_Ix -> AfterPop(down, DealtTo(NumTableau + 1))
            [] r \in Tableau ->
                 TurnUpTop(Popped(AfterPop(down, DealtTo(r)), r))
            [] OTHER -> <<>>]

(* The orders std::shuffle can leave the deck in.                          *)
Shuffled(deck) == /\ Len(deck) = Cardinality(Deck)
                  /\ {deck[i] : i \in DOMAIN deck} = Deck
=============================================================================
