--------------------------- MODULE SolitarioTable ---------------------------
(***************************************************************************)
(* SolitarioMouse implements Klondike: while a move is under way its cards *)
(* count as lying where they were taken from; the move happens when        *)
(* DoDropEvent puts them down.                                             *)
(***************************************************************************)
EXTENDS SolitarioMouse

(* Where the cards in dragStack came from, and how they lay there.         *)
Source == CASE continueFn = "SingleTapB" -> DeckFaceUp
            [] continueFn = "SingleTapC" -> DeckPile_Ix
            [] OTHER -> selected

AsTheyLay == CASE continueFn = "SingleTapB" -> WithFaces(dragStack, TRUE)
               [] continueFn = "SingleTapC" -> WithFaces(dragStack, FALSE)
               [] OTHER -> dragStack

(* The redial is shown in the order of the face-up pile until its lambda   *)
(* reverses the stock.                                                     *)
Settled == IF continueLamda = "SingleTapB"
           THEN [pile EXCEPT ![DeckPile_Ix] = Reversed(@)] ELSE pile

CardsSeen == IF dragStack = <<>> THEN Settled
             ELSE [pile EXCEPT ![Source] = @ \o AsTheyLay]

Table == INSTANCE Klondike WITH cards <- CardsSeen

(* Every step of the machine, whatever the pointer does, is one legal move *)
(* of solitaire, a new deal, or no change of the table at all.             *)
PlaysKlondike == Table!KlondikeSpec
=============================================================================
