------------------------ MODULE SolitarioGame_proofs ------------------------
(***************************************************************************)
(* What the mouse build and the touch build share, for every deck and      *)
(* every number of piles: what the operations on piles return and which    *)
(* cards they keep, that a deal puts every card of the deck on one pile,   *)
(* what a tap, a drop and the lambda after it do to the table, and which   *)
(* piles obey the rules of the game.                                       *)
(***************************************************************************)
EXTENDS SolitarioScreen, SequenceTheorems, FiniteSetTheorems, WellFoundedInduction, TLAPS

USE DEF Victory, InitDrag, TapClick, Zoom, Fading, State, Unset

(* A function on 1..n is a sequence.                                       *)
LEMMA FunctionIsSeq ==
    ASSUME NEW S, NEW n \in Nat, NEW f \in [1..n -> S]
    PROVE  f \in Seq(S) /\ Len(f) = n
BY SeqDef

(* The regions and their kinds do not overlap.                             *)
LEMMA RegionFacts ==
    /\ NumAces \in Nat \ {0}
    /\ DeckPile_Ix \in Region /\ DeckFaceUp \in Region
    /\ Tableau \subseteq Region /\ Aces \subseteq Region
    /\ DeckPile_Ix \notin Tableau \cup Aces \cup {DeckFaceUp, NoRegion}
    /\ DeckFaceUp \notin Tableau \cup Aces
    /\ Tableau \cap Aces = {}
    /\ NoRegion \notin Region
    /\ Region = {DeckPile_Ix, DeckFaceUp} \cup Tableau \cup Aces
<1>1. NumAces \in Nat \ {0}
  <2>1. IsFiniteSet(Suits) /\ Suits # {}
    BY CardsAssumption
  <2> QED BY <2>1, FS_CardinalityType, FS_EmptySet DEF NumAces
<1>2. NumTableau \in Nat \ {0}
  BY CardsAssumption
<1> QED
  BY <1>1, <1>2 DEF DeckPile_Ix, DeckFaceUp, Tableau, Aces, Region, NoRegion

LEMMA WithFacesType ==
    ASSUME NEW p \in Seq(Card), NEW b \in BOOLEAN
    PROVE  WithFaces(p, b) \in Seq(Card) /\ Len(WithFaces(p, b)) = Len(p)
<1>1. Len(p) \in Nat /\ DOMAIN p = 1..Len(p)
  OBVIOUS
<1>2. \A i \in 1..Len(p) : [p[i] EXCEPT !.up = b] \in Card
  <2>1. \A i \in 1..Len(p) : p[i] \in Card
    BY <1>1
  <2> QED BY <2>1 DEF Card
<1>3. WithFaces(p, b) \in [1..Len(p) -> Card]
  BY <1>1, <1>2 DEF WithFaces
<1> QED BY <1>1, <1>3, FunctionIsSeq

LEMMA TurnUpTopType ==
    ASSUME NEW p \in Seq(Card)
    PROVE  TurnUpTop(p) \in Seq(Card) /\ Len(TurnUpTop(p)) = Len(p)
<1>1. CASE p = <<>>
  BY <1>1 DEF TurnUpTop
<1>2. CASE p # <<>>
  <2>1. Len(p) \in 1..Len(p)
    BY <1>2
  <2>2. p[Len(p)] \in Card
    BY <2>1
  <2>3. [p[Len(p)] EXCEPT !.up = TRUE] \in Card
    BY <2>2 DEF Card
  <2>4. TurnUpTop(p) = [p EXCEPT ![Len(p)] = [p[Len(p)] EXCEPT !.up = TRUE]]
    BY <1>2 DEF TurnUpTop
  <2> QED BY <2>1, <2>3, <2>4, ExceptSeq
<1> QED BY <1>1, <1>2

LEMMA ReversedType ==
    ASSUME NEW S, NEW p \in Seq(S)
    PROVE  Reversed(p) \in Seq(S) /\ Len(Reversed(p)) = Len(p)
<1>1. Len(p) \in Nat
  OBVIOUS
<1>2. \A i \in 1..Len(p) : p[Len(p) - i + 1] \in S
  OBVIOUS
<1>3. Reversed(p) \in [1..Len(p) -> S]
  BY <1>2 DEF Reversed
<1> QED BY <1>1, <1>3, FunctionIsSeq

(* PopStack: both parts are piles, and nothing is lost between them.       *)
LEMMA PopType ==
    ASSUME NEW S, NEW p \in Seq(S), NEW items \in Nat
    PROVE  /\ Popped(p, items) \in Seq(S)
           /\ AfterPop(p, items) \in Seq(S)
           /\ Len(Popped(p, items)) + Len(AfterPop(p, items)) = Len(p)
           /\ items <= Len(p) => Len(Popped(p, items)) = items
<1> DEFINE cut == IF items > Len(p) THEN 0 ELSE Len(p) - items
<1>1. Len(p) \in Nat /\ cut \in 0..Len(p)
  OBVIOUS
<1>2. \A i \in 1..Len(p) : p[i] \in S
  OBVIOUS
<1>3. /\ SubSeq(p, cut + 1, Len(p)) \in Seq(S)
      /\ Len(SubSeq(p, cut + 1, Len(p))) = Len(p) - cut
  <2>1. \A i \in (cut + 1)..Len(p) : p[i] \in S
    BY <1>1, <1>2
  <2> HIDE DEF cut
  <2> QED BY <1>1, <2>1, SubSeqProperties
<1>4. /\ SubSeq(p, 1, cut) \in Seq(S)
      /\ Len(SubSeq(p, 1, cut)) = cut
  <2>1. \A i \in 1..cut : p[i] \in S
    BY <1>1, <1>2
  <2> HIDE DEF cut
  <2> QED BY <1>1, <2>1, SubSeqProperties
<1>5. Popped(p, items) = SubSeq(p, cut + 1, Len(p)) /\ AfterPop(p, items) = SubSeq(p, 1, cut)
  BY DEF Popped, AfterPop
<1>6. items <= Len(p) => Len(p) - cut = items
  BY <1>1
<1> HIDE DEF cut
<1>7. Popped(p, items) \in Seq(S) /\ Len(Popped(p, items)) = Len(p) - cut
  BY <1>3, <1>5
<1>8. AfterPop(p, items) \in Seq(S) /\ Len(AfterPop(p, items)) = cut
  BY <1>4, <1>5
<1> QED BY <1>1, <1>6, <1>7, <1>8

(* A pile cut at k, as InitDrag cuts it.                                   *)
LEMMA CutType ==
    ASSUME NEW S, NEW p \in Seq(S), NEW k \in 1..Len(p)
    PROVE  /\ SubSeq(p, 1, k - 1) \in Seq(S)
           /\ SubSeq(p, k, Len(p)) \in Seq(S)
           /\ SubSeq(p, k, Len(p)) # <<>>
<1>1. Len(p) \in Nat /\ \A i \in 1..Len(p) : p[i] \in S
  OBVIOUS
<1>2. SubSeq(p, 1, k - 1) \in Seq(S)
  BY <1>1, SubSeqProperties
<1>3. SubSeq(p, k, Len(p)) \in Seq(S) /\ Len(SubSeq(p, k, Len(p))) = Len(p) - k + 1
  BY <1>1, SubSeqProperties
<1>4. Len(SubSeq(p, k, Len(p))) # 0
  BY <1>1, <1>3
<1>5. SubSeq(p, k, Len(p)) # <<>>
  BY <1>4, EmptySeq
<1> QED BY <1>2, <1>3, <1>5

LEMMA FacesType ==
    ASSUME NEW p \in Seq(Card)
    PROVE  Faces(p) \in Seq(Deck)
<1>1. Len(p) \in Nat /\ DOMAIN p = 1..Len(p) /\ \A i \in 1..Len(p) : p[i] \in Card
  OBVIOUS
<1>2. \A i \in 1..Len(p) : Face(p[i]) \in Deck
  BY <1>1 DEF Card, Deck, Face
<1> DEFINE f == [i \in 1..Len(p) |-> Face(p[i])]
<1>3. f \in [1..Len(p) -> Deck] /\ Faces(p) = f
  BY <1>1, <1>2 DEF Faces
<1> HIDE DEF f
<1> QED BY <1>1, <1>3, FunctionIsSeq

LEMMA DealtToType == ASSUME NEW i \in Nat \ {0} PROVE DealtTo(i) \in Nat
<1>1. i * (i - 1) \in Nat
  OBVIOUS
<1> QED BY <1>1 DEF DealtTo

(* newGame puts a pile on every region, whatever the shuffle.              *)
LEMMA DealType ==
    ASSUME NEW deck \in Seq(Deck)
    PROVE  /\ Deal(deck) \in [Region -> Seq(Card)]
           /\ Faces(Deal(deck)[DeckPile_Ix]) \in Seq(Deck)
<1> DEFINE down == [i \in DOMAIN deck |-> [suit |-> deck[i].suit, rank |-> deck[i].rank,
                                           up |-> FALSE]]
<1>1. down \in Seq(Card)
  <2>1. Len(deck) \in Nat /\ DOMAIN deck = 1..Len(deck) /\ \A i \in 1..Len(deck) : deck[i] \in Deck
    OBVIOUS
  <2>2. \A i \in 1..Len(deck) : [suit |-> deck[i].suit, rank |-> deck[i].rank, up |-> FALSE] \in Card
    BY <2>1 DEF Card, Deck
  <2>3. down \in [1..Len(deck) -> Card]
    BY <2>1, <2>2
  <2> HIDE DEF down
  <2> QED BY <2>1, <2>3, FunctionIsSeq
<1> DEFINE at(r) == CASE r = DeckPile_Ix -> AfterPop(down, DealtTo(NumTableau + 1))
                      [] r \in Tableau -> TurnUpTop(Popped(AfterPop(down, DealtTo(r)), r))
                      [] OTHER -> <<>>
<1>2. Deal(deck) = [r \in Region |-> at(r)]
  BY DEF Deal
<1> HIDE DEF down
<1>3. ASSUME NEW r \in Region PROVE at(r) \in Seq(Card)
  <2>1. CASE r = DeckPile_Ix
    <3>1. NumTableau + 1 \in Nat \ {0}
      BY CardsAssumption
    <3>2. AfterPop(down, DealtTo(NumTableau + 1)) \in Seq(Card)
      BY <1>1, <3>1, DealtToType, PopType
    <3> QED BY <2>1, <3>2, RegionFacts
  <2>2. CASE r # DeckPile_Ix /\ r \in Tableau
    <3>1. r \in Nat \ {0}
      BY <2>2, CardsAssumption DEF Tableau
    <3>2. AfterPop(down, DealtTo(r)) \in Seq(Card)
      BY <1>1, <3>1, DealtToType, PopType
    <3>3. Popped(AfterPop(down, DealtTo(r)), r) \in Seq(Card)
      BY <3>1, <3>2, PopType
    <3> QED BY <2>2, <3>3, TurnUpTopType, RegionFacts
  <2>3. CASE r # DeckPile_Ix /\ r \notin Tableau
    BY <2>3
  <2> QED BY <2>1, <2>2, <2>3
<1> HIDE DEF at
<1>4. Deal(deck) \in [Region -> Seq(Card)]
  BY <1>2, <1>3
<1> QED BY <1>4, RegionFacts, FacesType
-----------------------------------------------------------------------------
(* WHICH CARDS A PILE HOLDS                                                *)

(* A pile holds a card of the deck, face up or down.                       *)
Holds(p, f) == \E i \in DOMAIN p : Face(p[i]) = f

LEMMA ConcatHolds ==
    ASSUME NEW p \in Seq(Card), NEW q \in Seq(Card), NEW f, Holds(p, f) \/ Holds(q, f)
    PROVE  Holds(p \o q, f)
<1>1. CASE Holds(p, f)
  <2>1. PICK i \in DOMAIN p : Face(p[i]) = f
    BY <1>1 DEF Holds
  <2>2. i \in DOMAIN (p \o q) /\ (p \o q)[i] = p[i]
    BY ConcatProperties
  <2> QED BY <2>1, <2>2 DEF Holds
<1>2. CASE Holds(q, f)
  <2>1. PICK i \in DOMAIN q : Face(q[i]) = f
    BY <1>2 DEF Holds
  <2>2. Len(p) + i \in DOMAIN (p \o q) /\ (p \o q)[Len(p) + i] = q[i]
    BY ConcatProperties
  <2> QED BY <2>1, <2>2 DEF Holds
<1> QED BY <1>1, <1>2

(* A pile that is cut anywhere loses nothing.                              *)
LEMMA CutHolds ==
    ASSUME NEW p \in Seq(Card), NEW k \in 0..Len(p), NEW f, Holds(p, f)
    PROVE  Holds(SubSeq(p, 1, k), f) \/ Holds(SubSeq(p, k + 1, Len(p)), f)
<1>1. PICK i \in 1..Len(p) : Face(p[i]) = f
  BY DEF Holds
<1>2. Len(p) \in Nat /\ \A j \in 1..Len(p) : p[j] \in Card
  OBVIOUS
<1>3. CASE i <= k
  <2>1. i \in DOMAIN SubSeq(p, 1, k) /\ SubSeq(p, 1, k)[i] = p[i]
    BY <1>2, <1>3
  <2> QED BY <1>1, <2>1 DEF Holds
<1>4. CASE i > k
  <2>1. i - k \in DOMAIN SubSeq(p, k + 1, Len(p)) /\ SubSeq(p, k + 1, Len(p))[i - k] = p[i]
    BY <1>2, <1>4
  <2> QED BY <1>1, <2>1 DEF Holds
<1> QED BY <1>3, <1>4

LEMMA PopHolds ==
    ASSUME NEW p \in Seq(Card), NEW items \in Nat, NEW f, Holds(p, f)
    PROVE  Holds(AfterPop(p, items), f) \/ Holds(Popped(p, items), f)
<1> DEFINE cut == IF items > Len(p) THEN 0 ELSE Len(p) - items
<1>1. cut \in 0..Len(p)
  OBVIOUS
<1>2. Popped(p, items) = SubSeq(p, cut + 1, Len(p)) /\ AfterPop(p, items) = SubSeq(p, 1, cut)
  BY DEF Popped, AfterPop
<1> HIDE DEF cut
<1> QED BY <1>1, <1>2, CutHolds

(* Neither turning cards over nor reversing a pile changes what is in it.  *)
LEMMA FaceTurned ==
    ASSUME NEW c \in Card, NEW b
    PROVE  Face([c EXCEPT !.up = b]) = Face(c)
BY DEF Face, Card

LEMMA WithFacesHolds ==
    ASSUME NEW p \in Seq(Card), NEW b, NEW f, Holds(p, f)
    PROVE  Holds(WithFaces(p, b), f)
<1>1. PICK i \in DOMAIN p : Face(p[i]) = f
  BY DEF Holds
<1>2. p[i] \in Card
  BY <1>1
<1>3. WithFaces(p, b)[i] = [p[i] EXCEPT !.up = b] /\ i \in DOMAIN WithFaces(p, b)
  BY <1>1 DEF WithFaces
<1> QED BY <1>1, <1>2, <1>3, FaceTurned DEF Holds

LEMMA TurnUpTopHolds ==
    ASSUME NEW p \in Seq(Card), NEW f, Holds(p, f)
    PROVE  Holds(TurnUpTop(p), f)
<1>1. PICK i \in 1..Len(p) : Face(p[i]) = f
  BY DEF Holds
<1>2. p # <<>> /\ p[i] \in Card
  BY <1>1
<1> DEFINE last == [p[Len(p)] EXCEPT !.up = TRUE]
<1>3. TurnUpTop(p) = [p EXCEPT ![Len(p)] = last]
  BY <1>2 DEF TurnUpTop
<1>4. CASE i = Len(p)
  <2>1. TurnUpTop(p)[i] = last /\ i \in DOMAIN TurnUpTop(p)
    <3> HIDE DEF last
    <3> QED BY <1>1, <1>3, <1>4
  <2>2. Face(last) = f
    BY <1>1, <1>2, <1>4, FaceTurned
  <2> QED BY <2>1, <2>2 DEF Holds
<1>5. CASE i # Len(p)
  <2>1. TurnUpTop(p)[i] = p[i] /\ i \in DOMAIN TurnUpTop(p)
    <3> HIDE DEF last
    <3> QED BY <1>1, <1>3, <1>5
  <2> QED BY <1>1, <2>1 DEF Holds
<1> QED BY <1>4, <1>5

LEMMA ReversedHolds ==
    ASSUME NEW p \in Seq(Card), NEW f, Holds(p, f)
    PROVE  Holds(Reversed(p), f)
<1>1. PICK i \in 1..Len(p) : Face(p[i]) = f
  BY DEF Holds
<1> DEFINE j == Len(p) - i + 1
<1>2. j \in 1..Len(p) /\ Len(p) - j + 1 = i
  BY <1>1
<1> HIDE DEF j
<1>3. j \in DOMAIN Reversed(p) /\ Reversed(p)[j] = p[i]
  BY <1>2 DEF Reversed
<1> QED BY <1>1, <1>3 DEF Holds

(* The deal: the place of a card in the deck, counted from the top, falls  *)
(* to the first pile that is dealt down to it, or stays in the stock.      *)
LEMMA DealtToNext == ASSUME NEW i \in Nat \ {0} PROVE DealtTo(i + 1) = DealtTo(i) + i
<1> DEFINE x == i * (i - 1)
<1>1. (i + 1) * (i + 1 - 1) = x + 2 * i
  OBVIOUS
<1>2. x \in Nat
  OBVIOUS
<1>3. DealtTo(i + 1) = (x + 2 * i) \div 2 /\ DealtTo(i) = x \div 2
  BY <1>1 DEF DealtTo
<1> HIDE DEF x
<1>4. (x + 2 * i) \div 2 = x \div 2 + i
  BY <1>2
<1> QED BY <1>3, <1>4

(* A set of numbers has a least one.                                       *)
LEMMA LeastOf ==
    ASSUME NEW S \in SUBSET Nat, S # {}
    PROVE  \E r \in S : \A q \in S : r <= q
<1> DEFINE less == OpToRel(<, Nat)
<1>1. \E r \in S : \A q \in S : ~(<<q, r>> \in less)
  <2> HIDE DEF less
  <2>1. IsWellFoundedOn(less, Nat)
    BY NatLessThanWellFounded DEF less
  <2> QED BY <2>1, WFMin
<1>2. \A q, r \in Nat : <<q, r>> \in less <=> q < r
  BY DEF OpToRel
<1> HIDE DEF less
<1>3. PICK r \in S : \A q \in S : ~(<<q, r>> \in less)
  BY <1>1
<1>4. \A q \in S : r <= q
  <2> TAKE q \in S
  <2>1. q \in Nat /\ r \in Nat /\ ~(q < r)
    BY <1>2, <1>3
  <2> QED BY <2>1
<1> QED BY <1>4

LEMMA DealtSomewhere ==
    ASSUME NEW n \in Nat, NEW i \in 1..n
    PROVE  \/ i <= n - DealtTo(NumTableau + 1)
           \/ \E r \in Tableau : n - DealtTo(r) - r < i /\ i <= n - DealtTo(r)
<1>1. NumTableau \in Nat \ {0} /\ \A r \in Tableau : r \in Nat \ {0} /\ DealtTo(r) \in Nat
  BY CardsAssumption, DealtToType DEF Tableau
<1> DEFINE S == {r \in Tableau : n - DealtTo(r) - r < i}
<1>2. SUFFICES ASSUME ~(i <= n - DealtTo(NumTableau + 1))
               PROVE  \E r \in Tableau : n - DealtTo(r) - r < i /\ i <= n - DealtTo(r)
  OBVIOUS
<1>3. NumTableau \in S
  <2>1. DealtTo(NumTableau + 1) = DealtTo(NumTableau) + NumTableau
    BY <1>1, DealtToNext
  <2>2. NumTableau \in Tableau /\ DealtTo(NumTableau) \in Nat
    BY <1>1 DEF Tableau
  <2> QED BY <1>1, <1>2, <2>1, <2>2
<1>4. PICK r \in S : \A q \in S : r <= q
  <2>1. S \subseteq Nat /\ S # {}
    BY <1>1, <1>3
  <2> HIDE DEF S
  <2> QED BY <2>1, LeastOf
<1>5. r \in Nat \ {0} /\ DealtTo(r) \in Nat /\ r \in Tableau /\ n - DealtTo(r) - r < i
  BY <1>1, <1>4
<1>6. i <= n - DealtTo(r)
  <2>1. CASE r = 1
    <3>1. DealtTo(1) = 0
      BY DEF DealtTo
    <3> QED BY <2>1, <3>1
  <2>2. CASE r # 1
    <3>1. r - 1 \in Tableau /\ r - 1 \in Nat \ {0} /\ ~(r <= r - 1)
      <4>1. r \in 1..NumTableau
        BY <1>5 DEF Tableau
      <4> QED BY <1>1, <2>2, <4>1 DEF Tableau
    <3>2. r - 1 \notin S
      BY <1>4, <3>1
    <3>3. DealtTo(r - 1 + 1) = DealtTo(r - 1) + (r - 1) /\ r - 1 + 1 = r
      BY <1>5, <3>1, DealtToNext
    <3>4. DealtTo(r) = DealtTo(r - 1) + (r - 1) /\ DealtTo(r - 1) \in Nat
      BY <1>1, <3>1, <3>3
    <3>5. ~(n - DealtTo(r - 1) - (r - 1) < i)
      BY <3>1, <3>2
    <3> HIDE DEF S
    <3> QED BY <1>5, <3>4, <3>5
  <2> QED BY <2>1, <2>2
<1> QED BY <1>5, <1>6
-----------------------------------------------------------------------------
(* NO CARD TWICE                                                           *)

(* No card lies twice in a pile; two piles have no card in common.         *)
Distinct(p) == \A i, j \in DOMAIN p : Face(p[i]) = Face(p[j]) => i = j
Apart(p, q) == \A i \in DOMAIN p, j \in DOMAIN q : Face(p[i]) # Face(q[j])

(* A pile without doubles is split in two.                                 *)
Parts(rest, cargo, whole) ==
    /\ Distinct(rest) /\ Distinct(cargo) /\ Apart(rest, cargo)
    /\ \A f : Holds(rest, f) \/ Holds(cargo, f) => Holds(whole, f)

(* Two piles of the same cards, whichever way up.                          *)
SameFaces(p, q) ==
    /\ DOMAIN p = DOMAIN q
    /\ \A i \in DOMAIN p : Face(p[i]) = Face(q[i])

LEMMA ApartHolds ==
    ASSUME NEW p, NEW q
    PROVE  Apart(p, q) <=> \A f : ~(Holds(p, f) /\ Holds(q, f))
BY DEF Apart, Holds

LEMMA ConcatOnce ==
    ASSUME NEW p \in Seq(Card), NEW q \in Seq(Card)
    PROVE  /\ \A f : Holds(p \o q, f) => Holds(p, f) \/ Holds(q, f)
           /\ Distinct(p) /\ Distinct(q) /\ Apart(p, q) => Distinct(p \o q)
<1> DEFINE m == Len(p)
           n == Len(q)
           pq == p \o q
<1>1. m \in Nat /\ n \in Nat /\ DOMAIN p = 1..m /\ DOMAIN q = 1..n
  OBVIOUS
<1>2. /\ DOMAIN pq = 1..(m + n)
      /\ \A i \in 1..(m + n) : pq[i] = IF i <= m THEN p[i] ELSE q[i - m]
  BY ConcatProperties
<1> HIDE DEF m, n, pq
<1>3. ASSUME NEW f, Holds(pq, f) PROVE Holds(p, f) \/ Holds(q, f)
  <2>1. PICK i \in 1..(m + n) : Face(pq[i]) = f
    BY <1>2, <1>3 DEF Holds
  <2>2. CASE i <= m
    <3>1. i \in DOMAIN p /\ Face(p[i]) = f
      BY <1>1, <1>2, <2>1, <2>2
    <3> QED BY <3>1 DEF Holds
  <2>3. CASE ~(i <= m)
    <3>1. i - m \in DOMAIN q /\ Face(q[i - m]) = f
      BY <1>1, <1>2, <2>1, <2>3
    <3> QED BY <3>1 DEF Holds
  <2> QED BY <2>2, <2>3
<1>4. ASSUME Distinct(p), Distinct(q), Apart(p, q) PROVE Distinct(pq)
  <2> SUFFICES ASSUME NEW i \in 1..(m + n), NEW j \in 1..(m + n), Face(pq[i]) = Face(pq[j])
               PROVE  i = j
    BY <1>2 DEF Distinct
  <2>1. CASE i <= m /\ j <= m
    <3>1. i \in DOMAIN p /\ j \in DOMAIN p /\ Face(p[i]) = Face(p[j])
      BY <1>1, <1>2, <2>1
    <3> QED BY <1>4, <3>1 DEF Distinct
  <2>2. CASE ~(i <= m) /\ ~(j <= m)
    <3>1. i - m \in DOMAIN q /\ j - m \in DOMAIN q /\ Face(q[i - m]) = Face(q[j - m])
      BY <1>1, <1>2, <2>2
    <3>2. i - m = j - m
      BY <1>4, <3>1 DEF Distinct
    <3> QED BY <1>1, <3>2
  <2>3. CASE i <= m /\ ~(j <= m)
    <3>1. i \in DOMAIN p /\ j - m \in DOMAIN q /\ Face(p[i]) = Face(q[j - m])
      BY <1>1, <1>2, <2>3
    <3> QED BY <1>4, <3>1 DEF Apart
  <2>4. CASE ~(i <= m) /\ j <= m
    <3>1. j \in DOMAIN p /\ i - m \in DOMAIN q /\ Face(p[j]) = Face(q[i - m])
      BY <1>1, <1>2, <2>4
    <3> QED BY <1>4, <3>1 DEF Apart
  <2> QED BY <2>1, <2>2, <2>3, <2>4
<1> QED BY <1>3, <1>4 DEF pq

LEMMA CutOnce ==
    ASSUME NEW p \in Seq(Card), NEW k \in 0..Len(p), Distinct(p)
    PROVE  Parts(SubSeq(p, 1, k), SubSeq(p, k + 1, Len(p)), p)
<1> DEFINE n == Len(p)
           pre == SubSeq(p, 1, k)
           suf == SubSeq(p, k + 1, n)
<1>1. n \in Nat /\ k \in 0..n /\ DOMAIN p = 1..n /\ \A i \in 1..n : p[i] \in Card
  OBVIOUS
<1>2. DOMAIN pre = 1..k /\ \A i \in 1..k : pre[i] = p[i] /\ i \in DOMAIN p
  BY <1>1
<1>3. DOMAIN suf = 1..(n - k) /\ \A i \in 1..(n - k) : suf[i] = p[i + k] /\ i + k \in DOMAIN p
  BY <1>1
<1> HIDE DEF n, pre, suf
<1>4. Distinct(pre)
  BY <1>2 DEF Distinct
<1>5. Distinct(suf)
  <2> SUFFICES ASSUME NEW i \in 1..(n - k), NEW j \in 1..(n - k), Face(suf[i]) = Face(suf[j])
               PROVE  i = j
    BY <1>3 DEF Distinct
  <2>1. i + k = j + k
    BY <1>3 DEF Distinct
  <2> QED BY <1>1, <2>1
<1>6. Apart(pre, suf)
  <2> SUFFICES ASSUME NEW i \in 1..k, NEW j \in 1..(n - k), Face(pre[i]) = Face(suf[j])
               PROVE  FALSE
    BY <1>2, <1>3 DEF Apart
  <2>1. i = j + k
    BY <1>2, <1>3 DEF Distinct
  <2> QED BY <1>1, <2>1
<1>7. \A f : Holds(pre, f) \/ Holds(suf, f) => Holds(p, f)
  BY <1>2, <1>3 DEF Holds
<1> QED BY <1>4, <1>5, <1>6, <1>7 DEF Parts, pre, suf, n

LEMMA PopOnce ==
    ASSUME NEW p \in Seq(Card), NEW items \in Nat, Distinct(p)
    PROVE  Parts(AfterPop(p, items), Popped(p, items), p)
<1> DEFINE cut == IF items > Len(p) THEN 0 ELSE Len(p) - items
<1>1. cut \in 0..Len(p)
  OBVIOUS
<1>2. Popped(p, items) = SubSeq(p, cut + 1, Len(p)) /\ AfterPop(p, items) = SubSeq(p, 1, cut)
  BY DEF Popped, AfterPop
<1> HIDE DEF cut
<1> QED BY <1>1, <1>2, CutOnce

LEMMA SameFacesOnce ==
    ASSUME NEW p, NEW q, SameFaces(p, q)
    PROVE  /\ Distinct(p) => Distinct(q)
           /\ \A f : Holds(q, f) <=> Holds(p, f)
BY DEF SameFaces, Distinct, Holds

LEMMA WithFacesSame ==
    ASSUME NEW p \in Seq(Card), NEW b
    PROVE  SameFaces(p, WithFaces(p, b))
<1>1. \A i \in DOMAIN p : p[i] \in Card
  OBVIOUS
<1>2. DOMAIN WithFaces(p, b) = DOMAIN p
  BY DEF WithFaces
<1>3. \A i \in DOMAIN p : WithFaces(p, b)[i] = [p[i] EXCEPT !.up = b]
  BY DEF WithFaces
<1> QED BY <1>1, <1>2, <1>3, FaceTurned DEF SameFaces

LEMMA TurnUpTopSame == ASSUME NEW p \in Seq(Card) PROVE SameFaces(p, TurnUpTop(p))
<1>1. CASE p = <<>>
  BY <1>1 DEF TurnUpTop, SameFaces
<1>2. CASE p # <<>>
  <2> DEFINE n == Len(p)
             last == [p[n] EXCEPT !.up = TRUE]
  <2>1. n \in 1..n /\ DOMAIN p = 1..n /\ p[n] \in Card
    BY <1>2
  <2>2. TurnUpTop(p) = [p EXCEPT ![n] = last]
    BY <1>2 DEF TurnUpTop
  <2>3. Face(last) = Face(p[n])
    BY <2>1, FaceTurned
  <2> HIDE DEF n, last
  <2> QED BY <2>1, <2>2, <2>3 DEF SameFaces
<1> QED BY <1>1, <1>2

LEMMA ReversedOnce ==
    ASSUME NEW p \in Seq(Card)
    PROVE  /\ Distinct(p) => Distinct(Reversed(p))
           /\ \A f : Holds(Reversed(p), f) => Holds(p, f)
<1> DEFINE n == Len(p)
<1>1. n \in Nat /\ DOMAIN p = 1..n /\ DOMAIN Reversed(p) = 1..n
  BY DEF Reversed
<1>2. \A i \in 1..n : Reversed(p)[i] = p[n - i + 1] /\ n - i + 1 \in 1..n
  BY <1>1 DEF Reversed
<1> HIDE DEF n
<1>3. ASSUME Distinct(p), NEW i \in 1..n, NEW j \in 1..n, Face(Reversed(p)[i]) = Face(Reversed(p)[j])
      PROVE  i = j
  <2>1. n - i + 1 = n - j + 1
    BY <1>1, <1>2, <1>3 DEF Distinct
  <2> QED BY <1>1, <2>1
<1> QED BY <1>1, <1>2, <1>3 DEF Distinct, Holds

(* The deal: the piles are disjoint parts of the deck.                     *)
LEMMA DealtToGrows ==
    ASSUME NEW r \in Nat \ {0}, NEW q \in Nat, r < q
    PROVE  DealtTo(r) + r <= DealtTo(q)
<1> DEFINE S == {x \in Nat : r < x /\ ~(DealtTo(r) + r <= DealtTo(x))}
<1>1. SUFFICES ASSUME S # {} PROVE FALSE
  OBVIOUS
<1>2. PICK x \in S : \A y \in S : x <= y
  <2>1. S \subseteq Nat
    OBVIOUS
  <2> HIDE DEF S
  <2> QED BY <1>1, <2>1, LeastOf
<1>3. x \in Nat \ {0} /\ r < x /\ x - 1 \in Nat \ {0} /\ x - 1 + 1 = x /\ ~(x <= x - 1)
  BY <1>2
<1>4. x - 1 \notin S
  BY <1>2, <1>3
<1>5. DealtTo(x) = DealtTo(x - 1) + (x - 1) /\ DealtTo(x - 1) \in Nat /\ DealtTo(r) \in Nat
  BY <1>3, DealtToNext, DealtToType
<1>6. ~(DealtTo(r) + r <= DealtTo(x))
  BY <1>2
<1>7. x - 1 = r \/ r < x - 1
  BY <1>3
<1>8. CASE x - 1 = r
  BY <1>5, <1>6, <1>8
<1>9. CASE r < x - 1
  <2>1. DealtTo(r) + r <= DealtTo(x - 1)
    BY <1>3, <1>4, <1>9
  <2> QED BY <1>3, <1>5, <1>6, <2>1
<1> QED BY <1>7, <1>8, <1>9

(* The places of the deck that fall to a region.                           *)
From(n, r) == IF r = DeckPile_Ix THEN 0 ELSE n - DealtTo(r) - r
To(n, r)   == IF r = DeckPile_Ix THEN n - DealtTo(NumTableau + 1) ELSE n - DealtTo(r)

LEMMA FromTo ==
    ASSUME NEW n \in Nat, DealtTo(NumTableau + 1) <= n
    PROVE  /\ \A r \in Tableau \cup {DeckPile_Ix} :
                 From(n, r) \in Nat /\ To(n, r) \in From(n, r)..n
           /\ \A r, q \in Tableau \cup {DeckPile_Ix} :
                 r # q => To(n, r) <= From(n, q) \/ To(n, q) <= From(n, r)
<1>1. NumTableau \in Nat \ {0} /\ DeckPile_Ix \notin Tableau
  BY CardsAssumption, RegionFacts
<1>2. \A r \in Tableau : /\ r \in Nat \ {0} /\ r < NumTableau + 1
                         /\ DealtTo(r) \in Nat /\ DealtTo(r) + r <= DealtTo(NumTableau + 1)
  BY <1>1, DealtToType, DealtToGrows DEF Tableau
<1>3. DealtTo(NumTableau + 1) \in Nat
  BY <1>1, DealtToType
<1>4. \A r \in Tableau : From(n, r) = n - DealtTo(r) - r /\ To(n, r) = n - DealtTo(r)
  BY <1>1 DEF From, To
<1>5. From(n, DeckPile_Ix) = 0 /\ To(n, DeckPile_Ix) = n - DealtTo(NumTableau + 1)
  BY DEF From, To
<1>6. \A r, q \in Tableau : r < q => To(n, q) <= From(n, r)
  <2> TAKE r, q \in Tableau
  <2>1. r < q => DealtTo(r) + r <= DealtTo(q)
    BY <1>2, DealtToGrows
  <2> QED BY <1>2, <1>4, <2>1
<1>7. \A r \in Tableau : From(n, r) \in Nat /\ To(n, r) \in From(n, r)..n
  BY <1>2, <1>3, <1>4
<1>8. \A r \in Tableau : To(n, DeckPile_Ix) <= From(n, r)
  <2> TAKE r \in Tableau
  <2>1. From(n, r) = n - DealtTo(r) - r /\ DealtTo(r) + r <= DealtTo(NumTableau + 1)
        /\ DealtTo(r) \in Nat /\ r \in Nat
    BY <1>2, <1>4
  <2> QED BY <1>3, <1>5, <2>1
<1>9. From(n, DeckPile_Ix) \in Nat /\ To(n, DeckPile_Ix) \in From(n, DeckPile_Ix)..n
  BY <1>3, <1>5
<1>10. \A r, q \in Tableau : r # q => r < q \/ q < r
  BY <1>2
<1> QED BY <1>6, <1>7, <1>8, <1>9, <1>10

(* The piles of a deal are these parts of the deck, only the top cards of  *)
(* the tableau face up.                                                    *)
LEMMA DealtPile ==
    ASSUME NEW deck \in Seq(Deck), DealtTo(NumTableau + 1) <= Len(deck),
           NEW r \in Tableau \cup {DeckPile_Ix}
    PROVE  /\ DOMAIN Deal(deck)[r] = 1..(To(Len(deck), r) - From(Len(deck), r))
           /\ \A i \in DOMAIN Deal(deck)[r] :
                /\ Face(Deal(deck)[r][i]) = deck[From(Len(deck), r) + i]
                /\ Deal(deck)[r][i].up =
                     (r # DeckPile_Ix /\ i = To(Len(deck), r) - From(Len(deck), r))
<1> DEFINE n == Len(deck)
           turned(i) == [suit |-> deck[i].suit, rank |-> deck[i].rank, up |-> FALSE]
           down == [i \in DOMAIN deck |-> turned(i)]
           from == From(n, r)
           to   == To(n, r)
           part == SubSeq(down, from + 1, to)
<1>1. n \in Nat /\ DOMAIN deck = 1..n /\ \A i \in 1..n : deck[i] \in Deck
  OBVIOUS
<1>2. \A i \in 1..n : turned(i) \in Card /\ Face(turned(i)) = deck[i] /\ turned(i).up = FALSE
  BY <1>1 DEF Face, Card, Deck
<1>3. /\ down \in Seq(Card) /\ Len(down) = n
      /\ \A i \in 1..n : Face(down[i]) = deck[i] /\ down[i].up = FALSE
  <2>1. down \in [1..n -> Card] /\ \A i \in 1..n : down[i] = turned(i)
    BY <1>1, <1>2
  <2> HIDE DEF down, n
  <2>2. down \in Seq(Card) /\ Len(down) = n
    BY <1>1, <2>1, FunctionIsSeq
  <2> QED BY <1>2, <2>1, <2>2
<1>4. from \in Nat /\ to \in from..n
  BY <1>1, FromTo
<1> DEFINE at(q) == CASE q = DeckPile_Ix -> AfterPop(down, DealtTo(NumTableau + 1))
                      [] q \in Tableau -> TurnUpTop(Popped(AfterPop(down, DealtTo(q)), q))
                      [] OTHER -> <<>>
<1>5. Deal(deck) = [q \in Region |-> at(q)] /\ r \in Region
  BY RegionFacts DEF Deal
<1>6. part \in Seq(Card) /\ Len(part) = to - from
      /\ \A i \in 1..(to - from) : /\ part[i] = down[from + i] /\ part[i] \in Card
                                   /\ Face(part[i]) = deck[from + i] /\ part[i].up = FALSE
  <2> HIDE DEF down, n, from, to
  <2>1. Len(part) = to - from /\ \A i \in 1..(to - from) : part[i] = down[from + i]
    BY <1>3, <1>4
  <2>2. \A i \in 1..(to - from) : from + i \in 1..n
    BY <1>1, <1>4
  <2>3. part \in Seq(Card)
    BY <1>3, <1>4, SubSeqProperties
  <2> QED BY <1>1, <1>3, <1>4, <2>1, <2>2, <2>3
<1>7. CASE r = DeckPile_Ix
  <2> DEFINE d == DealtTo(NumTableau + 1)
  <2>1. d \in Nat /\ d <= n /\ from = 0 /\ to = n - d
    BY <1>7, CardsAssumption, DealtToType DEF From, To
  <2>2. AfterPop(down, d) = part
    <3> HIDE DEF down, n, d, from, to
    <3> QED BY <1>1, <1>3, <2>1 DEF AfterPop
  <2>3. Deal(deck)[r] = part
    <3>1. r \notin Tableau
      BY <1>7, RegionFacts
    <3>2. at(r) = AfterPop(down, d)
      BY <1>7, <3>1
    <3> HIDE DEF at
    <3> QED BY <1>5, <2>2, <3>2
  <2> HIDE DEF part, from, to, n
  <2>4. DOMAIN Deal(deck)[r] = 1..(to - from)
    BY <1>4, <1>6, <2>3
  <2>5. \A i \in 1..(to - from) : Face(Deal(deck)[r][i]) = deck[from + i] /\ ~Deal(deck)[r][i].up
    BY <1>6, <2>3
  <2> QED BY <1>6, <1>7, <2>3, <2>4, <2>5 DEF from, to, n
<1>8. CASE r \in Tableau
  <2> DEFINE q == AfterPop(down, DealtTo(r))
  <2>1. /\ r \in Nat \ {0} /\ DealtTo(r) \in Nat /\ r # DeckPile_Ix
        /\ to = n - DealtTo(r) /\ from = to - r
    BY <1>8, CardsAssumption, DealtToType, RegionFacts DEF From, To, Tableau
  <2>2. q = SubSeq(down, 1, to)
    <3> HIDE DEF down, n, from, to
    <3> QED BY <1>1, <1>3, <1>4, <2>1 DEF AfterPop
  <2>3. q \in Seq(Card) /\ Len(q) = to /\ \A i \in 1..to : q[i] = down[i]
    <3> HIDE DEF down, n, from, to, q
    <3> QED BY <1>1, <1>3, <1>4, <2>2
  <2>4. Popped(q, r) = SubSeq(q, from + 1, to)
    <3> HIDE DEF down, n, from, to, q
    <3>1. (IF r > Len(q) THEN 0 ELSE Len(q) - r) = from
      BY <1>1, <1>4, <2>1, <2>3
    <3> QED BY <2>3, <3>1 DEF Popped
  <2>5. Popped(q, r) = part
    <3> HIDE DEF down, n, from, to, q
    <3>1. \A i \in 1..(to - from) : SubSeq(q, from + 1, to)[i] = part[i]
      BY <1>1, <1>3, <1>4, <2>3
    <3>2. SubSeq(q, from + 1, to) \in Seq(Card) /\ Len(SubSeq(q, from + 1, to)) = to - from
      BY <1>4, <2>3, SubSeqProperties
    <3> HIDE DEF part
    <3> QED BY <1>6, <2>4, <3>1, <3>2, SeqEqual
  <2>6. to - from = r /\ part # <<>> /\ Len(part) = r
    <3> HIDE DEF part, n, from, to
    <3> QED BY <1>1, <1>4, <1>6, <2>1
  <2> DEFINE last == [part[r] EXCEPT !.up = TRUE]
  <2>7. Deal(deck)[r] = [part EXCEPT ![r] = last]
    <3>1. at(r) = TurnUpTop(Popped(q, r))
      BY <1>8, <2>1
    <3> HIDE DEF at, q, part
    <3> QED BY <1>5, <2>5, <2>6, <3>1 DEF TurnUpTop
  <2>8. Face(last) = Face(part[r]) /\ last.up = TRUE
    <3>1. part[r] \in Card
      <4> HIDE DEF part, from, to
      <4> QED BY <1>6, <2>1, <2>6
    <3> HIDE DEF part
    <3>2. Face(last) = Face(part[r])
      BY <3>1, FaceTurned
    <3> QED BY <3>1, <3>2 DEF Card
  <2> HIDE DEF part, from, to, n, last
  <2>9. DOMAIN Deal(deck)[r] = 1..(to - from)
    BY <1>6, <2>6, <2>7
  <2>10. \A i \in 1..(to - from) :
           Deal(deck)[r][i] = IF i = r THEN last ELSE part[i]
    BY <1>6, <2>6, <2>7
  <2>11. \A i \in 1..(to - from) : /\ Face(Deal(deck)[r][i]) = deck[from + i]
                                   /\ Deal(deck)[r][i].up = (i = to - from)
    BY <1>6, <2>6, <2>8, <2>10
  <2> QED BY <2>1, <2>9, <2>11 DEF from, to, n
<1> QED BY <1>7, <1>8

LEMMA DealtNothing ==
    ASSUME NEW deck, NEW r \in Region, r \notin Tableau \cup {DeckPile_Ix}
    PROVE  Deal(deck)[r] = <<>>
BY DEF Deal

(* Every card of a shuffled deck is dealt to some pile.                    *)
LEMMA DealHolds ==
    ASSUME NEW deck \in Seq(Deck), Shuffled(deck), DealtTo(NumTableau + 1) <= Len(deck),
           NEW f \in Deck
    PROVE  \E r \in Region : Holds(Deal(deck)[r], f)
<1> DEFINE n == Len(deck)
<1>1. n \in Nat /\ DOMAIN deck = 1..n
  OBVIOUS
<1>2. PICK i \in 1..n : deck[i] = f
  BY <1>1 DEF Shuffled
<1>3. \A r \in Tableau \cup {DeckPile_Ix} : From(n, r) \in Nat /\ To(n, r) \in From(n, r)..n
  BY <1>1, FromTo
<1>4. PICK r \in Tableau \cup {DeckPile_Ix} : From(n, r) < i /\ i <= To(n, r)
  <2>1. \/ i <= n - DealtTo(NumTableau + 1)
        \/ \E r \in Tableau : n - DealtTo(r) - r < i /\ i <= n - DealtTo(r)
    BY <1>1, DealtSomewhere
  <2>2. CASE i <= n - DealtTo(NumTableau + 1)
    <3>1. From(n, DeckPile_Ix) < i /\ i <= To(n, DeckPile_Ix)
      BY <1>1, <2>2 DEF From, To
    <3> QED BY <3>1
  <2>3. ASSUME NEW r \in Tableau, n - DealtTo(r) - r < i, i <= n - DealtTo(r)
        PROVE  From(n, r) < i /\ i <= To(n, r)
    BY <2>3, RegionFacts DEF From, To
  <2> QED BY <2>1, <2>2, <2>3
<1>5. i - From(n, r) \in 1..(To(n, r) - From(n, r)) /\ From(n, r) + (i - From(n, r)) = i
  BY <1>1, <1>3, <1>4
<1>6. /\ i - From(n, r) \in DOMAIN Deal(deck)[r]
      /\ Face(Deal(deck)[r][i - From(n, r)]) = f
  <2>1. DOMAIN Deal(deck)[r] = 1..(To(n, r) - From(n, r))
    BY DealtPile
  <2>2. i - From(n, r) \in DOMAIN Deal(deck)[r]
    BY <1>5, <2>1
  <2>3. Face(Deal(deck)[r][i - From(n, r)]) = deck[From(n, r) + (i - From(n, r))]
    BY <2>2, DealtPile
  <2> QED BY <1>2, <1>5, <2>2, <2>3
<1> QED BY <1>6, RegionFacts DEF Holds

(* A shuffled deck has no card twice, and so no deal of it has.            *)
LEMMA ShuffledOnce ==
    ASSUME NEW deck \in Seq(Deck), Shuffled(deck)
    PROVE  \A i, j \in 1..Len(deck) : deck[i] = deck[j] => i = j
<1> DEFINE n == Len(deck)
<1>1. n \in Nat /\ DOMAIN deck = 1..n /\ deck \in [1..n -> Deck]
  OBVIOUS
<1>2. n = Cardinality(Deck) /\ {deck[i] : i \in 1..n} = Deck
  BY <1>1 DEF Shuffled
<1> HIDE DEF n
<1>3. deck \in Surjection(1..n, Deck)
  BY <1>1, <1>2 DEF Surjection
<1>4. IsFiniteSet(1..n) /\ Cardinality(1..n) = n
  BY <1>1, FS_Interval
<1>5. deck \in Injection(1..n, Deck)
  BY <1>2, <1>3, <1>4, FS_Surjection
<1> QED BY <1>5 DEF Injection, IsInjective, n

LEMMA DealtOnce ==
    ASSUME NEW deck \in Seq(Deck), Shuffled(deck), DealtTo(NumTableau + 1) <= Len(deck)
    PROVE  \A r, q \in Region : /\ Distinct(Deal(deck)[r])
                                /\ r # q => Apart(Deal(deck)[r], Deal(deck)[q])
<1> DEFINE n == Len(deck)
           Dealt == Tableau \cup {DeckPile_Ix}
<1>1. n \in Nat /\ \A i, j \in 1..n : deck[i] = deck[j] => i = j
  BY ShuffledOnce
<1>2. \A r \in Dealt : From(n, r) \in Nat /\ To(n, r) \in From(n, r)..n
  BY <1>1, FromTo
<1>3. \A r \in Dealt :
        /\ DOMAIN Deal(deck)[r] = 1..(To(n, r) - From(n, r))
        /\ \A i \in DOMAIN Deal(deck)[r] : Face(Deal(deck)[r][i]) = deck[From(n, r) + i]
  BY DealtPile
<1>4. \A r, q \in Dealt : r # q => To(n, r) <= From(n, q) \/ To(n, q) <= From(n, r)
  BY <1>1, FromTo
<1> HIDE DEF n
<1>5. ASSUME NEW r \in Dealt, NEW q \in Dealt,
             NEW i \in DOMAIN Deal(deck)[r], NEW j \in DOMAIN Deal(deck)[q],
             Face(Deal(deck)[r][i]) = Face(Deal(deck)[q][j])
      PROVE  From(n, r) + i = From(n, q) + j
  <2>1. i \in 1..(To(n, r) - From(n, r)) /\ j \in 1..(To(n, q) - From(n, q))
    BY <1>3
  <2>2. From(n, r) + i \in 1..n /\ From(n, q) + j \in 1..n
    BY <1>1, <1>2, <2>1
  <2>3. deck[From(n, r) + i] = deck[From(n, q) + j]
    BY <1>3, <1>5
  <2> QED BY <1>1, <2>2, <2>3
<1>6. ASSUME NEW r \in Dealt PROVE Distinct(Deal(deck)[r])
  <2> SUFFICES ASSUME NEW i \in DOMAIN Deal(deck)[r], NEW j \in DOMAIN Deal(deck)[r],
                      Face(Deal(deck)[r][i]) = Face(Deal(deck)[r][j])
               PROVE  i = j
    BY DEF Distinct
  <2>1. From(n, r) + i = From(n, r) + j
    BY <1>5, <1>6
  <2>2. i \in 1..(To(n, r) - From(n, r)) /\ j \in 1..(To(n, r) - From(n, r))
    BY <1>3, <1>6
  <2> QED BY <1>2, <1>6, <2>1, <2>2
<1>7. ASSUME NEW r \in Dealt, NEW q \in Dealt, r # q PROVE Apart(Deal(deck)[r], Deal(deck)[q])
  <2> SUFFICES ASSUME NEW i \in DOMAIN Deal(deck)[r], NEW j \in DOMAIN Deal(deck)[q],
                      Face(Deal(deck)[r][i]) = Face(Deal(deck)[q][j])
               PROVE  FALSE
    BY DEF Apart
  <2>1. From(n, r) + i = From(n, q) + j
    BY <1>5, <1>7
  <2>2. i \in 1..(To(n, r) - From(n, r)) /\ j \in 1..(To(n, q) - From(n, q))
    BY <1>3, <1>7
  <2>3. To(n, r) <= From(n, q) \/ To(n, q) <= From(n, r)
    BY <1>4, <1>7
  <2>4. /\ From(n, r) \in Nat /\ To(n, r) \in From(n, r)..n
        /\ From(n, q) \in Nat /\ To(n, q) \in From(n, q)..n
    BY <1>2, <1>7
  <2> QED BY <1>1, <2>1, <2>2, <2>3, <2>4
<1>8. \A r \in Region : r \notin Dealt => Deal(deck)[r] = <<>>
  BY DealtNothing
<1> QED BY <1>6, <1>7, <1>8 DEF Distinct, Apart
-----------------------------------------------------------------------------
(* WHAT THE OPERATIONS OF THE GAME LEAVE                                   *)

(* What lies on the table and in the drag, and the order it was dealt in.  *)
TableOK == /\ pile \in [Region -> Seq(Card)]
           /\ dragStack \in Seq(Card)
           /\ dealtStock \in Seq(Deck)

(* The members only a tap sets.                                            *)
TapOK == /\ selected \in Region \cup {NoRegion}
         /\ continueFn \in ContinueFn
         /\ isInitDrag \in BOOLEAN
         /\ dropRegion \in Region \cup {NoRegion}
         /\ cardStackForDrag \in BOOLEAN

(* The rest of the type invariant.                                         *)
GameFlowOK ==
    /\ state \in State
    /\ {statePrev, stateAfter, stateAfterYes, stateAfterNo} \subseteq State \cup {Unset}
    /\ startdrag \in BOOLEAN
    /\ continueLamda \in ContinueLamda
    /\ msgBox \in MsgBox
    /\ vict \in BOOLEAN /\ done \in BOOLEAN
    /\ saves \in 0..MaxSaves
    /\ interrupts \in 0..Interrupts

LEMMA NewGameType ==
    ASSUME newGame
    PROVE  /\ pile' \in [Region -> Seq(Card)] /\ dealtStock' \in Seq(Deck)
           /\ vict' = FALSE /\ saves' = 0
<1>1. \A d \in Shuffles : d \in Seq(Deck)
  BY GameAssumption
<1> QED BY <1>1, DealType DEF newGame

(* FindDropRegion: a foundation that takes the card, if there is one.      *)
LEMMA FirstOfType == ASSUME NEW S \in SUBSET Aces, S # {} PROVE FirstOf(S) \in S
<1>1. S \subseteq Nat
  BY RegionFacts, CardsAssumption DEF Aces
<1> QED BY <1>1, LeastOf DEF FirstOf

LEMMA DropType ==
    ASSUME TableOK, NEW dest
    PROVE  Dropped(dest) \in [Region -> Seq(Card)]
<1>1. \A r \in Region : pile[r] \o dragStack \in Seq(Card)
  BY DEF TableOK
<1> QED BY <1>1 DEF TableOK, Dropped

LEMMA DropTargetsType ==
    ASSUME NEW given \in Region \cup {NoRegion}, given = NoRegion => selected \in Region
    PROVE  DropTargets(given) \subseteq Region
BY DEF DropTargets

LEMMA AfterDropType == ASSUME NEW dest PROVE AfterDrop(dest) \subseteq Zoom
BY DEF AfterDrop

(* checkForVictory changes nothing but the state and the count of saves.   *)
LEMMA CheckForVictoryType ==
    ASSUME saves \in 0..MaxSaves, NEW p, NEW S, checkForVictory(p, S)
    PROVE  state' \in S \cup {"START_VICTORY"} /\ saves' \in 0..MaxSaves
BY DEF checkForVictory, MaxSaves

(* A tap either starts a move, with its cargo and its source known, or     *)
(* leaves the machine in the state st.                                     *)
TapResult(st) ==
    /\ TableOK' /\ TapOK'
    /\ state' \in {st, "INITDRAG_STEP1"}
    /\ state' = "INITDRAG_STEP1" /\ st # "INITDRAG_STEP1" =>
          /\ dragStack' # <<>>
          /\ selected' \in Region
          /\ continueFn' = "DoubleTap" => dropRegion' \in Aces

LEMMA TapIgnoredType ==
    ASSUME TableOK, TapOK, UNCHANGED dealtStock, NEW st,
           NEW r \in Region \cup {NoRegion}, TapIgnored(r, st)
    PROVE  TapResult(st)
BY DEF TableOK, TapOK, TapIgnored, TapResult, table

LEMMA TapPileType ==
    ASSUME TableOK, TapOK, UNCHANGED dealtStock, NEW st,
           NEW r \in Region \ {DeckPile_Ix}, NEW k \in Clickable(r), TapPile(r, k, st)
    PROVE  TapResult(st)
<1> DEFINE p == IF r \in Tableau /\ k = Len(pile[r]) THEN TurnUpTop(pile[r]) ELSE pile[r]
           lift == CanLift(r, p, k)
<1>1. pile[r] \in Seq(Card) /\ pile \in [Region -> Seq(Card)] /\ dragStack \in Seq(Card)
  BY DEF TableOK
<1>2. p \in Seq(Card) /\ Len(p) = Len(pile[r])
  BY <1>1, TurnUpTopType
<1>3. k \in 0..Len(p)
  BY <1>1, <1>2 DEF Clickable
<1>4. /\ pile' = [pile EXCEPT ![r] = IF lift THEN SubSeq(p, 1, k - 1) ELSE p]
      /\ dragStack' = dragStack \o (IF lift THEN SubSeq(p, k, Len(p)) ELSE <<>>)
      /\ state' = IF lift THEN "INITDRAG_STEP1" ELSE st
      /\ isInitDrag' = lift
      /\ selected' = r /\ continueFn' = "SingleTapA"
      /\ UNCHANGED <<dropRegion, cardStackForDrag>>
  BY DEF TapPile
<1> HIDE DEF p
<1>5. lift \in BOOLEAN /\ (lift => k \in 1..Len(p))
  <2>1. k # 0 => k \in 1..Len(p) /\ p[k] \in Card
    BY <1>2, <1>3
  <2>2. k # 0 => p[k].up \in BOOLEAN
    BY <2>1 DEF Card
  <2> QED BY <2>1, <2>2 DEF CanLift
<1> HIDE DEF lift
<1>6. CASE lift
  <2>1. /\ SubSeq(p, 1, k - 1) \in Seq(Card)
        /\ SubSeq(p, k, Len(p)) \in Seq(Card) /\ SubSeq(p, k, Len(p)) # <<>>
    BY <1>2, <1>5, <1>6, CutType
  <2>2. pile' \in [Region -> Seq(Card)]
    BY <1>1, <1>4, <1>6, <2>1
  <2>3. dragStack' \in Seq(Card) /\ dragStack' # <<>>
    BY <1>1, <1>4, <1>6, <2>1, ConcatProperties, ConcatEqualIffEmpty
  <2>4. state' = "INITDRAG_STEP1" /\ selected' \in Region
    BY <1>4, <1>6
  <2> QED
    BY <1>4, <1>6, <2>2, <2>3, <2>4 DEF TableOK, TapOK, TapResult, ContinueFn
<1>7. CASE ~lift
  <2>1. pile' \in [Region -> Seq(Card)]
    BY <1>1, <1>2, <1>4, <1>7
  <2>2. dragStack' = dragStack
    BY <1>1, <1>4, <1>7, ConcatEmptySeq
  <2> QED
    BY <1>4, <1>5, <1>7, <2>1, <2>2 DEF TableOK, TapOK, TapResult, ContinueFn
<1> QED BY <1>6, <1>7

LEMMA clickOnDeckStockType ==
    ASSUME TableOK, TapOK, UNCHANGED dealtStock, NEW st, clickOnDeckStock(st)
    PROVE  TapResult(st)
<1>1. /\ pile[DeckPile_Ix] \in Seq(Card) /\ pile[DeckFaceUp] \in Seq(Card)
      /\ pile \in [Region -> Seq(Card)] /\ dragStack \in Seq(Card)
      /\ DeckPile_Ix \in Region /\ DeckFaceUp \in Region
  BY RegionFacts DEF TableOK
<1>2. selected' = DeckPile_Ix /\ UNCHANGED <<isInitDrag, dropRegion>>
  BY DEF clickOnDeckStock
<1>3. CASE Redial /\ cardStackForDrag' = TRUE /\ state' = "INITDRAG_STEP1"
  <2> DEFINE back == WithFaces(pile[DeckFaceUp], FALSE)
  <2>1. back \in Seq(Card) /\ back # <<>>
    <3>1. back \in Seq(Card) /\ Len(back) = Len(pile[DeckFaceUp])
      BY <1>1, WithFacesType
    <3>2. Len(pile[DeckFaceUp]) # 0
      BY <1>1, <1>3 DEF Redial
    <3> HIDE DEF back
    <3> QED BY <3>1, <3>2
  <2>2. dragStack' = dragStack \o back
    BY <1>3 DEF Redial
  <2> HIDE DEF back
  <2>3. dragStack' \in Seq(Card) /\ dragStack' # <<>>
    BY <1>1, <2>1, <2>2, ConcatProperties, ConcatEqualIffEmpty
  <2>4. pile' \in [Region -> Seq(Card)]
    BY <1>1, <1>3 DEF Redial
  <2>5. continueFn' = "SingleTapB"
    BY <1>3 DEF Redial
  <2> QED BY <1>1, <1>2, <1>3, <2>3, <2>4, <2>5 DEF TableOK, TapOK, TapResult, ContinueFn
<1>4. CASE NextCard /\ cardStackForDrag' = TRUE /\ state' = "INITDRAG_STEP1"
  <2> DEFINE rest == AfterPop(pile[DeckPile_Ix], 1)
             next == Popped(pile[DeckPile_Ix], 1)
             turned == WithFaces(next, TRUE)
  <2>1. Len(pile[DeckPile_Ix]) >= 1
    BY <1>1, <1>4 DEF NextCard
  <2>2. rest \in Seq(Card) /\ next \in Seq(Card) /\ Len(next) = 1
    BY <1>1, <2>1, PopType
  <2>3. /\ pile' = [pile EXCEPT ![DeckPile_Ix] = rest]
        /\ dragStack' = dragStack \o turned
        /\ continueFn' = "SingleTapC"
    BY <1>4 DEF NextCard
  <2> HIDE DEF rest, next
  <2>4. turned \in Seq(Card) /\ Len(turned) = 1
    BY <2>2, WithFacesType
  <2> HIDE DEF turned
  <2>5. turned # <<>>
    BY <2>4
  <2>6. dragStack' \in Seq(Card) /\ dragStack' # <<>>
    BY <1>1, <2>3, <2>4, <2>5, ConcatProperties, ConcatEqualIffEmpty
  <2>7. pile' \in [Region -> Seq(Card)]
    BY <1>1, <2>2, <2>3
  <2> QED BY <1>1, <1>2, <1>4, <2>3, <2>6, <2>7 DEF TableOK, TapOK, TapResult, ContinueFn
<1>5. CASE state' = st /\ UNCHANGED <<table, continueFn, cardStackForDrag>>
  BY <1>1, <1>2, <1>5 DEF TableOK, TapOK, TapResult, table
<1> QED BY <1>3, <1>4, <1>5 DEF clickOnDeckStock

LEMMA DoubleTapCardType ==
    ASSUME TableOK, TapOK, UNCHANGED dealtStock, NEW st,
           NEW r \in Region, DoubleTapCard(r)
    PROVE  TapResult(st)
<1>1. /\ pile[r] \in Seq(Card) /\ pile \in [Region -> Seq(Card)] /\ dragStack \in Seq(Card)
      /\ Len(pile[r]) >= 1
  BY DEF TableOK, DoubleTapCard
<1> DEFINE rest == AfterPop(pile[r], 1)
           top == Popped(pile[r], 1)
<1>2. rest \in Seq(Card) /\ top \in Seq(Card) /\ Len(top) = 1
  BY <1>1, PopType
<1>3. /\ pile' = [pile EXCEPT ![r] = rest]
      /\ dragStack' = dragStack \o top
      /\ selected' = r /\ cardStackForDrag' = TRUE /\ isInitDrag' = isInitDrag
      /\ state' = "INITDRAG_STEP1" /\ continueFn' = "DoubleTap"
  BY DEF DoubleTapCard
<1> HIDE DEF rest, top
<1>4. dropRegion' \in Aces /\ dropRegion' \in Region
  <2>1. TakenBy(Top(pile[r])) \in SUBSET Aces
    BY DEF TakenBy
  <2>2. dropRegion' \in TakenBy(Top(pile[r]))
    BY <2>1, FirstOfType DEF DoubleTapCard
  <2> QED BY <2>1, <2>2, RegionFacts
<1>5. top # <<>>
  BY <1>2
<1>6. dragStack' \in Seq(Card) /\ dragStack' # <<>>
  BY <1>1, <1>2, <1>3, <1>5, ConcatProperties, ConcatEqualIffEmpty
<1>7. pile' \in [Region -> Seq(Card)]
  BY <1>1, <1>2, <1>3
<1> QED BY <1>3, <1>4, <1>6, <1>7 DEF TableOK, TapOK, TapResult, ContinueFn

LEMMA SingleTapType ==
    ASSUME TableOK, TapOK, UNCHANGED dealtStock, NEW st, singleTapOrLeftClick(st)
    PROVE  TapResult(st)
BY RegionFacts, TapIgnoredType, TapPileType, clickOnDeckStockType
   DEF singleTapOrLeftClick

LEMMA DoubleTapType ==
    ASSUME TableOK, TapOK, UNCHANGED dealtStock, NEW st, doubleTapOrRightClick(st)
    PROVE  TapResult(st)
BY RegionFacts, TapIgnoredType, DoubleTapCardType, clickOnDeckStockType
   DEF doubleTapOrRightClick

ControlFrame ==
    \/ FirstFrame \/ FirstScene \/ InitDragStep1 \/ InitDragStep2 \/ ZoomEnd \/ InGame
    \/ AskForNewGame \/ FadingOut \/ VictoryAnimationIterate \/ ShowScore \/ Terminated
    \/ MsgBoxDone
-----------------------------------------------------------------------------
(* NO CARD IS LOST                                                         *)

(* No card is lost: for every card of the deck there is one on the table   *)
(* or in the drag, and no step takes the last one away.                    *)
OnTable(f) == Holds(dragStack, f) \/ \E r \in Region : Holds(pile[r], f)

AllOnTable == \A f \in Deck : OnTable(f)

LEMMA AllDealt == ASSUME newGame PROVE AllOnTable'
<1>1. PICK deck \in Shuffles : pile' = Deal(deck)
  BY DEF newGame
<1>2. deck \in Seq(Deck) /\ Shuffled(deck)
  BY GameAssumption
<1>3. DealtTo(NumTableau + 1) <= Len(deck)
  BY <1>2, GameAssumption DEF Shuffled
<1> QED BY <1>1, <1>2, <1>3, DealHolds DEF AllOnTable, OnTable

(* Cards are popped off a pile and pushed on the drag.                     *)
LEMMA TakenOff ==
    ASSUME TableOK, NEW r \in Region, NEW rest \in Seq(Card), NEW cargo \in Seq(Card),
           pile' = [pile EXCEPT ![r] = rest], dragStack' = dragStack \o cargo,
           NEW f, Holds(pile[r], f) => Holds(rest, f) \/ Holds(cargo, f),
           OnTable(f)
    PROVE  OnTable(f)'
<1>1. dragStack \in Seq(Card) /\ pile \in [Region -> Seq(Card)]
  BY DEF TableOK
<1>2. CASE Holds(dragStack, f) \/ Holds(cargo, f)
  BY <1>1, <1>2, ConcatHolds DEF OnTable
<1>3. CASE Holds(rest, f)
  <2>1. pile'[r] = rest
    BY <1>1
  <2> QED BY <1>3, <2>1 DEF OnTable
<1>4. ASSUME NEW q \in Region, q # r, Holds(pile[q], f) PROVE OnTable(f)'
  <2>1. pile'[q] = pile[q]
    BY <1>1, <1>4
  <2> QED BY <1>4, <2>1 DEF OnTable
<1> QED BY <1>2, <1>3, <1>4 DEF OnTable

LEMMA TapPileKeeps ==
    ASSUME TableOK, NEW st, NEW r \in Region, NEW k \in Clickable(r), TapPile(r, k, st),
           NEW f, OnTable(f)
    PROVE  OnTable(f)'
<1> DEFINE p == IF r \in Tableau /\ k = Len(pile[r]) THEN TurnUpTop(pile[r]) ELSE pile[r]
           lift == CanLift(r, p, k)
<1>1. pile[r] \in Seq(Card) /\ dragStack \in Seq(Card)
  BY DEF TableOK
<1>2. p \in Seq(Card) /\ Len(p) = Len(pile[r]) /\ (Holds(pile[r], f) => Holds(p, f))
  BY <1>1, TurnUpTopType, TurnUpTopHolds
<1>3. k \in 0..Len(p)
  BY <1>1, <1>2 DEF Clickable
<1>4. /\ pile' = [pile EXCEPT ![r] = IF lift THEN SubSeq(p, 1, k - 1) ELSE p]
      /\ dragStack' = dragStack \o (IF lift THEN SubSeq(p, k, Len(p)) ELSE <<>>)
  BY DEF TapPile
<1>5. lift => k \in 1..Len(p)
  BY <1>2, <1>3 DEF CanLift
<1> HIDE DEF p, lift
<1>6. CASE lift
  <2>1. k - 1 \in 0..Len(p) /\ k - 1 + 1 = k
    BY <1>2, <1>5, <1>6
  <2>2. Holds(p, f) => Holds(SubSeq(p, 1, k - 1), f) \/ Holds(SubSeq(p, k, Len(p)), f)
    <3>1. Holds(p, f) => \/ Holds(SubSeq(p, 1, k - 1), f)
                         \/ Holds(SubSeq(p, k - 1 + 1, Len(p)), f)
      BY <1>2, <2>1, CutHolds
    <3> QED BY <2>1, <3>1
  <2>3. SubSeq(p, 1, k - 1) \in Seq(Card) /\ SubSeq(p, k, Len(p)) \in Seq(Card)
    BY <1>2, <1>5, <1>6, CutType
  <2> QED BY <1>2, <1>4, <1>6, <2>2, <2>3, TakenOff
<1>7. CASE ~lift
  <2>1. <<>> \in Seq(Card)
    OBVIOUS
  <2>2. /\ pile' = [pile EXCEPT ![r] = p] /\ dragStack' = dragStack \o <<>>
    BY <1>4, <1>7
  <2> QED BY <1>2, <2>1, <2>2, TakenOff
<1> QED BY <1>6, <1>7

LEMMA PoppedKeeps ==
    ASSUME TableOK, NEW r \in Region, NEW cargo \in Seq(Card),
           pile' = [pile EXCEPT ![r] = AfterPop(@, 1)], dragStack' = dragStack \o cargo,
           NEW f, Holds(Popped(pile[r], 1), f) => Holds(cargo, f),
           OnTable(f)
    PROVE  OnTable(f)'
<1>1. pile[r] \in Seq(Card)
  BY DEF TableOK
<1>2. /\ AfterPop(pile[r], 1) \in Seq(Card)
      /\ Holds(pile[r], f) => Holds(AfterPop(pile[r], 1), f) \/ Holds(Popped(pile[r], 1), f)
  BY <1>1, PopType, PopHolds
<1> QED BY <1>2, TakenOff

LEMMA clickOnDeckStockKeeps ==
    ASSUME TableOK, NEW st, clickOnDeckStock(st), NEW f, OnTable(f)
    PROVE  OnTable(f)'
<1>1. DeckPile_Ix \in Region /\ DeckFaceUp \in Region
  BY RegionFacts
<1>2. pile[DeckPile_Ix] \in Seq(Card) /\ pile[DeckFaceUp] \in Seq(Card)
  BY <1>1 DEF TableOK
<1>3. CASE Redial
  <2> DEFINE back == WithFaces(pile[DeckFaceUp], FALSE)
  <2>1. back \in Seq(Card) /\ (Holds(pile[DeckFaceUp], f) => Holds(back, f))
    BY <1>2, WithFacesType, WithFacesHolds
  <2>2. pile' = [pile EXCEPT ![DeckFaceUp] = <<>>] /\ dragStack' = dragStack \o back
    BY <1>3 DEF Redial
  <2>3. <<>> \in Seq(Card)
    OBVIOUS
  <2> HIDE DEF back
  <2> QED BY <1>1, <2>1, <2>2, <2>3, TakenOff
<1>4. CASE NextCard
  <2> DEFINE next == WithFaces(Popped(pile[DeckPile_Ix], 1), TRUE)
  <2>1. Popped(pile[DeckPile_Ix], 1) \in Seq(Card)
    BY <1>2, PopType
  <2>2. next \in Seq(Card) /\ (Holds(Popped(pile[DeckPile_Ix], 1), f) => Holds(next, f))
    BY <2>1, WithFacesType, WithFacesHolds
  <2>3. /\ pile' = [pile EXCEPT ![DeckPile_Ix] = AfterPop(@, 1)]
        /\ dragStack' = dragStack \o next
    BY <1>4 DEF NextCard
  <2> HIDE DEF next
  <2> QED BY <1>1, <2>2, <2>3, PoppedKeeps
<1>5. CASE UNCHANGED table
  BY <1>5 DEF OnTable, table
<1> QED BY <1>3, <1>4, <1>5 DEF clickOnDeckStock

LEMMA DoubleTapCardKeeps ==
    ASSUME TableOK, NEW r \in Region, DoubleTapCard(r), NEW f, OnTable(f)
    PROVE  OnTable(f)'
<1>1. pile[r] \in Seq(Card)
  BY DEF TableOK
<1>2. Popped(pile[r], 1) \in Seq(Card)
  BY <1>1, PopType
<1> QED BY <1>2, PoppedKeeps DEF DoubleTapCard

LEMMA TapKeeps ==
    ASSUME TableOK, NEW st, singleTapOrLeftClick(st) \/ doubleTapOrRightClick(st),
           NEW f, OnTable(f)
    PROVE  OnTable(f)'
<1>1. ASSUME NEW r, TapIgnored(r, st) PROVE OnTable(f)'
  BY <1>1 DEF TapIgnored, OnTable, table
<1>2. CASE singleTapOrLeftClick(st)
  BY <1>1, <1>2, TapPileKeeps, clickOnDeckStockKeeps DEF singleTapOrLeftClick
<1>3. CASE doubleTapOrRightClick(st)
  BY <1>1, <1>3, RegionFacts, DoubleTapCardKeeps, clickOnDeckStockKeeps
     DEF doubleTapOrRightClick
<1> QED BY <1>2, <1>3

(* The drag is pushed on a pile.                                           *)
LEMMA DropKeeps ==
    ASSUME TableOK, NEW dest \in Region, NEW from, DoDrop(dest, from), NEW f, OnTable(f)
    PROVE  OnTable(f)'
<1>1. dragStack \in Seq(Card) /\ pile \in [Region -> Seq(Card)] /\ pile[dest] \in Seq(Card)
  BY DEF TableOK
<1>2. pile' = [pile EXCEPT ![dest] = pile[dest] \o dragStack]
  BY DEF DoDrop, Dropped
<1>3. CASE Holds(dragStack, f) \/ Holds(pile[dest], f)
  <2>1. pile'[dest] = pile[dest] \o dragStack
    BY <1>1, <1>2
  <2>2. Holds(pile[dest] \o dragStack, f)
    BY <1>1, <1>3, ConcatHolds
  <2> QED BY <2>1, <2>2 DEF OnTable
<1>4. ASSUME NEW q \in Region, q # dest, Holds(pile[q], f) PROVE OnTable(f)'
  <2>1. pile'[q] = pile[q]
    BY <1>1, <1>2, <1>4
  <2> QED BY <1>4, <2>1 DEF OnTable
<1> QED BY <1>3, <1>4 DEF OnTable

LEMMA LamdaKeeps ==
    ASSUME TableOK, pile' = PileAfterLamda, UNCHANGED dragStack, NEW f, OnTable(f)
    PROVE  OnTable(f)'
<1>1. DeckPile_Ix \in Region /\ pile[DeckPile_Ix] \in Seq(Card) /\ pile \in [Region -> Seq(Card)]
  BY RegionFacts DEF TableOK
<1>2. CASE pile' = pile
  BY <1>2 DEF OnTable
<1>3. CASE pile' = [pile EXCEPT ![DeckPile_Ix] = Reversed(pile[DeckPile_Ix])]
  <2>1. \A q \in Region : Holds(pile[q], f) => Holds(pile'[q], f)
    BY <1>1, <1>3, ReversedHolds
  <2> QED BY <2>1 DEF OnTable
<1> QED BY <1>2, <1>3 DEF PileAfterLamda

(* What is on the table or in the drag is counted there.                   *)
LEMMA CountsHeld == ASSUME TableOK, NEW f, OnTable(f) PROVE Copies(f) >= 1
<1> DEFINE D == {i \in DOMAIN dragStack : Face(dragStack[i]) = f}
           at(r) == {j \in DOMAIN pile[r] : Face(pile[r][j]) = f}
           Pairs(r) == {<<r, i>> : i \in at(r)}
           P == UNION {Pairs(r) : r \in Region}
<1>1. IsFiniteSet(D)
  <2>1. dragStack \in Seq(Card) /\ DOMAIN dragStack = 1..Len(dragStack) /\ Len(dragStack) \in Nat
    BY DEF TableOK
  <2>2. IsFiniteSet(1..Len(dragStack))
    BY <2>1, FS_Interval
  <2> QED BY <2>1, <2>2, FS_Subset
<1>2. IsFiniteSet(P)
  <2> DEFINE All == {Pairs(r) : r \in Region}
  <2>1. ASSUME NEW r \in Region PROVE IsFiniteSet(Pairs(r))
    <3>1. DOMAIN pile[r] = 1..Len(pile[r]) /\ Len(pile[r]) \in Nat
      BY DEF TableOK
    <3>2. IsFiniteSet(1..Len(pile[r]))
      BY <3>1, FS_Interval
    <3>3. IsFiniteSet(at(r))
      BY <3>1, <3>2, FS_Subset
    <3> DEFINE g == [i \in at(r) |-> <<r, i>>]
    <3> HIDE DEF at
    <3>4. g \in Surjection(at(r), Pairs(r))
      BY DEF Surjection
    <3> QED BY <3>3, <3>4, FS_Surjection
  <2>2. IsFiniteSet(Region)
    BY RegionFacts, CardsAssumption, FS_Interval DEF Region
  <2> DEFINE h == [r \in Region |-> Pairs(r)]
  <2> HIDE DEF Pairs
  <2>3. h \in Surjection(Region, All)
    BY DEF Surjection
  <2>4. IsFiniteSet(All) /\ \A x \in All : IsFiniteSet(x)
    BY <2>1, <2>2, <2>3, FS_Surjection
  <2>5. IsFiniteSet(UNION All)
    <3> HIDE DEF All
    <3> QED BY <2>4, FS_UNION
  <2> QED BY <2>5
<1>3. Copies(f) = Cardinality(D) + Cardinality(P)
  BY Zenon DEF Copies
<1>4. D # {} \/ P # {}
  <2>1. CASE Holds(dragStack, f)
    BY <2>1 DEF Holds
  <2>2. ASSUME NEW r \in Region, Holds(pile[r], f) PROVE P # {}
    <3>1. PICK i \in DOMAIN pile[r] : Face(pile[r][i]) = f
      BY <2>2 DEF Holds
    <3>2. <<r, i>> \in Pairs(r)
      BY <3>1
    <3> HIDE DEF Pairs
    <3> QED BY <2>2, <3>2
  <2> QED BY <2>1, <2>2 DEF OnTable
<1> HIDE DEF D, P, at, Pairs
<1>5. /\ Cardinality(D) \in Nat /\ Cardinality(P) \in Nat
      /\ D # {} => Cardinality(D) # 0
      /\ P # {} => Cardinality(P) # 0
  BY <1>1, <1>2, FS_CardinalityType, FS_EmptySet
<1> QED BY <1>3, <1>4, <1>5
-----------------------------------------------------------------------------
(* NO CARD IS THERE TWICE                                                  *)

(* No card is anywhere twice.                                              *)
OnceEach ==
    /\ Distinct(dragStack)
    /\ \A r \in Region : Distinct(pile[r]) /\ Apart(pile[r], dragStack)
    /\ \A r, q \in Region : r # q => Apart(pile[r], pile[q])

(* A finished game leaves nothing but the foundations: if no card is there *)
(* twice, the foundations hold as many cards as the deck has.              *)
LEMMA WonMeansDone ==
    ASSUME TableOK, OnceEach, Won(pile)
    PROVE  dragStack = <<>> /\ \A q \in Region \ Aces : pile[q] = <<>>
<1>1. /\ \A q \in Region : pile[q] \in Seq(Card)
      /\ dragStack \in Seq(Card)
  BY DEF TableOK
<1>2. MaxRank \in Nat \ {0} /\ IsFiniteSet(Suits) /\ Aces \subseteq Region
  BY CardsAssumption, RegionFacts
<1>3. \A r \in Aces : /\ DOMAIN pile[r] = 1..MaxRank
                      /\ \A i \in 1..MaxRank : pile[r][i] \in Card
  <2> TAKE r \in Aces
  <2>1. Len(pile[r]) = MaxRank /\ pile[r] \in Seq(Card)
    BY <1>1, <1>2 DEF Won
  <2> QED BY <2>1
<1> DEFINE Ranks  == 1..MaxRank
           Places == Aces \X Ranks
           g == [x \in Places |-> Face(pile[x[1]][x[2]])]
           h == [x \in Suits \X Ranks |-> [suit |-> x[1], rank |-> x[2]]]
<1>4. g \in Injection(Places, Deck)
  <2>1. \A x \in Places : Face(pile[x[1]][x[2]]) \in Deck
    BY <1>3 DEF Card, Deck, Face
  <2>2. g \in [Places -> Deck]
    BY <2>1
  <2>3. ASSUME NEW x \in Places, NEW y \in Places, g[x] = g[y] PROVE x = y
    <3>1. /\ x[1] \in Aces /\ y[1] \in Aces /\ x[2] \in Ranks /\ y[2] \in Ranks
          /\ x = <<x[1], x[2]>> /\ y = <<y[1], y[2]>>
          /\ Face(pile[x[1]][x[2]]) = Face(pile[y[1]][y[2]])
      <4>1. /\ g[x] = Face(pile[x[1]][x[2]])
            /\ g[y] = Face(pile[y[1]][y[2]])
        BY Zenon
      <4>2. Face(pile[x[1]][x[2]]) = Face(pile[y[1]][y[2]])
        <5> HIDE DEF g
        <5> QED BY <2>3, <4>1
      <4>3. \A z \in Places : z[1] \in Aces /\ z[2] \in Ranks /\ z = <<z[1], z[2]>>
        <5> HIDE DEF Ranks, g
        <5> QED OBVIOUS
      <4> HIDE DEF g, Places, Ranks
      <4> QED BY <4>2, <4>3
    <3>4. x[2] \in DOMAIN pile[x[1]] /\ y[2] \in DOMAIN pile[y[1]]
      BY <1>3, <3>1
    <3> HIDE DEF g, Places
    <3>2. x[1] = y[1]
      BY <1>2, <3>1, <3>4, Zenon DEF OnceEach, Apart
    <3>3. x[2] = y[2]
      BY <1>2, <3>1, <3>2, <3>4, Zenon DEF OnceEach, Distinct
    <3> QED BY <3>1, <3>2, <3>3, Zenon
  <2> HIDE DEF g
  <2> QED BY <2>2, <2>3 DEF Injection, IsInjective
<1>5. h \in Bijection(Suits \X Ranks, Deck)
  <2>1. h \in [Suits \X Ranks -> Deck]
    BY DEF Deck
  <2>2. ASSUME NEW x \in Suits \X Ranks, NEW y \in Suits \X Ranks, h[x] = h[y] PROVE x = y
    BY <2>2
  <2>3. ASSUME NEW f \in Deck PROVE \E x \in Suits \X Ranks : h[x] = f
    <3>1. f.suit \in Suits /\ f.rank \in Ranks /\ f = [suit |-> f.suit, rank |-> f.rank]
      BY DEF Deck
    <3>2. <<f.suit, f.rank>> \in Suits \X Ranks
      BY <3>1
    <3>3. h[<<f.suit, f.rank>>] = f
      BY <3>1, <3>2
    <3> HIDE DEF h
    <3> QED BY <3>2, <3>3
  <2> HIDE DEF h
  <2> QED BY <2>1, <2>2, <2>3 DEF Bijection, Injection, IsInjective, Surjection
<1>6. Cardinality(Aces) = Cardinality(Suits) /\ IsFiniteSet(Aces) /\ IsFiniteSet(Ranks)
  <2>1. NumAces \in Nat \ {0} /\ NumTableau \in Nat
    BY RegionFacts, CardsAssumption
  <2>2. Cardinality(Aces) = NumAces /\ IsFiniteSet(Aces) /\ IsFiniteSet(Ranks)
    BY <1>2, <2>1, FS_Interval DEF Aces
  <2> QED BY <2>2 DEF NumAces
<1> HIDE DEF g, h, Ranks
<1>7. IsFiniteSet(Deck) /\ Cardinality(Places) = Cardinality(Deck)
  <2>1. /\ IsFiniteSet(Suits \X Ranks)
        /\ Cardinality(Suits \X Ranks) = Cardinality(Suits) * Cardinality(Ranks)
        /\ Cardinality(Places) = Cardinality(Aces) * Cardinality(Ranks)
    BY <1>2, <1>6, FS_Product
  <2>2. IsFiniteSet(Deck) /\ Cardinality(Deck) = Cardinality(Suits \X Ranks)
    <3>1. ExistsBijection(Suits \X Ranks, Deck)
      BY <1>5 DEF ExistsBijection
    <3> QED BY <2>1, <3>1, FS_Bijection
  <2> QED BY <1>6, <2>1, <2>2
<1>8. g \in Surjection(Places, Deck)
  <2> HIDE DEF Places
  <2> QED BY <1>4, <1>7, FS_Injection
<1>9. \A c \in Card : \E r \in Aces : \E i \in DOMAIN pile[r] : Face(pile[r][i]) = Face(c)
  <2> TAKE c \in Card
  <2>1. Face(c) \in Deck
    BY DEF Card, Deck, Face
  <2>2. PICK x \in Places : g[x] = Face(c)
    BY <1>8, <2>1 DEF Surjection
  <2>3. x[1] \in Aces /\ x[2] \in DOMAIN pile[x[1]] /\ g[x] = Face(pile[x[1]][x[2]])
    BY <1>3, <2>2 DEF g, Ranks
  <2> QED BY <2>2, <2>3
<1>10. ASSUME NEW p \in Seq(Card), p # <<>>, \A r \in Aces : Apart(pile[r], p) PROVE FALSE
  <2>1. 1 \in DOMAIN p /\ p[1] \in Card
    BY <1>10
  <2> QED BY <1>9, <1>10, <2>1 DEF Apart
<1>11. dragStack = <<>>
  BY <1>1, <1>2, <1>10 DEF OnceEach
<1>12. ASSUME NEW q \in Region \ Aces PROVE pile[q] = <<>>
  <2>1. \A r \in Aces : Apart(pile[r], pile[q])
    BY <1>2, <1>12 DEF OnceEach
  <2> QED BY <1>1, <1>10, <2>1
<1> QED BY <1>11, <1>12

(* A step that saves a score, and a table on which the foundations are full. *)
SaveStep == saves' > saves => \A r \in Region \ Aces : pile'[r] = <<>>

Finished == Won(pile) => \A r \in Region \ Aces : pile[r] = <<>>

(* Cards go from a pile to the drag, and from the drag to a pile.          *)
LEMMA MovedOnce ==
    ASSUME TableOK, OnceEach,
           NEW r \in Region, NEW rest \in Seq(Card), NEW cargo \in Seq(Card),
           Parts(rest, cargo, pile[r]),
           pile' = [pile EXCEPT ![r] = rest], dragStack' = dragStack \o cargo
    PROVE  OnceEach'
<1>1. pile'[r] = rest /\ \A q \in Region : q # r => pile'[q] = pile[q]
  BY DEF TableOK
<1>2. dragStack \in Seq(Card) /\ Distinct(dragStack)
  BY DEF TableOK, OnceEach
<1>3. \A f : ~(Holds(pile[r], f) /\ Holds(dragStack, f))
  BY ApartHolds DEF OnceEach
<1>4. Apart(dragStack, cargo) /\ Apart(rest, dragStack)
  BY <1>3, ApartHolds DEF Parts
<1>5. /\ Distinct(dragStack')
      /\ \A f : Holds(dragStack', f) => Holds(dragStack, f) \/ Holds(cargo, f)
  BY <1>2, <1>4, ConcatOnce DEF Parts
<1>6. Apart(rest, dragStack')
  BY <1>4, <1>5, ApartHolds DEF Parts
<1>7. \A q \in Region : q # r => /\ Apart(pile[q], rest) /\ Apart(rest, pile[q])
                                 /\ Apart(pile[q], dragStack')
  <2> TAKE q \in Region
  <2>1. q # r => /\ \A f : ~(Holds(pile[q], f) /\ Holds(pile[r], f))
                 /\ \A f : ~(Holds(pile[q], f) /\ Holds(dragStack, f))
    BY ApartHolds DEF OnceEach
  <2> QED BY <1>5, <2>1, ApartHolds DEF Parts
<1> QED BY <1>1, <1>5, <1>6, <1>7 DEF OnceEach, Parts

LEMMA TakenOffOnce ==
    ASSUME TableOK, OnceEach, dragStack = <<>>,
           NEW r \in Region, NEW rest \in Seq(Card), NEW cargo \in Seq(Card),
           Parts(rest, cargo, pile[r]),
           pile' = [pile EXCEPT ![r] = rest], dragStack' = cargo
    PROVE  OnceEach'
<1>1. dragStack' = dragStack \o cargo
  OBVIOUS
<1> QED BY <1>1, MovedOnce

(* The cards of a pile are arranged anew.                                  *)
LEMMA ArrangedOnce ==
    ASSUME TableOK, OnceEach, NEW r \in Region, NEW p \in Seq(Card), Distinct(p),
           \A f : Holds(p, f) => Holds(pile[r], f),
           pile' = [pile EXCEPT ![r] = p], UNCHANGED dragStack
    PROVE  OnceEach'
<1>1. Parts(p, <<>>, pile[r]) /\ <<>> \in Seq(Card)
  BY DEF Parts, Distinct, Apart, Holds
<1>2. dragStack' = dragStack \o <<>>
  BY DEF TableOK
<1> QED BY <1>1, <1>2, MovedOnce

LEMMA TapPileOnce ==
    ASSUME TableOK, OnceEach, NEW st,
           NEW r \in Region, NEW k \in Clickable(r), TapPile(r, k, st)
    PROVE  OnceEach'
<1> DEFINE p == IF r \in Tableau /\ k = Len(pile[r]) THEN TurnUpTop(pile[r]) ELSE pile[r]
           lift == CanLift(r, p, k)
<1>1. pile[r] \in Seq(Card) /\ Distinct(pile[r]) /\ dragStack \in Seq(Card)
  BY DEF TableOK, OnceEach
<1>2. p \in Seq(Card) /\ Len(p) = Len(pile[r]) /\ SameFaces(pile[r], p)
  <2>1. SameFaces(pile[r], pile[r])
    BY DEF SameFaces
  <2> QED BY <1>1, <2>1, TurnUpTopType, TurnUpTopSame
<1>3. Distinct(p) /\ \A f : Holds(p, f) => Holds(pile[r], f)
  <2> HIDE DEF p
  <2> QED BY <1>1, <1>2, SameFacesOnce
<1>4. k \in 0..Len(p)
  BY <1>1, <1>2 DEF Clickable
<1>5. /\ pile' = [pile EXCEPT ![r] = IF lift THEN SubSeq(p, 1, k - 1) ELSE p]
      /\ dragStack' = dragStack \o (IF lift THEN SubSeq(p, k, Len(p)) ELSE <<>>)
  BY DEF TapPile
<1>6. lift => k \in 1..Len(p)
  BY <1>2, <1>4 DEF CanLift
<1> HIDE DEF p, lift
<1>7. CASE lift
  <2>1. k \in 1..Len(p) /\ k - 1 \in 0..Len(p) /\ k - 1 + 1 = k
    BY <1>2, <1>6, <1>7
  <2>2. SubSeq(p, 1, k - 1) \in Seq(Card) /\ SubSeq(p, k, Len(p)) \in Seq(Card)
    BY <1>2, <2>1, CutType
  <2>3. Parts(SubSeq(p, 1, k - 1), SubSeq(p, k, Len(p)), p)
    <3>1. Parts(SubSeq(p, 1, k - 1), SubSeq(p, k - 1 + 1, Len(p)), p)
      BY <1>2, <1>3, <2>1, CutOnce
    <3> QED BY <2>1, <3>1
  <2>4. Parts(SubSeq(p, 1, k - 1), SubSeq(p, k, Len(p)), pile[r])
    BY <1>3, <2>3 DEF Parts
  <2> QED BY <1>5, <1>7, <2>2, <2>4, MovedOnce
<1>8. CASE ~lift
  <2>1. pile' = [pile EXCEPT ![r] = p] /\ dragStack' = dragStack
    BY <1>1, <1>5, <1>8
  <2> QED BY <1>2, <1>3, <2>1, ArrangedOnce
<1> QED BY <1>7, <1>8

(* The stock: cards are turned over on their way to the drag.              *)
LEMMA TurnedOnce ==
    ASSUME NEW rest, NEW top \in Seq(Card), NEW whole, NEW b, Parts(rest, top, whole)
    PROVE  Parts(rest, WithFaces(top, b), whole)
<1>1. /\ Distinct(WithFaces(top, b))
      /\ \A f : Holds(WithFaces(top, b), f) <=> Holds(top, f)
  BY WithFacesSame, SameFacesOnce DEF Parts
<1> QED BY <1>1, ApartHolds DEF Parts

LEMMA clickOnDeckStockOnce ==
    ASSUME TableOK, OnceEach, NEW st, clickOnDeckStock(st)
    PROVE  OnceEach'
<1>1. /\ DeckPile_Ix \in Region /\ DeckFaceUp \in Region
      /\ pile[DeckPile_Ix] \in Seq(Card) /\ pile[DeckFaceUp] \in Seq(Card)
      /\ Distinct(pile[DeckPile_Ix]) /\ Distinct(pile[DeckFaceUp])
  BY RegionFacts DEF TableOK, OnceEach
<1>2. CASE Redial
  <2>1. Parts(<<>>, pile[DeckFaceUp], pile[DeckFaceUp]) /\ <<>> \in Seq(Card)
    BY <1>1 DEF Parts, Distinct, Apart, Holds
  <2>2. /\ Parts(<<>>, WithFaces(pile[DeckFaceUp], FALSE), pile[DeckFaceUp])
        /\ WithFaces(pile[DeckFaceUp], FALSE) \in Seq(Card)
    BY <1>1, <2>1, TurnedOnce, WithFacesType
  <2>3. /\ pile' = [pile EXCEPT ![DeckFaceUp] = <<>>]
        /\ dragStack' = dragStack \o WithFaces(pile[DeckFaceUp], FALSE)
    BY <1>2 DEF Redial
  <2> QED BY <1>1, <2>1, <2>2, <2>3, MovedOnce
<1>3. CASE NextCard
  <2> DEFINE top  == Popped(pile[DeckPile_Ix], 1)
             rest == AfterPop(pile[DeckPile_Ix], 1)
  <2>1. top \in Seq(Card) /\ rest \in Seq(Card) /\ Parts(rest, top, pile[DeckPile_Ix])
    BY <1>1, PopType, PopOnce
  <2>2. /\ pile' = [pile EXCEPT ![DeckPile_Ix] = rest]
        /\ dragStack' = dragStack \o WithFaces(top, TRUE)
    BY <1>3 DEF NextCard
  <2> HIDE DEF top, rest
  <2>3. WithFaces(top, TRUE) \in Seq(Card) /\ Parts(rest, WithFaces(top, TRUE), pile[DeckPile_Ix])
    BY <2>1, TurnedOnce, WithFacesType
  <2> QED BY <1>1, <2>1, <2>2, <2>3, MovedOnce
<1>4. CASE UNCHANGED table
  BY <1>4 DEF OnceEach, table
<1> QED BY <1>2, <1>3, <1>4 DEF clickOnDeckStock

LEMMA DoubleTapCardOnce ==
    ASSUME TableOK, OnceEach, NEW r \in Region, DoubleTapCard(r)
    PROVE  OnceEach'
<1>1. pile[r] \in Seq(Card) /\ Distinct(pile[r])
  BY DEF TableOK, OnceEach
<1>2. /\ Popped(pile[r], 1) \in Seq(Card) /\ AfterPop(pile[r], 1) \in Seq(Card)
      /\ Parts(AfterPop(pile[r], 1), Popped(pile[r], 1), pile[r])
  BY <1>1, PopType, PopOnce
<1>3. /\ pile' = [pile EXCEPT ![r] = AfterPop(pile[r], 1)]
      /\ dragStack' = dragStack \o Popped(pile[r], 1)
  BY DEF DoubleTapCard
<1> QED BY <1>2, <1>3, MovedOnce

LEMMA TapOnce ==
    ASSUME TableOK, OnceEach, NEW st, singleTapOrLeftClick(st) \/ doubleTapOrRightClick(st)
    PROVE  OnceEach'
<1>1. ASSUME NEW r, TapIgnored(r, st) PROVE OnceEach'
  BY <1>1 DEF TapIgnored, OnceEach, table
<1>2. CASE singleTapOrLeftClick(st)
  BY <1>1, <1>2, TapPileOnce, clickOnDeckStockOnce DEF singleTapOrLeftClick
<1>3. CASE doubleTapOrRightClick(st)
  BY <1>1, <1>3, RegionFacts, DoubleTapCardOnce, clickOnDeckStockOnce
     DEF doubleTapOrRightClick
<1> QED BY <1>2, <1>3

LEMMA LamdaOnce ==
    ASSUME TableOK, OnceEach, pile' = PileAfterLamda, UNCHANGED dragStack
    PROVE  OnceEach'
<1> DEFINE p == pile[DeckPile_Ix]
<1>1. DeckPile_Ix \in Region /\ p \in Seq(Card) /\ Distinct(p)
  BY RegionFacts DEF TableOK, OnceEach
<1>2. CASE pile' = pile
  BY <1>2 DEF OnceEach
<1>3. CASE pile' = [pile EXCEPT ![DeckPile_Ix] = Reversed(p)]
  <2>1. Reversed(p) \in Seq(Card) /\ Distinct(Reversed(p))
        /\ \A f : Holds(Reversed(p), f) => Holds(p, f)
    BY <1>1, ReversedType, ReversedOnce
  <2> QED BY <1>1, <1>3, <2>1, ArrangedOnce
<1> QED BY <1>2, <1>3 DEF PileAfterLamda

LEMMA DropOnce ==
    ASSUME TableOK, OnceEach, NEW dest \in Region,
           pile' = [pile EXCEPT ![dest] = pile[dest] \o dragStack], dragStack' = <<>>
    PROVE  OnceEach'
<1> DEFINE both == pile[dest] \o dragStack
<1>1. pile[dest] \in Seq(Card) /\ dragStack \in Seq(Card)
  BY DEF TableOK
<1>2. pile'[dest] = both /\ \A q \in Region : q # dest => pile'[q] = pile[q]
  BY DEF TableOK
<1>3. Distinct(both) /\ \A f : Holds(both, f) => Holds(pile[dest], f) \/ Holds(dragStack, f)
  BY <1>1, ConcatOnce DEF OnceEach
<1> HIDE DEF both
<1>4. \A q \in Region : q # dest => Apart(pile[q], both) /\ Apart(both, pile[q])
  <2> TAKE q \in Region
  <2>1. q # dest => /\ \A f : ~(Holds(pile[q], f) /\ Holds(pile[dest], f))
                    /\ \A f : ~(Holds(pile[q], f) /\ Holds(dragStack, f))
    BY ApartHolds DEF OnceEach
  <2> QED BY <1>3, <2>1, ApartHolds
<1>5. Distinct(<<>>) /\ \A p : Apart(p, <<>>)
  BY DEF Distinct, Apart
<1> QED BY <1>2, <1>3, <1>4, <1>5 DEF OnceEach

(* What is there, and there only once, is counted once.                    *)
LEMMA CountsOne == ASSUME TableOK, OnceEach, NEW f, OnTable(f) PROVE Copies(f) = 1
<1> DEFINE D == {i \in DOMAIN dragStack : Face(dragStack[i]) = f}
           at(r) == {j \in DOMAIN pile[r] : Face(pile[r][j]) = f}
           P == UNION {{<<r, i>> : i \in at(r)} : r \in Region}
<1>1. Copies(f) = Cardinality(D) + Cardinality(P)
  BY Zenon DEF Copies
<1>2. CASE Holds(dragStack, f)
  <2>1. PICK i \in DOMAIN dragStack : Face(dragStack[i]) = f
    BY <1>2 DEF Holds
  <2>2. D = {i}
    BY <2>1 DEF OnceEach, Distinct
  <2>3. \A r \in Region : at(r) = {}
    BY <2>1 DEF OnceEach, Apart
  <2>4. P = {}
    <3> HIDE DEF at
    <3> QED BY <2>3
  <2> HIDE DEF D, P
  <2>5. Cardinality(D) = 1
    BY <2>2, FS_Singleton, Zenon
  <2>6. Cardinality(P) = 0
    BY <2>4, FS_EmptySet, Zenon
  <2> QED BY <1>1, <2>5, <2>6
<1>3. ASSUME NEW r \in Region, Holds(pile[r], f) PROVE Copies(f) = 1
  <2>1. PICK i \in DOMAIN pile[r] : Face(pile[r][i]) = f
    BY <1>3 DEF Holds
  <2>2. D = {}
    BY <2>1 DEF OnceEach, Apart
  <2>3. at(r) = {i}
    BY <2>1 DEF OnceEach, Distinct
  <2>4. \A q \in Region : q # r => at(q) = {}
    BY <2>1 DEF OnceEach, Apart
  <2>5. P = {<<r, i>>}
    <3> HIDE DEF at
    <3>1. \A x \in P : x = <<r, i>>
      BY <2>3, <2>4
    <3>2. <<r, i>> \in {<<r, j>> : j \in at(r)}
      BY <2>3
    <3>3. <<r, i>> \in P
      BY <3>2, Zenon
    <3> HIDE DEF P
    <3> QED BY <3>1, <3>3
  <2> HIDE DEF D, P
  <2>6. Cardinality(D) = 0
    BY <2>2, FS_EmptySet, Zenon
  <2>7. Cardinality(P) = 1
    BY <2>5, FS_Singleton, Zenon
  <2> QED BY <1>1, <2>6, <2>7
<1> QED BY <1>2, <1>3 DEF OnTable
-----------------------------------------------------------------------------
(* THE RULES OF THE GAME                                                   *)

(* Face up, face down, in the order of a foundation.                       *)
AllUp(p)   == \A i \in DOMAIN p : p[i].up

AllDown(p) == \A i \in DOMAIN p : ~p[i].up

Built(p)   == \A i \in DOMAIN p : p[i].up /\ p[i].rank = i /\ p[i].suit = p[1].suit

(* A pile that may lie on a region.                                        *)
Fits(r, p) ==
    /\ r = DeckPile_Ix => AllDown(p)
    /\ r = DeckFaceUp => AllUp(p)
    /\ r \in Tableau => Run(p)
    /\ r \in Aces => Built(p)

TableFits == \A r \in Region : Fits(r, pile[r])

LEMMA EmptyFits == ASSUME NEW r PROVE Fits(r, <<>>)
BY DEF Fits, AllUp, AllDown, Run, Built

LEMMA PrefixFits ==
    ASSUME NEW r, NEW p \in Seq(Card), NEW k \in 0..Len(p), Fits(r, p)
    PROVE  Fits(r, SubSeq(p, 1, k))
<1> DEFINE n == Len(p)
           pre == SubSeq(p, 1, k)
<1>1. n \in Nat /\ k \in 0..n /\ DOMAIN p = 1..n
  OBVIOUS
<1>2. Len(pre) = k /\ DOMAIN pre = 1..k /\ \A i \in 1..k : pre[i] = p[i]
  OBVIOUS
<1> HIDE DEF n, pre
<1>3. Run(p) => Run(pre)
  BY <1>1, <1>2 DEF Run, n
<1>4. /\ AllUp(p) => AllUp(pre)
      /\ AllDown(p) => AllDown(pre)
      /\ Built(p) => Built(pre)
  BY <1>1, <1>2 DEF AllUp, AllDown, Built
<1> QED BY <1>3, <1>4 DEF Fits, pre

LEMMA SuffixRuns ==
    ASSUME NEW p \in Seq(Card), NEW k \in 1..Len(p), Run(p)
    PROVE  Run(SubSeq(p, k, Len(p)))
<1> DEFINE n == Len(p)
           suf == SubSeq(p, k, n)
<1>1. n \in Nat /\ k \in 1..n
  OBVIOUS
<1>2. Len(suf) = n - k + 1 /\ \A i \in 1..(n - k + 1) : suf[i] = p[i + k - 1]
  OBVIOUS
<1> HIDE DEF suf
<1>3. ASSUME NEW i \in 1..(Len(suf) - 1)
      PROVE  /\ suf[i] = p[i + k - 1] /\ suf[i + 1] = p[i + k - 1 + 1]
             /\ i + k - 1 \in 1..(n - 1)
  BY <1>1, <1>2
<1> HIDE DEF n
<1>4. ASSUME NEW i \in 1..(Len(suf) - 1), suf[i].up
      PROVE  /\ suf[i + 1].up
             /\ suf[i + 1].rank = suf[i].rank - 1
             /\ IsBlack(suf[i + 1]) # IsBlack(suf[i])
  <2> DEFINE j == i + k - 1
  <2>1. suf[i] = p[j] /\ suf[i + 1] = p[j + 1] /\ j \in 1..(n - 1)
    BY <1>3
  <2> HIDE DEF j
  <2>2. p[j].up
    BY <1>4, <2>1
  <2>3. p[j + 1].up /\ p[j + 1].rank = p[j].rank - 1 /\ IsBlack(p[j + 1]) # IsBlack(p[j])
    BY <2>1, <2>2, Zenon DEF Run, n
  <2> QED BY <2>1, <2>3
<1>5. Run(suf)
  BY <1>4, Zenon DEF Run
<1> QED BY <1>5 DEF suf, n

LEMMA TurnUpRuns ==
    ASSUME NEW p \in Seq(Card), Run(p)
    PROVE  Run(TurnUpTop(p))
<1>1. CASE p = <<>>
  BY <1>1 DEF TurnUpTop
<1>2. CASE p # <<>>
  <2> DEFINE n == Len(p)
             last == [p[n] EXCEPT !.up = TRUE]
  <2>1. n \in Nat \ {0} /\ n \in 1..n /\ DOMAIN p = 1..n /\ p[n] \in Card
    BY <1>2
  <2>2. TurnUpTop(p) = [p EXCEPT ![n] = last] /\ Len(TurnUpTop(p)) = n
    BY <1>2, TurnUpTopType DEF TurnUpTop
  <2>3. last.up /\ last.rank = p[n].rank /\ last.suit = p[n].suit
    BY <2>1 DEF Card
  <2> HIDE DEF last
  <2>4. \A i \in 1..n : TurnUpTop(p)[i] = IF i = n THEN last ELSE p[i]
    BY <2>1, <2>2
  <2> HIDE DEF n
  <2>5. ASSUME NEW i \in 1..(n - 1), TurnUpTop(p)[i].up
        PROVE  /\ TurnUpTop(p)[i + 1].up
               /\ TurnUpTop(p)[i + 1].rank = TurnUpTop(p)[i].rank - 1
               /\ IsBlack(TurnUpTop(p)[i + 1]) # IsBlack(TurnUpTop(p)[i])
    <3>1. TurnUpTop(p)[i] = p[i] /\ i \in 1..n /\ i + 1 \in 1..n
      BY <2>1, <2>4
    <3>2. /\ p[i + 1].up /\ p[i + 1].rank = p[i].rank - 1
          /\ IsBlack(p[i + 1]) # IsBlack(p[i])
      BY <2>5, <3>1 DEF Run, n
    <3>3. /\ TurnUpTop(p)[i + 1].rank = p[i + 1].rank
          /\ TurnUpTop(p)[i + 1].suit = p[i + 1].suit
          /\ TurnUpTop(p)[i + 1].up
      BY <2>3, <2>4, <3>1, <3>2
    <3> QED BY <3>1, <3>2, <3>3 DEF IsBlack
  <2> QED BY <2>2, <2>5 DEF Run
<1> QED BY <1>1, <1>2

LEMMA Rejoin ==
    ASSUME NEW p \in Seq(Card), NEW k \in 1..Len(p)
    PROVE  SubSeq(p, 1, k - 1) \o SubSeq(p, k, Len(p)) = p
<1> DEFINE n == Len(p)
           pre == SubSeq(p, 1, k - 1)
           suf == SubSeq(p, k, n)
<1>1. n \in Nat /\ k \in 1..n
  OBVIOUS
<1>2. /\ pre \in Seq(Card) /\ Len(pre) = k - 1 /\ \A i \in 1..(k - 1) : pre[i] = p[i]
      /\ suf \in Seq(Card) /\ Len(suf) = n - k + 1
      /\ \A i \in 1..(n - k + 1) : suf[i] = p[i + k - 1]
  BY CutType
<1> HIDE DEF pre, suf, n
<1>3. /\ pre \o suf \in Seq(Card) /\ Len(pre \o suf) = Len(pre) + Len(suf)
      /\ \A i \in 1..(Len(pre) + Len(suf)) :
           (pre \o suf)[i] = IF i <= Len(pre) THEN pre[i] ELSE suf[i - Len(pre)]
  <2>1. pre \in Seq(Card) /\ suf \in Seq(Card)
    BY <1>2, Zenon
  <2> QED BY <2>1, ConcatProperties, Zenon
<1>4. Len(pre) + Len(suf) = n
  BY <1>1, <1>2
<1>5. \A i \in 1..n : (pre \o suf)[i] = p[i]
  <2> TAKE i \in 1..n
  <2>1. (pre \o suf)[i] = IF i <= k - 1 THEN pre[i] ELSE suf[i - (k - 1)]
    BY <1>2, <1>3, <1>4
  <2>2. CASE i <= k - 1
    BY <1>1, <1>2, <2>1, <2>2
  <2>3. CASE ~(i <= k - 1)
    <3>1. i - (k - 1) \in 1..(n - k + 1) /\ i - (k - 1) + k - 1 = i
      BY <1>1, <2>3
    <3> QED BY <1>2, <2>1, <2>3, <3>1
  <2> QED BY <2>2, <2>3
<1>6. Len(p) = n /\ Len(pre \o suf) = n
  BY <1>3, <1>4 DEF n
<1> QED BY <1>3, <1>5, <1>6, SeqEqual DEF pre, suf, n

(* CanDrop keeps the rules of the region it is asked for.                  *)
LEMMA CanDropFits ==
    ASSUME NEW r \in Region, NEW p \in Seq(Card), NEW cargo \in Seq(Card),
           CanDrop(r, p, cargo), Fits(r, p), Run(cargo), cargo[1].up
    PROVE  Fits(r, p \o cargo)
<1> DEFINE m == Len(p)
           n == Len(cargo)
           both == p \o cargo
<1>1. /\ m \in Nat /\ n \in Nat \ {0} /\ DOMAIN p = 1..m /\ DOMAIN cargo = 1..n
      /\ \A i \in 1..n : cargo[i] \in Card
      /\ \A i \in 1..m : p[i] \in Card
  BY DEF CanDrop
<1>2. /\ Len(both) = m + n /\ DOMAIN both = 1..(m + n)
      /\ \A i \in 1..m : both[i] = p[i]
      /\ \A i \in 1..n : both[m + i] = cargo[i]
  BY <1>1, ConcatProperties
<1>3. \A i \in 1..n : cargo[i].rank \in Nat \ {0}
  BY <1>1, CardsAssumption DEF Card
<1>4. \A i \in 1..m : p[i].rank \in Nat
  BY <1>1, CardsAssumption DEF Card
<1>5. p # <<>> => m \in 1..m /\ Top(p) = p[m]
  BY DEF Top
<1>6. p = <<>> <=> m = 0
  OBVIOUS
<1>7. r # DeckPile_Ix /\ r # DeckFaceUp
  BY RegionFacts DEF CanDrop, EmptyAccepts, PileAccepts, AcceptMode, DoesDrop, RegionTypeId
<1> HIDE DEF m, n, both
<1>8. CASE r \in Tableau
  <2>1. AcceptMode(r) = {"DOOPCOLOR", "DOLOWER", "DOLOWERBY1", "DOKING"}
    BY <1>7, <1>8 DEF AcceptMode
  <2>2. p # <<>> => /\ p[m].up /\ cargo[1].rank = p[m].rank - 1
                    /\ IsBlack(cargo[1]) # IsBlack(p[m])
    BY <1>1, <1>3, <1>4, <1>5, <2>1 DEF CanDrop, PileAccepts
  <2>3. Run(p)
    BY <1>8 DEF Fits
  <2>4. ASSUME NEW i \in 1..(Len(both) - 1), both[i].up
        PROVE  /\ both[i + 1].up
               /\ both[i + 1].rank = both[i].rank - 1
               /\ IsBlack(both[i + 1]) # IsBlack(both[i])
    <3>0. i \in 1..(m + n - 1)
      <4>1. Len(both) = m + n
        BY <1>2
      <4> QED BY <1>1, <4>1
    <3>1. CASE i < m
      <4>1. i \in 1..(m - 1) /\ i \in 1..m /\ i + 1 \in 1..m
        BY <1>1, <3>0, <3>1
      <4> QED BY <1>2, <2>3, <2>4, <4>1 DEF Run, m
    <3>2. CASE i = m
      <4>1. m \in 1..m /\ 1 \in 1..n /\ p # <<>>
        BY <1>1, <1>6, <3>2
      <4>2. both[i] = p[m] /\ both[i + 1] = cargo[1]
        BY <1>2, <3>2, <4>1
      <4> QED BY <2>2, <4>1, <4>2
    <3>3. CASE i > m
      <4> DEFINE j == i - m
      <4>1. j \in 1..(n - 1) /\ j \in 1..n /\ j + 1 \in 1..n /\ m + j = i /\ m + (j + 1) = i + 1
        BY <1>1, <3>0, <3>3
      <4>2. both[m + j] = cargo[j] /\ both[m + (j + 1)] = cargo[j + 1]
        BY <1>2, <4>1
      <4> QED BY <2>4, <4>1, <4>2 DEF Run, n
    <3> QED BY <1>1, <3>0, <3>1, <3>2, <3>3
  <2>5. Run(both)
    BY <2>4, Zenon DEF Run
  <2> QED BY <1>7, <1>8, <2>5, RegionFacts DEF Fits, both
<1>9. CASE r \in Aces
  <2>1. AcceptMode(r) = {"DOSINGLE", "DOHIGHER", "DOHIGHERBY1", "DOACE", "DOSUIT"}
    BY <1>7, <1>9, RegionFacts DEF AcceptMode
  <2>2. Built(p)
    BY <1>9 DEF Fits
  <2>3. CASE p = <<>>
    <3>1. cargo[1].rank = 1
      BY <2>1, <2>3 DEF CanDrop, EmptyAccepts
    <3>2. n = 1
      <4> SUFFICES ASSUME n # 1 PROVE FALSE
        OBVIOUS
      <4>1. 1 \in 1..(n - 1) /\ 2 \in 1..n
        BY <1>1
      <4>2. cargo[1 + 1].rank = cargo[1].rank - 1
        BY <4>1 DEF Run, n
      <4> QED BY <1>3, <3>1, <4>1, <4>2
    <3>3. m = 0 /\ 1 \in 1..n
      BY <1>6, <2>3, <3>2
    <3>4. DOMAIN both = {1} /\ both[1] = cargo[1]
      BY <1>2, <3>2, <3>3
    <3>5. Built(both)
      BY <3>1, <3>4 DEF Built
    <3> QED BY <1>7, <1>9, <3>5, RegionFacts DEF Fits, both
  <2>4. CASE p # <<>>
    <3>1. /\ n = 1 /\ cargo[1].rank = p[m].rank + 1 /\ cargo[1].suit = p[m].suit
      BY <1>1, <1>3, <1>4, <1>5, <2>1, <2>4 DEF CanDrop, PileAccepts, n
    <3>2. m \in 1..m /\ 1 \in 1..m /\ 1 \in 1..n
      BY <1>1, <1>5, <2>4
    <3>3. p[m].rank = m /\ p[m].suit = p[1].suit
      BY <1>1, <2>2, <3>2 DEF Built
    <3>4. /\ both[m + 1] = cargo[1] /\ both[1] = p[1]
          /\ DOMAIN both = 1..(m + 1)
      BY <1>2, <3>1, <3>2
    <3>5. ASSUME NEW i \in DOMAIN both
          PROVE  both[i].up /\ both[i].rank = i /\ both[i].suit = both[1].suit
      <4>1. CASE i = m + 1
        BY <3>1, <3>3, <3>4, <4>1
      <4>2. CASE i # m + 1
        <5>1. i \in 1..m
          BY <1>1, <3>4, <4>2
        <5> QED BY <1>1, <1>2, <2>2, <3>4, <5>1 DEF Built
      <4> QED BY <4>1, <4>2
    <3>6. Built(both)
      BY <3>5 DEF Built
    <3> QED BY <1>7, <1>9, <3>6, RegionFacts DEF Fits, both
  <2> QED BY <2>3, <2>4
<1> QED BY <1>7, <1>8, <1>9, RegionFacts

(* A new deal.                                                             *)
LEMMA DealFits ==
    ASSUME NEW deck \in Shuffles
    PROVE  /\ \A r \in Region : Fits(r, Deal(deck)[r])
           /\ \A r, q \in Region : /\ Distinct(Deal(deck)[r])
                                   /\ r # q => Apart(Deal(deck)[r], Deal(deck)[q])
<1>1. deck \in Seq(Deck) /\ Shuffled(deck)
  BY GameAssumption
<1>2. DealtTo(NumTableau + 1) <= Len(deck)
  BY <1>1, GameAssumption DEF Shuffled
<1>3. Deal(deck) \in [Region -> Seq(Card)] /\ Len(deck) \in Nat
  BY <1>1, DealType
<1>4. ASSUME NEW r \in Region PROVE Fits(r, Deal(deck)[r])
  <2>1. CASE r = DeckPile_Ix
    <3>1. AllDown(Deal(deck)[r])
      BY <1>1, <1>2, <2>1, DealtPile DEF AllDown
    <3> QED BY <2>1, <3>1, RegionFacts DEF Fits
  <2>2. CASE r \in Tableau
    <3> DEFINE p == Deal(deck)[r]
               n == To(Len(deck), r) - From(Len(deck), r)
    <3>1. DOMAIN p = 1..n /\ \A i \in 1..n : p[i].up = (i = n)
      <4>1. r # DeckPile_Ix
        BY <2>2, RegionFacts
      <4>2. /\ DOMAIN p = 1..n
            /\ \A i \in DOMAIN p : p[i].up = (r # DeckPile_Ix /\ i = n)
        BY <1>1, <1>2, <2>2, DealtPile, Zenon
      <4> HIDE DEF p, n
      <4> QED BY <4>1, <4>2
    <3>2. p \in Seq(Card) /\ n \in Nat
      BY <1>2, <1>3, <2>2, FromTo
    <3> HIDE DEF p, n
    <3>3. Len(p) = n
      BY <3>1, <3>2
    <3>4. \A i \in 1..(Len(p) - 1) : ~p[i].up
      <4> TAKE i \in 1..(Len(p) - 1)
      <4>1. i \in 1..n /\ i # n
        BY <3>2, <3>3
      <4> QED BY <3>1, <4>1
    <3>5. Run(p)
      BY <3>4, Zenon DEF Run
    <3> QED BY <2>2, <3>5, RegionFacts DEF Fits, p
  <2>3. CASE r \notin Tableau \cup {DeckPile_Ix}
    BY <2>3, DealtNothing, EmptyFits
  <2> QED BY <2>1, <2>2, <2>3
<1> QED BY <1>1, <1>2, <1>4, DealtOnce

LEMMA PileChanged ==
    ASSUME TableOK, TableFits, NEW r \in Region, NEW p, pile' = [pile EXCEPT ![r] = p], Fits(r, p)
    PROVE  TableFits'
<1>1. pile'[r] = p /\ \A q \in Region : q # r => pile'[q] = pile[q]
  BY DEF TableOK
<1> QED BY <1>1 DEF TableFits
-----------------------------------------------------------------------------
(* THE SCREEN                                                              *)

(* What the screen of a game rests on: where fades, zooms and message      *)
(* boxes lead to.                                                          *)
FadeAfter == state = "WAIT_FOR_FADING" => stateAfter \in {"FIRST_SCENE", "TERMINATED"}
Answers   == State \ (Zoom \cup {"WAIT_FOR_FADING", "IN_MSGBOX"})
LeadsOn   ==
    /\ state \in State /\ FadeAfter
    /\ state \in Zoom => statePrev \in State \ (Zoom \cup Fading)
    /\ state = "IN_MSGBOX" =>
          /\ msgBox.type = "TY_MBOK" => stateAfter \in Answers
          /\ msgBox.type # "TY_MBOK" => {stateAfterYes, stateAfterNo} \subseteq Answers

LEMMA CurrentLeads ==
    ASSUME LeadsOn
    PROVE  /\ state # "WAIT_FOR_FADING" => current = state
           /\ state = "WAIT_FOR_FADING" =>
                current = stateAfter /\ stateAfter \in {"FIRST_SCENE", "TERMINATED"}
BY DEF LeadsOn, FadeAfter, current

(* The screen of a state, and of the next one.                             *)
LEMMA PhaseIs ==
    /\ BoxUp => PhaseOf = "IN_MSGBOX"
    /\ state = "WAIT_FOR_FADING" /\ stateAfter = "TERMINATED" => PhaseOf = "FADING_AWAY"
    /\ state = "WAIT_FOR_FADING" /\ stateAfter = "FIRST_SCENE" => PhaseOf = "FADING_IN"
    /\ state \in {"READY_TO_START", "FIRST_SCENE", "FADING_OUT", "TERMINATED"} => PhaseOf = state
    /\ ~BoxUp /\ state \notin {"WAIT_FOR_FADING", "READY_TO_START", "FIRST_SCENE",
                               "FADING_OUT", "TERMINATED"} => PhaseOf = "IN_GAME"
BY DEF PhaseOf, BoxUp

LEMMA NextPhaseIs ==
    /\ BoxUp' => PhaseOf' = "IN_MSGBOX"
    /\ state' = "WAIT_FOR_FADING" /\ stateAfter' = "TERMINATED" => PhaseOf' = "FADING_AWAY"
    /\ state' = "WAIT_FOR_FADING" /\ stateAfter' = "FIRST_SCENE" => PhaseOf' = "FADING_IN"
    /\ state' \in {"READY_TO_START", "FIRST_SCENE", "FADING_OUT", "TERMINATED"} => PhaseOf' = state'
    /\ ~BoxUp' /\ state' \notin {"WAIT_FOR_FADING", "READY_TO_START", "FIRST_SCENE",
                                 "FADING_OUT", "TERMINATED"} => PhaseOf' = "IN_GAME"
BY DEF PhaseOf, BoxUp

(* A step of the machine is one of the screen, or the screen stays.        *)
Shows == Screen!ScreenNext \/ UNCHANGED <<PhaseOf, done>>

LEMMA ScreenStarts == ASSUME Init PROVE FadeAfter /\ Screen!ScreenInit
<1>1. state = "READY_TO_START" /\ done = FALSE
  BY DEF Init
<1> QED BY <1>1, PhaseIs DEF FadeAfter, Screen!ScreenInit
-----------------------------------------------------------------------------
(* The frames that lead from one screen to another.                        *)
LEMMA FadeFramesShow ==
    ASSUME LeadsOn, ~done, FirstFrame \/ FirstScene \/ FadingOut \/ Terminated
    PROVE  FadeAfter' /\ Shows
<1>1. /\ state # "WAIT_FOR_FADING" => current = state
      /\ state = "WAIT_FOR_FADING" => current = stateAfter /\ stateAfter \in {"FIRST_SCENE", "TERMINATED"}
  BY CurrentLeads
<1>2. CASE FirstFrame
  <2>1. state = "READY_TO_START" /\ done' = done
    BY <1>1, <1>2 DEF FirstFrame
  <2>2. \/ TouchWithoutMouse /\ state' = "FIRST_SCENE"
        \/ ~TouchWithoutMouse /\ state' = "WAIT_FOR_FADING" /\ stateAfter' = "FIRST_SCENE"
    BY <1>2 DEF FirstFrame
  <2>3. /\ PhaseOf = "READY_TO_START" /\ FadeAfter'
        /\ PhaseOf' = IF TouchWithoutMouse THEN "FIRST_SCENE" ELSE "FADING_IN"
    BY <2>1, <2>2, PhaseIs, NextPhaseIs DEF FadeAfter
  <2>4. Screen!FirstFrame
    BY <2>1, <2>3 DEF Screen!FirstFrame
  <2> QED BY <2>3, <2>4 DEF Shows, Screen!ScreenNext
<1>3. CASE FirstScene
  <2>1. /\ state = "FIRST_SCENE" \/ (state = "WAIT_FOR_FADING" /\ stateAfter = "FIRST_SCENE")
        /\ state' = "IN_GAME" /\ done' = done
    BY <1>1, <1>3 DEF FirstScene, flow
  <2>2. PhaseOf \in {"FIRST_SCENE", "FADING_IN"} /\ PhaseOf' = "IN_GAME"
    BY <2>1, PhaseIs, NextPhaseIs DEF BoxUp
  <2>3. Screen!FirstScene
    BY <2>1, <2>2 DEF Screen!FirstScene
  <2> QED BY <2>1, <2>3 DEF FadeAfter, Shows, Screen!ScreenNext
<1>4. CASE FadingOut
  <2>1. state = "FADING_OUT" /\ state' = "WAIT_FOR_FADING" /\ stateAfter' = "TERMINATED" /\ done' = done
    BY <1>1, <1>4 DEF FadingOut
  <2>2. PhaseOf = "FADING_OUT" /\ PhaseOf' = "FADING_AWAY"
    BY <2>1, PhaseIs, NextPhaseIs
  <2>3. Screen!FadingOut
    BY <2>1, <2>2 DEF Screen!FadingOut
  <2> QED BY <2>1, <2>3 DEF FadeAfter, Shows, Screen!ScreenNext
<1>5. CASE Terminated
  <2>1. /\ state = "TERMINATED" \/ (state = "WAIT_FOR_FADING" /\ stateAfter = "TERMINATED")
        /\ state' = "TERMINATED" /\ done' = TRUE
    BY <1>1, <1>5 DEF Terminated
  <2>2. PhaseOf \in {"TERMINATED", "FADING_AWAY"} /\ PhaseOf' = "TERMINATED"
    BY <2>1, PhaseIs, NextPhaseIs
  <2>3. Screen!Terminated
    BY <2>1, <2>2 DEF Screen!Terminated
  <2> QED BY <2>1, <2>3 DEF FadeAfter, Shows, Screen!ScreenNext
<1> QED BY <1>2, <1>3, <1>4, <1>5

(* Frames that go on in the game: the next state is not one of those with  *)
(* a screen of their own.                                                  *)
InTheGame(s) == s \in State \ {"WAIT_FOR_FADING", "READY_TO_START", "FIRST_SCENE", "FADING_OUT",
                               "TERMINATED", "IN_MSGBOX"}

LEMMA StaysInGame ==
    ASSUME ~BoxUp, InTheGame(state), ~BoxUp', InTheGame(state'), done' = done
    PROVE  FadeAfter' /\ Shows
<1>1. PhaseOf = "IN_GAME" /\ PhaseOf' = "IN_GAME"
  BY PhaseIs, NextPhaseIs DEF InTheGame
<1> QED BY <1>1 DEF FadeAfter, Shows, InTheGame

LEMMA MoveFramesShow ==
    ASSUME LeadsOn, ~done,
           \/ DoNewGame \/ InitDragStep1 \/ InitDragStep2 \/ InitDragAfterFromSingleTapA
           \/ ForcedDrop \/ InitDragAfterGiven \/ InGame \/ TapIterate \/ VictoryAnimationIterate
    PROVE  FadeAfter' /\ Shows
<1>1. /\ state # "WAIT_FOR_FADING" => current = state
      /\ state = "WAIT_FOR_FADING" => current = stateAfter /\ stateAfter \in {"FIRST_SCENE", "TERMINATED"}
  BY CurrentLeads
<1>2. CASE DoNewGame
  <2>1. state = "DO_NEWGAME" /\ state' = "IN_GAME" /\ done' = done
    BY <1>1, <1>2 DEF DoNewGame
  <2> QED BY <2>1, StaysInGame DEF InTheGame, BoxUp
<1>3. CASE InitDragStep1 \/ InitDragStep2
  <2>1. state \in InitDrag /\ state' \in InitDrag /\ done' = done
    BY <1>1, <1>3 DEF InitDragStep1, InitDragStep2, flow
  <2> QED BY <2>1, StaysInGame DEF InTheGame, BoxUp
<1>4. CASE InitDragAfterFromSingleTapA
  <2>1. state = "INITDRAG_AFTER" /\ state' = "IN_GAME" /\ done' = done
    BY <1>1, <1>4 DEF InitDragAfterFromSingleTapA, flow
  <2> QED BY <2>1, StaysInGame DEF InTheGame, BoxUp
<1>5. CASE ForcedDrop \/ InitDragAfterGiven
  <2>1. state = "INITDRAG_AFTER" /\ state' \in Zoom /\ statePrev' = "IN_GAME" /\ done' = done
    BY <1>1, <1>5, AfterDropType DEF ForcedDrop, InitDragAfterGiven, DoDrop
  <2> QED BY <2>1, StaysInGame DEF InTheGame, BoxUp
<1>6. CASE InGame
  <2>1. state = "IN_GAME" /\ state' = "IN_GAME" /\ done' = done
    BY <1>1, <1>6 DEF InGame
  <2> QED BY <2>1, StaysInGame DEF InTheGame, BoxUp
<1>7. CASE TapIterate
  <2>1. state \in TapClick /\ done' = done
    BY <1>1, <1>7 DEF TapIterate, flow
  <2>2. state' \in {"IN_GAME", "INITDRAG_STEP1"}
    BY <1>7, Zenon DEF TapIterate, singleTapOrLeftClick, doubleTapOrRightClick, TapIgnored, TapPile,
       clickOnDeckStock, DoubleTapCard
  <2> QED BY <2>1, <2>2, StaysInGame DEF InTheGame, BoxUp
<1>8. CASE VictoryAnimationIterate
  <2>1. state \in Victory /\ done' = done
    BY <1>1, <1>8 DEF VictoryAnimationIterate
  <2>2. state' \in {"NEW_CARD_VICTORY", "IN_CARD_VICTORY", "IN_GAME"}
    BY <1>8 DEF VictoryAnimationIterate
  <2> QED BY <2>1, <2>2, StaysInGame DEF InTheGame, BoxUp
<1> QED BY <1>2, <1>3, <1>4, <1>5, <1>6, <1>7, <1>8

(* A question comes up, is answered, or waits for the end of a zoom.       *)
LEMMA BoxFramesShow ==
    ASSUME LeadsOn, ~done, AskForNewGame \/ ShowScore \/ MsgBoxDone \/ ZoomEnd \/ ZoomTerminated
    PROVE  FadeAfter' /\ Shows
<1>1. /\ state # "WAIT_FOR_FADING" => current = state
      /\ state = "WAIT_FOR_FADING" => current = stateAfter /\ stateAfter \in {"FIRST_SCENE", "TERMINATED"}
  BY CurrentLeads
<1>2. CASE AskForNewGame \/ ShowScore
  <2>1. state \in {"ASK_FOR_NEW_GAME", "SHOW_SCORE"} /\ state' = "IN_MSGBOX" /\ done' = done
    BY <1>1, <1>2 DEF AskForNewGame, ShowScore
  <2>2. PhaseOf = "IN_GAME" /\ PhaseOf' = "IN_MSGBOX"
    BY <2>1, PhaseIs, NextPhaseIs DEF BoxUp
  <2>3. Screen!Play
    BY <2>1, <2>2 DEF Screen!Play
  <2> QED BY <2>1, <2>3 DEF FadeAfter, Shows, Screen!ScreenNext
<1>3. CASE MsgBoxDone
  <2>1. state = "IN_MSGBOX" /\ done' = done
    BY <1>1, <1>3 DEF MsgBoxDone
  <2>2. state' \in Answers
    BY <1>3, <2>1 DEF MsgBoxDone, LeadsOn
  <2>3. PhaseOf = "IN_MSGBOX" /\ ~BoxUp'
    BY <2>1, <2>2, PhaseIs DEF BoxUp, Answers
  <2>4. PhaseOf' \in {"READY_TO_START", "FIRST_SCENE", "FADING_OUT", "TERMINATED", "IN_GAME"}
    BY <2>2, <2>3, NextPhaseIs DEF Answers
  <2>5. Screen!Answered
    BY <2>1, <2>3, <2>4 DEF Screen!Answered, Screen!Listens
  <2> QED BY <2>2, <2>5 DEF Answers, FadeAfter, Shows, Screen!ScreenNext
<1>4. CASE ZoomEnd
  <2>1. state \in Zoom /\ state' \in Zoom /\ statePrev' = statePrev /\ done' = done
    BY <1>1, <1>4 DEF ZoomEnd, flow
  <2>2. BoxUp <=> BoxUp'
    BY <2>1 DEF BoxUp
  <2>3. PhaseOf' = PhaseOf
    BY <2>1, <2>2, PhaseIs, NextPhaseIs
  <2> QED BY <2>1, <2>3 DEF FadeAfter, Shows
<1>5. CASE ZoomTerminated
  <2>1. /\ state = "IN_ZOOM_TERMINATED" /\ state' \in {statePrev, "START_VICTORY"}
        /\ statePrev' = statePrev /\ done' = done
    BY <1>1, <1>5 DEF ZoomTerminated, checkForVictory, flow
  <2>2. statePrev \in State \ (Zoom \cup Fading)
    BY <2>1 DEF LeadsOn
  <2>3. CASE statePrev = "IN_MSGBOX" /\ state' = statePrev
    <3>1. PhaseOf = "IN_MSGBOX" /\ PhaseOf' = "IN_MSGBOX"
      BY <2>1, <2>3, PhaseIs, NextPhaseIs DEF BoxUp
    <3> QED BY <2>1, <2>2, <2>3, <3>1 DEF FadeAfter, Shows
  <2>4. CASE statePrev = "IN_MSGBOX" /\ state' = "START_VICTORY"
    <3>1. PhaseOf = "IN_MSGBOX" /\ PhaseOf' = "IN_GAME"
      BY <2>1, <2>4, PhaseIs, NextPhaseIs DEF BoxUp
    <3>2. Screen!Answered
      BY <2>1, <3>1 DEF Screen!Answered, Screen!Listens
    <3> QED BY <2>4, <3>2 DEF FadeAfter, Shows, Screen!ScreenNext
  <2>5. CASE statePrev # "IN_MSGBOX"
    <3>1. PhaseOf = "IN_GAME" /\ ~BoxUp'
      BY <2>1, <2>2, <2>5, PhaseIs DEF BoxUp
    <3>2. PhaseOf' \in {"READY_TO_START", "FIRST_SCENE", "TERMINATED", "IN_GAME"}
      BY <2>1, <2>2, <3>1, NextPhaseIs
    <3>3. Screen!Play
      BY <2>1, <3>1, <3>2 DEF Screen!Play, Screen!Listens
    <3> QED BY <2>1, <2>2, <3>3 DEF FadeAfter, Shows, Screen!ScreenNext
  <2> QED BY <2>1, <2>3, <2>4, <2>5
<1> QED BY <1>2, <1>3, <1>4, <1>5

LEMMA HandleIterateShows == ASSUME LeadsOn, HandleIterate PROVE FadeAfter' /\ Shows
BY FadeFramesShow, MoveFramesShow, BoxFramesShow, Zenon DEF HandleIterate
-----------------------------------------------------------------------------
(* The events.                                                             *)
LEMMA ListeningShows ==
    ASSUME LeadsOn, Listening
    PROVE  /\ ~done /\ ~BoxUp
           /\ PhaseOf \in {"READY_TO_START", "FIRST_SCENE", "TERMINATED", "IN_GAME"}
<1>1. ~done /\ ~BoxUp
  BY DEF Listening, BoxUp
<1> QED BY <1>1, PhaseIs DEF Listening

LEMMA EventShows ==
    ASSUME LeadsOn, Listening, done' = done,
           PhaseOf' \in {"IN_GAME", "IN_MSGBOX", "FADING_OUT", "TERMINATED"}
    PROVE  Shows
<1>1. Screen!Event
  BY ListeningShows DEF Screen!Event, Screen!Listens
<1> QED BY <1>1 DEF Shows, Screen!ScreenNext

LEMMA GotoShows ==
    ASSUME LeadsOn, Listening, NEW s, Goto(s), InTheGame(s) \/ s \in {"FADING_OUT", "TERMINATED"}
    PROVE  FadeAfter' /\ Shows
<1>1. state' = s /\ done' = done /\ statePrev' = statePrev
  BY DEF Goto, flow
<1>2. CASE s \in {"FADING_OUT", "TERMINATED"}
  <2>1. PhaseOf' = s
    BY <1>1, <1>2, NextPhaseIs
  <2> QED BY <1>1, <1>2, <2>1, EventShows DEF FadeAfter
<1>3. CASE InTheGame(s)
  <2>1. PhaseOf' \in {"IN_GAME", "IN_MSGBOX"}
    BY <1>1, <1>3, NextPhaseIs DEF InTheGame
  <2> QED BY <1>1, <1>3, <2>1, EventShows DEF FadeAfter, InTheGame
<1> QED BY <1>2, <1>3

LEMMA DismissShows == ASSUME LeadsOn, DismissVictory PROVE FadeAfter' /\ Shows
<1>1. state \in Victory /\ state' = "SHOW_SCORE" /\ done' = done
  BY DEF DismissVictory
<1> QED BY <1>1, StaysInGame DEF InTheGame, BoxUp

LEMMA SameShows == ASSUME LeadsOn, UNCHANGED <<state, statePrev, stateAfter, done>> PROVE FadeAfter' /\ Shows
<1>1. PhaseOf' = PhaseOf
  BY DEF PhaseOf, BoxUp
<1> QED BY <1>1 DEF LeadsOn, FadeAfter, Shows

LEMMA ClickedShows ==
    ASSUME LeadsOn, NEW res, ButCmdClicked(res)
    PROVE  FadeAfter' /\ Shows
BY SameShows DEF ButCmdClicked

LEMMA KeyShows == ASSUME LeadsOn, KeyDownEvent \/ QuitEvent \/ DismissVictory PROVE FadeAfter' /\ Shows
<1>1. CASE Listening /\ (Goto("TERMINATED") \/ Goto("FADING_OUT") \/ Goto("START_VICTORY")
                          \/ Goto("ASK_FOR_NEW_GAME"))
  BY <1>1, GotoShows DEF InTheGame
<1>2. CASE ~done /\ state \in Fading /\ Goto("TERMINATED")
  <2>1. state' = "TERMINATED" /\ done' = done
    BY <1>2 DEF Goto, flow
  <2>2. PhaseOf \in {"FADING_OUT", "FADING_IN", "FADING_AWAY"} /\ PhaseOf' = "TERMINATED"
    BY <1>2, <2>1, PhaseIs, NextPhaseIs DEF LeadsOn, FadeAfter
  <2>3. Screen!Event
    BY <1>2, <2>1, <2>2 DEF Screen!Event, Screen!Fade
  <2> QED BY <2>1, <2>3 DEF FadeAfter, Shows, Screen!ScreenNext
<1>3. CASE DismissVictory
  BY <1>3, DismissShows
<1>4. CASE ButCmdClicked("RES_YES")
  BY <1>4, ClickedShows
<1> QED BY <1>1, <1>2, <1>3, <1>4, Zenon DEF KeyDownEvent, QuitEvent

(* The end of a drag in the state st, which may be a question just asked.  *)
LEMMA EndOfDragShows ==
    ASSUME LeadsOn, Listening, NEW st \in {state, "IN_MSGBOX"}, endOfDragAndCheckForVictory(st),
           done' = done, stateAfter' = stateAfter
    PROVE  FadeAfter' /\ Shows
<1>1. state \notin Victory \cup Zoom \cup Fading \cup {"IN_MSGBOX"} /\ state \in State
  BY DEF Listening, LeadsOn
<1>2. CASE startdrag
  <2>1. state' \in Zoom \cup {"START_VICTORY"} /\ statePrev' = st
    BY <1>2, AfterDropType DEF endOfDragAndCheckForVictory, checkForVictory, DoDrop
  <2>2. PhaseOf' \in {"IN_GAME", "IN_MSGBOX"}
    BY <2>1, NextPhaseIs
  <2> QED BY <2>1, <2>2, EventShows DEF FadeAfter
<1>3. CASE ~startdrag
  <2>1. state' \in {st, "START_VICTORY"} /\ statePrev' = statePrev
    BY <1>3 DEF endOfDragAndCheckForVictory, checkForVictory
  <2>2. CASE state' = state
    BY <2>1, <2>2, SameShows
  <2>3. CASE state' \in {"IN_MSGBOX", "START_VICTORY"}
    <3>1. PhaseOf' \in {"IN_GAME", "IN_MSGBOX"}
      BY <2>3, NextPhaseIs DEF BoxUp
    <3> QED BY <2>3, <3>1, EventShows DEF FadeAfter
  <2> QED BY <2>1, <2>2, <2>3
<1> QED BY <1>2, <1>3

LEMMA StartLoopShows == ASSUME StartGameLoop PROVE FadeAfter' /\ Shows
<1>1. done /\ state' = "READY_TO_START" /\ done' = FALSE
  BY DEF StartGameLoop
<1>2. PhaseOf' = "READY_TO_START"
  BY <1>1, NextPhaseIs
<1>3. Screen!Start
  BY <1>1, <1>2 DEF Screen!Start
<1> QED BY <1>1, <1>3 DEF FadeAfter, Shows, Screen!ScreenNext
=============================================================================
