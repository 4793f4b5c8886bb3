---------------------------- MODULE MCGameScore -----------------------------
EXTENDS GameScore

(* Three places; minutes of two seconds, hours of two minutes, days of two *)
(* hours; a score may miss the table, tie with a default, fall between the *)
(* defaults, beat them all, or be negative.                                *)
ThreeDefaults == <<6, 2, 1>>
SomeGains     == {3, -2}
FloorValue    == -3
FinalScores   == {3, 6, 9}
=============================================================================
