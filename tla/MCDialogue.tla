----------------------------- MODULE MCDialogue -----------------------------
(* Instances of Dialogue for TLC.                                          *)
EXTENDS Dialogue, TLC

CONSTANTS a1, a2, a3, d1, d2, r1, r2, v1

Symmetry == Permutations(Asks)

(* d1 is cheap talk, d2 a catalog drink with a price and a price policy.   *)
Beverage(r, d) ==
    [result |-> r, drink |-> d, place |-> None, opinion |-> FALSE,
     price |-> IF d = d2 THEN 15000 ELSE None, policy |-> d = d2]
Venue(d) ==
    [result |-> v1, drink |-> d, place |-> v1, opinion |-> FALSE,
     price |-> 9000, policy |-> FALSE]

SomeBeverages ==
    {<<>>, <<Beverage(r1, d1)>>, <<Beverage(r2, d2), Beverage(r1, d1)>>}
SomeVenues == {<<>>, <<Venue(d2)>>, <<Venue(None)>>}

Say(message) ==
    [message |-> message, located |-> TRUE, selected |-> None,
     clientDrink |-> None, clientDiverse |-> FALSE, avoided |-> None,
     excluded |-> None, previousDrinks |-> None, previousResults |-> None]

SomeRequests ==
    {Say({"recommend", "whisky"}),
     [Say({"otherDrink", "recommend"}) EXCEPT !.previousResults = {r2}],
     Say({"lighter"}),
     Say({"again"}),
     Say({"otherSpot", "recommend"}),
     [Say({"near", "bar"}) EXCEPT !.located = FALSE],
     [Say({"compare", "price"}) EXCEPT !.selected = d1],
     [Say({"near"}) EXCEPT !.clientDrink = d1],
     [Say({"otherDrink"}) EXCEPT !.avoided = {}, !.excluded = {r2}],
     Say({"weather"}),
     Say({})}

Plain ==
    [blank |-> FALSE, numbers |-> {}, overstates |-> FALSE, names |-> {d1},
     points |-> FALSE, claims |-> TRUE, warns |-> FALSE]
SomeTexts ==
    {Plain,
     [Plain EXCEPT !.numbers = {500}],
     [Plain EXCEPT !.names = {d2}, !.numbers = {15000}, !.warns = TRUE],
     [Plain EXCEPT !.overstates = TRUE, !.points = TRUE]}

=============================================================================
