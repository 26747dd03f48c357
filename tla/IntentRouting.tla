---------------------------- MODULE IntentRouting ----------------------------
(***************************************************************************)
(* What a user's message asks for: pipeline/intent_classifier.py.          *)
(*                                                                         *)
(* The classifier only tests which terms of its tables occur in the text,  *)
(* so a message is the set of phrases it is made of.  The vocabulary below *)
(* is a selection with terms of every table, kept for the ways tables      *)
(* overlap and phrases contain one another; the Korean original is in the  *)
(* comment.  A phrase brings the shorter terms inside it along, as a       *)
(* substring test does.                                                    *)
(***************************************************************************)
EXTENDS Naturals, FiniteSets, FiniteSetsExt

Intents == {"RECOMMEND_BEVERAGE", "FIND_NEARBY_VENUE",
            "COMPARE_PURCHASE_OPTIONS", "PROFILE_STATUS", "OUT_OF_SCOPE",
            "INSUFFICIENT_DATA"}
VenueIntents == {"FIND_NEARBY_VENUE", "COMPARE_PURCHASE_OPTIONS"}

(* The weighted tables.                                                    *)
ComparisonScores ==
    [compare  |-> 7,   \* 비교
     whereMore |-> 6,  \* 어디가 더
     cheap    |-> 3,   \* 저렴
     price    |-> 1]   \* 가격
VenueScores ==
    [toDrinkAt |-> 8,  \* 마실 곳
     near      |-> 6,  \* 근처, 장소
     pub       |-> 6,  \* 술집
     where     |-> 4,  \* 어디
     bar       |-> 4,  \* 바
     place     |-> 2]  \* 곳
BeverageScores ==
    [whisky    |-> 5,  \* 위스키
     drink     |-> 4,  \* 술
     lighter   |-> 3,  \* 가볍
     smoky     |-> 3,  \* 스모키
     recommend |-> 1]  \* 추천

(* The plain tables.                                                       *)
ExplicitComparison == {"compare", "whereMore"}
StrongVenue == {"toDrinkAt", "near", "pub", "where", "bar"}
StrongBeverage == {"whisky", "drink"}
GeneralOutOfScope == {"weather"}                                    \* 날씨
ServiceActions == {"recommend", "near", "toDrinkAt", "compare", "price"}
DrinkWords == {"whisky", "drink", "similar"}                        \* 비슷한
DiversePhrases == {"otherPlace", "otherSpot", "otherDrink", "another"}
                                                                    \* 또 다른
VenueFollowUps == {"otherPlace", "otherSpot", "otherBar", "otherPub", "again"}
FlavorWords == {"lighter", "smoky", "light"}                        \* 라이트

(* The terms inside a longer phrase.                                       *)
Inside ==
    [otherPlace |-> {"place"},     \* 다른 곳
     otherSpot  |-> {"near"},      \* 다른 장소: 장소 weighs what 근처 does
     otherDrink |-> {"drink"},     \* 다른 술
     otherBar   |-> {"bar"},       \* 다른 바
     otherPub   |-> {"otherDrink", "pub", "drink"},                \* 다른 술집
     pub        |-> {"drink"},
     again      |-> {"recommend"}, \* 다시 추천
     toDrinkAt  |-> {"place"},
     whereMore  |-> {"where"}]

Terms == DOMAIN ComparisonScores \cup DOMAIN VenueScores
         \cup DOMAIN BeverageScores \cup GeneralOutOfScope \cup ServiceActions
         \cup DrinkWords \cup DiversePhrases \cup VenueFollowUps \cup FlavorWords
         \cup DOMAIN Inside

(* The terms that occur in a message; no phrase at all is a blank message. *)
TermsOf(message) ==
    message \cup UNION {Inside[p] : p \in message \cap DOMAIN Inside}

Has(message, words) == TermsOf(message) \cap words # {}

Score(message, table) ==
    MapThenSumSet(LAMBDA t : table[t], TermsOf(message) \cap DOMAIN table)

(* is_diverse_beverage_request and infer_beverage_flavor_direction: which  *)
(* direction and which mode only the recommendation service tells apart.   *)
Diverse(message) == Has(message, DiversePhrases)
Flavored(message) == Has(message, FlavorWords)

(* "Another place" after a venue answer, unless it speaks of a drink.      *)
FollowsVenue(message, previous) ==
    /\ previous \in VenueIntents
    /\ ~Has(message, DrinkWords)
    /\ Has(message, VenueFollowUps)

(* classify(): previous is the intent of the last answer, or none.  Ties   *)
(* go to the table that is scored first.                                   *)
Classify(message, previous) ==
    LET compare  == Score(message, ComparisonScores)
        venue    == Score(message, VenueScores)
        beverage == Score(message, BeverageScores)
        best     == Max({compare, venue, beverage})
        offTopic == /\ Has(message, GeneralOutOfScope)
                    /\ best < 8 \/ ~Has(message, ServiceActions)
    IN  IF message = {} THEN "INSUFFICIENT_DATA"
        ELSE IF FollowsVenue(message, previous) THEN "FIND_NEARBY_VENUE"
        ELSE IF offTopic THEN "OUT_OF_SCOPE"
        ELSE IF Has(message, ExplicitComparison) /\ compare >= 5
             THEN "COMPARE_PURCHASE_OPTIONS"
        ELSE IF Has(message, StrongVenue) /\ venue >= 5
             THEN "FIND_NEARBY_VENUE"
        ELSE IF Has(message, StrongBeverage) /\ beverage >= 5
             THEN "RECOMMEND_BEVERAGE"
        ELSE IF best = 0 THEN "OUT_OF_SCOPE"
        ELSE IF compare = best THEN "COMPARE_PURCHASE_OPTIONS"
        ELSE IF venue = best THEN "FIND_NEARBY_VENUE"
        ELSE "RECOMMEND_BEVERAGE"

=============================================================================
