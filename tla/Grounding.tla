------------------------------ MODULE Grounding ------------------------------
(***************************************************************************)
(* From a reply of the recommendation service to the answer of an ask:     *)
(* the GroundedContext (pipeline/context_builder.py), what guardrails.py   *)
(* blocks, what response_verifier.py accepts from the LLM and what         *)
(* response_builder.py makes of it.                                        *)
(*                                                                         *)
(* A candidate is a record: its result id, its drink (None if the service  *)
(* left it out), its place (None for a beverage), its price in KRW or      *)
(* None, and whether its metadata carries the price policy and an          *)
(* experience or opinion reason.  The wording of answers is reduced to     *)
(* what the verifier looks for.                                            *)
(***************************************************************************)
EXTENDS IntentRouting, Sequences, Functions

CONSTANT None      \* Python's None

(* One GroundedContext: facts are empty exactly if `profile' is None; the  *)
(* items are the candidates in the order the service ranked them.          *)
Context(intent, profile, missing, items) ==
    [intent |-> intent, profile |-> profile, missing |-> missing, items |-> items]

Statuses == {"active", "inactive"}

(* Mutant: missing facts come with the profile's.                          *)
ProfileOnly(intent, missing) == Context(intent, "active", missing, <<>>)

NoFacts(intent, missing) == Context(intent, None, missing, <<>>)
InactiveProfile ==
    Context("PROFILE_STATUS", "inactive", {"active_recommendation_profile"}, <<>>)

HasEvidence(c) == c.profile # None

(* _diversity_exhausted: a request for something different brought only    *)
(* results the user has seen.                                              *)
Results(items) == {i.result : i \in Range(items)} \ {None}
Exhausted(diverse, items, excluded) ==
    /\ diverse
    /\ excluded # {} /\ Results(items) # {}
    /\ Results(items) \subseteq excluded

(* A beverage reply becomes evidence, or the fact that is missing.         *)
BeverageContext(items, diverse, excluded) ==
    LET intent == "RECOMMEND_BEVERAGE"
    IN  IF items = <<>>
        THEN NoFacts(intent, {"beverage_recommendation_candidates"})
        ELSE IF Exhausted(diverse, items, excluded)
        THEN Context(intent, "active",
                     {"beverage_recommendation_candidates_exhausted"}, <<>>)
        ELSE Context(intent, "active", {}, items)

VenueContext(intent, items) ==
    IF items = <<>>
    THEN NoFacts(intent, {"fresh_venue_recommendation_candidates"})
    ELSE Context(intent, "active", {}, items)

(* Only beverages carry warnings: for a price, the price policy, or a      *)
(* reason that is an experience or an opinion.                             *)
Warned(item) == item.price # None \/ item.policy \/ item.opinion
RequiresWarning(c) ==
    c.intent = "RECOMMEND_BEVERAGE" /\ \E i \in Range(c.items) : Warned(i)

-----------------------------------------------------------------------------
(* An answer: cards are the candidates shown, text what the words claim.   *)
Answer(intent, status, reason, cards, text, warned) ==
    [intent |-> intent, status |-> status, reason |-> reason, cards |-> cards,
     text |-> text, warned |-> warned]

Refusal(reason) == Answer("OUT_OF_SCOPE", "REFUSED", reason, <<>>, None, FALSE)
Insufficient(intent, reason) ==
    Answer(intent, "INSUFFICIENT_DATA", reason, <<>>, None, FALSE)

(* What the guardrails say instead of the LLM.                             *)
Blocked ==
    {Refusal("out of scope"), Insufficient("PROFILE_STATUS", "no active profile")}
    \cup {Insufficient("INSUFFICIENT_DATA", r) :
             r \in {"service unavailable", "inputs missing", "candidates exhausted",
                    "no candidates", "no evidence"}}
ASSUME NoneAssumption == None \notin Statuses /\ None \notin Blocked

(* The first rule that applies answers instead of the LLM.                 *)
Guard(intent, c) ==
    IF intent = "OUT_OF_SCOPE" THEN Refusal("out of scope")
    ELSE IF "active_recommendation_profile" \in c.missing \/ c.profile = "inactive"
    THEN Insufficient("PROFILE_STATUS", "no active profile")
    ELSE IF "recommendation_service_unavailable" \in c.missing
    THEN Insufficient("INSUFFICIENT_DATA", "service unavailable")
    ELSE IF /\ c.intent \in VenueIntents
            /\ c.missing \cap {"detailed_location", "selected_beverage_id"} # {}
    THEN Insufficient("INSUFFICIENT_DATA", "inputs missing")
    ELSE IF "beverage_recommendation_candidates_exhausted" \in c.missing
    THEN Insufficient("INSUFFICIENT_DATA", "candidates exhausted")
    ELSE IF c.missing \cap {"beverage_recommendation_candidates",
                            "fresh_venue_recommendation_candidates"} # {}
    THEN Insufficient("INSUFFICIENT_DATA", "no candidates")
    ELSE IF ~HasEvidence(c)
    THEN Insufficient("INSUFFICIENT_DATA", "no evidence")
    ELSE None

-----------------------------------------------------------------------------
(* Texts: [blank, numbers, overstates, names, points, claims, warns].      *)
(* `names' are the drinks and places it speaks of, `points' tells whether  *)
(* it refers to the cards, `claims' whether it recommends, `overstates'    *)
(* whether it promises a store price, `warns' whether it has the warning.  *)
Names(item) == {item.drink, item.place} \ {None}
Candidates(c) == UNION {Names(i) : i \in Range(c.items)}
Numbers(c) == {i.price : i \in Range(c.items)} \ {None}

(* The verifier looks for the digits of a number anywhere in the facts.    *)
Occurs(n, m) == \E i \in 0..5, j \in 1..6 : n = (m \div 10^i) % 10^j

GroundedNumbers(t, c) == \A n \in t.numbers : \E m \in Numbers(c) : Occurs(n, m)
PriceLanguage(t, c) == (\E i \in Range(c.items) : i.policy) => ~t.overstates
MentionsCandidate(t, c) ==
    Candidates(c) # {} /\ t.names \cap Candidates(c) = {} /\ ~t.points => ~t.claims

(* Mutant: the price policy is not looked at.                              *)
VerifiedButPrice(t, c) ==
    ~t.blank /\ HasEvidence(c) /\ GroundedNumbers(t, c) /\ MentionsCandidate(t, c)

Verified(t, c) ==
    /\ ~t.blank
    /\ HasEvidence(c)
    /\ GroundedNumbers(t, c)
    /\ PriceLanguage(t, c)
    /\ MentionsCandidate(t, c)

(* build_generation_fallback: the first candidate that has a title, or     *)
(* none, and the cards below.                                              *)
Title(intent, item) == IF intent \in VenueIntents THEN item.place ELSE item.drink
Titled(c) == {k \in DOMAIN c.items : Title(c.intent, c.items[k]) # None}
FallbackText(c) ==
    [blank |-> FALSE, numbers |-> {}, overstates |-> FALSE,
     names |-> IF Titled(c) = {} THEN {}
               ELSE {Title(c.intent, c.items[Min(Titled(c))])},
     points |-> TRUE, claims |-> TRUE, warns |-> FALSE]

(* Mutant: the warning is left to the LLM.                                 *)
AnsweredAsWritten(intent, t, c) ==
    Answer(intent, "ANSWERED", None, c.items, t, t.warns)

(* The warning is appended unless the text has it.                         *)
Answered(intent, t, c) ==
    Answer(intent, "ANSWERED", None, c.items, t, t.warns \/ RequiresWarning(c))

(* The LLM's text if the verifier accepts it, else the fallback.           *)
FromLlm(intent, t, c) ==
    Answered(intent, IF Verified(t, c) THEN t ELSE FallbackText(c), c)
Fallback(intent, c) == Answered(intent, FallbackText(c), c)

=============================================================================
