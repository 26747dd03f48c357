------------------------------- MODULE Dialogue -------------------------------
(***************************************************************************)
(* The asks of one conversation: pipeline/chatbot_pipeline.py.             *)
(*                                                                         *)
(* An ask reads the conversation, routes its message with what it read,    *)
(* asks the recommendation service, has the LLM word the answer, and       *)
(* persists its turn.  Each of these awaits an answer, and the asks of a   *)
(* user may overlap: what one read of the conversation may be old when its *)
(* own turn is stored.                                                     *)
(*                                                                         *)
(* AsyncRepository is the contract of the storage below: a read sees every *)
(* turn answered before it, and the two rows of a turn are stored together *)
(* (its queue has room), or none is if the store gives the turn up.  All   *)
(* asks name the conversation.                                             *)
(***************************************************************************)
EXTENDS Grounding

CONSTANTS
    Asks,             \* AskChatbot calls
    PageSize,         \* page_size of the history read: 25
    Requests,         \* what users send
    BeverageReplies,  \* candidates GetBeverageRecommendations may return
    VenueReplies,     \* the same of GetVenueRecommendations
    Texts             \* what the LLM may say

ASSUME PageSizeAssumption == PageSize \in Nat \ {0}

VARIABLES
    history,   \* chatbot_messages of the conversation, in order
    pc,        \* what each ask awaits
    request,   \* its ChatbotRequest
    plan,      \* its intent, and what it asks of the recommendation service
    context,   \* its GroundedContext
    answer,    \* its ChatbotAnswer
    asOf       \* history, for properties: rows stored when it read, or None

vars == <<history, pc, request, plan, context, answer, asOf>>

(* A user's row, and what metadata tells of an assistant's row: its        *)
(* intent, the drinks of used_sources and cards in order, the results.     *)
UserRow == [role |-> "USER", intent |-> None, drinks |-> <<>>, results |-> {}]
DrinksOf(items) == SelectSeq([k \in DOMAIN items |-> items[k].drink],
                             LAMBDA d : d # None)
AssistantRow(ans) ==
    [role |-> "ASSISTANT", intent |-> ans.intent,
     drinks |-> DrinksOf(ans.cards), results |-> Results(ans.cards)]

-----------------------------------------------------------------------------
(* _build_conversation_context_hints: from the newest row backwards, until *)
(* both drinks and results are known.                                      *)
DrinksFrom(w, i) == UNION {Range(w[j].drinks) : j \in i..Len(w)}
ResultsFrom(w, i) == UNION {w[j].results : j \in i..Len(w)}
Stop(w) ==
    Max({1} \cup {i \in DOMAIN w : DrinksFrom(w, i) # {} /\ ResultsFrom(w, i) # {}})

Answers(w) == {i \in DOMAIN w : w[i].role = "ASSISTANT"}
WithDrinks(w) == {i \in DOMAIN w : w[i].drinks # <<>>}

(* Mutant: the oldest answer decides what is followed up.                  *)
HintsForwards(w) ==
    [drinks   |-> DrinksFrom(w, Stop(w)),
     results  |-> ResultsFrom(w, Stop(w)),
     selected |-> IF WithDrinks(w) = {} THEN None
                  ELSE Head(w[Min(WithDrinks(w))].drinks),
     intent   |-> IF Answers(w) = {} THEN None ELSE w[Min(Answers(w))].intent]

Hints(w) ==
    [drinks   |-> DrinksFrom(w, Stop(w)),
     results  |-> ResultsFrom(w, Stop(w)),
     selected |-> IF WithDrinks(w) = {} THEN None
                  ELSE Head(w[Max(WithDrinks(w))].drinks),
     intent   |-> IF Answers(w) = {} THEN None ELSE w[Max(Answers(w))].intent]

(* The page get_messages returns: the oldest rows.                         *)
Window == SubSeq(history, 1, Min({PageSize, Len(history)}))

-----------------------------------------------------------------------------
(* _apply_conversation_context, and the arguments the context builder      *)
(* takes from the request: what follows up is kept away from what was      *)
(* shown, what needs a drink goes on with the one last shown.              *)
FirstOf(x, y) == IF x # None THEN x ELSE y

(* What is left out: the hints, unless the client says what to exclude;    *)
(* else what it excludes, if it sent that at all, or what it showed before.*)
LeftOut(follows, exclude, hinted, previous) ==
    IF follows /\ exclude \in {None, {}} /\ hinted # {} THEN hinted
    ELSE FirstOf(FirstOf(exclude, previous), {})

(* Mutant: what was shown is left out only of requests for a flavor.       *)
PlanRepeating(r, hints) ==
    [intent   |-> Classify(r.message, hints.intent),
     drink    |-> FirstOf(FirstOf(r.selected, hints.selected), r.clientDrink),
     diverse  |-> Diverse(r.message) \/ r.clientDiverse,
     avoided  |-> LeftOut(Flavored(r.message), r.avoided, hints.drinks,
                         r.previousDrinks),
     excluded |-> LeftOut(Flavored(r.message), r.excluded, hints.results,
                          r.previousResults)]

Plan(r, hints) ==
    LET intent == Classify(r.message, hints.intent)
        follows == Diverse(r.message) \/ Flavored(r.message)
        selected == IF intent \in VenueIntents THEN FirstOf(r.selected, hints.selected)
                    ELSE r.selected
    IN  [intent   |-> intent,
         drink    |-> FirstOf(selected, r.clientDrink),
         diverse  |-> Diverse(r.message) \/ r.clientDiverse,
         avoided  |-> LeftOut(follows, r.avoided, hints.drinks, r.previousDrinks),
         excluded |-> LeftOut(follows, r.excluded, hints.results,
                              r.previousResults)]

MissingInputs(r, p) ==
    (IF r.located THEN {} ELSE {"detailed_location"})
    \cup (IF p.drink = None THEN {"selected_beverage_id"} ELSE {})

-----------------------------------------------------------------------------
NoPlan == [intent |-> None, drink |-> None, diverse |-> FALSE,
           avoided |-> {}, excluded |-> {}]
Unbuilt == Context(None, None, {}, <<>>)

Init ==
    /\ history = <<>>
    /\ pc = [a \in Asks |-> "new"]
    /\ request = [a \in Asks |-> None]
    /\ plan = [a \in Asks |-> NoPlan]
    /\ context = [a \in Asks |-> Unbuilt]
    /\ answer = [a \in Asks |-> None]
    /\ asOf = [a \in Asks |-> None]

Goto(a, place) == pc' = [pc EXCEPT ![a] = place]

Conclude(a, ans) ==
    /\ answer' = [answer EXCEPT ![a] = ans]
    /\ Goto(a, "persist")

(* enforce(): the guardrails answer, or the LLM is called with context c.  *)
Enforce(a, intent, c) ==
    /\ context' = [context EXCEPT ![a] = c]
    /\ \/ Guard(intent, c) # None /\ Conclude(a, Guard(intent, c))
       \/ /\ Guard(intent, c) = None
          /\ Goto(a, "llm")
          /\ UNCHANGED answer

Receive(a) ==
    /\ pc[a] = "new"
    /\ \E r \in Requests : request' = [request EXCEPT ![a] = r]
    /\ Goto(a, "history")
    /\ UNCHANGED <<history, plan, context, answer, asOf>>

(* The history read returns, or raises and leaves no hints; the message is *)
(* routed and its context applied before the next suspension.              *)
HistoryReply(a) ==
    /\ pc[a] = "history"
    /\ \E w \in {Window, <<>>} :
          LET p == Plan(request[a], Hints(w))
          IN  /\ asOf' = [asOf EXCEPT ![a] = IF w = Window THEN Len(history) ELSE None]
              /\ plan' = [plan EXCEPT ![a] = p]
              /\ \/ /\ p.intent \in {"OUT_OF_SCOPE", "INSUFFICIENT_DATA"}
                    /\ Enforce(a, p.intent, NoFacts(p.intent, {}))
                 \/ /\ p.intent \notin {"OUT_OF_SCOPE", "INSUFFICIENT_DATA"}
                    /\ Goto(a, "profile")
                    /\ UNCHANGED <<context, answer>>
    /\ UNCHANGED <<history, request>>

Unavailable(a) ==
    Enforce(a, plan[a].intent,
            NoFacts(plan[a].intent, {"recommendation_service_unavailable"}))

(* get_profile_status returns or raises.  Without an active profile, or    *)
(* with a venue's inputs missing, nothing more is asked.                   *)
ProfileReply(a) ==
    LET intent == plan[a].intent
        missing == IF intent \in VenueIntents THEN MissingInputs(request[a], plan[a])
                   ELSE {}
    IN  /\ pc[a] = "profile"
        /\ \/ Unavailable(a)
           \/ Enforce(a, intent, InactiveProfile)
           \/ /\ missing # {}
              /\ Enforce(a, intent, NoFacts(intent, missing))
           \/ /\ missing = {}
              /\ Goto(a, "recommendations")
              /\ UNCHANGED <<context, answer>>
        /\ UNCHANGED <<history, request, plan, asOf>>

(* get_beverage_recommendations or get_venue_recommendations.              *)
RecommendationsReply(a) ==
    LET p == plan[a]
    IN  /\ pc[a] = "recommendations"
        /\ \/ Unavailable(a)
           \/ /\ p.intent = "RECOMMEND_BEVERAGE"
              /\ \E items \in BeverageReplies :
                    Enforce(a, p.intent, BeverageContext(items, p.diverse, p.excluded))
           \/ /\ p.intent \in VenueIntents
              /\ \E items \in VenueReplies :
                    Enforce(a, p.intent, VenueContext(p.intent, items))
        /\ UNCHANGED <<history, request, plan, asOf>>

(* generate() returns a text or raises LLMGenerationError.                 *)
LlmReply(a) ==
    /\ pc[a] = "llm"
    /\ \/ \E t \in Texts : Conclude(a, FromLlm(plan[a].intent, t, context[a]))
       \/ Conclude(a, Fallback(plan[a].intent, context[a]))
    /\ UNCHANGED <<history, request, plan, context, asOf>>

(* An ask that ended keeps nothing.                                        *)
Forget(a) ==
    /\ request' = [request EXCEPT ![a] = None]
    /\ plan' = [plan EXCEPT ![a] = NoPlan]
    /\ context' = [context EXCEPT ![a] = Unbuilt]
    /\ answer' = [answer EXCEPT ![a] = None]
    /\ asOf' = [asOf EXCEPT ![a] = None]

(* _persist_if_configured, and the answer is returned.                     *)
Persist(a) ==
    /\ pc[a] = "persist"
    /\ history' = history \o <<UserRow, AssistantRow(answer[a])>>
    /\ Goto(a, "done")
    /\ Forget(a)

(* The turn is given up by the store, the LLM adapter or the repository    *)
(* raises something else, or the call is cancelled: nothing is stored.     *)
End(a) ==
    /\ pc[a] \in {"history", "profile", "recommendations", "llm", "persist"}
    /\ Goto(a, "done")
    /\ Forget(a)
    /\ UNCHANGED history

Next ==
    \E a \in Asks :
        \/ Receive(a) \/ HistoryReply(a) \/ ProfileReply(a)
        \/ RecommendationsReply(a) \/ LlmReply(a) \/ Persist(a) \/ End(a)

Spec == Init /\ [][Next]_vars

-----------------------------------------------------------------------------
TypeOK ==
    /\ \A i \in DOMAIN history : history[i].role \in {"USER", "ASSISTANT"}
    /\ pc \in [Asks -> {"new", "history", "profile", "recommendations", "llm",
                        "persist", "done"}]
    /\ \A a \in Asks :
          /\ request[a] \in Requests \cup {None}
          /\ plan[a].intent \in Intents \cup {None}
          /\ asOf[a] \in 0..Len(history) \cup {None}
          /\ pc[a] \in {"profile", "recommendations", "llm"} =>
                plan[a].intent \in VenueIntents \cup {"RECOMMEND_BEVERAGE"}
          /\ pc[a] = "llm" => HasEvidence(context[a])
          /\ IF pc[a] = "persist"
             THEN answer[a].status \in {"ANSWERED", "REFUSED", "INSUFFICIENT_DATA"}
             ELSE answer[a] = None

Answering(a) == pc[a] = "persist" /\ answer[a].status = "ANSWERED"

(* Whatever the LLM says, if it says anything, an answer shows the         *)
(* service's candidates in the service's order, for an active profile; if  *)
(* it recommends and any of them has a name, it names one or points to     *)
(* them; its numbers occur in the facts, and it promises no store price.   *)
AnswersGrounded ==
    \A a \in Asks : Answering(a) =>
        /\ context[a].profile = "active"
        /\ answer[a].cards # <<>> /\ answer[a].cards = context[a].items
        /\ LET t == answer[a].text
           IN  /\ ~t.blank
               /\ GroundedNumbers(t, context[a])
               /\ t.claims /\ Candidates(context[a]) # {} =>
                     t.points \/ t.names \cap Candidates(context[a]) # {}
               /\ t.overstates => ~\E i \in Range(answer[a].cards) : i.policy

(* A beverage with a price or an opinion never goes without the warning,   *)
(* be the text the LLM's, rejected or missing.                             *)
WarningsKept ==
    \A a \in Asks :
        /\ Answering(a) /\ answer[a].intent = "RECOMMEND_BEVERAGE"
        /\ \E i \in Range(answer[a].cards) : Warned(i)
        => answer[a].warned

(* What an ask could know when it read the conversation.                   *)
Known(a) == SubSeq(history, 1, asOf[a])
Informed(a) == asOf[a] # None /\ asOf[a] <= PageSize
WithResults(w) == {i \in DOMAIN w : w[i].results # {}}

(* "Something else" after an answer asks for other drinks than the latest  *)
(* answer with drinks showed, and brings at least one result the latest    *)
(* answer with results did not show, if results have ids, unless the       *)
(* client names what to leave out.                                         *)
FollowUpsAreFresh ==
    \A a \in Asks :
        /\ Answering(a) /\ answer[a].intent = "RECOMMEND_BEVERAGE"
        /\ Informed(a) /\ Diverse(request[a].message)
        => /\ WithDrinks(Known(a)) # {} /\ request[a].avoided \in {None, {}} =>
                Range(Known(a)[Max(WithDrinks(Known(a)))].drinks) \subseteq plan[a].avoided
           /\ WithResults(Known(a)) # {} /\ request[a].excluded \in {None, {}} =>
                \/ Results(answer[a].cards) = {}
                \/ ~(Results(answer[a].cards)
                       \subseteq Known(a)[Max(WithResults(Known(a)))].results)

(* "Another place" after a venue answer never turns into beverages         *)
(* (docs/plans/017).                                                       *)
VenueFollowUpStays ==
    \A a \in Asks :
        /\ pc[a] = "persist" /\ Informed(a) /\ Answers(Known(a)) # {}
        /\ Known(a)[Max(Answers(Known(a)))].intent \in VenueIntents
        /\ Has(request[a].message, VenueFollowUps)
        /\ ~Has(request[a].message, DrinkWords)
        => answer[a].intent \in {"FIND_NEARBY_VENUE", "PROFILE_STATUS",
                                 "INSUFFICIENT_DATA"}

(* A venue search that names no drink goes on with the first drink of the  *)
(* latest answer that showed any.                                          *)
GoesOn(a) ==
    /\ pc[a] = "recommendations" /\ plan[a].intent \in VenueIntents
    /\ request[a].selected = None /\ request[a].clientDrink = None
    /\ asOf[a] # None
    /\ WithDrinks(Known(a)) # {}
    => plan[a].drink = Head(Known(a)[Max(WithDrinks(Known(a)))].drinks)

SelectionIsLatest == \A a \in Asks : Informed(a) => GoesOn(a)

(* The same in conversations of any length.                                *)
ContextIsRecent == \A a \in Asks : GoesOn(a)

=============================================================================
