---------------------------- MODULE DialogueProofs ----------------------------
(***************************************************************************)
(* Theorems about Dialogue, for any number of asks, any requests, replies  *)
(* of the recommendation service and texts of the LLM, and every page      *)
(* size.  The classifier's tables stay closed: what matters of classify()  *)
(* is which intents it can return.                                         *)
(***************************************************************************)
EXTENDS Dialogue, SequenceTheorems, WellFoundedInduction, TLAPS

Suspended == {"history", "profile", "recommendations", "llm", "persist"}
Places == {"new", "done"} \cup Suspended
Shown == BeverageReplies \cup VenueReplies \cup {<<>>}
Routed == Intents \ {"PROFILE_STATUS"}
HistoryRows ==
    {UserRow} \cup {AssistantRow([intent |-> i, cards |-> c]) : i \in Intents, c \in Shown}

(* Tables of the asks, and the rows of the conversation.                   *)
ShapeInv ==
    /\ history \in Seq(HistoryRows)
    /\ pc \in [Asks -> Places]
    /\ DOMAIN request = Asks /\ DOMAIN plan = Asks /\ DOMAIN context = Asks
    /\ DOMAIN answer = Asks /\ DOMAIN asOf = Asks
    /\ \A a \in Asks :
          /\ request[a] \in Requests \cup {None}
          /\ asOf[a] \in 0..Len(history) \cup {None}

(* The plan of an ask is the plan for its request and what it read.        *)
PlanInv(a) ==
    /\ plan[a].intent \in Routed \cup {None}
    /\ pc[a] \in {"profile", "recommendations", "llm", "persist"} =>
          /\ plan[a].intent \in Routed
          /\ Informed(a) => plan[a] = Plan(request[a], Hints(Known(a)))
    /\ pc[a] \in {"profile", "recommendations", "llm"} =>
          plan[a].intent \in VenueIntents \cup {"RECOMMEND_BEVERAGE"}

(* The LLM is called with evidence alone, and never with a reply that has  *)
(* nothing new for who asks for something different.                       *)
Evident(p, c) ==
    /\ c.profile = "active" /\ c.intent = p.intent
    /\ c.items \in Shown /\ c.items # <<>>
    /\ p.intent = "RECOMMEND_BEVERAGE" => ~Exhausted(p.diverse, c.items, p.excluded)
Evidence(a) == Evident(plan[a], context[a])

(* What an answer was made of.                                             *)
Worded(a) ==
    \E t \in Texts \cup {FallbackText(context[a])} :
        /\ t = FallbackText(context[a]) \/ Verified(t, context[a])
        /\ answer[a] = Answered(plan[a].intent, t, context[a])

AnswerInv(a) ==
    /\ pc[a] = "llm" => Evidence(a)
    /\ pc[a] # "persist" => answer[a] = None
    /\ pc[a] = "persist" =>
          \/ /\ answer[a] \in Blocked
             /\ answer[a].intent = "OUT_OF_SCOPE" => plan[a].intent = "OUT_OF_SCOPE"
          \/ Evidence(a) /\ Worded(a)

(* A table of the asks that changed for one of them at most.               *)
Only(new, old, a) == DOMAIN new = Asks /\ \A b \in Asks \ {a} : new[b] = old[b]

IInv == ShapeInv /\ \A a \in Asks : PlanInv(a) /\ AnswerInv(a)

-----------------------------------------------------------------------------
(* classify() never asks for the profile alone.                            *)
LEMMA ClassifyType ==
    ASSUME NEW message, NEW previous
    PROVE  Classify(message, previous) \in Routed
  BY DEF Classify, Routed, Intents

(* A request that follows up a venue answer stays with venues.             *)
LEMMA ClassifyFollows ==
    ASSUME NEW message, NEW previous, previous \in VenueIntents,
           Has(message, VenueFollowUps), ~Has(message, DrinkWords)
    PROVE  Classify(message, previous) \in {"FIND_NEARBY_VENUE", "INSUFFICIENT_DATA"}
  BY DEF Classify, FollowsVenue

(* The contexts the builder can make.                                      *)
LEMMA Contexts ==
    ASSUME NEW intent, NEW missing, NEW items, NEW diverse, NEW excluded
    PROVE  /\ LET c == NoFacts(intent, missing)
              IN  c.profile = None /\ c.intent = intent
           /\ LET c == BeverageContext(items, diverse, excluded)
              IN  \/ c.profile = None
                  \/ "beverage_recommendation_candidates_exhausted" \in c.missing
                  \/ /\ c.profile = "active" /\ c.intent = "RECOMMEND_BEVERAGE"
                     /\ c.items = items /\ items # <<>>
                     /\ ~Exhausted(diverse, items, excluded)
           /\ LET c == VenueContext(intent, items)
              IN  \/ c.profile = None
                  \/ /\ c.profile = "active" /\ c.intent = intent
                     /\ c.items = items /\ items # <<>>
  BY DEF BeverageContext, VenueContext, NoFacts, Context

(* The guardrails answer unless there is evidence, and say nothing of a    *)
(* scope the plan does not.                                                *)
LEMMA GuardFacts ==
    ASSUME NEW intent, NEW c
    PROVE  /\ Guard(intent, c) \in Blocked \cup {None}
           /\ Guard(intent, c) = None =>
                 /\ c.profile # None /\ c.profile # "inactive"
                 /\ "beverage_recommendation_candidates_exhausted" \notin c.missing
           /\ Guard(intent, c) # None /\ Guard(intent, c).intent = "OUT_OF_SCOPE" =>
                 intent = "OUT_OF_SCOPE"
<1>1. /\ Refusal("out of scope") \in Blocked
      /\ Insufficient("PROFILE_STATUS", "no active profile") \in Blocked
      /\ Insufficient("INSUFFICIENT_DATA", "service unavailable") \in Blocked
      /\ Insufficient("INSUFFICIENT_DATA", "inputs missing") \in Blocked
      /\ Insufficient("INSUFFICIENT_DATA", "candidates exhausted") \in Blocked
      /\ Insufficient("INSUFFICIENT_DATA", "no candidates") \in Blocked
      /\ Insufficient("INSUFFICIENT_DATA", "no evidence") \in Blocked
  BY DEF Blocked
<1>2. Guard(intent, c) \in Blocked \cup {None}
  BY <1>1 DEF Guard
<1>3. Guard(intent, c) = None =>
         /\ c.profile # None /\ c.profile # "inactive"
         /\ "beverage_recommendation_candidates_exhausted" \notin c.missing
  BY <1>1, NoneAssumption DEF Guard, HasEvidence
<1>4. Guard(intent, c) # None /\ Guard(intent, c).intent = "OUT_OF_SCOPE" =>
         intent = "OUT_OF_SCOPE"
  <2> DEFINE g == Guard(intent, c)
  <2>1. \/ intent = "OUT_OF_SCOPE" \/ g = None
        \/ g = Insufficient("PROFILE_STATUS", "no active profile")
        \/ \E r : g = Insufficient("INSUFFICIENT_DATA", r)
    BY DEF Guard
  <2>2. Insufficient("PROFILE_STATUS", "no active profile").intent = "PROFILE_STATUS"
    BY DEF Insufficient, Answer
  <2>3. ASSUME NEW r
        PROVE  Insufficient("INSUFFICIENT_DATA", r).intent = "INSUFFICIENT_DATA"
    BY DEF Insufficient, Answer
  <2> HIDE DEF g
  <2> QED
    BY <2>1, <2>2, <2>3 DEF g
<1> QED
  BY <1>2, <1>3, <1>4

-----------------------------------------------------------------------------
(* What an ask read stays what it read while the conversation grows.       *)
LEMMA KnownKept ==
    ASSUME ShapeInv, NEW a \in Asks, asOf'[a] = asOf[a], asOf[a] # None,
           \/ history' = history
           \/ \E rows \in Seq(HistoryRows) : history' = history \o rows
    PROVE  Known(a)' = Known(a)
<1>1. history \in Seq(HistoryRows) /\ asOf[a] \in 0..Len(history)
  BY DEF ShapeInv
<1>2. CASE history' = history
  BY <1>2 DEF Known
<1>3. ASSUME NEW rows \in Seq(HistoryRows), history' = history \o rows
      PROVE  Known(a)' = Known(a)
  <2> DEFINE n == asOf[a]
  <2>1. n \in 0..Len(history) /\ history \o rows \in Seq(HistoryRows)
    BY <1>1
  <2>2. /\ SubSeq(history, 1, n) \in Seq(HistoryRows)
        /\ Len(SubSeq(history, 1, n)) = n
        /\ \A i \in 1..n : SubSeq(history, 1, n)[i] = history[i]
    BY <1>1, <2>1
  <2>3. /\ SubSeq(history \o rows, 1, n) \in Seq(HistoryRows)
        /\ Len(SubSeq(history \o rows, 1, n)) = n
        /\ \A i \in 1..n : SubSeq(history \o rows, 1, n)[i] = history[i]
    BY <1>1, <2>1
  <2>4. SubSeq(history \o rows, 1, n) = SubSeq(history, 1, n)
    BY <2>2, <2>3, SeqEqual
  <2> QED
    BY <2>4, <1>3 DEF Known
<1> QED
  BY <1>2, <1>3

(* An ask that does nothing keeps its invariant.                           *)
LEMMA Untouched ==
    ASSUME IInv, NEW b \in Asks,
           \/ history' = history
           \/ \E rows \in Seq(HistoryRows) : history' = history \o rows,
           pc'[b] = pc[b], request'[b] = request[b], plan'[b] = plan[b],
           context'[b] = context[b], answer'[b] = answer[b], asOf'[b] = asOf[b]
    PROVE  PlanInv(b)' /\ AnswerInv(b)'
<1>1. PlanInv(b) /\ AnswerInv(b) /\ ShapeInv
  BY DEF IInv
<1>2. asOf[b] # None => Known(b)' = Known(b)
  BY <1>1, KnownKept
<1>3. Informed(b)' => Informed(b) /\ Known(b)' = Known(b)
  BY <1>2 DEF Informed
<1>4. PlanInv(b)'
  BY <1>1, <1>3 DEF PlanInv
<1>5. AnswerInv(b)'
  BY <1>1 DEF AnswerInv, Evidence, Worded
<1> QED
  BY <1>4, <1>5

(* After enforce(), the answer of the guardrails waits to be persisted, or *)
(* the LLM is called with evidence.                                        *)
LEMMA Enforced ==
    ASSUME ShapeInv, NEW a \in Asks, NEW intent, NEW c,
           answer[a] = None, plan'[a].intent = intent,
           \/ c.profile = None
           \/ c.profile = "inactive"
           \/ "beverage_recommendation_candidates_exhausted" \in c.missing
           \/ Evident(plan'[a], c),
           Enforce(a, intent, c)
    PROVE  /\ AnswerInv(a)'
           /\ pc'[a] \in {"llm", "persist"}
           /\ pc'[a] = "llm" => c.profile = "active"
           /\ pc' = [pc EXCEPT ![a] = pc'[a]]
           /\ Only(answer', answer, a)
           /\ context' = [context EXCEPT ![a] = c]
<1>1. DOMAIN context = Asks /\ DOMAIN answer = Asks /\ pc \in [Asks -> Places]
  BY DEF ShapeInv
<1>2. context' = [context EXCEPT ![a] = c] /\ context'[a] = c
  BY <1>1 DEF Enforce
<1>3. CASE Guard(intent, c) # None /\ Conclude(a, Guard(intent, c))
  <2>1. answer'[a] = Guard(intent, c) /\ pc'[a] = "persist"
    BY <1>1, <1>3 DEF Conclude, Goto
  <2>2. /\ Guard(intent, c) \in Blocked
        /\ Guard(intent, c).intent = "OUT_OF_SCOPE" => intent = "OUT_OF_SCOPE"
    BY <1>3, GuardFacts
  <2>3. AnswerInv(a)'
    BY <2>1, <2>2 DEF AnswerInv
  <2>4. /\ pc' = [pc EXCEPT ![a] = pc'[a]]
        /\ Only(answer', answer, a)
    BY <1>1, <1>3, <2>1 DEF Conclude, Goto, Only
  <2> QED
    BY <1>2, <2>1, <2>3, <2>4
<1>4. CASE Guard(intent, c) = None /\ Goto(a, "llm") /\ UNCHANGED answer
  <2>1. pc'[a] = "llm" /\ answer' = answer
    BY <1>1, <1>4 DEF Goto
  <2>2. /\ c.profile # None /\ c.profile # "inactive"
        /\ "beverage_recommendation_candidates_exhausted" \notin c.missing
    BY <1>4, GuardFacts
  <2>3. Evident(plan'[a], c) /\ c.profile = "active"
    BY <2>2 DEF Evident
  <2>4. Evidence(a)'
    BY <1>2, <2>3 DEF Evidence
  <2>5. AnswerInv(a)'
    BY <2>1, <2>4 DEF AnswerInv
  <2>6. /\ pc' = [pc EXCEPT ![a] = pc'[a]]
        /\ Only(answer', answer, a)
    BY <1>1, <1>4, <2>1 DEF Goto, Only
  <2> QED
    BY <1>2, <2>1, <2>3, <2>5, <2>6
<1> QED
  BY <1>3, <1>4 DEF Enforce

-----------------------------------------------------------------------------
(* A step of one ask has to be looked at for that ask alone.               *)
LEMMA Frame ==
    ASSUME IInv, NEW a \in Asks,
           \/ history' = history
           \/ \E rows \in Seq(HistoryRows) : history' = history \o rows,
           Only(pc', pc, a), pc' \in [Asks -> Places],
           Only(request', request, a), request'[a] \in Requests \cup {None},
           Only(plan', plan, a), Only(context', context, a), Only(answer', answer, a),
           Only(asOf', asOf, a), asOf'[a] \in 0..Len(history') \cup {None},
           PlanInv(a)', AnswerInv(a)'
    PROVE  IInv'
<1>1. ShapeInv
  BY DEF IInv
<1>2. history' \in Seq(HistoryRows) /\ Len(history) \in Nat
      /\ Len(history') \in Nat /\ Len(history) <= Len(history')
  <2>1. history \in Seq(HistoryRows) /\ Len(history) \in Nat
    BY <1>1, LenProperties DEF ShapeInv
  <2>2. ASSUME NEW rows \in Seq(HistoryRows), history' = history \o rows
        PROVE  /\ history' \in Seq(HistoryRows)
               /\ Len(history') \in Nat /\ Len(history) <= Len(history')
    BY <2>1, <2>2, ConcatProperties, LenProperties
  <2>3. CASE history' = history
    BY <2>1, <2>3
  <2> QED
    BY <2>1, <2>2, <2>3, Zenon
<1>3. \A b \in Asks : request'[b] \in Requests \cup {None}
  BY <1>1 DEF ShapeInv, Only
<1>4. \A b \in Asks : asOf'[b] \in 0..Len(history') \cup {None}
  <2>1. ASSUME NEW b \in Asks \ {a}
        PROVE  asOf'[b] \in 0..Len(history') \cup {None}
    <3>1. asOf'[b] = asOf[b] /\ asOf[b] \in 0..Len(history) \cup {None}
      BY <1>1 DEF ShapeInv, Only
    <3> QED
      BY <1>2, <3>1
  <2> QED
    BY <2>1
<1>5. ShapeInv'
  BY <1>2, <1>3, <1>4 DEF ShapeInv, Only
<1>6. ASSUME NEW b \in Asks \ {a}
      PROVE  PlanInv(b)' /\ AnswerInv(b)'
  BY Untouched DEF Only
<1> QED
  BY <1>5, <1>6 DEF IInv

(* The initial states.                                                     *)
LEMMA InitInv == Init => IInv
<1> SUFFICES ASSUME Init PROVE IInv
  OBVIOUS
<1>1. ShapeInv
  BY DEF Init, ShapeInv, Places, Suspended
<1>2. \A a \in Asks : PlanInv(a) /\ AnswerInv(a)
  BY DEF Init, PlanInv, AnswerInv, NoPlan
<1> QED
  BY <1>1, <1>2 DEF IInv

(* Receive: nothing is planned yet.                                        *)
LEMMA ReceiveInv ==
    ASSUME IInv, NEW a \in Asks, Receive(a)
    PROVE  IInv'
<1>1. ShapeInv /\ PlanInv(a) /\ AnswerInv(a)
  BY DEF IInv
<1>2. pc' = [pc EXCEPT ![a] = "history"] /\ pc \in [Asks -> Places]
  BY <1>1 DEF Receive, Goto, ShapeInv
<1>3. PICK r \in Requests : request' = [request EXCEPT ![a] = r]
  BY DEF Receive
<1>4. Only(pc', pc, a) /\ pc' \in [Asks -> Places] /\ pc'[a] = "history"
  BY <1>2 DEF Only, Places, Suspended
<1>5. Only(request', request, a) /\ request'[a] \in Requests \cup {None}
  BY <1>1, <1>3 DEF Only, ShapeInv
<1>6. UNCHANGED <<history, plan, context, answer, asOf>> /\ pc[a] = "new"
  BY DEF Receive
<1>7. /\ Only(plan', plan, a) /\ Only(context', context, a)
      /\ Only(answer', answer, a) /\ Only(asOf', asOf, a)
  BY <1>1, <1>6 DEF Only, ShapeInv
<1>8. asOf'[a] \in 0..Len(history') \cup {None}
  BY <1>1, <1>6 DEF ShapeInv
<1>9. PlanInv(a)'
  BY <1>1, <1>4, <1>6 DEF PlanInv
<1>10. AnswerInv(a)'
  BY <1>1, <1>4, <1>6 DEF AnswerInv
<1> QED
  BY <1>4, <1>5, <1>6, <1>7, <1>8, <1>9, <1>10, Frame

(* An ask that ended, whether it stored its turn or not.                   *)
LEMMA EndInv ==
    ASSUME IInv, NEW a \in Asks, Goto(a, "done"), Forget(a),
           \/ history' = history
           \/ \E rows \in Seq(HistoryRows) : history' = history \o rows
    PROVE  IInv'
<1>1. ShapeInv
  BY DEF IInv
<1>2. Only(pc', pc, a) /\ pc' \in [Asks -> Places] /\ pc'[a] = "done"
  BY <1>1 DEF Goto, ShapeInv, Only, Places
<1>3. Only(request', request, a) /\ request'[a] = None
  BY <1>1 DEF Forget, ShapeInv, Only
<1>4. Only(plan', plan, a) /\ plan'[a] = NoPlan
  BY <1>1 DEF Forget, ShapeInv, Only
<1>5. Only(context', context, a)
  BY <1>1 DEF Forget, ShapeInv, Only
<1>6. Only(answer', answer, a) /\ answer'[a] = None
  BY <1>1 DEF Forget, ShapeInv, Only
<1>7. Only(asOf', asOf, a) /\ asOf'[a] = None
  BY <1>1 DEF Forget, ShapeInv, Only
<1>8. PlanInv(a)'
  BY <1>2, <1>4 DEF PlanInv, NoPlan
<1>9. AnswerInv(a)'
  BY <1>2, <1>6 DEF AnswerInv
<1> QED
  BY <1>2, <1>3, <1>4, <1>5, <1>6, <1>7, <1>8, <1>9, Frame

(* The page covers the whole conversation while that is short.             *)
LEMMA WindowIsAll ==
    ASSUME ShapeInv, Len(history) <= PageSize
    PROVE  Window = SubSeq(history, 1, Len(history))
<1>1. Len(history) \in Nat /\ PageSize \in Nat
  BY PageSizeAssumption DEF ShapeInv
<1>2. Min({PageSize, Len(history)}) = Len(history)
  BY <1>1 DEF Min
<1> QED
  BY <1>2 DEF Window

(* HistoryReply: the plan is the one for what was read.                    *)
LEMMA HistoryReplyInv ==
    ASSUME IInv, NEW a \in Asks, HistoryReply(a)
    PROVE  IInv'
<1>1. ShapeInv /\ PlanInv(a) /\ AnswerInv(a)
  BY DEF IInv
<1>2. pc[a] = "history" /\ UNCHANGED <<history, request>>
  BY DEF HistoryReply
<1>3. answer[a] = None
  BY <1>1, <1>2 DEF AnswerInv
<1>4. PICK w \in {Window, <<>>} :
         LET p == Plan(request[a], Hints(w))
         IN  /\ asOf' = [asOf EXCEPT ![a] = IF w = Window THEN Len(history) ELSE None]
             /\ plan' = [plan EXCEPT ![a] = p]
             /\ \/ /\ p.intent \in {"OUT_OF_SCOPE", "INSUFFICIENT_DATA"}
                   /\ Enforce(a, p.intent, NoFacts(p.intent, {}))
                \/ /\ p.intent \notin {"OUT_OF_SCOPE", "INSUFFICIENT_DATA"}
                   /\ Goto(a, "profile")
                   /\ UNCHANGED <<context, answer>>
  BY DEF HistoryReply
<1> DEFINE p == Plan(request[a], Hints(w))
<1>5. p.intent \in Routed
  BY ClassifyType DEF Plan
<1>6. Only(plan', plan, a) /\ plan'[a] = p
  BY <1>1, <1>4 DEF Only, ShapeInv
<1>7. /\ Only(asOf', asOf, a)
      /\ asOf'[a] = IF w = Window THEN Len(history) ELSE None
  BY <1>1, <1>4 DEF Only, ShapeInv
<1>8. asOf'[a] \in 0..Len(history') \cup {None}
  BY <1>1, <1>2, <1>7 DEF ShapeInv
<1>9. Only(request', request, a) /\ request'[a] \in Requests \cup {None}
  BY <1>1, <1>2 DEF Only, ShapeInv
<1>10. Informed(a)' => plan'[a] = Plan(request'[a], Hints(Known(a)'))
  <2> SUFFICES ASSUME Informed(a)'
               PROVE  plan'[a] = Plan(request'[a], Hints(Known(a)'))
    OBVIOUS
  <2>1. w = Window /\ asOf'[a] = Len(history) /\ Len(history) <= PageSize
    BY <1>7 DEF Informed
  <2>2. Known(a)' = w
    BY <1>1, <1>2, <2>1, WindowIsAll DEF Known
  <2> QED
    BY <1>2, <1>6, <2>2
<1>11. CASE /\ p.intent \in {"OUT_OF_SCOPE", "INSUFFICIENT_DATA"}
            /\ Enforce(a, p.intent, NoFacts(p.intent, {}))
  <2> DEFINE c == NoFacts(p.intent, {})
  <2>1. c.profile = None
    BY DEF NoFacts, Context
  <2>2. plan'[a].intent = p.intent
    BY <1>6
  <2>3. /\ AnswerInv(a)'
        /\ pc'[a] \in {"llm", "persist"}
        /\ pc'[a] = "llm" => c.profile = "active"
        /\ pc' = [pc EXCEPT ![a] = pc'[a]]
        /\ Only(answer', answer, a)
        /\ context' = [context EXCEPT ![a] = c]
    <3> HIDE DEF c, p
    <3> QED
      BY <1>1, <1>3, <1>11, <2>1, <2>2, Enforced DEF c
  <2>4. pc'[a] = "persist"
    <3>1. None # "active"
      BY NoneAssumption DEF Statuses
    <3> QED
      BY <2>1, <2>3, <3>1
  <2>5. PlanInv(a)'
    BY <1>5, <1>6, <1>10, <2>4 DEF PlanInv
  <2>6. /\ Only(pc', pc, a) /\ pc' \in [Asks -> Places]
        /\ Only(answer', answer, a) /\ Only(context', context, a)
    BY <1>1, <2>3 DEF Only, ShapeInv, Places, Suspended
  <2> QED
    BY <1>2, <1>6, <1>7, <1>8, <1>9, <2>3, <2>5, <2>6, Frame
<1>12. CASE /\ p.intent \notin {"OUT_OF_SCOPE", "INSUFFICIENT_DATA"}
            /\ Goto(a, "profile")
            /\ UNCHANGED <<context, answer>>
  <2>1. Only(pc', pc, a) /\ pc' \in [Asks -> Places] /\ pc'[a] = "profile"
    BY <1>1, <1>12 DEF Goto, ShapeInv, Only, Places, Suspended
  <2>2. Only(context', context, a) /\ Only(answer', answer, a)
    BY <1>1, <1>12 DEF ShapeInv, Only
  <2>3. p.intent \in VenueIntents \cup {"RECOMMEND_BEVERAGE"}
    BY <1>5, <1>12 DEF Routed, Intents, VenueIntents
  <2>4. PlanInv(a)'
    BY <1>5, <1>6, <1>10, <2>1, <2>3 DEF PlanInv
  <2>5. AnswerInv(a)'
    BY <1>3, <1>12, <2>1 DEF AnswerInv
  <2> QED
    BY <1>2, <1>6, <1>7, <1>8, <1>9, <2>1, <2>2, <2>4, <2>5, Frame
<1> QED
  BY <1>4, <1>11, <1>12

(* A planned ask goes on with what it has; its answer and context may      *)
(* change.                                                                 *)
LEMMA Planned ==
    ASSUME IInv, NEW a \in Asks,
           pc[a] \in {"profile", "recommendations", "llm"},
           UNCHANGED <<history, request, plan, asOf>>,
           NEW place \in {"profile", "recommendations", "llm", "persist"},
           pc' = [pc EXCEPT ![a] = place],
           Only(context', context, a), Only(answer', answer, a), AnswerInv(a)'
    PROVE  IInv'
<1>1. ShapeInv /\ PlanInv(a)
  BY DEF IInv
<1>2. Only(pc', pc, a) /\ pc' \in [Asks -> Places] /\ pc'[a] = place
  BY <1>1 DEF Only, ShapeInv, Places, Suspended
<1>3. /\ Only(request', request, a) /\ request'[a] \in Requests \cup {None}
      /\ Only(plan', plan, a) /\ Only(asOf', asOf, a)
      /\ asOf'[a] \in 0..Len(history') \cup {None}
  BY <1>1 DEF Only, ShapeInv
<1>4. Informed(a)' = Informed(a) /\ Known(a)' = Known(a)
  BY DEF Informed, Known
<1>5. PlanInv(a)'
  BY <1>1, <1>2, <1>4 DEF PlanInv
<1> QED
  BY <1>2, <1>3, <1>5, Frame

(* The same if the guardrails were asked.                                  *)
LEMMA PlannedEnforced ==
    ASSUME IInv, NEW a \in Asks, pc[a] \in {"profile", "recommendations"},
           UNCHANGED <<history, request, plan, asOf>>, NEW c,
           \/ c.profile = None
           \/ c.profile = "inactive"
           \/ "beverage_recommendation_candidates_exhausted" \in c.missing
           \/ Evident(plan[a], c),
           Enforce(a, plan[a].intent, c)
    PROVE  IInv'
<1>1. ShapeInv /\ answer[a] = None
  BY DEF IInv, AnswerInv
<1>2. /\ AnswerInv(a)'
      /\ pc'[a] \in {"llm", "persist"}
      /\ pc' = [pc EXCEPT ![a] = pc'[a]]
      /\ Only(answer', answer, a)
      /\ context' = [context EXCEPT ![a] = c]
  BY <1>1, Enforced
<1>3. Only(context', context, a) /\ Only(answer', answer, a)
  BY <1>1, <1>2 DEF Only, ShapeInv
<1> QED
  BY <1>2, <1>3, Planned

(* ProfileReply.                                                           *)
LEMMA ProfileReplyInv ==
    ASSUME IInv, NEW a \in Asks, ProfileReply(a)
    PROVE  IInv'
<1> DEFINE intent == plan[a].intent
           missing == IF intent \in VenueIntents THEN MissingInputs(request[a], plan[a])
                      ELSE {}
<1>1. pc[a] = "profile" /\ UNCHANGED <<history, request, plan, asOf>>
  BY DEF ProfileReply
<1>2. CASE Unavailable(a)
  BY <1>1, <1>2, PlannedEnforced, Contexts DEF Unavailable
<1>3. CASE Enforce(a, intent, InactiveProfile)
  <2>1. InactiveProfile.profile = "inactive"
    BY DEF InactiveProfile, Context
  <2> QED
    BY <1>1, <1>3, <2>1, PlannedEnforced
<1>4. CASE missing # {} /\ Enforce(a, intent, NoFacts(intent, missing))
  <2> HIDE DEF missing
  <2> QED
    BY <1>1, <1>4, PlannedEnforced, Contexts
<1>5. CASE missing = {} /\ Goto(a, "recommendations") /\ UNCHANGED <<context, answer>>
  <2>1. ShapeInv /\ AnswerInv(a)
    BY DEF IInv
  <2>2. Only(context', context, a) /\ Only(answer', answer, a)
    BY <1>5, <2>1 DEF Only, ShapeInv
  <2>3. pc' = [pc EXCEPT ![a] = "recommendations"] /\ pc'[a] = "recommendations"
    BY <1>5, <2>1 DEF Goto, ShapeInv
  <2>4. AnswerInv(a)'
    BY <1>1, <1>5, <2>1, <2>3 DEF AnswerInv
  <2> QED
    BY <1>1, <2>2, <2>3, <2>4, Planned
<1> QED
  BY <1>2, <1>3, <1>4, <1>5 DEF ProfileReply

(* RecommendationsReply: the items are those of the service.               *)
LEMMA RecommendationsReplyInv ==
    ASSUME IInv, NEW a \in Asks, RecommendationsReply(a)
    PROVE  IInv'
<1> DEFINE q == plan[a]
<1>1. pc[a] = "recommendations" /\ UNCHANGED <<history, request, plan, asOf>>
  BY DEF RecommendationsReply
<1>2. CASE Unavailable(a)
  BY <1>1, <1>2, PlannedEnforced, Contexts DEF Unavailable
<1>3. ASSUME q.intent = "RECOMMEND_BEVERAGE", NEW items \in BeverageReplies,
             Enforce(a, q.intent, BeverageContext(items, q.diverse, q.excluded))
      PROVE  IInv'
  <2> DEFINE c == BeverageContext(items, q.diverse, q.excluded)
  <2>1. \/ c.profile = None
        \/ "beverage_recommendation_candidates_exhausted" \in c.missing
        \/ Evident(q, c)
    BY <1>3, Contexts DEF Shown, Evident
  <2> HIDE DEF c
  <2> QED
    BY <1>1, <1>3, <2>1, PlannedEnforced DEF c
<1>4. ASSUME q.intent \in VenueIntents, NEW items \in VenueReplies,
             Enforce(a, q.intent, VenueContext(q.intent, items))
      PROVE  IInv'
  <2> DEFINE c == VenueContext(q.intent, items)
  <2>1. c.profile = None \/ Evident(q, c)
    BY <1>1, <1>4, Contexts DEF Shown, Evident, VenueIntents
  <2> HIDE DEF c
  <2> QED
    BY <1>1, <1>4, <2>1, PlannedEnforced DEF c
<1> QED
  BY <1>2, <1>3, <1>4 DEF RecommendationsReply

(* LlmReply: the text passed the verifier, or is the fallback.             *)
LEMMA LlmReplyInv ==
    ASSUME IInv, NEW a \in Asks, LlmReply(a)
    PROVE  IInv'
<1>1. ShapeInv /\ AnswerInv(a)
  BY DEF IInv
<1>2. /\ pc[a] = "llm" /\ Evidence(a)
      /\ UNCHANGED <<history, request, plan, context, asOf>>
  BY <1>1 DEF LlmReply, AnswerInv
<1>3. PICK t \in Texts \cup {FallbackText(context[a])} :
         /\ t = FallbackText(context[a]) \/ Verified(t, context[a])
         /\ Conclude(a, Answered(plan[a].intent, t, context[a]))
  BY DEF LlmReply, FromLlm, Fallback
<1>4. /\ answer' = [answer EXCEPT ![a] = Answered(plan[a].intent, t, context[a])]
      /\ pc' = [pc EXCEPT ![a] = "persist"]
  BY <1>3 DEF Conclude, Goto
<1>5. pc'[a] = "persist" /\ answer'[a] = Answered(plan[a].intent, t, context[a])
  BY <1>1, <1>4 DEF ShapeInv
<1>6. Only(context', context, a) /\ Only(answer', answer, a)
  BY <1>1, <1>2, <1>4 DEF Only, ShapeInv
<1>7. Evidence(a)' /\ Worded(a)'
  BY <1>2, <1>3, <1>5 DEF Evidence, Worded
<1>8. AnswerInv(a)'
  BY <1>5, <1>7 DEF AnswerInv
<1> QED
  BY <1>2, <1>4, <1>6, <1>8, Planned

(* What an answer waiting to be persisted is.                              *)
LEMMA BlockedFacts ==
    ASSUME NEW b \in Blocked
    PROVE  /\ b.cards = <<>> /\ b.status \in {"REFUSED", "INSUFFICIENT_DATA"}
           /\ b.intent \in {"OUT_OF_SCOPE", "PROFILE_STATUS", "INSUFFICIENT_DATA"}
<1>1. /\ Refusal("out of scope").cards = <<>>
      /\ Refusal("out of scope").status = "REFUSED"
      /\ Refusal("out of scope").intent = "OUT_OF_SCOPE"
  BY DEF Refusal, Answer
<1>2. ASSUME NEW i, NEW r
      PROVE  /\ Insufficient(i, r).cards = <<>>
             /\ Insufficient(i, r).status = "INSUFFICIENT_DATA"
             /\ Insufficient(i, r).intent = i
  BY DEF Insufficient, Answer
<1>3. \/ b = Refusal("out of scope")
      \/ b = Insufficient("PROFILE_STATUS", "no active profile")
      \/ \E r : b = Insufficient("INSUFFICIENT_DATA", r)
  BY Zenon DEF Blocked
<1>4. CASE b = Refusal("out of scope")
  BY <1>1, <1>4
<1>5. CASE b = Insufficient("PROFILE_STATUS", "no active profile")
  BY <1>2, <1>5
<1>6. CASE \E r : b = Insufficient("INSUFFICIENT_DATA", r)
  BY <1>2, <1>6
<1> QED
  BY <1>3, <1>4, <1>5, <1>6

(* What an answer the LLM worded is.                                       *)
LEMMA AnsweredFacts ==
    ASSUME NEW intent, NEW t, NEW c
    PROVE  LET ans == Answered(intent, t, c)
           IN  /\ ans.intent = intent /\ ans.status = "ANSWERED"
               /\ ans.cards = c.items /\ ans.text = t
               /\ ans.warned = (t.warns \/ RequiresWarning(c))
  BY DEF Answered, Answer

(* Persist: the row tells the intent and the cards of the answer.          *)
LEMMA PersistInv ==
    ASSUME IInv, NEW a \in Asks, Persist(a)
    PROVE  IInv'
<1>1. PlanInv(a) /\ AnswerInv(a) /\ pc[a] = "persist"
  BY DEF IInv, Persist
<1>2. answer[a].intent \in Intents /\ answer[a].cards \in Shown
  <2>1. CASE answer[a] \in Blocked
    BY <2>1, BlockedFacts DEF Intents, Shown
  <2>2. CASE Evidence(a) /\ Worded(a)
    <3>1. PICK t : answer[a] = Answered(plan[a].intent, t, context[a])
      BY <2>2 DEF Worded
    <3> QED
      BY <1>1, <2>2, <3>1, AnsweredFacts DEF Evidence, Evident, PlanInv, Routed
  <2> QED
    BY <1>1, <2>1, <2>2 DEF AnswerInv
<1> DEFINE ans == [intent |-> answer[a].intent, cards |-> answer[a].cards]
<1>3. AssistantRow(answer[a]) = AssistantRow(ans)
  BY DEF AssistantRow
<1>4. AssistantRow(answer[a]) \in HistoryRows
  BY <1>2, <1>3 DEF HistoryRows
<1>5. UserRow \in HistoryRows
  BY DEF HistoryRows
<1>6. <<UserRow, AssistantRow(answer[a])>> \in Seq(HistoryRows)
  BY <1>4, <1>5
<1>7. \E rows \in Seq(HistoryRows) : history' = history \o rows
  BY <1>6 DEF Persist
<1> QED
  BY <1>7, EndInv DEF Persist

(* Every step keeps the invariant.                                         *)
LEMMA NextInv ==
    ASSUME IInv, [Next]_vars
    PROVE  IInv'
<1>1. CASE UNCHANGED vars
  BY <1>1 DEF vars, IInv, ShapeInv, PlanInv, AnswerInv, Informed, Known, Evidence, Worded
<1>2. ASSUME NEW a \in Asks, Receive(a)
      PROVE  IInv'
  BY <1>2, ReceiveInv
<1>3. ASSUME NEW a \in Asks, HistoryReply(a)
      PROVE  IInv'
  BY <1>3, HistoryReplyInv
<1>4. ASSUME NEW a \in Asks, ProfileReply(a)
      PROVE  IInv'
  BY <1>4, ProfileReplyInv
<1>5. ASSUME NEW a \in Asks, RecommendationsReply(a)
      PROVE  IInv'
  BY <1>5, RecommendationsReplyInv
<1>6. ASSUME NEW a \in Asks, LlmReply(a)
      PROVE  IInv'
  BY <1>6, LlmReplyInv
<1>7. ASSUME NEW a \in Asks, Persist(a)
      PROVE  IInv'
  BY <1>7, PersistInv
<1>8. ASSUME NEW a \in Asks, End(a)
      PROVE  IInv'
  BY <1>8, EndInv DEF End
<1> QED
  BY <1>1, <1>2, <1>3, <1>4, <1>5, <1>6, <1>7, <1>8 DEF Next

(* The inductive invariant holds in every reachable state.                 *)
LEMMA Inductive == Spec => []IInv
  BY InitInv, NextInv, PTL DEF Spec

-----------------------------------------------------------------------------
(* A nonempty set of numbers with a bound has a greatest element.          *)
LEMMA Greatest ==
    ASSUME NEW n \in Nat, NEW T, T \subseteq 0..n, T # {}
    PROVE  Max(T) \in T /\ \A y \in T : Max(T) >= y
<1> DEFINE U == {n - x : x \in T}
           R == OpToRel(<, Nat)
<1>1. U \subseteq Nat /\ U # {}
  <2>1. \A x \in T : n - x \in Nat
    OBVIOUS
  <2> QED
    BY <2>1
<1>2. PICK u \in U : \A v \in U : ~(<<v, u>> \in R)
  <2> HIDE DEF U, R
  <2>1. IsWellFoundedOn(R, Nat)
    BY NatLessThanWellFounded DEF R
  <2> QED
    BY <1>1, <2>1, WFMin
<1>3. \A v \in U : u <= v
  <2>1. \A v \in U : ~(v < u)
    BY <1>1, <1>2, Zenon DEF OpToRel
  <2> HIDE DEF U
  <2> QED
    BY <1>1, <2>1
<1>4. PICK x \in T : u = n - x
  BY <1>2
<1>5. \A y \in T : x >= y
  <2> SUFFICES ASSUME NEW y \in T PROVE x >= y
    OBVIOUS
  <2>1. n - y \in U
    OBVIOUS
  <2>2. n - x <= n - y /\ x \in Int /\ y \in Int
    BY <1>3, <1>4, <2>1
  <2> QED
    BY <2>2
<1> QED
  BY <1>4, <1>5 DEF Max

(* _build_conversation_context_hints reads back at least to the latest row *)
(* with drinks, and to the latest row with results.                        *)
LEMMA HintsReachLatest ==
    ASSUME NEW w \in Seq(HistoryRows)
    PROVE  /\ WithDrinks(w) # {} =>
                 LET m == Max(WithDrinks(w))
                 IN  m \in WithDrinks(w) /\ Range(w[m].drinks) \subseteq DrinksFrom(w, Stop(w))
           /\ WithResults(w) # {} =>
                 LET m == Max(WithResults(w))
                 IN  m \in WithResults(w) /\ w[m].results \subseteq ResultsFrom(w, Stop(w))
<1> DEFINE n == Len(w)
           S == {i \in DOMAIN w : DrinksFrom(w, i) # {} /\ ResultsFrom(w, i) # {}}
           s == Stop(w)
<1>1. n \in Nat /\ DOMAIN w = 1..n
  BY LenProperties
<1>2. s \in {1} \cup S
  <2> HIDE DEF S, n
  <2>1. {1} \cup S \subseteq 0..(n + 1) /\ n + 1 \in Nat
    BY <1>1 DEF S
  <2>2. Max({1} \cup S) \in {1} \cup S
    BY <2>1, Greatest
  <2> QED
    BY <2>2 DEF S, Stop
<1>3. \A j \in 1..n : Range(w[j].drinks) # {} => j \in WithDrinks(w)
  BY <1>1 DEF WithDrinks, Range
<1>4. ASSUME WithDrinks(w) # {}
      PROVE  /\ Max(WithDrinks(w)) \in WithDrinks(w)
             /\ Range(w[Max(WithDrinks(w))].drinks) \subseteq DrinksFrom(w, s)
  <2> DEFINE m == Max(WithDrinks(w))
  <2>1. WithDrinks(w) \subseteq 1..n /\ WithDrinks(w) \subseteq 0..n
    BY <1>1 DEF WithDrinks
  <2>2. m \in WithDrinks(w) /\ \A j \in WithDrinks(w) : m >= j
    BY <1>1, <1>4, <2>1, Greatest
  <2>3. m \in s..n
    <3>1. CASE s = 1
      BY <2>1, <2>2, <3>1
    <3>2. CASE s \in S
      <4>1. s \in 1..n /\ DrinksFrom(w, s) # {}
        BY <1>1, <3>2
      <4>2. PICK j \in s..n : Range(w[j].drinks) # {}
        BY <4>1 DEF DrinksFrom
      <4>3. j \in 1..n /\ j >= s
        BY <1>1, <4>1, <4>2
      <4> QED
        BY <1>3, <2>1, <2>2, <4>1, <4>2, <4>3
    <3> QED
      BY <1>2, <3>1, <3>2
  <2> HIDE DEF m, s, n
  <2>4. Range(w[m].drinks) \subseteq DrinksFrom(w, s)
    BY <2>3 DEF DrinksFrom, n
  <2> QED
    BY <2>2, <2>4 DEF m
<1>5. ASSUME WithResults(w) # {}
      PROVE  /\ Max(WithResults(w)) \in WithResults(w)
             /\ w[Max(WithResults(w))].results \subseteq ResultsFrom(w, s)
  <2> DEFINE m == Max(WithResults(w))
  <2>1. WithResults(w) \subseteq 1..n /\ WithResults(w) \subseteq 0..n
    BY <1>1 DEF WithResults
  <2>2. m \in WithResults(w) /\ \A j \in WithResults(w) : m >= j
    BY <1>1, <1>5, <2>1, Greatest
  <2>3. m \in s..n
    <3>1. CASE s = 1
      BY <2>1, <2>2, <3>1
    <3>2. CASE s \in S
      <4>1. s \in 1..n /\ ResultsFrom(w, s) # {}
        BY <1>1, <3>2
      <4>2. PICK j \in s..n : w[j].results # {}
        BY <4>1 DEF ResultsFrom
      <4>3. j \in WithResults(w) /\ j >= s
        BY <1>1, <4>1, <4>2 DEF WithResults
      <4> QED
        BY <1>1, <2>1, <2>2, <4>1, <4>3
    <3> QED
      BY <1>2, <3>1, <3>2
  <2> HIDE DEF m, s, n
  <2>4. w[m].results \subseteq ResultsFrom(w, s)
    BY <2>3 DEF ResultsFrom, n
  <2> QED
    BY <2>2, <2>4 DEF m
<1> QED
  BY <1>4, <1>5

-----------------------------------------------------------------------------
(* What the invariant says of an answer the LLM worded.                    *)
LEMMA AnsweringFacts ==
    ASSUME IInv, NEW a \in Asks, Answering(a)
    PROVE  /\ Evidence(a)
           /\ \E t \in Texts \cup {FallbackText(context[a])} :
                 /\ t = FallbackText(context[a]) \/ Verified(t, context[a])
                 /\ answer[a] = Answered(plan[a].intent, t, context[a])
<1>1. AnswerInv(a) /\ pc[a] = "persist" /\ answer[a].status = "ANSWERED"
  BY DEF IInv, Answering
<1>2. answer[a] \notin Blocked
  BY <1>1, BlockedFacts
<1> QED
  BY <1>1, <1>2 DEF AnswerInv, Worded

(* Every ask waits where its plan and its answer say.                      *)
THEOREM TypeCorrect == Spec => []TypeOK
<1>1. IInv => TypeOK
  <2> SUFFICES ASSUME IInv PROVE TypeOK
    OBVIOUS
  <2>1. ShapeInv
    BY DEF IInv
  <2>2. \A i \in DOMAIN history : history[i].role \in {"USER", "ASSISTANT"}
    <3>1. \A row \in HistoryRows : row.role \in {"USER", "ASSISTANT"}
      BY DEF HistoryRows, UserRow, AssistantRow
    <3> QED
      BY <2>1, <3>1, ElementOfSeq DEF ShapeInv
  <2>3. pc \in [Asks -> {"new", "history", "profile", "recommendations", "llm",
                         "persist", "done"}]
    BY <2>1 DEF ShapeInv, Places, Suspended
  <2>4. ASSUME NEW a \in Asks
        PROVE  /\ request[a] \in Requests \cup {None}
               /\ plan[a].intent \in Intents \cup {None}
               /\ asOf[a] \in 0..Len(history) \cup {None}
               /\ pc[a] \in {"profile", "recommendations", "llm"} =>
                     plan[a].intent \in VenueIntents \cup {"RECOMMEND_BEVERAGE"}
    BY <2>1 DEF ShapeInv, IInv, PlanInv, Routed
  <2>5. ASSUME NEW a \in Asks, pc[a] = "llm"
        PROVE  HasEvidence(context[a])
    <3>1. None # "active"
      BY NoneAssumption DEF Statuses
    <3> QED
      BY <2>5, <3>1 DEF IInv, AnswerInv, Evidence, Evident, HasEvidence
  <2>6. ASSUME NEW a \in Asks
        PROVE  IF pc[a] = "persist"
               THEN answer[a].status \in {"ANSWERED", "REFUSED", "INSUFFICIENT_DATA"}
               ELSE answer[a] = None
    <3>1. AnswerInv(a)
      BY DEF IInv
    <3>2. Worded(a) => answer[a].status = "ANSWERED"
      BY AnsweredFacts DEF Worded
    <3> QED
      BY <3>1, <3>2, BlockedFacts DEF AnswerInv
  <2> QED
    BY <2>2, <2>3, <2>4, <2>5, <2>6 DEF TypeOK
<1> QED
  BY <1>1, Inductive, PTL

(* What passes the verifier, or is the fallback, is grounded.              *)
LEMMA TextGrounded ==
    ASSUME NEW c, NEW t, c.items # <<>>,
           t = FallbackText(c) \/ Verified(t, c)
    PROVE  /\ ~t.blank /\ GroundedNumbers(t, c)
           /\ t.claims /\ Candidates(c) # {} =>
                  t.points \/ t.names \cap Candidates(c) # {}
           /\ t.overstates => ~\E i \in Range(c.items) : i.policy
<1>1. CASE t = FallbackText(c)
  <2>1. /\ t.blank = FALSE /\ t.numbers = {} /\ t.points = TRUE
        /\ t.overstates = FALSE
    BY <1>1 DEF FallbackText
  <2> QED
    BY <2>1 DEF GroundedNumbers
<1>2. CASE Verified(t, c)
  <2>1. ~t.blank /\ GroundedNumbers(t, c) /\ PriceLanguage(t, c) /\ MentionsCandidate(t, c)
    BY <1>2 DEF Verified
  <2>2. t.overstates => ~\E i \in Range(c.items) : i.policy
    BY <2>1 DEF PriceLanguage
  <2>3. t.claims /\ Candidates(c) # {} =>
            t.points \/ t.names \cap Candidates(c) # {}
    BY <2>1 DEF MentionsCandidate
  <2> QED
    BY <2>1, <2>2, <2>3
<1> QED
  BY <1>1, <1>2

(* Whatever the LLM says and the service replies, answers are grounded.    *)
THEOREM AnswersGroundedHolds == Spec => []AnswersGrounded
<1>1. ASSUME IInv, NEW a \in Asks, Answering(a)
      PROVE  /\ context[a].profile = "active"
             /\ answer[a].cards # <<>> /\ answer[a].cards = context[a].items
             /\ LET t == answer[a].text
                IN  /\ ~t.blank
                    /\ GroundedNumbers(t, context[a])
                    /\ t.claims /\ Candidates(context[a]) # {} =>
                           t.points \/ t.names \cap Candidates(context[a]) # {}
                    /\ t.overstates => ~\E i \in Range(answer[a].cards) : i.policy
  <2>1. Evidence(a)
    BY <1>1, AnsweringFacts
  <2>2. PICK t : /\ t = FallbackText(context[a]) \/ Verified(t, context[a])
                 /\ answer[a] = Answered(plan[a].intent, t, context[a])
    BY <1>1, AnsweringFacts
  <2>3. answer[a].cards = context[a].items /\ answer[a].text = t
    BY <2>2, AnsweredFacts
  <2>4. context[a].profile = "active" /\ context[a].items # <<>>
    BY <2>1 DEF Evidence, Evident
  <2> QED
    BY <2>2, <2>3, <2>4, TextGrounded
<1>2. IInv => AnswersGrounded
  BY <1>1 DEF AnswersGrounded
<1> QED
  BY <1>2, Inductive, PTL

(* A beverage with a price or an opinion never goes without the warning.   *)
THEOREM WarningsKeptHolds == Spec => []WarningsKept
<1>1. ASSUME IInv, NEW a \in Asks, Answering(a),
             answer[a].intent = "RECOMMEND_BEVERAGE",
             \E i \in Range(answer[a].cards) : Warned(i)
      PROVE  answer[a].warned
  <2>1. Evidence(a)
    BY <1>1, AnsweringFacts
  <2>2. PICK t : answer[a] = Answered(plan[a].intent, t, context[a])
    BY <1>1, AnsweringFacts
  <2>3. /\ answer[a].cards = context[a].items /\ answer[a].intent = plan[a].intent
        /\ answer[a].warned = (t.warns \/ RequiresWarning(context[a]))
    BY <2>2, AnsweredFacts
  <2>4. RequiresWarning(context[a])
    BY <1>1, <2>1, <2>3 DEF Evidence, Evident, RequiresWarning
  <2> QED
    BY <2>3, <2>4
<1>2. IInv => WarningsKept
  BY <1>1 DEF WarningsKept
<1> QED
  BY <1>2, Inductive, PTL

(* Another place after a venue answer never turns into beverages.          *)
THEOREM VenueFollowUpStaysHolds == Spec => []VenueFollowUpStays
<1>1. ASSUME IInv, NEW a \in Asks, pc[a] = "persist", Informed(a),
             Answers(Known(a)) # {},
             Known(a)[Max(Answers(Known(a)))].intent \in VenueIntents,
             Has(request[a].message, VenueFollowUps),
             ~Has(request[a].message, DrinkWords)
      PROVE  answer[a].intent \in {"FIND_NEARBY_VENUE", "PROFILE_STATUS",
                                   "INSUFFICIENT_DATA"}
  <2>1. plan[a] = Plan(request[a], Hints(Known(a))) /\ AnswerInv(a)
    BY <1>1 DEF IInv, PlanInv
  <2>2. Hints(Known(a)).intent = Known(a)[Max(Answers(Known(a)))].intent
    BY <1>1 DEF Hints
  <2>3. plan[a].intent = Classify(request[a].message, Hints(Known(a)).intent)
    BY <2>1 DEF Plan
  <2>4. plan[a].intent \in {"FIND_NEARBY_VENUE", "INSUFFICIENT_DATA"}
    BY <1>1, <2>2, <2>3, ClassifyFollows
  <2>5. CASE answer[a] \in Blocked /\ (answer[a].intent = "OUT_OF_SCOPE" =>
                                        plan[a].intent = "OUT_OF_SCOPE")
    BY <2>4, <2>5, BlockedFacts
  <2>6. CASE Worded(a)
    BY <2>4, <2>6, AnsweredFacts DEF Worded
  <2> QED
    BY <1>1, <2>1, <2>5, <2>6 DEF AnswerInv
<1>2. IInv => VenueFollowUpStays
  BY <1>1 DEF VenueFollowUpStays
<1> QED
  BY <1>2, Inductive, PTL

(* A venue search that names no drink goes on with the one last shown.     *)
THEOREM SelectionIsLatestHolds == Spec => []SelectionIsLatest
<1>1. ASSUME IInv, NEW a \in Asks, Informed(a),
             pc[a] = "recommendations", plan[a].intent \in VenueIntents,
             request[a].selected = None, request[a].clientDrink = None,
             WithDrinks(Known(a)) # {}
      PROVE  plan[a].drink = Head(Known(a)[Max(WithDrinks(Known(a)))].drinks)
  <2> DEFINE h == Hints(Known(a))
             d == Head(Known(a)[Max(WithDrinks(Known(a)))].drinks)
  <2>1. plan[a] = Plan(request[a], h)
    BY <1>1 DEF IInv, PlanInv
  <2>2. h.selected = d
    BY <1>1 DEF Hints
  <2> HIDE DEF h, d
  <2>3. plan[a].intent = Classify(request[a].message, h.intent)
    BY <2>1 DEF Plan
  <2>4. plan[a].drink = FirstOf(FirstOf(None, d), None)
    BY <1>1, <2>1, <2>2, <2>3 DEF Plan
  <2>5. plan[a].drink = d
    BY <2>4 DEF FirstOf
  <2> QED
    BY <2>5 DEF d
<1>2. IInv => SelectionIsLatest
  BY <1>1 DEF SelectionIsLatest, GoesOn
<1> QED
  BY <1>2, Inductive, PTL

(* Something else after an answer asks for other drinks than the latest,   *)
(* and brings a result the latest did not show.                            *)
THEOREM FollowUpsAreFreshHolds == Spec => []FollowUpsAreFresh
<1>1. ASSUME IInv, NEW a \in Asks, Answering(a),
             answer[a].intent = "RECOMMEND_BEVERAGE",
             Informed(a), Diverse(request[a].message)
      PROVE  /\ WithDrinks(Known(a)) # {} /\ request[a].avoided \in {None, {}} =>
                   Range(Known(a)[Max(WithDrinks(Known(a)))].drinks)
                      \subseteq plan[a].avoided
             /\ WithResults(Known(a)) # {} /\ request[a].excluded \in {None, {}} =>
                   \/ Results(answer[a].cards) = {}
                   \/ ~(Results(answer[a].cards)
                          \subseteq Known(a)[Max(WithResults(Known(a)))].results)
  <2> DEFINE w == Known(a)
             h == Hints(w)
  <2>1. w \in Seq(HistoryRows)
    <3>1. history \in Seq(HistoryRows) /\ asOf[a] \in 0..Len(history)
      BY <1>1 DEF IInv, ShapeInv, Informed
    <3> QED
      BY <3>1, LenProperties DEF Known
  <2>2. plan[a] = Plan(request[a], h) /\ Evidence(a)
    BY <1>1, AnsweringFacts DEF IInv, PlanInv, Answering
  <2>3. answer[a].cards = context[a].items /\ plan[a].intent = "RECOMMEND_BEVERAGE"
    BY <1>1, AnsweringFacts, AnsweredFacts
  <2>4. h.drinks = DrinksFrom(w, Stop(w)) /\ h.results = ResultsFrom(w, Stop(w))
    BY DEF Hints
  <2> HIDE DEF h
  <2>5. /\ plan[a].diverse = (Diverse(request[a].message) \/ request[a].clientDiverse)
        /\ plan[a].avoided = LeftOut(TRUE, request[a].avoided, h.drinks,
                                     request[a].previousDrinks)
        /\ plan[a].excluded = LeftOut(TRUE, request[a].excluded, h.results,
                                      request[a].previousResults)
    BY <1>1, <2>2 DEF Plan, LeftOut
  <2>6. ~Exhausted(plan[a].diverse, answer[a].cards, plan[a].excluded)
    BY <2>2, <2>3 DEF Evidence, Evident
  <2>9. plan[a].diverse
    BY <1>1, <2>5, Zenon
  <2>10. ASSUME NEW client \in {None, {}}, NEW hinted, hinted # {}, NEW previous
         PROVE  LeftOut(TRUE, client, hinted, previous) = hinted
    BY <2>10 DEF LeftOut
  <2>7. WithDrinks(w) # {} /\ request[a].avoided \in {None, {}} =>
            Range(w[Max(WithDrinks(w))].drinks) \subseteq plan[a].avoided
    <3> SUFFICES ASSUME WithDrinks(w) # {}, request[a].avoided \in {None, {}}
                 PROVE  Range(w[Max(WithDrinks(w))].drinks) \subseteq plan[a].avoided
      OBVIOUS
    <3> DEFINE m == Max(WithDrinks(w))
    <3>1. m \in WithDrinks(w) /\ Range(w[m].drinks) \subseteq h.drinks
      BY <2>1, <2>4, HintsReachLatest
    <3>2. CASE h.drinks = {}
      BY <3>1, <3>2
    <3>3. CASE h.drinks # {}
      <4>1. plan[a].avoided = h.drinks
        BY <2>5, <2>10, <3>3
      <4> QED
        BY <3>1, <4>1
    <3> QED
      BY <3>2, <3>3
  <2>8. ASSUME WithResults(w) # {}, request[a].excluded \in {None, {}},
               Results(answer[a].cards) # {}
        PROVE  ~(Results(answer[a].cards) \subseteq w[Max(WithResults(w))].results)
    <3> DEFINE m == Max(WithResults(w))
    <3>1. m \in WithResults(w) /\ w[m].results \subseteq h.results
      BY <2>1, <2>4, <2>8, HintsReachLatest
    <3>2. w[m].results # {}
      BY <3>1 DEF WithResults
    <3>3. plan[a].excluded = h.results
      BY <2>5, <2>8, <2>10, <3>1, <3>2
    <3> QED
      BY <2>6, <2>9, <2>8, <3>1, <3>2, <3>3 DEF Exhausted
  <2> QED
    BY <2>7, <2>8
<1>2. IInv => FollowUpsAreFresh
  BY <1>1 DEF FollowUpsAreFresh
<1> QED
  BY <1>2, Inductive, PTL

=============================================================================
