------------------------- MODULE ConversationsProofs -------------------------
(***************************************************************************)
(* Theorems about Conversations, for every number of messages, writers,    *)
(* readers, conversations and reports, and every page size.                *)
(***************************************************************************)
EXTENDS Conversations, FiniteSetTheorems, WellFoundedInduction, TLAPS

Rowset == [id : Messages, conv : Convs, at : Nat]
Walks ==
    [pc : {"idle", "walking", "done", "refused"}, user : Users \cup {None},
     conv : Convs \cup {None}, size : Nat, token : Nat,
     shown : [Messages -> Nat], floor : SUBSET Rowset]
Results == {"fresh", "duplicate", "not found"}
CallKeys == {c.key : c \in Calls} \cup {None}
CallSet ==
    [user : Users \cup {None}, msg : Messages \cup {None}, key : CallKeys,
     sent : 0..MaxCalls, result : Results \cup {None}, doubled : Results \cup {None}]

(* The tables: ids are unique, and an INSERT under way has a new one.      *)
StoreInv ==
    /\ clock \in Nat /\ clock = Len(messages)
    /\ created \subseteq Convs
    /\ messages \in Seq(Rowset)
    /\ \A i, j \in DOMAIN messages : messages[i].id = messages[j].id => i = j
    /\ \A r \in rows : r.conv \in created /\ r.at <= clock
    /\ inserts \in [Messages -> Rowset \cup {None}]
    /\ \A m \in Messages : inserts[m] # None =>
          /\ inserts[m] \in Rowset
          /\ inserts[m].id = m /\ inserts[m].conv \in created
          /\ inserts[m].at <= clock
          /\ \A r \in rows : r.id # m
    /\ Cardinality({m \in Messages : inserts[m] # None}) <= Writers

(* Where a walk is: what lies before its token was shown, once if nothing  *)
(* was stored in front of it since the walk began.                         *)
LateBefore(q, floor) == \E late \in Rows(q.conv) \ floor : Before(late, q)
WalkOk(w) ==
    /\ w.pc = "idle" =>
          w.token = 0 /\ w.floor = {} /\ \A m \in Messages : w.shown[m] = 0
    /\ w.pc = "walking" => w.conv \in created /\ w.user \in Users
    /\ w.floor \subseteq Rows(w.conv)
    /\ \A m \in Messages : w.shown[m] > 0 =>
          \E q \in Rows(w.conv) : q.id = m /\ Owner[w.conv] = w.user
    /\ w.pc = "walking" =>
          \A q \in w.floor :
              Owner[w.conv] = w.user /\ Position(q) < w.token => w.shown[q.id] > 0
    /\ w.pc = "done" =>
          \A q \in w.floor : Owner[w.conv] = w.user => w.shown[q.id] > 0
    /\ \A q \in rows :
          w.shown[q.id] > 0 /\ ~LateBefore(q, w.floor) =>
              w.shown[q.id] = 1 /\ (w.pc = "walking" => Position(q) < w.token)

(* An event names the report that stored it.                               *)
FeedbackInv ==
    /\ report \in [Reports -> CallSet]
    /\ \A e \in feedback : e.by \in Reports /\ report[e.by].sent > 0
    /\ FeedbackOnce
    /\ \A f \in Answered : report[f].result \in Results

IInv ==
    /\ StoreInv /\ FeedbackInv
    /\ walk \in [Readers -> Walks]
    /\ \A r \in Readers : WalkOk(walk[r])

-----------------------------------------------------------------------------
(* Rows are finitely many, so that a row has a position.                   *)
LEMMA RowsFinite ==
    ASSUME StoreInv
    PROVE  /\ rows \subseteq Rowset /\ IsFiniteSet(rows)
           /\ \A q, r \in rows : q.id = r.id => q = r
<1>1. messages \in Seq(Rowset) /\ DOMAIN messages = 1..Len(messages)
      /\ Len(messages) \in Nat
  BY DEF StoreInv
<1>2. rows = {messages[i] : i \in 1..Len(messages)}
  BY <1>1 DEF rows, Range
<1>3. IsFiniteSet(1..Len(messages))
  BY <1>1, FS_Interval
<1>4. IsFiniteSet({messages[i] : i \in 1..Len(messages)})
  <2> DEFINE T == {messages[i] : i \in 1..Len(messages)}
  <2>1. messages \in [1..Len(messages) -> T]
    BY <1>1
  <2>2. messages \in Surjection(1..Len(messages), T)
    BY <2>1 DEF Surjection
  <2> QED
    BY <1>3, <2>2, FS_Surjection
<1> QED
  BY <1>1, <1>2, <1>4 DEF StoreInv

(* A position is a number, and the page at an offset holds the positions   *)
(* from there.                                                             *)
LEMMA PositionType ==
    ASSUME StoreInv, NEW q
    PROVE  Position(q) \in Nat
<1>1. {r \in Rows(q.conv) : Before(r, q)} \subseteq rows
  BY DEF Rows
<1> QED
  BY <1>1, RowsFinite, FS_Subset, FS_CardinalityType DEF Position

(* A page has at least one row, and at most MaxPage.                      *)
LEMMA LimitType ==
    ASSUME NEW size \in Nat
    PROVE  Limit(size) \in Nat \ {0}
  BY PagesAssumption DEF Limit, Max2, Min2, IfSet

(* Where one row more leaves the others.                                   *)
LEMMA Positions ==
    ASSUME StoreInv, NEW x \in Rowset,
           messages' = Append(messages, x), NEW q \in Rowset
    PROVE  /\ rows' = rows \cup {x}
           /\ \A c : Rows(c)' = Rows(c) \cup {y \in {x} : y.conv = c}
           /\ Position(q) \in Nat /\ Position(q)' \in Nat /\ Position(q) <= Position(q)'
           /\ ~(x.conv = q.conv /\ Before(x, q)) => Position(q)' = Position(q)
<1>1. rows' = rows \cup {x}
  <2>1. messages \in Seq(Rowset)
    BY DEF StoreInv
  <2>2. \A i \in 1..Len(messages) : messages'[i] = messages[i]
    BY <2>1
  <2>3. /\ DOMAIN messages' = (1..Len(messages)) \cup {Len(messages) + 1}
        /\ messages'[Len(messages) + 1] = x /\ DOMAIN messages = 1..Len(messages)
    BY <2>1
  <2> QED
    BY <2>2, <2>3 DEF rows, Range
<1>2. \A c : Rows(c)' = Rows(c) \cup {y \in {x} : y.conv = c}
  BY <1>1 DEF Rows
<1> DEFINE P == {r \in Rows(q.conv) : Before(r, q)}
           Q == {r \in Rows(q.conv)' : Before(r, q)}
<1>3. IsFiniteSet(P) /\ IsFiniteSet(Q)
  <2>1. IsFiniteSet(rows \cup {x})
    BY RowsFinite, FS_AddElement
  <2>2. P \subseteq rows \cup {x} /\ Q \subseteq rows \cup {x}
    BY <1>2 DEF Rows
  <2> QED
    BY <2>1, <2>2, FS_Subset
<1>4. Position(q) = Cardinality(P) /\ Position(q)' = Cardinality(Q)
  BY DEF Position, Before
<1>5. P \subseteq Q
  BY <1>2
<1>6. ~(x.conv = q.conv /\ Before(x, q)) => P = Q
  BY <1>2
<1> QED
  BY <1>1, <1>2, <1>3, <1>4, <1>5, <1>6, FS_Subset, FS_CardinalityType

-----------------------------------------------------------------------------
(* Initially there is nothing.                                             *)
LEMMA InitInv == Init => IInv
<1> SUFFICES ASSUME Init PROVE IInv
  OBVIOUS
<1>1. rows = {}
  BY DEF Init, rows, Range
<1>2. StoreInv
  <2>1. {m \in Messages : inserts[m] # None} = {}
    BY DEF Init
  <2>2. Cardinality({m \in Messages : inserts[m] # None}) <= Writers
    BY <2>1, FS_EmptySet, MessagesAssumption
  <2>3. messages \in Seq(Rowset) /\ Len(messages) = 0 /\ DOMAIN messages = {}
    BY DEF Init
  <2> QED
    BY <1>1, <2>2, <2>3 DEF Init, StoreInv
<1>3. FeedbackInv
  <2>1. Unsent \in CallSet
    BY CallsAssumption DEF Unsent, CallSet, CallKeys
  <2> QED
    BY <2>1 DEF Init, FeedbackInv, FeedbackOnce, Answered, Unsent
<1>4. walk \in [Readers -> Walks]
  BY DEF Init, Idle, Walks
<1>5. ASSUME NEW r \in Readers PROVE WalkOk(walk[r])
  BY <1>1 DEF Init, Idle, WalkOk, Rows
<1> QED
  BY <1>2, <1>3, <1>4, <1>5 DEF IInv

-----------------------------------------------------------------------------
(* Steps of the store.                                                     *)

(* Walks depend on the rows and the conversations alone.                   *)
LEMMA WalksStay ==
    ASSUME IInv, UNCHANGED <<messages, walk>>, created \subseteq created'
    PROVE  walk' \in [Readers -> Walks] /\ \A r \in Readers : WalkOk(walk[r])'
<1>1. rows' = rows /\ walk' = walk
  BY DEF rows
<1>2. /\ \A c : Rows(c)' = Rows(c)
      /\ \A q : Position(q)' = Position(q)
      /\ \A q, floor : LateBefore(q, floor)' = LateBefore(q, floor)
  BY <1>1 DEF Rows, Position, LateBefore, Before
<1> QED
  BY <1>1, <1>2 DEF IInv, WalkOk

(* The events depend on the rows, and stay while those do not shrink.      *)
LEMMA EventsStay ==
    ASSUME IInv, UNCHANGED <<feedback, report>>, rows \subseteq rows'
    PROVE  FeedbackInv'
<1>1. FeedbackInv
  BY DEF IInv
<1>2. Answered' = Answered
  BY DEF Answered
<1> QED
  BY <1>1, <1>2 DEF FeedbackInv, FeedbackOnce, Event, SameKey

(* Creating a conversation keeps the invariant.                           *)
LEMMA CreateInv ==
    ASSUME IInv, CreateConversation
    PROVE  IInv'
<1>1. /\ created \subseteq created' /\ created' \subseteq Convs
      /\ UNCHANGED <<clock, inserts, messages, walk, feedback, double, report>>
  BY DEF CreateConversation, events, IInv, StoreInv
<1>2. rows' = rows
  BY <1>1 DEF rows
<1>3. StoreInv'
  BY <1>1, <1>2 DEF IInv, StoreInv
<1> QED
  BY <1>1, <1>2, <1>3, WalksStay, EventsStay DEF IInv

(* A row begun is pending: it has a place in the order and is in no page. *)
LEMMA BeginInv ==
    ASSUME IInv, NEW m \in Messages, BeginInsert(m)
    PROVE  IInv'
<1>0. StoreInv
  BY DEF IInv
<1>1. UNCHANGED <<clock, created, messages, walk, feedback, double, report>>
  BY DEF BeginInsert, events
<1>2. PICK c \in created :
         inserts' = [inserts EXCEPT ![m] = [id |-> m, conv |-> c, at |-> clock]]
  BY DEF BeginInsert
<1>3. rows' = rows
  BY <1>1 DEF rows
<1> DEFINE open == {n \in Messages : inserts[n] # None}
<1>4. /\ inserts' \in [Messages -> Rowset \cup {None}]
      /\ inserts'[m] = [id |-> m, conv |-> c, at |-> clock] /\ inserts'[m] \in Rowset
      /\ \A n \in Messages \ {m} : inserts'[n] = inserts[n]
  BY <1>0, <1>2 DEF StoreInv, Rowset
<1>5. Cardinality({n \in Messages : inserts'[n] # None}) <= Writers
  <2>1. {n \in Messages : inserts'[n] # None} \subseteq open \cup {m}
    BY <1>4
  <2>2. IsFiniteSet(open) /\ Cardinality(open) \in Nat
    <3>1. open \subseteq Messages
      OBVIOUS
    <3> QED
      BY <3>1, MessagesAssumption, FS_Subset, FS_CardinalityType
  <2>3. Cardinality(open) < Writers
    BY DEF BeginInsert
  <2>4. IsFiniteSet(open \cup {m}) /\ Cardinality(open \cup {m}) <= Cardinality(open) + 1
        /\ Cardinality(open \cup {m}) \in Nat
    <3> HIDE DEF open
    <3>1. IsFiniteSet(open \cup {m})
      BY <2>2, FS_AddElement
    <3>2. Cardinality(open \cup {m}) =
             IF m \in open THEN Cardinality(open) ELSE Cardinality(open) + 1
      BY <2>2, FS_AddElement
    <3> QED
      BY <2>2, <3>1, <3>2
  <2>5. Cardinality({n \in Messages : inserts'[n] # None}) \in Nat
        /\ Cardinality({n \in Messages : inserts'[n] # None})
              <= Cardinality(open \cup {m})
    BY <2>1, <2>4, FS_Subset, FS_CardinalityType
  <2> QED
    BY <2>2, <2>3, <2>4, <2>5, MessagesAssumption
<1>6. StoreInv'
  <2>1. \A r \in rows : r.id # m
    BY DEF BeginInsert
  <2>2. ASSUME NEW n \in Messages, inserts'[n] # None
        PROVE  /\ inserts'[n] \in Rowset
               /\ inserts'[n].id = n /\ inserts'[n].conv \in created
               /\ inserts'[n].at <= clock /\ \A r \in rows : r.id # n
    BY <1>0, <1>4, <2>1, <2>2 DEF StoreInv
  <2> QED
    BY <1>0, <1>1, <1>3, <1>4, <1>5, <2>2 DEF StoreInv
<1> QED
  BY <1>1, <1>3, <1>6, WalksStay, EventsStay DEF IInv

(* A commit or rollback of a pending row keeps the invariant.             *)
LEMMA EndInv ==
    ASSUME IInv, NEW m \in Messages, EndInsert(m)
    PROVE  IInv'
<1>0. StoreInv /\ inserts[m] # None
  BY DEF IInv, EndInsert
<1> DEFINE x == inserts[m]
<1>1. /\ x \in Rowset /\ x.id = m /\ x.conv \in created /\ x.at <= clock
      /\ \A r \in rows : r.id # m
  BY <1>0 DEF StoreInv
<1>2. /\ inserts' = [inserts EXCEPT ![m] = None]
      /\ UNCHANGED <<created, walk, feedback, double, report>>
      /\ \/ clock' = clock /\ messages' = messages
         \/ messages' = Append(messages, x) /\ clock' = clock + 1
  BY DEF EndInsert, events
<1>3. /\ inserts' \in [Messages -> Rowset \cup {None}] /\ inserts'[m] = None
      /\ \A n \in Messages \ {m} : inserts'[n] = inserts[n]
  BY <1>0, <1>2 DEF StoreInv
<1>4. Cardinality({n \in Messages : inserts'[n] # None}) <= Writers
  <2> DEFINE open == {n \in Messages : inserts[n] # None}
             left == {n \in Messages : inserts'[n] # None}
  <2>1. left \subseteq open /\ open \subseteq Messages
    BY <1>3
  <2>2. IsFiniteSet(open) /\ Cardinality(open) <= Writers
    BY <1>0, <2>1, MessagesAssumption, FS_Subset DEF StoreInv
  <2> HIDE DEF open, left
  <2>3. Cardinality(left) <= Cardinality(open)
        /\ Cardinality(left) \in Nat /\ Cardinality(open) \in Nat
    BY <2>1, <2>2, FS_Subset, FS_CardinalityType
  <2>4. Cardinality(left) <= Writers
    BY <2>2, <2>3, MessagesAssumption
  <2> QED
    BY <2>4 DEF left
<1>5. CASE clock' = clock /\ messages' = messages
  <2>1. rows' = rows
    BY <1>5 DEF rows
  <2>2. StoreInv'
    BY <1>0, <1>2, <1>3, <1>4, <1>5, <2>1 DEF StoreInv
  <2> QED
    BY <1>2, <1>5, <2>1, <2>2, WalksStay, EventsStay DEF IInv
<1>6. CASE messages' = Append(messages, x) /\ clock' = clock + 1
  <2>1. /\ rows' = rows \cup {x}
        /\ \A c : Rows(c)' = Rows(c) \cup {y \in {x} : y.conv = c}
        /\ \A q \in Rowset :
              /\ Position(q) \in Nat /\ Position(q)' \in Nat /\ Position(q) <= Position(q)'
              /\ ~(x.conv = q.conv /\ Before(x, q)) => Position(q)' = Position(q)
    BY <1>0, <1>1, <1>6, Positions
  <2>2. StoreInv'
    <3>1. /\ messages \in Seq(Rowset) /\ Len(messages) \in Nat
          /\ DOMAIN messages = 1..Len(messages)
      BY <1>0 DEF StoreInv
    <3>2. /\ messages' \in Seq(Rowset) /\ clock' \in Nat /\ clock' = Len(messages')
          /\ DOMAIN messages' = 1..(Len(messages) + 1)
          /\ \A i \in 1..Len(messages) : messages'[i] = messages[i]
          /\ messages'[Len(messages) + 1] = x
      BY <1>0, <1>1, <1>6, <3>1 DEF StoreInv
    <3>3. \A i \in 1..Len(messages) : messages[i] \in rows
      BY <3>1 DEF rows, Range
    <3>4. ASSUME NEW i \in DOMAIN messages', NEW j \in DOMAIN messages',
                 messages'[i].id = messages'[j].id
          PROVE  i = j
      <4>1. i \in 1..Len(messages) \/ i = Len(messages) + 1
        BY <3>1, <3>2
      <4>2. j \in 1..Len(messages) \/ j = Len(messages) + 1
        BY <3>1, <3>2
      <4> QED
        BY <1>0, <1>1, <3>1, <3>2, <3>3, <3>4, <4>1, <4>2 DEF StoreInv
    <3>5. \A r \in rows' : r.conv \in created' /\ r.at <= clock'
      <4>1. \A r \in rows : r \in Rowset /\ r.conv \in created /\ r.at <= clock
        BY <1>0, RowsFinite DEF StoreInv
      <4>2. \A r \in rows' : r.conv \in created /\ r.at <= clock /\ r.at \in Nat
        BY <1>1, <2>1, <4>1 DEF Rowset
      <4> QED
        BY <1>0, <1>2, <1>6, <4>2 DEF StoreInv
    <3>6. ASSUME NEW n \in Messages, inserts'[n] # None
          PROVE  /\ inserts'[n] \in Rowset
                 /\ inserts'[n].id = n /\ inserts'[n].conv \in created'
                 /\ inserts'[n].at <= clock' /\ \A r \in rows' : r.id # n
      <4>1. n # m /\ inserts'[n] = inserts[n]
        BY <1>3, <3>6
      <4>2. /\ inserts[n] \in Rowset /\ inserts[n].at <= clock
            /\ inserts[n].id = n /\ inserts[n].conv \in created
            /\ \A r \in rows : r.id # n
        BY <1>0, <3>6, <4>1 DEF StoreInv
      <4>3. inserts[n].at \in Nat /\ clock \in Nat
        BY <1>0, <4>2 DEF Rowset, StoreInv
      <4> QED
        BY <1>1, <1>2, <1>6, <2>1, <4>1, <4>2, <4>3
    <3> QED
      BY <1>0, <1>2, <1>3, <1>4, <3>2, <3>4, <3>5, <3>6 DEF StoreInv
  <2>3. ASSUME NEW r \in Readers PROVE WalkOk(walk[r])'
    <3> DEFINE w == walk[r]
    <3>0. WalkOk(w) /\ w \in Walks /\ w' = w
      BY <1>2 DEF IInv
    <3>1. x \notin rows /\ rows \subseteq Rowset /\ \A c : Rows(c) \subseteq rows
      BY <1>0, <1>1, RowsFinite DEF Rows
    <3>2. x \notin w.floor /\ w.floor \subseteq Rowset
      BY <3>0, <3>1 DEF WalkOk
    <3>3. ASSUME NEW q \in rows', w.shown[q.id] > 0, ~LateBefore(q, w.floor)'
          PROVE  q \in rows /\ ~LateBefore(q, w.floor) /\ Position(q)' = Position(q)
      <4>1. q # x
        <5>1. w.shown[m] > 0 => \E p \in Rows(w.conv) : p.id = m
          BY <3>0 DEF WalkOk
        <5> QED
          BY <1>1, <3>1, <3>3, <5>1
      <4>2. q \in rows /\ q \in Rowset
        BY <2>1, <3>1, <4>1
      <4>3. ~LateBefore(q, w.floor)
        BY <2>1, <3>3, <3>0 DEF LateBefore, Before
      <4>4. ~(x.conv = q.conv /\ Before(x, q))
        BY <2>1, <3>3, <3>2, <3>0 DEF LateBefore, Before
      <4> QED
        BY <2>1, <4>2, <4>3, <4>4
    <3>4. ASSUME NEW q \in w.floor, w.token \in Nat, Position(q)' < w.token
          PROVE  Position(q) < w.token
      BY <2>1, <3>2, <3>4
    <3>5. w.token \in Nat
      BY <3>0 DEF Walks
    <3>6. \A c : Rows(c) \subseteq Rows(c)'
      BY <2>1
    <3> HIDE DEF w, x
    <3>7. WalkOk(w)'
      <4>1. w'.pc = "idle" => w'.token = 0 /\ w'.floor = {} /\ \A n \in Messages : w'.shown[n] = 0
        BY <3>0 DEF WalkOk
      <4>2. w'.pc = "walking" => w'.conv \in created' /\ w'.user \in Users
        BY <1>2, <3>0 DEF WalkOk
      <4>3. w'.floor \subseteq Rows(w.conv)'
        BY <3>0, <3>6 DEF WalkOk
      <4>4. \A n \in Messages : w.shown[n] > 0 =>
               \E q \in Rows(w.conv)' : q.id = n /\ Owner[w.conv] = w.user
        BY <3>0, <3>6 DEF WalkOk
      <4>5. w.pc = "walking" =>
               \A q \in w.floor :
                  Owner[w.conv] = w.user /\ Position(q)' < w.token => w.shown[q.id] > 0
        BY <3>0, <3>4, <3>5 DEF WalkOk
      <4>6. \A q \in rows' : w.shown[q.id] > 0 /\ ~LateBefore(q, w.floor)' =>
               w.shown[q.id] = 1 /\ (w.pc = "walking" => Position(q)' < w.token)
        BY <3>0, <3>3 DEF WalkOk
      <4> QED
        BY <3>0, <4>1, <4>2, <4>3, <4>4, <4>5, <4>6 DEF WalkOk
    <3> QED
      BY <3>7 DEF w
  <2> QED
    BY <1>2, <2>1, <2>2, <2>3, EventsStay DEF IInv
<1> QED
  BY <1>2, <1>5, <1>6

-----------------------------------------------------------------------------
(* Steps of a reader.                                                      *)

(* A reader changes its own walk only.                                     *)
LEMMA ReaderStep ==
    ASSUME IInv, NEW r \in Readers, NEW w \in Walks, WalkOk(w),
           walk' = [walk EXCEPT ![r] = w],
           UNCHANGED <<clock, created, inserts, messages, feedback, double, report>>
    PROVE  IInv'
<1>1. rows' = rows
  BY DEF rows
<1>2. /\ \A c : Rows(c)' = Rows(c)
      /\ \A q : Position(q)' = Position(q)
      /\ \A q, floor : LateBefore(q, floor)' = LateBefore(q, floor)
  BY <1>1 DEF Rows, Position, LateBefore, Before
<1>3. walk' \in [Readers -> Walks]
  BY DEF IInv
<1>4. ASSUME NEW p \in Readers PROVE WalkOk(walk[p])'
  <2>1. CASE p = r
    <3>1. walk'[p] = w
      BY <2>1 DEF IInv
    <3> QED
      BY <1>1, <1>2, <3>1 DEF WalkOk
  <2>2. CASE p # r
    <3>1. walk'[p] = walk[p] /\ WalkOk(walk[p])
      BY <2>2 DEF IInv
    <3> QED
      BY <1>1, <1>2, <3>1 DEF WalkOk
  <2> QED
    BY <2>1, <2>2
<1>5. StoreInv' /\ FeedbackInv'
  BY <1>1, EventsStay DEF IInv, StoreInv
<1> QED
  BY <1>3, <1>4, <1>5 DEF IInv

(* A reader that starts has seen nothing.                                 *)
LEMMA StartInv ==
    ASSUME IInv, NEW r \in Readers, StartWalk(r)
    PROVE  IInv'
<1>0. StoreInv /\ WalkOk(walk[r]) /\ walk[r] \in Walks
  BY DEF IInv
<1>1. /\ walk[r].pc = "idle" /\ walk[r].token = 0 /\ walk[r].floor = {}
      /\ \A m \in Messages : walk[r].shown[m] = 0
  BY <1>0 DEF StartWalk, WalkOk
<1>2. UNCHANGED <<clock, created, inserts, messages, feedback, double, report>>
  BY DEF StartWalk, store, events
<1>3. created \subseteq Convs /\ rows \subseteq Rowset /\ \A q \in rows : q.id \in Messages
  BY <1>0, RowsFinite DEF StoreInv, Rowset
<1>4. PICK u \in Users, size \in PageSizes :
         \/ \E c \in created :
               walk' = [walk EXCEPT ![r] =
                    [@ EXCEPT !.pc = "walking", !.user = u, !.conv = c,
                              !.size = size, !.floor = Rows(c)]]
         \/ walk' = [walk EXCEPT ![r] = [@ EXCEPT !.pc = "done", !.user = u]]
  BY DEF StartWalk, Latest
<1>5. ASSUME NEW c \in created,
             walk' = [walk EXCEPT ![r] =
                    [@ EXCEPT !.pc = "walking", !.user = u, !.conv = c,
                              !.size = size, !.floor = Rows(c)]]
      PROVE  IInv'
  <2>1. PICK w : w = [walk[r] EXCEPT !.pc = "walking", !.user = u, !.conv = c,
                                     !.size = size, !.floor = Rows(c)]
    OBVIOUS
  <2>2. Rows(c) \subseteq Rowset
    BY <1>3 DEF Rows
  <2>3. w \in Walks
    BY <1>0, <1>3, <2>1, <2>2, PagesAssumption DEF Walks
  <2>4. /\ w.pc = "walking" /\ w.user = u /\ w.conv = c /\ w.floor = Rows(c)
        /\ w.token = 0 /\ w.shown = walk[r].shown
    BY <1>0, <1>1, <2>1 DEF Walks
  <2>5. \A q \in Rows(c) : ~(Position(q) < 0)
    BY <1>0, PositionType
  <2>6. WalkOk(w)
    BY <1>1, <1>3, <2>4, <2>5 DEF WalkOk
  <2> QED
    BY <1>2, <1>5, <2>1, <2>3, <2>6, ReaderStep
<1>6. ASSUME walk' = [walk EXCEPT ![r] = [@ EXCEPT !.pc = "done", !.user = u]]
      PROVE  IInv'
  <2>1. PICK w : w = [walk[r] EXCEPT !.pc = "done", !.user = u]
    OBVIOUS
  <2>2. w \in Walks
    BY <1>0, <2>1 DEF Walks
  <2>3. /\ w.pc = "done" /\ w.shown = walk[r].shown /\ w.floor = walk[r].floor
        /\ w.conv = walk[r].conv
    BY <1>0, <2>1 DEF Walks
  <2>4. WalkOk(w)
    BY <1>0, <1>1, <1>3, <2>3 DEF WalkOk
  <2> QED
    BY <1>2, <1>6, <2>1, <2>2, <2>4, ReaderStep
<1> QED
  BY <1>4, <1>5, <1>6

(* A page that cannot be converted changes nothing but its reader.        *)
LEMMA RefusedInv ==
    ASSUME IInv, NEW r \in Readers, PageRefused(r)
    PROVE  IInv'
<1>1. PICK w : w = [Idle EXCEPT !.pc = "refused"]
  OBVIOUS
<1>2. w \in Walks /\ w.pc = "refused" /\ w.floor = {}
      /\ \A m \in Messages : w.shown[m] = 0
  BY <1>1 DEF Idle, Walks
<1>3. \A q \in rows : q.id \in Messages
  BY RowsFinite DEF IInv, Rowset
<1>4. WalkOk(w)
  BY <1>2, <1>3 DEF WalkOk
<1> QED
  BY <1>1, <1>2, <1>4, ReaderStep DEF PageRefused, store, events

(* A page shows a message at most once.                                    *)
LEMMA PageCount ==
    ASSUME StoreInv, NEW page \in SUBSET rows, NEW m \in Messages
    PROVE  Cardinality({q \in page : q.id = m}) =
              IF \E q \in page : q.id = m THEN 1 ELSE 0
<1>1. CASE \E q \in page : q.id = m
  <2>1. PICK q \in page : q.id = m
    BY <1>1
  <2>2. {p \in page : p.id = m} = {q}
    BY <2>1, RowsFinite
  <2> QED
    BY <1>1, <2>2, FS_Singleton
<1>2. CASE ~\E q \in page : q.id = m
  <2>1. {p \in page : p.id = m} = {}
    BY <1>2
  <2> QED
    BY <1>2, <2>1, FS_EmptySet
<1> QED
  BY <1>1, <1>2

(* A page leaves a reader with every row committed before its mark.       *)
LEMMA PageInv ==
    ASSUME IInv, NEW r \in Readers, NextPage(r)
    PROVE  IInv'
<1> DEFINE old == walk[r]
           page == Page(old.user, old.conv, old.size, old.token)
           token == NextToken(old.user, old.conv, old.size, old.token)
           limit == Limit(old.size)
           owner == Owner[old.conv] = old.user
<1>0. /\ StoreInv /\ old \in Walks /\ WalkOk(old) /\ old.pc = "walking"
      /\ old.token \in Nat /\ old.size \in Nat
      /\ \A m \in Messages : old.shown[m] \in Nat
  BY DEF IInv, NextPage, Walks
<1>1. UNCHANGED <<clock, created, inserts, messages, feedback, double, report>>
  BY DEF NextPage, store, events
<1>2. limit \in Nat /\ limit > 0
  BY <1>0, LimitType
<1>3. /\ rows \subseteq Rowset /\ \A q, p \in rows : q.id = p.id => q = p
      /\ \A q \in rows : q.id \in Messages /\ Position(q) \in Nat
  BY <1>0, RowsFinite, PositionType DEF Rowset
<1>4. page = {q \in Rows(old.conv) : /\ owner /\ Position(q) >= old.token
                                     /\ Position(q) < old.token + limit}
  BY DEF Page
<1>5. page \subseteq rows
  BY <1>4 DEF Rows
<1>6. /\ token = None \/ token = old.token + limit
      /\ token = None => \A q \in Rows(old.conv) : owner => Position(q) < old.token + limit
  <2>1. old.token + limit \in Nat
    BY <1>0, <1>2
  <2>2. old.token + limit # None
    BY <2>1, MessagesAssumption
  <2> QED
    BY <1>3, <2>1, <2>2 DEF NextToken, Rows
<1>7. PICK shown : shown = [m \in Messages |->
                       old.shown[m] + Cardinality({q \in page : q.id = m})]
  OBVIOUS
<1> HIDE DEF page, token, limit
<1>8. ASSUME NEW m \in Messages
      PROVE  shown[m] = old.shown[m] + (IF \E q \in page : q.id = m THEN 1 ELSE 0)
  <2>1. Cardinality({q \in page : q.id = m}) = IF \E q \in page : q.id = m THEN 1 ELSE 0
    BY <1>0, <1>5, PageCount
  <2>2. shown[m] = old.shown[m] + Cardinality({q \in page : q.id = m})
    BY <1>7
  <2> QED
    BY <2>1, <2>2
<1>9. shown \in [Messages -> Nat]
  <2>1. \A m \in Messages : shown[m] \in Nat
    BY <1>0, <1>8
  <2>2. shown = [m \in Messages |-> shown[m]]
    BY <1>7
  <2> QED
    BY <2>1, <2>2
<1>10. PICK w : w = [old EXCEPT !.pc = IF token = None THEN "done" ELSE "walking",
                                !.token = IF token = None THEN 0 ELSE token,
                                !.size = IF token = None THEN 0 ELSE old.size,
                                !.shown = shown]
  OBVIOUS
<1>11. walk' = [walk EXCEPT ![r] = w]
  BY <1>7, <1>10 DEF NextPage, page, token
<1>12. /\ w.pc = IF token = None THEN "done" ELSE "walking"
       /\ w.token = IF token = None THEN 0 ELSE token
       /\ w.shown = shown /\ w.conv = old.conv /\ w.user = old.user
       /\ w.floor = old.floor
  BY <1>0, <1>10 DEF Walks
<1>13. w \in Walks
  <2> DEFINE next == IF token = None THEN 0 ELSE token
             size == IF token = None THEN 0 ELSE old.size
             place == IF token = None THEN "done" ELSE "walking"
  <2>1. next \in Nat /\ size \in Nat
    BY <1>0, <1>2, <1>6
  <2>2. place \in {"idle", "walking", "done", "refused"}
    OBVIOUS
  <2>3. w = [old EXCEPT !.pc = place, !.token = next, !.size = size, !.shown = shown]
    BY <1>10
  <2> HIDE DEF next, size, place
  <2> QED
    BY <1>0, <1>9, <2>1, <2>2, <2>3 DEF Walks
<1>14. ASSUME NEW m \in Messages, shown[m] > 0
       PROVE  \E q \in Rows(old.conv) : q.id = m /\ owner
  <2>1. CASE \E q \in page : q.id = m
    BY <1>4, <2>1
  <2>2. CASE ~\E q \in page : q.id = m
    <3>1. old.shown[m] > 0
      BY <1>0, <1>8, <1>14, <2>2
    <3> QED
      BY <1>0, <3>1 DEF WalkOk
  <2> QED
    BY <2>1, <2>2
<1>15. ASSUME NEW q \in old.floor, owner, Position(q) < old.token + limit
       PROVE  shown[q.id] > 0
  <2>1. q \in Rows(old.conv) /\ q \in rows /\ q.id \in Messages /\ Position(q) \in Nat
    BY <1>0, <1>3 DEF WalkOk, Rows
  <2>2. CASE Position(q) < old.token
    BY <1>0, <1>8, <1>15, <2>1, <2>2 DEF WalkOk
  <2>3. CASE Position(q) >= old.token
    <3>1. q \in page
      BY <1>4, <1>15, <2>1, <2>3
    <3> QED
      BY <1>0, <1>8, <2>1, <3>1
  <2> QED
    BY <1>0, <2>1, <2>2, <2>3
<1>16. ASSUME NEW q \in rows, shown[q.id] > 0, ~LateBefore(q, old.floor)
       PROVE  shown[q.id] = 1 /\ Position(q) < old.token + limit
  <2>0. q.id \in Messages /\ Position(q) \in Nat /\ old.shown[q.id] \in Nat
    BY <1>0, <1>3
  <2>1. (\E p \in page : p.id = q.id) => q \in page
    BY <1>3, <1>5
  <2>2. CASE old.shown[q.id] > 0
    <3>1. old.shown[q.id] = 1 /\ Position(q) < old.token
      BY <1>0, <1>16, <2>2 DEF WalkOk
    <3>2. q \notin page
      BY <1>0, <1>4, <2>0, <3>1
    <3> QED
      BY <1>0, <1>2, <1>8, <2>0, <2>1, <3>1, <3>2
  <2>3. CASE old.shown[q.id] = 0
    <3>1. q \in page
      BY <1>8, <1>16, <2>0, <2>1, <2>3
    <3> QED
      BY <1>4, <1>8, <2>0, <2>3, <3>1
  <2> QED
    BY <2>0, <2>2, <2>3
<1>17. old.conv \in created /\ old.user \in Users /\ old.floor \subseteq Rows(old.conv)
  BY <1>0 DEF WalkOk
<1>18. WalkOk(w)
  <2>1. CASE token = None
    <3>1. \A q \in old.floor : owner => shown[q.id] > 0
      BY <1>6, <1>15, <1>17, <2>1
    <3> QED
      BY <1>12, <1>14, <1>16, <1>17, <2>1, <3>1 DEF WalkOk
  <2>2. CASE token # None
    <3>1. token = old.token + limit
      BY <1>6, <2>2
    <3> QED
      BY <1>12, <1>14, <1>15, <1>16, <1>17, <2>2, <3>1 DEF WalkOk
  <2> QED
    BY <2>1, <2>2
<1> QED
  BY <1>1, <1>11, <1>13, <1>18, ReaderStep

-----------------------------------------------------------------------------
(* Steps of a report.                                                      *)

(* A call with the report's inputs, or with its first inputs: the events   *)
(* stored stay, and at most its own is added.                              *)
LEMMA RecordEffect ==
    ASSUME IInv, NEW f \in Reports, NEW call \in CallSet,
           report[f].sent = 0 \/ call = report[f], call.sent < MaxCalls,
           RecordFeedback(f, call), UNCHANGED <<store, walk>>
    PROVE  IInv' /\ feedback \subseteq feedback'
<1> DEFINE e == Event(f, call)
           owned == Owned(call)
<1>0. /\ StoreInv /\ report \in [Reports -> CallSet] /\ FeedbackOnce
      /\ \A d \in feedback : d.by \in Reports /\ report[d.by].sent > 0
      /\ \A g \in Answered : report[g].result \in Results
  BY DEF IInv, FeedbackInv
<1>1. UNCHANGED <<clock, created, inserts, messages, walk>>
  BY DEF store
<1>2. rows' = rows
  BY <1>1 DEF rows
<1>3. /\ e.msg = call.msg /\ e.key = call.key /\ e.by = f
  BY DEF Event
<1>4. feedback' = IF owned THEN Upsert(feedback, e) ELSE feedback
  BY DEF RecordFeedback
<1>5. PICK done \in CallSet :
         /\ report' = [report EXCEPT ![f] = done]
         /\ done.user = call.user /\ done.msg = call.msg /\ done.key = call.key
         /\ done.sent = call.sent + 1
         /\ done.result = IF owned THEN Result(feedback, e) ELSE "not found"
  <2> DEFINE first == IF owned THEN Result(feedback, e) ELSE "not found"
             second == IF owned THEN Result(double, e) ELSE "not found"
  <2>1. first \in Results /\ second \in Results
    BY DEF Result, Results
  <2>2. call.sent + 1 \in 0..MaxCalls
    BY CallsAssumption DEF CallSet
  <2>3. report' = [report EXCEPT ![f] =
            [call EXCEPT !.sent = @ + 1, !.result = first, !.doubled = second]]
    BY DEF RecordFeedback
  <2> HIDE DEF first, second
  <2>4. PICK done : done =
            [call EXCEPT !.sent = @ + 1, !.result = first, !.doubled = second]
    OBVIOUS
  <2>5. done \in CallSet
    BY <2>1, <2>2, <2>4 DEF CallSet
  <2>6. /\ done.user = call.user /\ done.msg = call.msg /\ done.key = call.key
        /\ done.sent = call.sent + 1 /\ done.result = first
    BY <2>4 DEF CallSet
  <2> QED
    BY <2>3, <2>4, <2>5, <2>6 DEF first
<1>6. /\ report'[f] = done
      /\ \A g \in Reports \ {f} : report'[g] = report[g]
      /\ report' \in [Reports -> CallSet]
  BY <1>0, <1>5
<1>7. feedback \subseteq feedback' /\ feedback' \subseteq feedback \cup {e}
  BY <1>4 DEF Upsert
<1>8. owned => /\ SameKey(feedback', e) # {}
               /\ Result(feedback, e) = "fresh" => e \in feedback'
  BY <1>3, <1>4, <1>7 DEF Upsert, SameKey, Result
<1>9. report[f].sent > 0 =>
         done.user = report[f].user /\ done.msg = report[f].msg /\ done.key = report[f].key
  <2>1. report[f].sent \in Nat
    BY <1>0, CallsAssumption DEF CallSet
  <2>2. report[f].sent > 0 => call = report[f]
    BY <2>1
  <2>3. done.user = call.user /\ done.msg = call.msg /\ done.key = call.key
    BY <1>5
  <2> QED
    BY <2>2, <2>3
<1>10. done.sent > 0
  <2>1. call.sent \in Nat
    BY CallsAssumption DEF CallSet
  <2>2. done.sent = call.sent + 1
    BY <1>5
  <2> QED
    BY <2>1, <2>2
<1>11. \A d \in feedback' : d.by \in Reports /\ report'[d.by].sent > 0
  BY <1>0, <1>3, <1>6, <1>7, <1>10
<1>12. ASSUME NEW d \in feedback', NEW d2 \in feedback', d.msg = d2.msg, d.key = d2.key
       PROVE  d = d2
  <2>1. CASE d \in feedback /\ d2 \in feedback
    BY <1>0, <1>12, <2>1 DEF FeedbackOnce
  <2>2. CASE ~(d \in feedback /\ d2 \in feedback)
    <3>1. owned /\ SameKey(feedback, e) = {}
      BY <1>4, <2>2 DEF Upsert
    <3> QED
      BY <1>3, <1>7, <1>12, <2>2, <3>1 DEF SameKey
  <2> QED
    BY <2>1, <2>2
<1>13. ASSUME NEW d \in feedback'
       PROVE  \E r \in rows' : r.id = d.msg /\ Owner[r.conv] = report'[d.by].user
  <2>1. CASE d \in feedback
    <3>1. report'[d.by].user = report[d.by].user
      BY <1>0, <1>6, <1>9, <2>1
    <3> QED
      BY <1>0, <1>2, <2>1, <3>1 DEF FeedbackOnce
  <2>2. CASE d \notin feedback
    <3>1. d = e /\ owned
      BY <1>4, <1>7, <2>2
    <3>2. report'[d.by].user = call.user
      BY <1>3, <1>5, <1>6, <3>1
    <3> QED
      BY <1>2, <1>3, <3>1, <3>2 DEF Owned
  <2> QED
    BY <2>1, <2>2
<1>14. ASSUME NEW g \in Answered'
       PROVE  /\ report'[g].result \in Results
              /\ report'[g].result = "fresh" => Event(g, report[g])' \in feedback'
              /\ report'[g].result = "duplicate" =>
                    SameKey(feedback, Event(g, report[g]))' # {}
  <2>0. g \in Reports /\ report'[g].sent > 0
    BY DEF Answered
  <2>1. CASE g = f
    <3>1. Event(g, report[g])' = e
      BY <1>5, <1>6, <2>1 DEF Event
    <3>2. report'[g].result = IF owned THEN Result(feedback, e) ELSE "not found"
      BY <1>5, <1>6, <2>1
    <3> QED
      BY <1>8, <3>1, <3>2 DEF Result, Results
  <2>2. CASE g # f
    <3>1. report'[g] = report[g] /\ g \in Answered
      BY <1>6, <2>0, <2>2 DEF Answered
    <3>2. Event(g, report[g])' = Event(g, report[g])
      BY <3>1 DEF Event
    <3>3. SameKey(feedback, Event(g, report[g])) \subseteq
             SameKey(feedback, Event(g, report[g]))'
      BY <1>7, <3>2 DEF SameKey
    <3> QED
      BY <1>0, <1>7, <3>1, <3>2, <3>3 DEF FeedbackOnce
  <2> QED
    BY <2>1, <2>2
<1>15. FeedbackInv'
  BY <1>6, <1>11, <1>12, <1>13, <1>14 DEF FeedbackInv, FeedbackOnce
<1>16. StoreInv'
  BY <1>0, <1>1, <1>2 DEF StoreInv
<1> QED
  BY <1>1, <1>7, <1>15, <1>16, WalksStay DEF IInv

(* A report of feedback keeps one event per key of a user.                *)
LEMMA ReportInv ==
    ASSUME IInv, NEW f \in Reports, SendReport(f) \/ RepeatReport(f)
    PROVE  IInv' /\ feedback \subseteq feedback'
<1>0. report \in [Reports -> CallSet]
  BY DEF IInv, FeedbackInv
<1>1. CASE SendReport(f)
  <2>1. PICK c \in Calls :
           RecordFeedback(f, [report[f] EXCEPT !.user = c.user, !.msg = c.msg, !.key = c.key])
    BY <1>1 DEF SendReport
  <2>2. PICK call : call = [report[f] EXCEPT !.user = c.user, !.msg = c.msg, !.key = c.key]
    OBVIOUS
  <2>3. c.user \in Users /\ c.msg \in Messages /\ c.key \in CallKeys
    BY CallsAssumption DEF CallKeys
  <2>4. call \in CallSet /\ call.sent = report[f].sent
    <3>1. report[f] \in CallSet
      BY <1>0
    <3> QED
      <4>1. call = [user |-> c.user, msg |-> c.msg, key |-> c.key,
                    sent |-> report[f].sent, result |-> report[f].result,
                    doubled |-> report[f].doubled]
        BY <2>2, <3>1 DEF CallSet
      <4>2. /\ report[f].sent \in 0..MaxCalls
            /\ report[f].result \in Results \cup {None}
            /\ report[f].doubled \in Results \cup {None}
        BY <3>1 DEF CallSet
      <4>3. call \in CallSet
        BY <2>3, <4>1, <4>2, Zenon DEF CallSet
      <4>4. call.sent = report[f].sent
        BY <4>1
      <4> QED
        BY <4>3, <4>4
  <2>5. report[f].sent = 0 /\ call.sent < MaxCalls
    <3>1. report[f].sent = 0
      BY <1>1 DEF SendReport
    <3> QED
      BY <2>4, <3>1, CallsAssumption
  <2> QED
    BY <1>1, <2>1, <2>2, <2>4, <2>5, RecordEffect DEF SendReport
<1>2. CASE RepeatReport(f)
  BY <1>0, <1>2, RecordEffect DEF RepeatReport
<1> QED
  BY <1>1, <1>2

-----------------------------------------------------------------------------
(* The invariant is inductive, and no step takes an event away.            *)
LEMMA NextInv == IInv /\ [Next]_vars => IInv' /\ feedback \subseteq feedback'
<1> SUFFICES ASSUME IInv, [Next]_vars PROVE IInv' /\ feedback \subseteq feedback'
  OBVIOUS
<1>1. CASE UNCHANGED vars
  <2>1. /\ UNCHANGED <<clock, created, inserts, messages, walk, feedback, report>>
        /\ rows' = rows
    BY <1>1 DEF vars, rows
  <2>2. StoreInv'
    BY <2>1 DEF IInv, StoreInv
  <2> QED
    BY <2>1, <2>2, WalksStay, EventsStay DEF IInv
<1>2. CASE CreateConversation
  BY <1>2, CreateInv DEF CreateConversation, events
<1>3. ASSUME NEW m \in Messages, BeginInsert(m) \/ EndInsert(m)
      PROVE  IInv' /\ feedback \subseteq feedback'
  BY <1>3, BeginInv, EndInv DEF BeginInsert, EndInsert, events
<1>4. ASSUME NEW r \in Readers, StartWalk(r) \/ NextPage(r) \/ PageRefused(r)
      PROVE  IInv' /\ feedback \subseteq feedback'
  BY <1>4, StartInv, PageInv, RefusedInv DEF StartWalk, NextPage, PageRefused, events
<1>5. ASSUME NEW f \in Reports, SendReport(f) \/ RepeatReport(f)
      PROVE  IInv' /\ feedback \subseteq feedback'
  BY <1>5, ReportInv
<1> QED
  BY <1>1, <1>2, <1>3, <1>4, <1>5 DEF Next

(* The invariant holds in every reachable state.                           *)
LEMMA Invariant == Spec => []IInv
  BY InitInv, NextInv, PTL DEF Spec

(* Ids are unique, walks and calls are where they can be.                  *)
THEOREM TypeCorrect == Spec => []TypeOK
<1>1. IInv => TypeOK
  <2> SUFFICES ASSUME IInv PROVE TypeOK
    OBVIOUS
  <2>1. StoreInv /\ FeedbackInv
    BY DEF IInv
  <2>2. \A r \in rows : r.id \in Messages
    BY <2>1, RowsFinite DEF Rowset
  <2>3. \A r \in Readers :
           /\ walk[r].pc \in {"idle", "walking", "done", "refused"}
           /\ walk[r].pc = "walking" => walk[r].conv \in created /\ walk[r].user \in Users
    BY DEF IInv, Walks, WalkOk
  <2>4. \A f \in Reports : report[f].sent \in 0..MaxCalls
    BY <2>1 DEF FeedbackInv, CallSet
  <2> QED
    BY <2>1, <2>2, <2>3, <2>4 DEF TypeOK, StoreInv, FeedbackInv, Results
<1> QED
  BY <1>1, Invariant, PTL

(* Following the tokens shows every message the conversation had when the  *)
(* walk began, and nothing of another user's, for every page size.         *)
THEOREM PagesCompleteHolds == Spec => []PagesComplete
<1>1. IInv => PagesComplete
  BY DEF IInv, WalkOk, PagesComplete
<1> QED
  BY <1>1, Invariant, PTL

(* Only a message stored late, in front of it, makes a message show twice. *)
THEOREM RepeatsHold == Spec => []RepeatsOnlyForLateRows
<1>1. IInv => RepeatsOnlyForLateRows
  <2> SUFFICES ASSUME IInv, NEW r \in Readers, NEW q \in rows,
                      walk[r].shown[q.id] > 1, ~LateBefore(q, walk[r].floor)
               PROVE  FALSE
    BY DEF RepeatsOnlyForLateRows, LateBefore
  <2>1. q.id \in Messages /\ walk[r].shown[q.id] \in Nat
    BY RowsFinite DEF IInv, Rowset, Walks
  <2>2. walk[r].shown[q.id] = 1
    BY <2>1 DEF IInv, WalkOk
  <2> QED
    BY <2>2
<1> QED
  BY <1>1, Invariant, PTL

(* A key has one event, of the message's owner; a report told it was first *)
(* finds its own event stored, a duplicate one with its key.               *)
THEOREM FeedbackOnceHolds == Spec => []FeedbackOnce
<1>1. IInv => FeedbackOnce
  BY DEF IInv, FeedbackInv
<1> QED
  BY <1>1, Invariant, PTL

(* An event stored stays as it is.                                         *)
THEOREM FeedbackStaysHolds == Spec => FeedbackStays
<1>1. IInv /\ [Next]_vars => [feedback \subseteq feedback']_vars
  BY NextInv
<1> QED
  BY <1>1, Invariant, PTL DEF Spec, FeedbackStays


-----------------------------------------------------------------------------
(* The in-memory repository beside PostgreSQL: the same keys have events,  *)
(* one each, and every report was told the same.                           *)
SameEvents ==
    /\ \A d, e \in double : d.msg = e.msg /\ d.key = e.key => d = e
    /\ \A d \in double : \E e \in feedback : d.msg = e.msg /\ d.key = e.key
    /\ \A e \in feedback : \E d \in double : d.msg = e.msg /\ d.key = e.key

DoubleInv ==
    /\ SameEvents
    /\ \A f \in Answered : report[f].result = report[f].doubled

(* Both tell a report the same.                                            *)
LEMMA SameResult ==
    ASSUME SameEvents, NEW e
    PROVE  Result(feedback, e) = Result(double, e)
  BY DEF SameEvents, SameKey, Result

(* A call of a report stores under its key in both or in neither.          *)
LEMMA RecordDouble ==
    ASSUME DoubleInv, report \in [Reports -> CallSet],
           NEW f \in Reports, NEW call \in CallSet, RecordFeedback(f, call)
    PROVE  DoubleInv'
<1> DEFINE e == Event(f, call)
           owned == Owned(call)
<1>1. /\ feedback' = IF owned THEN Upsert(feedback, e) ELSE feedback
      /\ double' = IF owned THEN Overwrite(double, e) ELSE double
  BY DEF RecordFeedback
<1>2. SameEvents'
  <2>1. CASE ~owned
    BY <1>1, <2>1 DEF DoubleInv, SameEvents
  <2>2. CASE owned
    <3>1. /\ feedback' = Upsert(feedback, e) /\ double' = Overwrite(double, e)
      BY <1>1, <2>2
    <3> HIDE DEF e
    <3>2. feedback' = IF SameKey(feedback, e) = {} THEN feedback \cup {e} ELSE feedback
      BY <3>1 DEF Upsert
    <3>3. double' = (double \ SameKey(double, e)) \cup {e}
      BY <3>1 DEF Overwrite
    <3>4. \A d, x \in double' : d.msg = x.msg /\ d.key = x.key => d = x
      BY <3>3 DEF DoubleInv, SameEvents, SameKey
    <3>5. \E x \in feedback' : e.msg = x.msg /\ e.key = x.key
      BY <3>2 DEF SameKey
    <3>6. \A d \in double' : \E x \in feedback' : d.msg = x.msg /\ d.key = x.key
      BY <3>2, <3>3, <3>5 DEF DoubleInv, SameEvents
    <3>7. \A x \in feedback : \E d \in double' : d.msg = x.msg /\ d.key = x.key
      BY <3>3 DEF DoubleInv, SameEvents, SameKey
    <3>8. \A x \in feedback' : \E d \in double' : d.msg = x.msg /\ d.key = x.key
      BY <3>2, <3>3, <3>7
    <3> QED
      BY <3>4, <3>6, <3>8 DEF SameEvents
  <2> QED
    BY <2>1, <2>2
<1>3. ASSUME NEW g \in Answered' PROVE report'[g].result = report'[g].doubled
  <2> DEFINE first == IF owned THEN Result(feedback, e) ELSE "not found"
             second == IF owned THEN Result(double, e) ELSE "not found"
  <2>1. report' = [report EXCEPT ![f] =
            [call EXCEPT !.sent = @ + 1, !.result = first, !.doubled = second]]
    BY DEF RecordFeedback
  <2>2. first = second
    BY SameResult DEF DoubleInv
  <2> HIDE DEF first, second
  <2>3. PICK done : done =
            [call EXCEPT !.sent = @ + 1, !.result = first, !.doubled = second]
    OBVIOUS
  <2>4. done.result = first /\ done.doubled = second
    BY <2>3 DEF CallSet
  <2>5. report'[f] = done /\ \A h \in Reports \ {f} : report'[h] = report[h]
    BY <2>1, <2>3
  <2>6. g \in Reports /\ (g # f => g \in Answered)
    BY <2>5 DEF Answered
  <2> QED
    BY <2>2, <2>4, <2>5, <2>6 DEF DoubleInv
<1> QED
  BY <1>2, <1>3 DEF DoubleInv

(* Every step keeps the two together.                                      *)
LEMMA NextDouble == IInv /\ DoubleInv /\ [Next]_vars => DoubleInv'
<1> SUFFICES ASSUME IInv, DoubleInv, [Next]_vars PROVE DoubleInv'
  OBVIOUS
<1>0. report \in [Reports -> CallSet]
  BY DEF IInv, FeedbackInv
<1>1. CASE UNCHANGED <<feedback, double, report>>
  BY <1>1 DEF DoubleInv, SameEvents, Answered
<1>2. ASSUME NEW f \in Reports, SendReport(f)
      PROVE  DoubleInv'
  <2>1. PICK c \in Calls :
           RecordFeedback(f, [report[f] EXCEPT !.user = c.user, !.msg = c.msg, !.key = c.key])
    BY <1>2 DEF SendReport
  <2>2. PICK call : call = [report[f] EXCEPT !.user = c.user, !.msg = c.msg, !.key = c.key]
    OBVIOUS
  <2>3. c.user \in Users /\ c.msg \in Messages /\ c.key \in CallKeys
    BY CallsAssumption DEF CallKeys
  <2>4. call = [user |-> c.user, msg |-> c.msg, key |-> c.key,
                sent |-> report[f].sent, result |-> report[f].result,
                doubled |-> report[f].doubled]
    BY <1>0, <2>2 DEF CallSet
  <2>5. /\ report[f].sent \in 0..MaxCalls
        /\ report[f].result \in Results \cup {None}
        /\ report[f].doubled \in Results \cup {None}
    BY <1>0 DEF CallSet
  <2>6. call \in CallSet
    BY <2>3, <2>4, <2>5, Zenon DEF CallSet
  <2> QED
    BY <1>0, <2>1, <2>2, <2>6, RecordDouble
<1>3. ASSUME NEW f \in Reports, RepeatReport(f)
      PROVE  DoubleInv'
  BY <1>0, <1>3, RecordDouble DEF RepeatReport
<1> QED
  BY <1>1, <1>2, <1>3
     DEF Next, vars, events, CreateConversation, BeginInsert, EndInsert, StartWalk,
         NextPage, PageRefused

-----------------------------------------------------------------------------
(* The rows of a conversation in the order they arrived.                   *)

(* They are finitely many of the indices of messages.                      *)
LEMMA MemoryRowsFinite ==
    ASSUME StoreInv, NEW u, NEW c
    PROVE  /\ MemoryRows(u, c) \subseteq 1..Len(messages) /\ Len(messages) \in Nat
           /\ IsFiniteSet(MemoryRows(u, c))
           /\ \A i \in MemoryRows(u, c) :
                 messages[i] \in Rowset /\ messages[i] \in Rows(c) /\ Owner[c] = u
<1>1. messages \in Seq(Rowset) /\ DOMAIN messages = 1..Len(messages)
      /\ Len(messages) \in Nat
  BY DEF StoreInv
<1>2. MemoryRows(u, c) \subseteq 1..Len(messages)
  BY <1>1 DEF MemoryRows
<1>3. \A i \in MemoryRows(u, c) :
         messages[i] \in Rowset /\ messages[i] \in Rows(c) /\ Owner[c] = u
  BY <1>1, <1>2 DEF MemoryRows, Rows, rows, Range
<1>4. IsFiniteSet(MemoryRows(u, c))
  <2>1. IsFiniteSet(1..Len(messages))
    BY <1>1, FS_Interval
  <2> QED
    BY <1>2, <2>1, FS_Subset
<1> QED
  BY <1>1, <1>2, <1>3, <1>4

(* A row that has one of them has an index there.                          *)
LEMMA MemoryRowOf ==
    ASSUME StoreInv, NEW c, NEW r \in Rows(c)
    PROVE  \E i \in MemoryRows(Owner[c], c) : messages[i] = r
  BY DEF Rows, rows, Range, MemoryRows

(* While rows arrive in their order, a row has the same number in both.    *)
LEMMA OrderlyIndex ==
    ASSUME StoreInv, Orderly, NEW u, NEW c, NEW i \in MemoryRows(u, c)
    PROVE  MemoryIndex(u, c, i) = Position(messages[i])
<1> DEFINE S == {j \in MemoryRows(u, c) : j < i}
           T == {q \in Rows(messages[i].conv) : Before(q, messages[i])}
           g == [j \in S |-> messages[j]]
<1>0. /\ MemoryRows(u, c) \subseteq 1..Len(messages) /\ Len(messages) \in Nat
      /\ IsFiniteSet(MemoryRows(u, c)) /\ Owner[c] = u
      /\ messages[i].conv = c /\ DOMAIN messages = 1..Len(messages)
  BY MemoryRowsFinite DEF Rows, StoreInv
<1>1. IsFiniteSet(S)
  BY <1>0, FS_Subset
<1>2. ASSUME NEW j \in MemoryRows(u, c)
      PROVE  j < i <=> Before(messages[j], messages[i])
  <2>1. /\ messages[i].at \in Nat /\ messages[i].id \in Nat
        /\ messages[j].at \in Nat /\ messages[j].id \in Nat
    BY MemoryRowsFinite, MessagesAssumption DEF Rowset
  <2>2. i \in DOMAIN messages /\ j \in DOMAIN messages /\ i \in Nat /\ j \in Nat
    BY <1>0
  <2>3. j < i => Before(messages[j], messages[i])
    BY <2>2 DEF Orderly
  <2>4. i < j => Before(messages[i], messages[j])
    BY <2>2 DEF Orderly
  <2>5. Before(messages[i], messages[j]) => ~Before(messages[j], messages[i])
    BY <2>1 DEF Before
  <2>6. i = j => ~Before(messages[j], messages[i])
    BY <2>1 DEF Before
  <2> QED
    BY <2>2, <2>3, <2>4, <2>5, <2>6
<1>3. g \in [S -> T]
  <2> SUFFICES ASSUME NEW j \in S PROVE messages[j] \in T
    OBVIOUS
  <2> QED
    BY <1>0, <1>2, MemoryRowsFinite
<1>4. \A j, k \in S : g[j] = g[k] => j = k
  BY <1>0 DEF StoreInv
<1>5. \A q \in T : \E j \in S : g[j] = q
  BY <1>0, <1>2, MemoryRowOf
<1>6. g \in Bijection(S, T)
  <2> HIDE DEF S, T, g
  <2> QED
    BY <1>3, <1>4, <1>5 DEF Bijection, Injection, Surjection, IsInjective
<1>7. Cardinality(T) = Cardinality(S)
  <2> HIDE DEF S, T, g
  <2>1. ExistsBijection(S, T)
    BY <1>6 DEF ExistsBijection
  <2> QED
    BY <1>1, <2>1, FS_Bijection
<1> QED
  BY <1>7 DEF MemoryIndex, Position

(* More than n rows are left exactly when one has n rows before it.        *)
LEMMA RowsLeft ==
    ASSUME StoreInv, NEW u, NEW c, NEW n \in Nat
    PROVE  n < Cardinality(MemoryRows(u, c)) <=>
              \E i \in MemoryRows(u, c) : MemoryIndex(u, c, i) >= n
<1> DEFINE mine == MemoryRows(u, c)
           U == {Len(messages) - i : i \in mine}
           R == OpToRel(<, Nat)
<1>0. /\ mine \subseteq 1..Len(messages) /\ Len(messages) \in Nat
      /\ IsFiniteSet(mine) /\ Cardinality(mine) \in Nat
  BY MemoryRowsFinite, FS_CardinalityType
<1>1. ASSUME NEW i \in mine
      PROVE  /\ IsFiniteSet({j \in mine : j < i})
             /\ Cardinality({j \in mine : j < i}) \in Nat
             /\ Cardinality({j \in mine : j < i} \cup {i}) =
                   Cardinality({j \in mine : j < i}) + 1
             /\ Cardinality({j \in mine : j < i} \cup {i}) <= Cardinality(mine)
             /\ MemoryIndex(u, c, i) = Cardinality({j \in mine : j < i})
  <2> DEFINE S == {j \in mine : j < i}
  <2>1. IsFiniteSet(S) /\ i \notin S /\ S \cup {i} \subseteq mine
    BY <1>0, FS_Subset
  <2>2. MemoryIndex(u, c, i) = Cardinality(S)
    BY DEF MemoryIndex
  <2> HIDE DEF S, mine
  <2>3. Cardinality(S \cup {i}) = Cardinality(S) + 1 /\ Cardinality(S) \in Nat
    BY <2>1, FS_AddElement, FS_CardinalityType
  <2>4. Cardinality(S \cup {i}) <= Cardinality(mine)
    BY <1>0, <2>1, FS_Subset
  <2> QED
    BY <2>1, <2>2, <2>3, <2>4 DEF S
<1>2. ASSUME NEW i \in mine, MemoryIndex(u, c, i) >= n
      PROVE  n < Cardinality(mine)
  <2>1. /\ MemoryIndex(u, c, i) \in Nat
        /\ MemoryIndex(u, c, i) + 1 <= Cardinality(mine)
    BY <1>1
  <2> HIDE DEF mine
  <2> QED
    BY <1>0, <1>2, <2>1
<1>3. ASSUME n < Cardinality(mine)
      PROVE  \E i \in mine : MemoryIndex(u, c, i) >= n
  <2>1. mine # {}
    BY <1>3, FS_EmptySet
  <2>2. U \subseteq Nat /\ U # {}
    <3>1. \A i \in mine : Len(messages) - i \in Nat
      BY <1>0
    <3> QED
      BY <2>1, <3>1
  <2>3. PICK v \in U : \A w \in U : ~(<<w, v>> \in R)
    <3> HIDE DEF U, R
    <3>1. IsWellFoundedOn(R, Nat)
      BY NatLessThanWellFounded DEF R
    <3> QED
      BY <2>2, <3>1, WFMin
  <2>4. \A w \in U : v <= w
    <3>1. \A w \in U : ~(w < v)
      BY <2>2, <2>3, Zenon DEF OpToRel
    <3> HIDE DEF U
    <3> QED
      BY <2>2, <3>1
  <2>5. PICK i \in mine : v = Len(messages) - i
    BY <2>3
  <2>6. \A j \in mine : j # i => j < i
    <3> SUFFICES ASSUME NEW j \in mine, j # i PROVE j < i
      OBVIOUS
    <3>1. Len(messages) - j \in U
      OBVIOUS
    <3>2. Len(messages) - i <= Len(messages) - j /\ i \in Nat /\ j \in Nat
      BY <1>0, <2>4, <2>5, <3>1
    <3> QED
      BY <1>0, <3>2
  <2>7. {j \in mine : j < i} \cup {i} = mine
    BY <1>0, <2>6
  <2>8. Cardinality(mine) = MemoryIndex(u, c, i) + 1
    BY <1>1, <2>5, <2>7
  <2>9. MemoryIndex(u, c, i) \in Nat
    BY <1>1
  <2> HIDE DEF mine
  <2> QED
    BY <1>3, <2>8, <2>9
<1> QED
  BY <1>2, <1>3

(* A page and its token are the same while rows arrive in their order and  *)
(* the page is not cut.                                                    *)
LEMMA PagesAgree ==
    ASSUME StoreInv, Orderly, NEW u, NEW c, NEW offset \in Nat,
           NEW size \in PageSizes, IfSet(size, DefaultPage) <= MaxPage
    PROVE  /\ Page(u, c, size, offset) = MemoryPage(u, c, size, offset)
           /\ NextToken(u, c, size, offset) = MemoryToken(u, c, size, offset)
<1>1. Limit(size) = MemoryLimit(size) /\ Limit(size) \in Nat
  BY PagesAssumption DEF Limit, MemoryLimit, Min2, Max2, IfSet
<1> DEFINE n == Limit(size)
           mine == MemoryRows(u, c)
<1>2. \A i \in mine : MemoryIndex(u, c, i) = Position(messages[i])
  BY OrderlyIndex
<1>3. \A i \in mine : messages[i] \in Rows(c) /\ Owner[c] = u
  BY MemoryRowsFinite
<1>4. Owner[c] = u => \A r \in Rows(c) : \E i \in mine : messages[i] = r
  BY MemoryRowOf
<1>5. Page(u, c, size, offset) = MemoryPage(u, c, size, offset)
  <2>1. \A i \in mine :
           MemoryIndex(u, c, i) >= offset /\ MemoryIndex(u, c, i) < offset + n =>
              messages[i] \in Page(u, c, size, offset)
    BY <1>2, <1>3 DEF Page
  <2>2. \A r \in Page(u, c, size, offset) :
           \E i \in mine : /\ messages[i] = r
                           /\ MemoryIndex(u, c, i) >= offset
                           /\ MemoryIndex(u, c, i) < offset + n
    BY <1>2, <1>4 DEF Page
  <2>3. MemoryPage(u, c, size, offset) =
           {messages[i] : i \in {j \in mine :
               /\ MemoryIndex(u, c, j) >= offset
               /\ MemoryIndex(u, c, j) < offset + n}}
    BY <1>1 DEF MemoryPage
  <2> HIDE DEF mine, n
  <2> QED
    BY <2>1, <2>2, <2>3
<1>6. (\E r \in Rows(c) : Owner[c] = u /\ Position(r) >= offset + n) <=>
         offset + n < Cardinality(mine)
  <2>1. offset + n \in Nat
    BY <1>1
  <2>2. offset + n < Cardinality(mine) <=>
           \E i \in mine : MemoryIndex(u, c, i) >= offset + n
    BY <2>1, RowsLeft
  <2> HIDE DEF mine, n
  <2> QED
    BY <1>2, <1>3, <1>4, <2>2
<1> QED
  BY <1>1, <1>5, <1>6 DEF NextToken, MemoryToken

(* What the in-memory repository of the tests shows (get_messages,         *)
(* record_feedback) holds of PostgreSQL: pages and tokens agree while rows *)
(* arrive in their order and pages are small enough, reports and their     *)
(* events always.                                                          *)
THEOREM DoubleAgreesHolds == Spec => []DoubleAgrees
<1>1. Init => DoubleInv
  BY DEF Init, DoubleInv, SameEvents, Answered, Unsent
<1>2. IInv /\ DoubleInv => DoubleAgrees
  <2> SUFFICES ASSUME IInv, DoubleInv PROVE DoubleAgrees
    OBVIOUS
  <2>1. StoreInv /\ Len(messages) \in Nat
    BY DEF IInv, StoreInv
  <2>2. Orderly =>
          \A u \in Users, c \in created, offset \in 0..Len(messages),
             size \in {n \in PageSizes : IfSet(n, DefaultPage) <= MaxPage} :
                /\ Page(u, c, size, offset) = MemoryPage(u, c, size, offset)
                /\ NextToken(u, c, size, offset) = MemoryToken(u, c, size, offset)
    BY <2>1, PagesAgree
  <2>3. ASSUME NEW e \in feedback
        PROVE  Cardinality(SameKey(double, e)) = 1
    <3>1. PICK d \in double : d.msg = e.msg /\ d.key = e.key
      BY DEF DoubleInv, SameEvents
    <3>2. SameKey(double, e) = {d}
      BY <3>1 DEF DoubleInv, SameEvents, SameKey
    <3> QED
      BY <3>2, FS_Singleton
  <2> QED
    BY <2>2, <2>3 DEF DoubleAgrees, DoubleInv
<1> QED
  BY <1>1, <1>2, InitInv, NextInv, NextDouble, PTL DEF Spec

=============================================================================
