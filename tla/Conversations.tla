---------------------------- MODULE Conversations ----------------------------
(***************************************************************************)
(* Reading conversations page by page and recording feedback, against the  *)
(* tables of PostgreSQL while messages are stored: get_messages and        *)
(* record_feedback of storage/postgres_repository.py behind the handlers   *)
(* GetConversation and RecordChatbotFeedback of grpc_service.py, with the  *)
(* in-memory repository of the tests, which keeps messages as they arrive. *)
(*                                                                         *)
(* created_at is now(), the time a transaction begins: of two connections  *)
(* that insert at once, the one that began first may commit last.  One     *)
(* process inserts over one connection unless its queue is full; several   *)
(* processes are several writers.                                          *)
(***************************************************************************)
EXTENDS Naturals, Sequences, FiniteSets, FiniteSetsExt, Functions

CONSTANTS
    Messages,       \* ids of the messages stored: random UUIDs, ordered
    Writers,        \* how many INSERTs may be under way at once
    Convs,          \* conversations, the later created the greater
    Owner,          \* whose they are
    Readers,        \* clients walking a conversation page by page
    Users,
    PageSizes,      \* page_size in their requests; 0 stands for the default
    DefaultPage,    \* 50
    MaxPage,        \* 100
    Reports,        \* RecordChatbotFeedback calls, repeated until answered
    Calls,          \* what they say: whose they are, message, idempotency key
    MaxCalls,       \* bound: how often a report is sent
    None

ASSUME MessagesAssumption ==
    /\ Messages \subseteq Nat /\ IsFiniteSet(Messages) /\ None \notin Nat
    /\ Writers \in Nat \ {0}
ASSUME ConvsAssumption ==
    Convs \subseteq Nat /\ Owner \in [Convs -> Users]
ASSUME CallsAssumption ==
    /\ \A c \in Calls : c.user \in Users /\ c.msg \in Messages
    /\ MaxCalls \in Nat \ {0}
ASSUME PagesAssumption ==
    DefaultPage \in Nat \ {0} /\ MaxPage \in Nat \ {0} /\ PageSizes \subseteq Nat

VARIABLES
    clock,     \* now() of the next transaction
    created,   \* conversations that exist
    inserts,   \* INSERTs begun: the time and the conversation, or None
    messages,  \* chatbot_messages as they arrived: [id, conv, at]
    walk,      \* each reader's GetConversation calls
    feedback,  \* chatbot_feedback_events: [msg, key, by], `by' the report
    double,    \* the same in the in-memory repository, which ran every call
    report     \* each RecordChatbotFeedback call

vars == <<clock, created, inserts, messages, walk, feedback, double, report>>

(* ORDER BY created_at, id.                                                *)
Before(q, r) == q.at < r.at \/ (q.at = r.at /\ q.id < r.id)
rows == Range(messages)
Rows(c) == {r \in rows : r.conv = c}
Position(r) == Cardinality({q \in Rows(r.conv) : Before(q, r)})
Max2(m, n) == IF m > n THEN m ELSE n
Min2(m, n) == IF m < n THEN m ELSE n
IfSet(n, default) == IF n = 0 THEN default ELSE n

(* The rows of one page, and the token of the next if a row is left.       *)
Limit(size) == Max2(1, Min2(IfSet(size, DefaultPage), MaxPage))
(* Mutant: the row fetched to know whether one is left is shown too.       *)
PageUntrimmed(user, c, size, offset) ==
    {r \in Rows(c) : /\ Owner[c] = user
                     /\ Position(r) >= offset /\ Position(r) <= offset + Limit(size)}

Page(user, c, size, offset) ==
    {r \in Rows(c) : /\ Owner[c] = user
                     /\ Position(r) >= offset /\ Position(r) < offset + Limit(size)}

(* Mutant: the token is given only if two rows are left.                   *)
NextTokenShort(user, c, size, offset) ==
    IF \E r \in Rows(c) : Owner[c] = user /\ Position(r) > offset + Limit(size)
    THEN offset + Limit(size) ELSE None

NextToken(user, c, size, offset) ==
    IF \E r \in Rows(c) : Owner[c] = user /\ Position(r) >= offset + Limit(size)
    THEN offset + Limit(size) ELSE None

(* The in-memory repository: the order of arrival, no greatest page.       *)
MemoryLimit(size) == Max2(1, IfSet(size, DefaultPage))
MemoryRows(user, c) ==
    {i \in DOMAIN messages : messages[i].conv = c /\ Owner[c] = user}
MemoryIndex(user, c, i) == Cardinality({j \in MemoryRows(user, c) : j < i})
MemoryPage(user, c, size, offset) ==
    {messages[i] : i \in
        {j \in MemoryRows(user, c) :
            /\ MemoryIndex(user, c, j) >= offset
            /\ MemoryIndex(user, c, j) < offset + MemoryLimit(size)}}
MemoryToken(user, c, size, offset) ==
    IF offset + MemoryLimit(size) < Cardinality(MemoryRows(user, c))
    THEN offset + MemoryLimit(size) ELSE None

-----------------------------------------------------------------------------
(* A walk: the caller, the conversation it names or is told, the page size *)
(* it keeps, the token of its next call, how often it was shown each       *)
(* message, and, for properties, the rows stored when it began.            *)
Idle == [pc |-> "idle", user |-> None, conv |-> None, size |-> 0, token |-> 0,
         shown |-> [m \in Messages |-> 0], floor |-> {}]
Unsent == [user |-> None, msg |-> None, key |-> None,
           sent |-> 0, result |-> None, doubled |-> None]

Init ==
    /\ clock = 0 /\ created = {} /\ messages = <<>>
    /\ inserts = [m \in Messages |-> None]
    /\ walk = [r \in Readers |-> Idle]
    /\ feedback = {} /\ double = {}
    /\ report = [f \in Reports |-> Unsent]

store == <<clock, created, inserts, messages>>
events == <<feedback, double, report>>

CreateConversation ==
    /\ \E c \in Convs : /\ c \notin created
                        /\ \A d \in Convs : d < c => d \in created
                        /\ created' = created \cup {c}
    /\ UNCHANGED <<clock, inserts, messages, walk, events>>

(* Mutant: the primary key does not stop an INSERT that is repeated.       *)
BeginInsertAgain(m) ==
    /\ inserts[m] = None
    /\ Cardinality({n \in Messages : inserts[n] # None}) < Writers
    /\ \E c \in created :
          inserts' = [inserts EXCEPT ![m] = [id |-> m, conv |-> c, at |-> clock]]
    /\ UNCHANGED <<clock, created, messages, walk, events>>

(* append_message: the statement begins, and commits or fails.  Time moves *)
(* on with a commit; of statements begun between two, the ids decide, so   *)
(* that they come in either order.                                         *)
BeginInsert(m) ==
    /\ inserts[m] = None /\ \A r \in rows : r.id # m
    /\ Cardinality({n \in Messages : inserts[n] # None}) < Writers
    /\ \E c \in created :
          inserts' = [inserts EXCEPT ![m] = [id |-> m, conv |-> c, at |-> clock]]
    /\ UNCHANGED <<clock, created, messages, walk, events>>

EndInsert(m) ==
    /\ inserts[m] # None
    /\ \/ UNCHANGED <<clock, messages>>
       \/ /\ messages' = Append(messages, inserts[m])
          /\ clock' = clock + 1
    /\ inserts' = [inserts EXCEPT ![m] = None]
    /\ UNCHANGED <<created, walk, events>>

-----------------------------------------------------------------------------
(* GetConversation without a conversation takes the user's latest.         *)
Latest(user) ==
    {c \in created : /\ Owner[c] = user
                     /\ \A d \in created : Owner[d] = user => d <= c}

StartWalk(r) ==
    /\ walk[r].pc = "idle"
    /\ \E u \in Users, size \in PageSizes, named \in BOOLEAN :
          \/ \E c \in IF named THEN created ELSE Latest(u) :
                walk' = [walk EXCEPT ![r] =
                    [@ EXCEPT !.pc = "walking", !.user = u, !.conv = c,
                              !.size = size, !.floor = Rows(c)]]
          \/ /\ ~named /\ Latest(u) = {}
             /\ walk' = [walk EXCEPT ![r] = [@ EXCEPT !.pc = "done", !.user = u]]
    /\ UNCHANGED <<store, events>>

(* get_messages with the token of the last reply; the client goes on with  *)
(* the conversation_id it was given.                                       *)
NextPage(r) ==
    LET w == walk[r]
        page == Page(w.user, w.conv, w.size, w.token)
        token == NextToken(w.user, w.conv, w.size, w.token)
    IN  /\ w.pc = "walking"
        /\ walk' = [walk EXCEPT ![r] =
              [w EXCEPT !.pc = IF token = None THEN "done" ELSE "walking",
                        !.token = IF token = None THEN 0 ELSE token,
                        !.size = IF token = None THEN 0 ELSE w.size,
                        !.shown = [m \in Messages |->
                            w.shown[m] + Cardinality({q \in page : q.id = m})]]]
        /\ UNCHANGED <<store, events>>

(* asyncpg hands JSONB over as text unless it is told otherwise, and       *)
(* conversation_message_to_proto makes a dict of it: ValueError, answered  *)
(* with INVALID_ARGUMENT.                                                  *)
PageRefused(r) ==
    LET w == walk[r]
    IN  /\ w.pc = "walking"
        /\ Page(w.user, w.conv, w.size, w.token) # {}
        /\ walk' = [walk EXCEPT ![r] = [Idle EXCEPT !.pc = "refused"]]
        /\ UNCHANGED <<store, events>>

-----------------------------------------------------------------------------
(* The event a call of report f stores.                                    *)
Event(f, call) == [msg |-> call.msg, key |-> call.key, by |-> f]
SameKey(table, e) == {d \in table : d.msg = e.msg /\ d.key = e.key}
Owned(call) == \E r \in rows : r.id = call.msg /\ Owner[r.conv] = call.user

(* Mutant: a repeated key stores its event again.                          *)
UpsertTwice(table, e) == table \cup {e}

(* The in-memory repository keeps the event's id and takes the last        *)
(* metadata: the same keys, the last report.                               *)
Overwrite(table, e) == (table \ SameKey(table, e)) \cup {e}

(* ON CONFLICT (message_id, idempotency_key): the first event stays.       *)
Upsert(table, e) == IF SameKey(table, e) = {} THEN table \cup {e} ELSE table

Result(table, e) == IF SameKey(table, e) = {} THEN "fresh" ELSE "duplicate"

(* record_feedback, called by report f.                                    *)
RecordFeedback(f, call) ==
    LET e == Event(f, call)
        owned == Owned(call)
    IN  /\ feedback' = IF owned THEN Upsert(feedback, e) ELSE feedback
        /\ double' = IF owned THEN Overwrite(double, e) ELSE double
        /\ report' = [report EXCEPT ![f] =
              [call EXCEPT !.sent = @ + 1,
                           !.result = IF owned THEN Result(feedback, e) ELSE "not found",
                           !.doubled = IF owned THEN Result(double, e) ELSE "not found"]]

(* Answers name their message, stored by then or not.                      *)
Known == {m \in Messages : inserts[m] # None \/ \E r \in rows : r.id = m}

SendReport(f) ==
    /\ report[f].sent = 0
    /\ \E c \in Calls :
          /\ c.msg \in Known
          /\ RecordFeedback(f, [report[f] EXCEPT !.user = c.user, !.msg = c.msg,
                                                !.key = c.key])
    /\ UNCHANGED <<store, walk>>

(* Its reply was lost or late: the client sends it again, with its key.    *)
RepeatReport(f) ==
    /\ report[f].sent > 0 /\ report[f].sent < MaxCalls
    /\ RecordFeedback(f, report[f])
    /\ UNCHANGED <<store, walk>>

Next ==
    \/ CreateConversation
    \/ \E m \in Messages : BeginInsert(m) \/ EndInsert(m)
    \/ \E r \in Readers : StartWalk(r) \/ NextPage(r) \/ PageRefused(r)
    \/ \E f \in Reports : SendReport(f) \/ RepeatReport(f)

Spec == Init /\ [][Next]_vars

-----------------------------------------------------------------------------
Answered == {f \in Reports : report[f].sent > 0}

TypeOK ==
    /\ clock = Len(messages)
    /\ created \subseteq Convs
    /\ \A r \in rows : r.id \in Messages /\ r.conv \in created /\ r.at <= clock
    /\ \A i, j \in DOMAIN messages : messages[i].id = messages[j].id => i = j
    /\ Cardinality({m \in Messages : inserts[m] # None}) <= Writers
    /\ \A r \in Readers :
          /\ walk[r].pc \in {"idle", "walking", "done", "refused"}
          /\ walk[r].pc = "walking" => walk[r].conv \in created /\ walk[r].user \in Users
    /\ \A f \in Reports :
          /\ report[f].sent \in 0..MaxCalls
          /\ f \in Answered => report[f].result \in {"fresh", "duplicate", "not found"}

(* A reader who follows the tokens to the end has seen every message the   *)
(* conversation had when it began, whatever was stored meanwhile, if the   *)
(* conversation is the reader's own; of another's it sees nothing.         *)
PagesComplete ==
    \A r \in Readers :
        LET w == walk[r]
        IN  /\ \A m \in Messages : w.shown[m] > 0 =>
                  \E q \in Rows(w.conv) : q.id = m /\ Owner[w.conv] = w.user
            /\ w.pc = "done" /\ w.conv # None =>
                  \A q \in w.floor : Owner[w.conv] = w.user => w.shown[q.id] > 0

(* It sees a message twice only if one that belongs before it was stored   *)
(* after the walk began: with one writer the pages partition.              *)
RepeatsOnlyForLateRows ==
    \A r \in Readers : \A q \in rows : walk[r].shown[q.id] > 1 =>
        \E late \in Rows(q.conv) \ walk[r].floor : Before(late, q)

(* However often reports are repeated, and whoever sends them, a message   *)
(* has one event for a key, of its owner.  A report that was told it is    *)
(* the first finds its own event stored, a duplicate one with its key.     *)
FeedbackOnce ==
    /\ \A d, e \in feedback : d.msg = e.msg /\ d.key = e.key => d = e
    /\ \A e \in feedback : \E r \in rows :
          r.id = e.msg /\ Owner[r.conv] = report[e.by].user
    /\ \A f \in Answered :
          /\ report[f].result = "fresh" => Event(f, report[f]) \in feedback
          /\ report[f].result = "duplicate" => SameKey(feedback, Event(f, report[f])) # {}

(* An event stored is never changed.                                       *)
FeedbackStays == [][feedback \subseteq feedback']_vars

(* What the in-memory repository shows of paging and feedback holds of     *)
(* PostgreSQL while rows arrive in their order and pages are small enough. *)
Orderly == \A i, j \in DOMAIN messages : i < j => Before(messages[i], messages[j])
DoubleAgrees ==
    /\ Orderly =>
          \A u \in Users, c \in created, offset \in 0..Len(messages),
             size \in {n \in PageSizes : IfSet(n, DefaultPage) <= MaxPage} :
                /\ Page(u, c, size, offset) = MemoryPage(u, c, size, offset)
                /\ NextToken(u, c, size, offset) = MemoryToken(u, c, size, offset)
    /\ \A f \in Answered : report[f].result = report[f].doubled
    /\ \A e \in feedback : Cardinality(SameKey(double, e)) = 1

=============================================================================
