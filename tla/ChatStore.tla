------------------------------ MODULE ChatStore ------------------------------
(***************************************************************************)
(* The chatbot's PostgreSQL store as the service sees it, one statement at *)
(* a time: storage/postgres_repository.py over the tables of               *)
(* migrations/001_create_chatbot_storage.sql.                              *)
(*                                                                         *)
(* A conversation is named by the ask whose uuid4() created it, a message  *)
(* by its ask and role (the repository wrapper draws the id before the     *)
(* first attempt, so every retry of one append carries the same id).       *)
(* Contents, metadata and timestamps are left out; `convs' and `msgs' keep *)
(* the order of creation, which is what the created_at columns are for.    *)
(***************************************************************************)
EXTENDS Naturals, Sequences, Functions

CONSTANTS
    Asks,      \* the AskChatbot calls that may persist a turn
    Faults     \* what a database call may do wrong: a subset of FaultKinds

VARIABLES
    convs,     \* chatbot_conversations, in creation order
    msgs,      \* chatbot_messages, in creation order
    traces     \* chatbot_retrieval_traces: rows held for each ask

store == <<convs, msgs, traces>>

(* "lost": the call raises and changed nothing.  "acklost": the statement  *)
(* committed and the connection dropped before its reply.                  *)
FaultKinds == {"lost", "acklost"}

ASSUME FaultsAssumption == Faults \subseteq FaultKinds

(* The four writes of a turn, in the order _persist_if_configured makes    *)
(* them.                                                                   *)
Turn == <<"create", "user", "assistant", "trace">>
Kinds == Range(Turn)

Ops == [kind : Kinds, ask : Asks, conv : Asks]
Op(k, a, c) == [kind |-> k, ask |-> a, conv |-> c]

Messages == [kind : {"user", "assistant"}, ask : Asks, conv : Asks]

StoreTypeOK ==
    /\ convs \in Seq(Asks)
    /\ msgs \in Seq(Messages)
    /\ traces \in [Asks -> Nat]

StoreInit ==
    /\ convs = <<>>
    /\ msgs = <<>>
    /\ traces = [a \in Asks |-> 0]

HasConv(c) == c \in Range(convs)
HasMessage(k, a) == \E m \in Range(msgs) : m.kind = k /\ m.ask = a

(* Whether the rows an operation writes are in the database.               *)
Stored(op) ==
    CASE op.kind = "create" -> HasConv(op.conv)
      [] op.kind = "trace"  -> traces[op.ask] > 0
      [] OTHER              -> HasMessage(op.kind, op.ask)

(* The constraints of 001_create_chatbot_storage.sql an INSERT meets:      *)
(* primary keys, and the foreign keys message -> conversation and          *)
(* trace -> message.  A trace draws its own key, so it may be repeated.    *)
Accepts(op) ==
    CASE op.kind = "create" -> ~HasConv(op.conv)
      [] op.kind = "trace"  -> HasMessage("assistant", op.ask)
      [] OTHER              -> HasConv(op.conv) /\ ~HasMessage(op.kind, op.ask)

Insert(op) ==
    /\ convs' = IF op.kind = "create" THEN Append(convs, op.conv) ELSE convs
    /\ msgs' = IF op.kind \in {"user", "assistant"} THEN Append(msgs, op) ELSE msgs
    /\ traces' = IF op.kind = "trace" THEN [traces EXCEPT ![op.ask] = @ + 1]
                                      ELSE traces

(* A write in progress: the operation, which attempt this is, and the      *)
(* statement the next reply is for.  create_or_get_conversation SELECTs    *)
(* the conversation and INSERTs it only if there is none; the other writes *)
(* are one INSERT.                                                         *)
Job(op, n) == [op |-> op, attempt |-> n,
               stmt |-> IF op.kind = "create" THEN "select" ELSE "insert"]

(* One statement of job j and the reply its caller resumes with: "ok", an  *)
(* exception, or "missing" from a SELECT that found no conversation.       *)
(* `fault' tells whether the exception is the connection's doing.          *)
Reply(j, result, fault) ==
    \/ /\ j.stmt = "select" /\ ~fault
       /\ result = IF HasConv(j.op.conv) THEN "ok" ELSE "missing"
       /\ UNCHANGED store
    \/ /\ j.stmt = "insert" /\ ~fault /\ Accepts(j.op)
       /\ result = "ok"
       /\ Insert(j.op)
    \/ /\ j.stmt = "insert" /\ ~fault /\ ~Accepts(j.op)
       /\ result = "error"
       /\ UNCHANGED store
    \/ /\ fault /\ "lost" \in Faults
       /\ result = "error"
       /\ UNCHANGED store
    \/ /\ fault /\ "acklost" \in Faults /\ j.stmt = "insert" /\ Accepts(j.op)
       /\ result = "error"
       /\ Insert(j.op)

(* get_latest_conversation_id_for_user: the newest conversation, if any.   *)
Latest(none) == IF convs = <<>> THEN none ELSE convs[Len(convs)]

=============================================================================
