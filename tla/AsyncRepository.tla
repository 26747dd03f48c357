--------------------------- MODULE AsyncRepository ---------------------------
(***************************************************************************)
(* Conversation persistence as one chatbot process runs it: AskChatbot,    *)
(* GetConversation and RecordChatbotFeedback handlers sharing an           *)
(* AsyncConversationRepository (storage/async_repository.py), its queue,   *)
(* its worker task and the database behind it.                             *)
(*                                                                         *)
(* The handlers and the worker are asyncio tasks of one event loop: code   *)
(* between two suspensions is atomic.  put_nowait does not suspend, so a   *)
(* handler that persists a turn keeps the loop (`running') from its first  *)
(* enqueue until it returns or meets a full queue.  A database statement   *)
(* and the resumption of the task that awaits its reply are one step;      *)
(* everything else may happen before it.                                   *)
(*                                                                         *)
(* One user in one screen context: conversations are looked up by owner    *)
(* and screen context everywhere, so other users only share the queue.     *)
(***************************************************************************)
EXTENDS ChatStore, FiniteSets

CONSTANTS
    Readers,        \* GetConversation / RecordChatbotFeedback calls
    QueueMaxSize,   \* queue_max_size
    RetryAttempts,  \* retry_attempts
    MaxStarts,      \* bound: processes started one after another
    None            \* Python's None

ASSUME SizesAssumption ==
    /\ QueueMaxSize \in Nat \ {0}
    /\ RetryAttempts \in Nat \ {0}
    /\ MaxStarts \in Nat \ {0}

(* The writes that may be in progress.                                     *)
Jobs == {j \in [op : Ops, attempt : 1..RetryAttempts, stmt : {"select", "insert"}] :
            j.stmt = "select" => j.op.kind = "create"}

ASSUME NamesAssumption ==
    /\ None \notin Asks \cup Ops \cup Jobs
    /\ Asks \cap Readers = {}

VARIABLES
    \* AsyncConversationRepository
    queue,       \* _queue: operations, and None for the close() sentinel
    unfinished,  \* _queue's count of items whose task_done() is outstanding
    worker,      \* _worker_task: "none", "alive" or "done"
    hand,        \* the write the worker is executing, or None
    known,       \* _known_conversations
    \* the handlers and the process
    pc,          \* where each handler is
    conv,        \* request.conversation_id, then the turn's conversation
    next,        \* index in Turn of the next write of each ask
    job,         \* the write an ask executes itself, or None
    running,     \* the task that holds the event loop, or None
    service,     \* life cycle of the process, see server.serve
    starts,      \* processes started so far
    \* history, read by properties only; the dead_letters list of the code
    \* is `overflowed' and `dead' (each entry is also logged)
    overflowed,  \* operations that met a full queue
    dead,        \* operations given up after RetryAttempts attempts
    faulted,     \* operations some attempt of which the database failed
    lost,        \* accepted operations a crash caught in memory
    before       \* for each task, the asks that had returned when it began

memory == <<queue, unfinished, worker, hand, known>>
tasks == <<pc, conv, next, job, running>>
process == <<service, starts>>
history == <<overflowed, dead, faulted, lost, before>>
vars == <<store, memory, tasks, process, history>>

Tasks == Asks \cup Readers
Queued == {op \in Range(queue) : op # None}

(* Where a handler awaits queue.join(), and where it goes from there.      *)
AfterJoin == [wait_latest |-> "latest", wait_history |-> "history",
              wait_find |-> "find", wait_read |-> "read"]
Waits == DOMAIN AfterJoin
Reads == Range(AfterJoin)
Suspended == Waits \cup Reads \cup {"answer", "direct", "fallback"}
Ended == {"done", "failed"}

TypeOK ==
    /\ StoreTypeOK
    /\ queue \in Seq(Ops \cup {None})
    /\ unfinished \in Nat
    /\ worker \in {"none", "alive", "done"}
    /\ hand \in Jobs \cup {None}
    /\ known \subseteq Asks
    /\ pc \in [Tasks -> Suspended \cup Ended \cup {"new", "enqueue"}]
    /\ conv \in [Asks -> Asks \cup {None}]
    /\ next \in [Asks -> 1..4]
    /\ job \in [Asks -> Jobs \cup {None}]
    /\ running \in Asks \cup {None}
    /\ service \in {"up", "stopping", "draining", "sentinel", "closing",
                    "closed", "down"}
    /\ starts \in 1..MaxStarts
    /\ overflowed \subseteq Ops /\ dead \subseteq Ops
    /\ faulted \subseteq Ops /\ lost \subseteq Ops
    /\ before \in [Tasks -> SUBSET Asks]

Init ==
    /\ StoreInit
    /\ queue = <<>> /\ unfinished = 0
    /\ worker = "none" /\ hand = None
    /\ known = {}
    /\ pc = [t \in Tasks |-> "new"]
    /\ conv = [a \in Asks |-> None]
    /\ next = [a \in Asks |-> 1]
    /\ job = [a \in Asks |-> None]
    /\ running = None
    /\ service = "up" /\ starts = 1
    /\ overflowed = {} /\ dead = {} /\ faulted = {} /\ lost = {}
    /\ before = [t \in Tasks |-> {}]

-----------------------------------------------------------------------------
(* The event loop is free for task t, or t holds it.                       *)
MayRun(t) == running \in {t, None}

(* drain(): return at once, or wait until the count of unfinished items    *)
(* reaches 0.                                                              *)
QueueEmpty == worker = "none" \/ queue = <<>>
Drained == worker = "none" \/ unfinished = 0
Drain(t, wait) ==
    pc' = [pc EXCEPT ![t] = IF Drained THEN AfterJoin[wait] ELSE wait]

(* task_done() that reaches 0 releases every task in join(), close() too.  *)
Release ==
    /\ pc' = [t \in Tasks |-> IF unfinished' = 0 /\ pc[t] \in Waits
                              THEN AfterJoin[pc[t]] ELSE pc[t]]
    /\ service' = IF unfinished' = 0 /\ service = "draining"
                  THEN "sentinel" ELSE service

Goto(t, l) == pc' = [pc EXCEPT ![t] = l]

(* _ensure_worker (mutant: it starts none) *)
KeepWorker == worker' = worker
EnsureWorker == worker' = "alive"

-----------------------------------------------------------------------------
(* An ask begins: the client names a conversation an earlier answer told   *)
(* it, or none, and then the newest one is looked up after a drain.        *)
StartAsk(a) ==
    /\ MayRun(a) /\ service = "up"
    /\ pc[a] = "new"
    /\ before' = [before EXCEPT ![a] = {b \in Asks : pc[b] = "done"}]
    /\ \/ /\ conv' = conv
          /\ Drain(a, "wait_latest")
       \/ \E b \in Asks :
             /\ pc[b] = "done"
             /\ conv' = [conv EXCEPT ![a] = conv[b]]
             /\ Drain(a, "wait_history")
    /\ UNCHANGED <<store, memory, next, job, running, process,
                   overflowed, dead, faulted, lost>>

(* The lookup's reply: the newest conversation's history is read next.     *)
(* No conversation, or a lookup that raised, starts a fresh one.           *)
LatestReply(a) ==
    /\ MayRun(a)
    /\ pc[a] = "latest"
    /\ \E c \in {Latest(None)} \cup (IF "lost" \in Faults THEN {None} ELSE {}) :
          /\ conv' = [conv EXCEPT ![a] = c]
          /\ IF c = None THEN Goto(a, "answer") ELSE Drain(a, "wait_history")
    /\ UNCHANGED <<store, memory, next, job, running, process, history>>

(* The history's reply, rows or an exception that is swallowed: the answer *)
(* is composed (recommendation and LLM calls), with no repository call.    *)
HistoryReply(a) ==
    /\ MayRun(a)
    /\ pc[a] = "history"
    /\ Goto(a, "answer")
    /\ UNCHANGED <<store, memory, conv, next, job, running, process, history>>

(* create_or_get_conversation for an id this process does not know: the    *)
(* ask executes it itself, once.                                           *)
VerifyConversation(a) ==
    /\ MayRun(a)
    /\ pc[a] = "answer" /\ conv[a] # None /\ conv[a] \notin known
    /\ Goto(a, "direct")
    /\ job' = [job EXCEPT ![a] = Job(Op("create", a, conv[a]), 1)]
    /\ UNCHANGED <<store, memory, conv, next, running, process, history>>

(* Mutant: a known conversation is not created again.                      *)
NameConversationOnce(a) ==
    /\ MayRun(a)
    /\ pc[a] = "answer" /\ (conv[a] = None \/ conv[a] \in known)
    /\ conv' = [conv EXCEPT ![a] = IF @ = None THEN a ELSE @]
    /\ known' = known \cup {conv'[a]}
    /\ next' = IF conv[a] = None THEN next ELSE [next EXCEPT ![a] = 2]
    /\ Goto(a, "enqueue") /\ running' = a
    /\ UNCHANGED <<store, queue, unfinished, worker, hand, job, process, history>>

(* create_or_get_conversation for no id (uuid4() names the ask's own) or a *)
(* known one: known before it is persisted, and its write enqueued.        *)
NameConversation(a) ==
    /\ MayRun(a)
    /\ pc[a] = "answer" /\ (conv[a] = None \/ conv[a] \in known)
    /\ conv' = [conv EXCEPT ![a] = IF @ = None THEN a ELSE @]
    /\ known' = known \cup {conv'[a]}
    /\ Goto(a, "enqueue") /\ running' = a
    /\ UNCHANGED <<store, queue, unfinished, worker, hand, next, job, process,
                   history>>

NextOp(a) == Op(Turn[next[a]], a, conv[a])

(* Mutant: the handler suspends between two writes.                        *)
ProceedYielding(a) ==
    /\ running' = None
    /\ IF next[a] = 4
       THEN Goto(a, "done") /\ next' = next
       ELSE Goto(a, "enqueue") /\ next' = [next EXCEPT ![a] = @ + 1]

(* The write numbered next[a] is out of the way: on to the following one,  *)
(* in the same event loop turn, or the answer is returned.                 *)
Proceed(a) ==
    IF next[a] = 4
    THEN /\ Goto(a, "done") /\ running' = None /\ next' = next
    ELSE /\ Goto(a, "enqueue") /\ running' = a
         /\ next' = [next EXCEPT ![a] = @ + 1]

(* _enqueue with room in the queue *)
Enqueue(a) ==
    /\ MayRun(a) /\ pc[a] = "enqueue"
    /\ Len(queue) < QueueMaxSize
    /\ queue' = Append(queue, NextOp(a))
    /\ unfinished' = unfinished + 1
    /\ EnsureWorker
    /\ Proceed(a)
    /\ UNCHANGED <<store, hand, known, conv, job, process, history>>

(* Mutant: the write that meets a full queue is noted and dropped.         *)
OverflowDrops(a) ==
    /\ MayRun(a) /\ pc[a] = "enqueue"
    /\ Len(queue) >= QueueMaxSize
    /\ overflowed' = overflowed \cup {NextOp(a)}
    /\ EnsureWorker
    /\ Proceed(a)
    /\ UNCHANGED <<store, queue, unfinished, hand, known, conv, job, process,
                   dead, faulted, lost, before>>

(* _enqueue on QueueFull: noted as a dead letter, executed by the ask.     *)
Overflow(a) ==
    /\ MayRun(a) /\ pc[a] = "enqueue"
    /\ Len(queue) >= QueueMaxSize
    /\ EnsureWorker
    /\ overflowed' = overflowed \cup {NextOp(a)}
    /\ job' = [job EXCEPT ![a] = Job(NextOp(a), 1)]
    /\ Goto(a, "fallback") /\ running' = None
    /\ UNCHANGED <<store, queue, unfinished, hand, known, conv, next, process,
                   dead, faulted, lost, before>>

Blame(j, fault) == faulted' = IF fault THEN faulted \cup {j.op} ELSE faulted
Inserting(j) == [j EXCEPT !.stmt = "insert"]
Retry(j) == Job(j.op, j.attempt + 1)
GivesUpLate(j, result) == result = "error" /\ j.attempt > RetryAttempts
GivesUp(j, result) == result = "error" /\ j.attempt >= RetryAttempts

(* The last attempt's exception is noted as a dead letter.                 *)
DropQuietly(j, result) == dead' = dead
NoteFailure(j, result) ==
    dead' = IF GivesUp(j, result) THEN dead \cup {j.op} ELSE dead

(* The reply an ask in the queue-full fallback gets: _run_with_retry.      *)
FallbackReply(a) ==
    /\ MayRun(a) /\ pc[a] = "fallback"
    /\ \E result \in {"ok", "missing", "error"}, fault \in BOOLEAN :
          /\ Reply(job[a], result, fault)
          /\ Blame(job[a], fault)
          /\ \/ /\ result = "ok" \/ GivesUp(job[a], result)
                /\ job' = [job EXCEPT ![a] = None]
                /\ Proceed(a)
             \/ /\ result = "missing"
                /\ job' = [job EXCEPT ![a] = Inserting(@)]
                /\ UNCHANGED <<pc, running, next>>
             \/ /\ result = "error" /\ ~GivesUp(job[a], result)
                /\ job' = [job EXCEPT ![a] = Retry(@)]
                /\ UNCHANGED <<pc, running, next>>
          /\ NoteFailure(job[a], result)
    /\ UNCHANGED <<memory, conv, process, overflowed, lost, before>>

(* The reply to the unqueued create: an exception ends the ask.            *)
DirectReply(a) ==
    /\ MayRun(a) /\ pc[a] = "direct"
    /\ \E result \in {"ok", "missing", "error"}, fault \in BOOLEAN :
          /\ Reply(job[a], result, fault)
          /\ Blame(job[a], fault)
          /\ \/ /\ result = "ok"
                /\ job' = [job EXCEPT ![a] = None]
                /\ known' = known \cup {conv[a]}
                /\ Proceed(a)
             \/ /\ result = "missing"
                /\ job' = [job EXCEPT ![a] = Inserting(@)]
                /\ UNCHANGED <<known, pc, running, next>>
             \/ /\ result = "error"
                /\ job' = [job EXCEPT ![a] = None]
                /\ Goto(a, "failed")
                /\ UNCHANGED <<known, running, next>>
    /\ UNCHANGED <<queue, unfinished, worker, hand, conv, process, overflowed,
                   dead, lost, before>>

-----------------------------------------------------------------------------
(* The worker, suspended in queue.get(), wakes with an item.               *)
WorkerGet ==
    /\ running = None
    /\ worker = "alive" /\ hand = None
    /\ queue # <<>> /\ Head(queue) # None
    /\ hand' = Job(Head(queue), 1)
    /\ queue' = Tail(queue)
    /\ UNCHANGED <<store, unfinished, worker, known, tasks, process, history>>

(* ... or with the sentinel: task_done() and return.                       *)
WorkerStop ==
    /\ running = None
    /\ worker = "alive" /\ hand = None
    /\ queue # <<>> /\ Head(queue) = None
    /\ queue' = Tail(queue)
    /\ unfinished' = unfinished - 1
    /\ worker' = "done"
    /\ Release
    /\ UNCHANGED <<store, hand, known, conv, next, job, running, starts, history>>

(* Mutant: the worker loops without task_done().                           *)
SettleUncounted ==
    /\ unfinished' = unfinished
    /\ Release
    /\ IF queue # <<>> /\ Head(queue) # None
       THEN hand' = Job(Head(queue), 1) /\ queue' = Tail(queue)
       ELSE hand' = None /\ queue' = queue

(* task_done(), and the next operation without suspending if there is one. *)
Settle ==
    /\ unfinished' = unfinished - 1
    /\ Release
    /\ IF queue # <<>> /\ Head(queue) # None
       THEN /\ hand' = Job(Head(queue), 1)
            /\ queue' = Tail(queue)
       ELSE /\ hand' = None
            /\ queue' = queue

(* The reply to the worker's statement: _run_with_retry, then task_done.   *)
WorkerReply ==
    /\ running = None /\ hand # None
    /\ \E result \in {"ok", "missing", "error"}, fault \in BOOLEAN :
          /\ Reply(hand, result, fault)
          /\ Blame(hand, fault)
          /\ \/ /\ result = "ok" \/ GivesUp(hand, result)
                /\ Settle
             \/ /\ result = "missing"
                /\ hand' = Inserting(hand)
                /\ UNCHANGED <<queue, unfinished, pc, service>>
             \/ /\ result = "error" /\ ~GivesUp(hand, result)
                /\ hand' = Retry(hand)
                /\ UNCHANGED <<queue, unfinished, pc, service>>
          /\ NoteFailure(hand, result)
    /\ UNCHANGED <<worker, known, conv, next, job, running, starts,
                   overflowed, lost, before>>

-----------------------------------------------------------------------------
(* get_messages, get_latest_... and record_feedback called by a handler    *)
(* other than AskChatbot: drain, then one statement.  GetConversation      *)
(* without an id makes two such calls.                                     *)
StartReader(r) ==
    /\ MayRun(r) /\ service = "up"
    /\ pc[r] = "new"
    /\ before' = [before EXCEPT ![r] = {b \in Asks : pc[b] = "done"}]
    /\ \E w \in {"wait_find", "wait_read"} : Drain(r, w)
    /\ UNCHANGED <<store, memory, conv, next, job, running, process,
                   overflowed, dead, faulted, lost>>

(* GetConversation without an id: the newest conversation, if there is one,*)
(* is read next.  An exception ends the call.                              *)
FindReply(r) ==
    /\ MayRun(r)
    /\ pc[r] = "find"
    /\ \/ Latest(None) # None /\ Drain(r, "wait_read")
       \/ Latest(None) = None /\ Goto(r, "done")
       \/ "lost" \in Faults /\ Goto(r, "failed")
    /\ UNCHANGED <<store, memory, conv, next, job, running, process, history>>

ReadReply(r) ==
    /\ MayRun(r)
    /\ pc[r] = "read"
    /\ \/ Goto(r, "done")
       \/ "lost" \in Faults /\ Goto(r, "failed")
    /\ UNCHANGED <<store, memory, conv, next, job, running, process, history>>

(* The client hangs up, its deadline passes, or server.stop's grace ends:  *)
(* the handler is cancelled where it is suspended.  A statement already    *)
(* sent may still commit.                                                  *)
Cancel(t) ==
    /\ running = None /\ service \in {"up", "stopping"}
    /\ pc[t] \notin Ended \cup {"new"}
    /\ Goto(t, "failed")
    /\ \/ UNCHANGED store
       \/ /\ t \in Asks /\ pc[t] \in {"direct", "fallback"}
          /\ job[t].stmt = "insert" /\ Accepts(job[t].op)
          /\ Insert(job[t].op)
    /\ job' = [a \in Asks |-> IF a = t THEN None ELSE job[a]]
    /\ UNCHANGED <<memory, conv, next, running, process, history>>

-----------------------------------------------------------------------------
(* server.serve: on shutdown no call is accepted any more; the ones in     *)
(* progress end or are cancelled, and then close() runs.                   *)
StopServer ==
    /\ running = None /\ service = "up"
    /\ service' = "stopping"
    /\ UNCHANGED <<store, memory, tasks, starts, history>>

(* close(): drain, if there ever was a worker.                             *)
Close ==
    /\ running = None /\ service = "stopping"
    /\ \A t \in Tasks : pc[t] \in Ended \cup {"new"}
    /\ service' = IF worker = "none" THEN "closed"
                  ELSE IF Drained THEN "sentinel" ELSE "draining"
    /\ UNCHANGED <<store, memory, tasks, starts, history>>

(* close(): put(None) and await the worker.                                *)
PutSentinel ==
    /\ running = None /\ service = "sentinel"
    /\ Len(queue) < QueueMaxSize
    /\ queue' = Append(queue, None)
    /\ unfinished' = unfinished + 1
    /\ service' = "closing"
    /\ UNCHANGED <<store, worker, hand, known, tasks, starts, history>>

(* Mutant: close() does not await the worker.                              *)
ClosedEarly ==
    /\ running = None /\ service = "closing"
    /\ worker' = "none"
    /\ service' = "closed"
    /\ UNCHANGED <<store, queue, unfinished, hand, known, tasks, starts, history>>

(* close(): the worker returned; the pool of the inner repository closes.  *)
Closed ==
    /\ running = None /\ service = "closing"
    /\ worker = "done"
    /\ worker' = "none"
    /\ service' = "closed"
    /\ UNCHANGED <<store, queue, unfinished, hand, known, tasks, starts, history>>

Forget ==
    /\ queue' = <<>> /\ unfinished' = 0
    /\ worker' = "none" /\ hand' = None
    /\ known' = {}

(* The process dies, also in the middle of an event loop turn: memory goes *)
(* and the calls in progress fail.  (A statement that had committed is a   *)
(* reply just before.)                                                     *)
Crash ==
    /\ service \notin {"closed", "down"}
    /\ service' = "down"
    /\ lost' = lost \cup Queued \cup (IF hand = None THEN {} ELSE {hand.op})
    /\ pc' = [t \in Tasks |-> IF pc[t] \in Ended \cup {"new"}
                              THEN pc[t] ELSE "failed"]
    /\ job' = [a \in Asks |-> None]
    /\ running' = None
    /\ Forget
    /\ UNCHANGED <<store, conv, next, starts, overflowed, dead, faulted, before>>

(* A new process over the same database.                                   *)
Restart ==
    /\ service \in {"closed", "down"}
    /\ starts < MaxStarts
    /\ starts' = starts + 1
    /\ service' = "up"
    /\ Forget
    /\ UNCHANGED <<store, tasks, history>>

-----------------------------------------------------------------------------
AskStep(a) ==
    \/ StartAsk(a) \/ LatestReply(a) \/ HistoryReply(a)
    \/ VerifyConversation(a) \/ NameConversation(a)
    \/ Enqueue(a) \/ Overflow(a) \/ FallbackReply(a) \/ DirectReply(a)

ReaderStep(r) == StartReader(r) \/ FindReply(r) \/ ReadReply(r)

WorkerStep == WorkerGet \/ WorkerStop \/ WorkerReply

CloseStep == Close \/ PutSentinel \/ Closed

Next ==
    \/ \E a \in Asks : AskStep(a)
    \/ \E r \in Readers : ReaderStep(r)
    \/ WorkerStep
    \/ \E t \in Tasks : Cancel(t)
    \/ StopServer \/ CloseStep
    \/ Crash \/ Restart

Spec == Init /\ [][Next]_vars

(* What the event loop, the database and the handlers' timeouts guarantee: *)
(* whatever can run does.  Calls need not arrive, be cancelled, or the     *)
(* process stop.                                                           *)
Fairness ==
    /\ \A a \in Asks : WF_vars(AskStep(a) /\ ~StartAsk(a))
    /\ \A r \in Readers : WF_vars(FindReply(r) \/ ReadReply(r))
    /\ WF_vars(WorkerStep)
    /\ WF_vars(CloseStep)

FairSpec == Spec /\ Fairness

-----------------------------------------------------------------------------
InHand(op) == hand # None /\ hand.op = op
Pending(op) == op \in Queued \/ InHand(op)

(* Where an accepted write ends: in the database, given up and noted, or   *)
(* caught by a crash.                                                      *)
Settled(op) == Stored(op) \/ op \in dead \/ op \in lost

TurnOps(a) == {Op(k, a, conv[a]) : k \in Kinds}

(* No write of an answered turn disappears: each is still pending or has   *)
(* settled, also when it met a full queue, its database calls failed, or   *)
(* the service shut down (async_repository.py _enqueue, _run_with_retry).  *)
NoSilentLoss ==
    \A a \in Asks : pc[a] = "done" =>
        \A op \in TurnOps(a) : Pending(op) \/ Settled(op)

(* The drain contract of get_messages, get_latest and record_feedback: when*)
(* the read after drain() may run, every write of every ask answered before*)
(* the call began has settled.                                             *)
ReadYourWrites ==
    \A t \in Tasks : pc[t] \in Reads =>
        \A a \in before[t] : \A op \in TurnOps(a) : Settled(op)

(* No lost wakeup: a call, or close(), that waits in queue.join() waits    *)
(* for a live worker that has a write in hand or an item to take, so each  *)
(* of them is still released by task_done() (drain, close, _worker).       *)
WaitersHaveWork ==
    (service = "draining" \/ \E t \in Tasks : pc[t] \in Waits) =>
        worker = "alive" /\ (hand # None \/ queue # <<>>)

(* Unless the queue overflowed, a turn is persisted whole: a cancelled     *)
(* handler never leaves a USER row without its ASSISTANT row on the way.   *)
TurnsWhole ==
    (overflowed = {} /\ running = None) =>
        \A m \in Range(msgs) : m.kind = "user" =>
            LET reply == Op("assistant", m.ask, m.conv)
            IN  Pending(reply) \/ Settled(reply)

(* Unless the queue overflowed, turns do not interleave in the database:   *)
(* an ASSISTANT row directly follows its own USER row, if that was kept.   *)
TurnsAdjacent ==
    overflowed = {} =>
        \A i \in DOMAIN msgs : msgs[i].kind = "assistant" =>
            LET question == Op("user", msgs[i].ask, msgs[i].conv)
            IN  question \in dead \/ (i > 1 /\ msgs[i - 1] = question)

(* Unless the queue overflowed, a write is given up only because the       *)
(* database failed it, or failed the write of the same turn it refers to:  *)
(* a turn never pays for another turn's failed create, and a restart or a  *)
(* conversation known only in memory costs nothing.                        *)
Parent(op) ==
    Op(IF op.kind = "trace" THEN "assistant" ELSE "create", op.ask, op.conv)

FailuresBlamed ==
    overflowed = {} =>
        \A op \in dead :
            op \in faulted \/ (op.kind # "create" /\ Parent(op) \in dead)

(* After close() nothing is left in the queue or in the worker's hand, so  *)
(* the pool is closed under no write.                                      *)
CloseLeavesNothing ==
    service = "closed" => queue = <<>> /\ unfinished = 0 /\ hand = None

(* A queue filled to its limit costs no write while the database works:    *)
(* what the queue-full fallback is documented to ensure.                   *)
HealthyStoreKeepsAll == Faults = {} => dead = {}

(* Every call ends, whatever the other calls keep the worker busy with.    *)
CallsEnd == \A t \in Tasks : pc[t] # "new" ~> pc[t] \in Ended

(* Every write of an answered turn settles.                                *)
TurnsSettle ==
    \A a \in Asks : pc[a] = "done" ~> \A op \in TurnOps(a) : Settled(op)

(* A shutdown that began ends.                                             *)
ShutdownEnds == service = "stopping" ~> service \in {"closed", "down"}

-----------------------------------------------------------------------------
(* The rows of a turn as AuditLog counts them.  A write an ask executes    *)
(* itself is not recorded before it comes back.                            *)
RowKinds == {"user", "assistant", "trace"}
RowsWhere(P(_)) ==
    {r \in RowKinds \X Asks : P(Op(r[1], r[2], conv[r[2]]))}

PendingRows == RowsWhere(Pending)
KeptRows == RowsWhere(LAMBDA op : Stored(op) /\ ~Pending(op))
GoneRows ==
    RowsWhere(LAMBDA op : op \in dead \cup lost /\ ~Stored(op) /\ ~Pending(op))

Log == INSTANCE AuditLog WITH
    Kinds <- RowKinds,
    pending <- PendingRows, kept <- KeptRows, gone <- GoneRows,
    answered <- {a \in Asks : pc[a] = "done"}

(* The queued, retried, crashing repository implements the abstract log.   *)
ImplementsLog == Log!Spec

=============================================================================
