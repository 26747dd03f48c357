------------------------ MODULE AsyncRepositoryProofs ------------------------
(***************************************************************************)
(* Proofs about AsyncRepository for every number of asks and readers,      *)
(* every queue size, retry count and fault model.                          *)
(***************************************************************************)
EXTENDS AsyncRepository, TLAPS

-----------------------------------------------------------------------------
(* The constants the model is built from.                                  *)
LEMMA TurnFacts ==
    /\ Kinds = {"create", "user", "assistant", "trace"}
    /\ \A i \in 1..4 : Turn[i] \in Kinds
    /\ \A k \in Kinds : \E i \in 1..4 : Turn[i] = k
<1>1. DOMAIN Turn = 1..4
  BY DEF Turn
<1>2. Turn[1] = "create" /\ Turn[2] = "user" /\ Turn[3] = "assistant"
      /\ Turn[4] = "trace"
  BY DEF Turn
<1>3. 1..4 = {1, 2, 3, 4}
  OBVIOUS
<1> QED
  BY <1>1, <1>2, <1>3 DEF Kinds, Range

(* The suspended reads behind drain(), spelled out.                        *)
LEMMA JoinFacts ==
    /\ Waits = {"wait_latest", "wait_history", "wait_find", "wait_read"}
    /\ Reads = {"latest", "history", "find", "read"}
    /\ AfterJoin["wait_latest"] = "latest"
    /\ AfterJoin["wait_history"] = "history"
    /\ AfterJoin["wait_find"] = "find"
    /\ AfterJoin["wait_read"] = "read"
<1>1. Waits = {"wait_latest", "wait_history", "wait_find", "wait_read"}
  BY DEF Waits, AfterJoin
<1>2. /\ AfterJoin["wait_latest"] = "latest"
      /\ AfterJoin["wait_history"] = "history"
      /\ AfterJoin["wait_find"] = "find"
      /\ AfterJoin["wait_read"] = "read"
  BY DEF AfterJoin
<1> QED
  BY <1>1, <1>2 DEF Reads, Range, Waits

(* Every place a handler may be.                                           *)
Places == Suspended \cup Ended \cup {"new", "enqueue"}

(* The places a handler may be, spelled out.                               *)
LEMMA PlaceFacts ==
    Places = {"wait_latest", "wait_history", "wait_find", "wait_read",
              "latest", "history", "find", "read", "answer", "direct", "fallback", "done", "failed", "new",
              "enqueue"}
  BY JoinFacts DEF Places, Suspended, Ended

(* A write made of a kind, an ask and a conversation is a write.           *)
LEMMA OpType ==
    ASSUME NEW k \in Kinds, NEW a \in Asks, NEW c \in Asks
    PROVE  /\ Op(k, a, c) \in Ops
           /\ Op(k, a, c).kind = k /\ Op(k, a, c).ask = a /\ Op(k, a, c).conv = c
  BY DEF Op, Ops

(* The first or a later attempt of a write is a job.                       *)
LEMMA JobType ==
    ASSUME NEW op \in Ops, NEW n \in 1..RetryAttempts
    PROVE  /\ Job(op, n) \in Jobs
           /\ Job(op, n).op = op
           /\ Job(op, n) # None
  BY NamesAssumption DEF Job, Jobs

(* An INSERT after a missing SELECT, or a retry, is a job for the same row.*)
LEMMA JobSteps ==
    ASSUME NEW j \in Jobs, NEW result
    PROVE  /\ Inserting(j) \in Jobs /\ Inserting(j).op = j.op
           /\ result = "error" /\ ~GivesUp(j, result) =>
                 Retry(j) \in Jobs /\ Retry(j).op = j.op
<1>1. Inserting(j) \in Jobs /\ Inserting(j).op = j.op
  BY DEF Inserting, Jobs
<1>2. ASSUME result = "error", ~GivesUp(j, result)
      PROVE  Retry(j) \in Jobs /\ Retry(j).op = j.op
  <2>1. j.op \in Ops /\ j.attempt \in 1..RetryAttempts
    BY DEF Jobs
  <2>2. j.attempt + 1 \in 1..RetryAttempts
    BY <1>2, <2>1, SizesAssumption DEF GivesUp
  <2> QED
    BY <2>1, <2>2, JobType DEF Retry
<1> QED
  BY <1>1, <1>2

-----------------------------------------------------------------------------
(* Sequences and their ranges.                                             *)
LEMMA RangeAppend ==
    ASSUME NEW S, NEW s \in Seq(S), NEW e \in S
    PROVE  Range(Append(s, e)) = Range(s) \cup {e}
<1>1. DOMAIN Append(s, e) = 1..(Len(s) + 1)
  OBVIOUS
<1>2. \A i \in 1..Len(s) : Append(s, e)[i] = s[i]
  OBVIOUS
<1>3. Append(s, e)[Len(s) + 1] = e
  OBVIOUS
<1>4. DOMAIN s = 1..Len(s) /\ Len(s) \in Nat
  OBVIOUS
<1> QED
  BY <1>1, <1>2, <1>3, <1>4 DEF Range

(* Taking the head off a sequence splits its elements.                     *)
LEMMA RangeTail ==
    ASSUME NEW S, NEW s \in Seq(S), s # <<>>
    PROVE  /\ Head(s) \in S
           /\ Tail(s) \in Seq(S)
           /\ Len(Tail(s)) = Len(s) - 1
           /\ Range(s) = {Head(s)} \cup Range(Tail(s))
<1>1. Len(s) \in Nat \ {0} /\ DOMAIN s = 1..Len(s)
  OBVIOUS
<1>2. Head(s) = s[1] /\ Head(s) \in S
  BY <1>1
<1>3. /\ Tail(s) \in Seq(S) /\ Len(Tail(s)) = Len(s) - 1
      /\ DOMAIN Tail(s) = 1..(Len(s) - 1)
      /\ \A i \in 1..(Len(s) - 1) : Tail(s)[i] = s[i + 1]
  OBVIOUS
<1>4. Range(s) \subseteq {Head(s)} \cup Range(Tail(s))
  <2> SUFFICES ASSUME NEW i \in 1..Len(s)
               PROVE  s[i] \in {Head(s)} \cup Range(Tail(s))
    BY <1>1 DEF Range
  <2>1. CASE i = 1
    BY <2>1, <1>2
  <2>2. CASE i # 1
    <3>1. i - 1 \in 1..(Len(s) - 1) /\ Tail(s)[i - 1] = s[i]
      BY <2>2, <1>1, <1>3
    <3> QED
      BY <3>1, <1>3 DEF Range
  <2> QED
    BY <2>1, <2>2
<1>5. {Head(s)} \cup Range(Tail(s)) \subseteq Range(s)
  BY <1>1, <1>2, <1>3 DEF Range
<1> QED
  BY <1>2, <1>3, <1>4, <1>5

-----------------------------------------------------------------------------
(* Where the handler of an ask stands determines what it holds: the        *)
(* conversation of its turn, and the write it executes itself.             *)
AskInv(a) ==
    /\ pc[a] \in {"direct", "enqueue", "fallback", "done"} => conv[a] \in Asks
    /\ pc[a] \notin {"enqueue", "fallback", "done", "failed"} => next[a] = 1
    /\ pc[a] \in {"direct", "fallback"} =>
          job[a] \in Jobs /\ job[a].op = NextOp(a)

TaskInv == \A a \in Asks : AskInv(a)

(* The queue's count of unfinished items: those queued and the one in hand.*)
Counted == unfinished = Len(queue) + IF hand = None THEN 0 ELSE 1

TypeInv == TypeOK /\ TaskInv /\ Counted

(* A reply changes the tables as their types allow.                        *)
LEMMA ReplyType ==
    ASSUME StoreTypeOK, NEW j \in Jobs, NEW result, NEW fault \in BOOLEAN,
           Reply(j, result, fault)
    PROVE  StoreTypeOK'
<1>1. CASE UNCHANGED store
  BY <1>1 DEF StoreTypeOK, store
<1>2. CASE Insert(j.op)
  <2>1. j.op \in Ops /\ j.op.conv \in Asks /\ j.op.ask \in Asks
    BY DEF Jobs, Ops
  <2>2. convs' \in Seq(Asks)
    BY <1>2, <2>1 DEF Insert, StoreTypeOK
  <2>3. msgs' \in Seq(Messages)
    <3>1. j.op.kind \in {"user", "assistant"} => j.op \in Messages
      BY <2>1 DEF Ops, Messages
    <3> QED
      BY <1>2, <3>1 DEF Insert, StoreTypeOK
  <2>4. traces' \in [Asks -> Nat]
    BY <1>2, <2>1 DEF Insert, StoreTypeOK
  <2> QED
    BY <2>2, <2>3, <2>4 DEF StoreTypeOK
<1> QED
  BY <1>1, <1>2 DEF Reply

(* The next write of a turn is a write of that ask to its conversation.    *)
LEMMA NextOpType ==
    ASSUME TypeOK, NEW a \in Asks, conv[a] \in Asks
    PROVE  NextOp(a) \in Ops /\ NextOp(a).ask = a /\ NextOp(a).conv = conv[a]
<1>1. Turn[next[a]] \in Kinds
  BY TurnFacts DEF TypeOK
<1> QED
  BY <1>1, OpType DEF NextOp

(* task_done() moves only waiting handlers, and to the read they wait for. *)
LEMMA ReleaseType ==
    ASSUME TypeOK, Release
    PROVE  /\ pc' \in [Tasks -> Places]
           /\ \A t \in Tasks : pc[t] \notin Waits => pc'[t] = pc[t]
           /\ \A t \in Tasks : pc[t] \in Waits => pc'[t] \in Waits \cup Reads
           /\ service' \in {"up", "stopping", "draining", "sentinel", "closing",
                            "closed", "down"}
<1>1. \A t \in Tasks : pc[t] \in Waits => AfterJoin[pc[t]] \in Reads
  BY JoinFacts
<1>2. pc \in [Tasks -> Places]
  BY DEF TypeOK, Places
<1>3. Reads \subseteq Places
  BY DEF Places, Suspended
<1>4. service' \in {service, "sentinel"}
  BY DEF Release
<1> QED
  BY <1>1, <1>2, <1>3, <1>4 DEF Release, TypeOK

(* drain() moves its caller into the read or its wait, and nobody else.    *)
LEMMA DrainType ==
    ASSUME TypeOK, NEW t \in Tasks, NEW w \in Waits, Drain(t, w)
    PROVE  /\ pc' \in [Tasks -> Places]
           /\ pc'[t] \in {w, AfterJoin[w]}
           /\ \A u \in Tasks \ {t} : pc'[u] = pc[u]
<1>1. AfterJoin[w] \in Places /\ w \in Places
  BY JoinFacts, PlaceFacts
<1>2. pc \in [Tasks -> Places]
  BY DEF TypeOK, Places
<1> QED
  BY <1>1, <1>2 DEF Drain

(* Moving a task moves only that task.                                     *)
LEMMA GotoType ==
    ASSUME TypeOK, NEW t \in Tasks, NEW l \in Places, Goto(t, l)
    PROVE  /\ pc' \in [Tasks -> Places]
           /\ pc'[t] = l
           /\ \A u \in Tasks \ {t} : pc'[u] = pc[u]
  BY DEF TypeOK, Places, Goto

(* After a write comes the next one of the turn, or the answer.            *)
LEMMA ProceedType ==
    ASSUME TypeOK, NEW a \in Asks, Proceed(a)
    PROVE  /\ pc' \in [Tasks -> Places]
           /\ pc'[a] \in {"done", "enqueue"}
           /\ pc'[a] = "done" <=> next[a] = 4
           /\ \A u \in Tasks \ {a} : pc'[u] = pc[u]
           /\ next' \in [Asks -> 1..4]
           /\ next[a] # 4 => next'[a] = next[a] + 1
           /\ \A b \in Asks \ {a} : next'[b] = next[b]
           /\ running' \in Asks \cup {None}
<1>1. a \in Tasks
  BY DEF Tasks
<1>2. CASE next[a] = 4
  BY <1>1, <1>2, GotoType, PlaceFacts DEF Proceed, TypeOK
<1>3. CASE next[a] # 4
  <2>1. next[a] \in 1..4 /\ next[a] + 1 \in 1..4
    BY <1>3 DEF TypeOK
  <2>2. Goto(a, "enqueue") /\ next' = [next EXCEPT ![a] = @ + 1] /\ running' = a
    BY <1>3 DEF Proceed
  <2>3. /\ pc' \in [Tasks -> Places] /\ pc'[a] = "enqueue"
        /\ \A u \in Tasks \ {a} : pc'[u] = pc[u]
    BY <1>1, <2>2, GotoType, PlaceFacts
  <2> QED
    BY <1>3, <2>1, <2>2, <2>3 DEF TypeOK
<1> QED
  BY <1>2, <1>3

(* An ask whose handler did not move and whose variables did not change.   *)
LEMMA AskFrame ==
    ASSUME NEW a \in Asks, AskInv(a),
           pc'[a] = pc[a], conv'[a] = conv[a], next'[a] = next[a], job'[a] = job[a]
    PROVE  AskInv(a)'
  BY DEF AskInv, NextOp

(* The initial state has the type invariant.                               *)
LEMMA InitType == Init => TypeInv
<1> SUFFICES ASSUME Init PROVE TypeInv
  OBVIOUS
<1>1. StoreTypeOK
  BY DEF Init, StoreInit, StoreTypeOK
<1>2. TypeOK
  BY <1>1, SizesAssumption, PlaceFacts DEF Init, TypeOK, Places
<1>3. TaskInv
  BY DEF Init, TaskInv, AskInv, Tasks
<1>4. Counted
  BY DEF Init, Counted
<1> QED
  BY <1>2, <1>3, <1>4 DEF TypeInv

(* An ask that begins keeps the type invariant.                            *)
LEMMA StartAskType ==
    ASSUME TypeInv, NEW a \in Asks, StartAsk(a) PROVE TypeInv'
<1> USE DEF TypeInv
<1>0. a \in Tasks
  BY DEF Tasks
<1>1. \A b \in Asks : pc[b] = "done" => conv[b] \in Asks
  BY DEF TaskInv, AskInv
<1>2. conv' \in [Asks -> Asks \cup {None}] /\ \A b \in Asks \ {a} : conv'[b] = conv[b]
  BY <1>1 DEF StartAsk, TypeOK
<1>3. PICK w \in {"wait_latest", "wait_history"} : Drain(a, w)
  BY DEF StartAsk
<1>4. /\ pc' \in [Tasks -> Places]
      /\ pc'[a] \in {"wait_latest", "wait_history", "latest", "history"}
      /\ \A u \in Tasks \ {a} : pc'[u] = pc[u]
  BY <1>0, <1>3, DrainType, JoinFacts
<1>5. before' \in [Tasks -> SUBSET Asks]
  BY DEF StartAsk, TypeOK
<1>6. UNCHANGED <<store, memory, next, job, running, process, overflowed, dead,
                  faulted, lost>>
  BY DEF StartAsk
<1>7. TypeOK'
  BY <1>2, <1>4, <1>5, <1>6
     DEF TypeOK, StoreTypeOK, store, memory, process, Places
<1>8. AskInv(a)'
  <2>1. next[a] = 1
    BY DEF TaskInv, AskInv, StartAsk
  <2> QED
    BY <2>1, <1>4, <1>6 DEF AskInv
<1>9. \A b \in Asks \ {a} : AskInv(b)'
  BY <1>2, <1>4, <1>6, AskFrame DEF TaskInv, Tasks
<1> QED
  BY <1>6, <1>7, <1>8, <1>9 DEF TaskInv, Counted, memory

(* A step of ask a that moves it between places where it holds nothing.    *)
LEMMA EarlyMove ==
    ASSUME TypeInv, NEW a \in Asks,
           pc' \in [Tasks -> Places],
           pc'[a] \in {"wait_latest", "wait_history", "latest", "history",
                       "answer"},
           \A u \in Tasks \ {a} : pc'[u] = pc[u],
           next[a] = 1,
           conv' \in [Asks -> Asks \cup {None}],
           \A b \in Asks \ {a} : conv'[b] = conv[b],
           UNCHANGED <<store, memory, next, job, running, process, history>>
    PROVE  TypeInv'
<1> USE DEF TypeInv
<1>1. TypeOK'
  BY DEF TypeOK, StoreTypeOK, store, memory, process, history, Places
<1>2. AskInv(a)'
  BY DEF AskInv
<1>3. \A b \in Asks \ {a} : AskInv(b)'
  BY AskFrame DEF TaskInv, Tasks
<1> QED
  BY <1>1, <1>2, <1>3 DEF TaskInv, Counted, memory

(* The lookup reply keeps the type invariant.                              *)
LEMMA LatestReplyType ==
    ASSUME TypeInv, NEW a \in Asks, LatestReply(a) PROVE TypeInv'
<1> USE DEF TypeInv
<1>0. a \in Tasks /\ next[a] = 1
  BY DEF Tasks, TaskInv, AskInv, LatestReply
<1>1. Latest(None) \in Asks \cup {None}
  <2>1. CASE convs = <<>>
    BY <2>1 DEF Latest
  <2>2. CASE convs # <<>>
    <3>1. convs \in Seq(Asks)
      BY DEF TypeOK, StoreTypeOK
    <3>2. Len(convs) \in 1..Len(convs)
      BY <3>1, <2>2
    <3>3. convs[Len(convs)] \in Asks
      BY <3>1, <3>2
    <3> QED
      BY <3>3, <2>2 DEF Latest
  <2> QED
    BY <2>1, <2>2
<1>2. PICK c \in Asks \cup {None} :
         /\ conv' = [conv EXCEPT ![a] = c]
         /\ IF c = None THEN Goto(a, "answer") ELSE Drain(a, "wait_history")
  BY <1>1 DEF LatestReply
<1>3. conv' \in [Asks -> Asks \cup {None}] /\ \A b \in Asks \ {a} : conv'[b] = conv[b]
  BY <1>2 DEF TypeOK
<1>4. /\ pc' \in [Tasks -> Places]
      /\ pc'[a] \in {"wait_history", "history", "answer"}
      /\ \A u \in Tasks \ {a} : pc'[u] = pc[u]
  <2>1. CASE c = None
    BY <1>0, <1>2, <2>1, GotoType, PlaceFacts
  <2>2. CASE c # None
    BY <1>0, <1>2, <2>2, DrainType, JoinFacts
  <2> QED
    BY <2>1, <2>2
<1>5. UNCHANGED <<store, memory, next, job, running, process, history>>
  BY DEF LatestReply
<1> QED
  BY <1>0, <1>3, <1>4, <1>5, EarlyMove

(* The reply to the history read keeps the type invariant.                 *)
LEMMA HistoryReplyType ==
    ASSUME TypeInv, NEW a \in Asks, HistoryReply(a) PROVE TypeInv'
<1> USE DEF TypeInv
<1>0. a \in Tasks /\ next[a] = 1
  BY DEF Tasks, TaskInv, AskInv, HistoryReply
<1>1. /\ pc' \in [Tasks -> Places]
      /\ pc'[a] = "answer"
      /\ \A u \in Tasks \ {a} : pc'[u] = pc[u]
  BY <1>0, GotoType, PlaceFacts DEF HistoryReply
<1>2. conv' = conv /\ UNCHANGED <<store, memory, next, job, running, process, history>>
  BY DEF HistoryReply
<1> QED
  BY <1>0, <1>1, <1>2, EarlyMove DEF TypeOK

(* A conversation named by the caller keeps the type invariant.            *)
LEMMA VerifyConversationType ==
    ASSUME TypeInv, NEW a \in Asks, VerifyConversation(a) PROVE TypeInv'
<1> USE DEF TypeInv
<1>0. a \in Tasks /\ next[a] = 1 /\ conv[a] \in Asks
  BY DEF Tasks, TaskInv, AskInv, VerifyConversation, TypeOK
<1>1. /\ pc' \in [Tasks -> Places]
      /\ pc'[a] = "direct"
      /\ \A u \in Tasks \ {a} : pc'[u] = pc[u]
  BY <1>0, GotoType, PlaceFacts DEF VerifyConversation
<1>2. Op("create", a, conv[a]) \in Ops /\ NextOp(a) = Op("create", a, conv[a])
  BY <1>0, OpType, TurnFacts DEF NextOp, Turn
<1>3. Job(NextOp(a), 1) \in Jobs /\ Job(NextOp(a), 1).op = NextOp(a)
  BY <1>2, JobType, SizesAssumption
<1>4. /\ job' \in [Asks -> Jobs \cup {None}]
      /\ job'[a] = Job(NextOp(a), 1)
      /\ \A b \in Asks \ {a} : job'[b] = job[b]
  BY <1>2, <1>3 DEF VerifyConversation, TypeOK
<1>5. UNCHANGED <<store, memory, conv, next, running, process, history>>
  BY DEF VerifyConversation
<1>6. TypeOK'
  BY <1>1, <1>4, <1>5
     DEF TypeOK, StoreTypeOK, store, memory, process, history, Places
<1>7. AskInv(a)'
  BY <1>0, <1>1, <1>3, <1>4, <1>5 DEF AskInv, NextOp
<1>8. \A b \in Asks \ {a} : AskInv(b)'
  BY <1>1, <1>4, <1>5, AskFrame DEF TaskInv, Tasks
<1> QED
  BY <1>5, <1>6, <1>7, <1>8 DEF TaskInv, Counted, memory

(* Naming a new conversation keeps the type invariant.                     *)
LEMMA NameConversationType ==
    ASSUME TypeInv, NEW a \in Asks, NameConversation(a) PROVE TypeInv'
<1> USE DEF TypeInv
<1>0. a \in Tasks /\ next[a] = 1
  BY DEF Tasks, TaskInv, AskInv, NameConversation
<1>1. /\ pc' \in [Tasks -> Places]
      /\ pc'[a] = "enqueue"
      /\ \A u \in Tasks \ {a} : pc'[u] = pc[u]
  BY <1>0, GotoType, PlaceFacts DEF NameConversation
<1>2. /\ conv' \in [Asks -> Asks \cup {None}]
      /\ conv'[a] \in Asks
      /\ \A b \in Asks \ {a} : conv'[b] = conv[b]
  BY DEF NameConversation, TypeOK
<1>3. known' \subseteq Asks
  BY <1>2 DEF NameConversation, TypeOK
<1>4. UNCHANGED <<store, queue, unfinished, worker, hand, next, job, process,
                  history>> /\ running' = a
  BY DEF NameConversation
<1>5. TypeOK'
  BY <1>1, <1>2, <1>3, <1>4
     DEF TypeOK, StoreTypeOK, store, process, history, Places
<1>6. AskInv(a)'
  BY <1>1, <1>2 DEF AskInv
<1>7. \A b \in Asks \ {a} : AskInv(b)'
  BY <1>1, <1>2, <1>4, AskFrame DEF TaskInv, Tasks
<1> QED
  BY <1>4, <1>5, <1>6, <1>7 DEF TaskInv, Counted

(* A write with room in the queue keeps the type invariant.                *)
LEMMA EnqueueType ==
    ASSUME TypeInv, NEW a \in Asks, Enqueue(a) PROVE TypeInv'
<1> USE DEF TypeInv
<1>0. a \in Tasks /\ conv[a] \in Asks
  BY DEF Tasks, TaskInv, AskInv, Enqueue
<1>1. Proceed(a)
  BY DEF Enqueue
<1>2. NextOp(a) \in Ops
  BY <1>0, NextOpType
<1>3. queue' \in Seq(Ops \cup {None}) /\ Len(queue') = Len(queue) + 1
  BY <1>2 DEF Enqueue, TypeOK
<1>4. unfinished' = unfinished + 1 /\ worker' = "alive"
      /\ UNCHANGED <<store, hand, known, conv, job, process, history>>
  BY DEF Enqueue, EnsureWorker
<1>5. TypeOK'
  BY <1>1, <1>3, <1>4, ProceedType
     DEF TypeOK, StoreTypeOK, store, process, history, Places
<1>6. AskInv(a)'
  BY <1>0, <1>1, <1>4, ProceedType DEF AskInv
<1>7. \A b \in Asks \ {a} : AskInv(b)'
  BY <1>1, <1>4, ProceedType, AskFrame DEF TaskInv, Tasks
<1>8. Counted'
  BY <1>3, <1>4 DEF Counted, TypeOK
<1> QED
  BY <1>5, <1>6, <1>7, <1>8 DEF TaskInv

(* A write that meets a full queue keeps the type invariant.               *)
LEMMA OverflowType ==
    ASSUME TypeInv, NEW a \in Asks, Overflow(a) PROVE TypeInv'
<1> USE DEF TypeInv
<1>0. a \in Tasks /\ conv[a] \in Asks
  BY DEF Tasks, TaskInv, AskInv, Overflow
<1>1. /\ pc' \in [Tasks -> Places]
      /\ pc'[a] = "fallback"
      /\ \A u \in Tasks \ {a} : pc'[u] = pc[u]
  BY <1>0, GotoType, PlaceFacts DEF Overflow
<1>2. NextOp(a) \in Ops
  BY <1>0, NextOpType
<1>3. Job(NextOp(a), 1) \in Jobs /\ Job(NextOp(a), 1).op = NextOp(a)
  BY <1>2, JobType, SizesAssumption
<1>4. /\ job' \in [Asks -> Jobs \cup {None}]
      /\ job'[a] = Job(NextOp(a), 1)
      /\ \A b \in Asks \ {a} : job'[b] = job[b]
  BY <1>3 DEF Overflow, TypeOK
<1>5. /\ overflowed' \subseteq Ops /\ worker' = "alive" /\ running' = None
      /\ UNCHANGED <<store, queue, unfinished, hand, known, conv, next, process,
                     dead, faulted, lost, before>>
  BY <1>2 DEF Overflow, TypeOK, EnsureWorker
<1>6. TypeOK'
  BY <1>1, <1>4, <1>5 DEF TypeOK, StoreTypeOK, store, process, Places
<1>7. AskInv(a)'
  BY <1>0, <1>1, <1>3, <1>4, <1>5 DEF AskInv, NextOp
<1>8. \A b \in Asks \ {a} : AskInv(b)'
  BY <1>1, <1>4, <1>5, AskFrame DEF TaskInv, Tasks
<1> QED
  BY <1>5, <1>6, <1>7, <1>8 DEF TaskInv, Counted

(* The history a reply leaves: the blamed operation and the dead letter.   *)
LEMMA NoteType ==
    ASSUME TypeOK, NEW j \in Jobs, NEW result, NEW fault \in BOOLEAN,
           Blame(j, fault)
    PROVE  /\ faulted' \subseteq Ops
           /\ NoteFailure(j, result) => dead' \subseteq Ops
<1>1. j.op \in Ops
  BY DEF Jobs
<1> QED
  BY <1>1 DEF Blame, NoteFailure, TypeOK

(* A reply in the queue-full fallback keeps the type invariant.            *)
LEMMA FallbackReplyType ==
    ASSUME TypeInv, NEW a \in Asks, FallbackReply(a) PROVE TypeInv'
<1> USE DEF TypeInv
<1>0. a \in Tasks /\ conv[a] \in Asks /\ job[a] \in Jobs /\ job[a].op = NextOp(a)
      /\ pc[a] = "fallback"
  BY DEF Tasks, TaskInv, AskInv, FallbackReply
<1>1. PICK result \in {"ok", "missing", "error"}, fault \in BOOLEAN :
          /\ Reply(job[a], result, fault)
          /\ Blame(job[a], fault)
          /\ \/ /\ result = "ok" \/ GivesUp(job[a], result)
                /\ job' = [job EXCEPT ![a] = None]
                /\ Proceed(a)
             \/ /\ result = "missing"
                /\ job' = [job EXCEPT ![a] = Inserting(@)]
                /\ UNCHANGED <<pc, running, next>>
             \/ /\ result = "error" /\ ~GivesUp(job[a], result)
                /\ job' = [job EXCEPT ![a] = Retry(@)]
                /\ UNCHANGED <<pc, running, next>>
          /\ NoteFailure(job[a], result)
  BY DEF FallbackReply
<1>2. UNCHANGED <<memory, conv, process, overflowed, lost, before>>
  BY DEF FallbackReply
<1>3. StoreTypeOK'
  BY <1>0, <1>1, ReplyType DEF TypeOK
<1>4. faulted' \subseteq Ops /\ dead' \subseteq Ops
  BY <1>0, <1>1, NoteType
<1>5. /\ pc' \in [Tasks -> Places] /\ next' \in [Asks -> 1..4]
      /\ running' \in Asks \cup {None}
      /\ job' \in [Asks -> Jobs \cup {None}]
      /\ \A b \in Asks \ {a} : pc'[b] = pc[b] /\ next'[b] = next[b] /\ job'[b] = job[b]
      /\ AskInv(a)'
  <2>1. CASE job' = [job EXCEPT ![a] = None] /\ Proceed(a)
    BY <1>0, <1>2, <2>1, ProceedType DEF TypeOK, AskInv, Tasks
  <2>2. CASE /\ UNCHANGED <<pc, running, next>>
             /\ \E j \in {Inserting(job[a]), Retry(job[a])} :
                   job' = [job EXCEPT ![a] = j] /\ j \in Jobs /\ j.op = NextOp(a)
    BY <1>0, <1>2, <2>2 DEF TypeOK, AskInv, NextOp, Places
  <2>3. Inserting(job[a]) \in Jobs /\ Inserting(job[a]).op = NextOp(a)
    BY <1>0, JobSteps
  <2>4. result = "error" /\ ~GivesUp(job[a], result) =>
           Retry(job[a]) \in Jobs /\ Retry(job[a]).op = NextOp(a)
    BY <1>0, JobSteps
  <2> QED
    BY <1>1, <2>1, <2>2, <2>3, <2>4
<1>6. TypeOK'
  BY <1>2, <1>3, <1>4, <1>5 DEF TypeOK, memory, process, Places
<1>7. \A b \in Asks \ {a} : AskInv(b)'
  BY <1>2, <1>5, AskFrame DEF TaskInv
<1> QED
  BY <1>2, <1>5, <1>6, <1>7 DEF TaskInv, Counted, memory

(* The reply to an unqueued create keeps the type invariant.               *)
LEMMA DirectReplyType ==
    ASSUME TypeInv, NEW a \in Asks, DirectReply(a) PROVE TypeInv'
<1> USE DEF TypeInv
<1>0. /\ a \in Tasks /\ conv[a] \in Asks /\ next[a] = 1 /\ pc[a] = "direct"
      /\ job[a] \in Jobs /\ job[a].op = NextOp(a)
  BY DEF Tasks, TaskInv, AskInv, DirectReply
<1>1. PICK result \in {"ok", "missing", "error"}, fault \in BOOLEAN :
          /\ Reply(job[a], result, fault)
          /\ Blame(job[a], fault)
          /\ \/ /\ result = "ok"
                /\ job' = [job EXCEPT ![a] = None]
                /\ known' = known \cup {conv[a]}
                /\ Proceed(a)
             \/ /\ result = "missing"
                /\ job' = [job EXCEPT ![a] = Inserting(@)]
                /\ UNCHANGED <<known, pc, running, next>>
             \/ /\ result = "error"
                /\ job' = [job EXCEPT ![a] = None]
                /\ Goto(a, "failed")
                /\ UNCHANGED <<known, running, next>>
  BY DEF DirectReply
<1>2. UNCHANGED <<queue, unfinished, worker, hand, conv, process, overflowed,
                  dead, lost, before>>
  BY DEF DirectReply
<1>3. StoreTypeOK'
  BY <1>0, <1>1, ReplyType DEF TypeOK
<1>4. faulted' \subseteq Ops
  BY <1>0, <1>1, NoteType
<1>5. /\ pc' \in [Tasks -> Places] /\ next' \in [Asks -> 1..4]
      /\ running' \in Asks \cup {None} /\ known' \subseteq Asks
      /\ job' \in [Asks -> Jobs \cup {None}]
      /\ \A b \in Asks \ {a} : pc'[b] = pc[b] /\ next'[b] = next[b] /\ job'[b] = job[b]
      /\ AskInv(a)'
  <2>1. CASE /\ job' = [job EXCEPT ![a] = None] /\ known' = known \cup {conv[a]}
             /\ Proceed(a)
    BY <1>0, <1>2, <2>1, ProceedType DEF TypeOK, AskInv, Tasks
  <2>2. CASE /\ job' = [job EXCEPT ![a] = Inserting(@)]
             /\ UNCHANGED <<known, pc, running, next>>
    <3>1. Inserting(job[a]) \in Jobs /\ Inserting(job[a]).op = NextOp(a)
      BY <1>0, JobSteps
    <3> QED
      BY <1>0, <1>2, <2>2, <3>1 DEF TypeOK, AskInv, NextOp, Places
  <2>3. CASE /\ job' = [job EXCEPT ![a] = None] /\ Goto(a, "failed")
             /\ UNCHANGED <<known, running, next>>
    BY <1>0, <2>3, GotoType, PlaceFacts DEF TypeOK, AskInv, Tasks
  <2> QED
    BY <1>1, <2>1, <2>2, <2>3
<1>6. TypeOK'
  BY <1>2, <1>3, <1>4, <1>5 DEF TypeOK, process, Places
<1>7. \A b \in Asks \ {a} : AskInv(b)'
  BY <1>2, <1>5, AskFrame DEF TaskInv
<1> QED
  BY <1>2, <1>5, <1>6, <1>7 DEF TaskInv, Counted

(* The worker takes the head of the queue.                                 *)
LEMMA TakeType ==
    ASSUME TypeOK, queue # <<>>, Head(queue) # None
    PROVE  /\ Head(queue) \in Ops
           /\ Job(Head(queue), 1) \in Jobs /\ Job(Head(queue), 1) # None
           /\ Job(Head(queue), 1).op = Head(queue)
           /\ Tail(queue) \in Seq(Ops \cup {None})
           /\ Len(Tail(queue)) = Len(queue) - 1
           /\ Range(queue) = {Head(queue)} \cup Range(Tail(queue))
<1>1. queue \in Seq(Ops \cup {None})
  BY DEF TypeOK
<1>2. Head(queue) \in Ops
  BY <1>1, RangeTail
<1> QED
  BY <1>1, <1>2, RangeTail, JobType, SizesAssumption

(* The worker that takes a write keeps the type invariant.                 *)
LEMMA WorkerGetType ==
    ASSUME TypeInv, WorkerGet PROVE TypeInv'
<1> USE DEF TypeInv
<1>1. /\ hand' = Job(Head(queue), 1) /\ queue' = Tail(queue) /\ hand = None
      /\ UNCHANGED <<store, unfinished, worker, known, tasks, process, history>>
  BY DEF WorkerGet
<1>2. TypeOK'
  BY <1>1, TakeType
     DEF WorkerGet, TypeOK, StoreTypeOK, store, tasks, process, history
<1>3. Counted'
  BY <1>1, TakeType DEF WorkerGet, Counted, TypeOK
<1>4. \A b \in Asks : AskInv(b)'
  BY <1>1, AskFrame DEF TaskInv, tasks
<1> QED
  BY <1>2, <1>3, <1>4 DEF TaskInv

(* task_done() leaves every ask where AskInv still describes it.           *)
LEMMA ReleaseAsks ==
    ASSUME TypeInv, Release, UNCHANGED <<conv, next, job>>
    PROVE  TaskInv'
<1> USE DEF TypeInv
<1> SUFFICES ASSUME NEW a \in Asks PROVE AskInv(a)'
  BY DEF TaskInv
<1>0. a \in Tasks /\ AskInv(a)
  BY DEF Tasks, TaskInv
<1>1. CASE pc[a] \notin Waits
  BY <1>0, <1>1, ReleaseType, AskFrame
<1>2. CASE pc[a] \in Waits
  BY <1>0, <1>2, ReleaseType, JoinFacts DEF AskInv
<1> QED
  BY <1>1, <1>2

(* The worker that takes the sentinel keeps the type invariant.            *)
LEMMA WorkerStopType ==
    ASSUME TypeInv, WorkerStop PROVE TypeInv'
<1> USE DEF TypeInv
<1>1. /\ hand = None /\ queue # <<>> /\ queue' = Tail(queue)
      /\ unfinished' = unfinished - 1 /\ worker' = "done" /\ Release
      /\ UNCHANGED <<store, hand, known, conv, next, job, running, starts, history>>
  BY DEF WorkerStop
<1>2. queue' \in Seq(Ops \cup {None}) /\ Len(queue') = Len(queue) - 1
  BY <1>1, RangeTail DEF TypeOK
<1>3. unfinished' \in Nat /\ Counted'
  BY <1>1, <1>2 DEF Counted, TypeOK
<1>4. TypeOK'
  BY <1>1, <1>2, <1>3, ReleaseType DEF TypeOK, StoreTypeOK, store, history, Places
<1> QED
  BY <1>1, <1>3, <1>4, ReleaseAsks

(* task_done() and the next write keeps the type invariant.                *)
LEMMA SettleType ==
    ASSUME TypeInv, Settle, hand # None
    PROVE  /\ unfinished' \in Nat /\ Counted'
           /\ queue' \in Seq(Ops \cup {None}) /\ hand' \in Jobs \cup {None}
           /\ unfinished' = 0 => queue' = <<>> /\ hand' = None
<1> USE DEF TypeInv
<1>1. unfinished' = unfinished - 1 /\ unfinished = Len(queue) + 1
      /\ queue \in Seq(Ops \cup {None}) /\ Len(queue) \in Nat
  BY DEF Settle, Counted, TypeOK
<1>2. CASE queue # <<>> /\ Head(queue) # None
  BY <1>1, <1>2, TakeType DEF Settle, Counted
<1>3. CASE ~(queue # <<>> /\ Head(queue) # None)
  BY <1>1, <1>3 DEF Settle, Counted
<1> QED
  BY <1>2, <1>3

(* The reply to the worker's statement keeps the type invariant.           *)
LEMMA WorkerReplyType ==
    ASSUME TypeInv, WorkerReply PROVE TypeInv'
<1> USE DEF TypeInv
<1>0. hand # None /\ hand \in Jobs
  BY DEF WorkerReply, TypeOK
<1>1. PICK result \in {"ok", "missing", "error"}, fault \in BOOLEAN :
          /\ Reply(hand, result, fault)
          /\ Blame(hand, fault)
          /\ \/ /\ result = "ok" \/ GivesUp(hand, result)
                /\ Settle
             \/ /\ result = "missing"
                /\ hand' = Inserting(hand)
                /\ UNCHANGED <<queue, unfinished, pc, service>>
             \/ /\ result = "error" /\ ~GivesUp(hand, result)
                /\ hand' = Retry(hand)
                /\ UNCHANGED <<queue, unfinished, pc, service>>
          /\ NoteFailure(hand, result)
  BY DEF WorkerReply
<1>2. UNCHANGED <<worker, known, conv, next, job, running, starts,
                  overflowed, lost, before>>
  BY DEF WorkerReply
<1>3. StoreTypeOK' /\ faulted' \subseteq Ops /\ dead' \subseteq Ops
  BY <1>0, <1>1, ReplyType, NoteType DEF TypeOK
<1>4. CASE Settle
  <2>1. Release
    BY <1>4 DEF Settle
  <2>2. TypeOK'
    BY <1>0, <1>2, <1>3, <1>4, <2>1, ReleaseType, SettleType DEF TypeOK, Places
  <2> QED
    BY <1>0, <1>2, <1>4, <2>1, <2>2, ReleaseAsks, SettleType
<1>5. CASE /\ UNCHANGED <<queue, unfinished, pc, service>>
           /\ hand' \in Jobs
  <2>1. TypeOK'
    BY <1>2, <1>3, <1>5 DEF TypeOK
  <2>2. \A b \in Asks : AskInv(b)'
    BY <1>2, <1>5, AskFrame DEF TaskInv
  <2>3. hand' # None
    BY <1>5, NamesAssumption
  <2> QED
    BY <1>0, <1>5, <2>1, <2>2, <2>3 DEF TaskInv, Counted
<1> QED
  BY <1>0, <1>1, <1>4, <1>5, JobSteps

(* A step of a read call keeps the type invariant.                         *)
LEMMA ReaderType ==
    ASSUME TypeInv, NEW r \in Readers, ReaderStep(r) PROVE TypeInv'
<1> USE DEF TypeInv
<1>0. r \in Tasks /\ \A a \in Asks : a \in Tasks \ {r}
  BY NamesAssumption DEF Tasks
<1>1. /\ pc' \in [Tasks -> Places]
      /\ \A u \in Tasks \ {r} : pc'[u] = pc[u]
      /\ before' \in [Tasks -> SUBSET Asks]
      /\ UNCHANGED <<store, memory, conv, next, job, running, process,
                     overflowed, dead, faulted, lost>>
  <2>1. CASE StartReader(r)
    <3>1. PICK w \in {"wait_find", "wait_read"} : Drain(r, w)
      BY <2>1 DEF StartReader
    <3> QED
      BY <1>0, <2>1, <3>1, DrainType, JoinFacts DEF StartReader, TypeOK
  <2>2. CASE ReadReply(r)
    <3>1. PICK l \in {"done", "failed"} : Goto(r, l)
      BY <2>2 DEF ReadReply
    <3> QED
      BY <1>0, <2>2, <3>1, GotoType, PlaceFacts DEF ReadReply, history, TypeOK
  <2>3. CASE FindReply(r)
    <3>1. Drain(r, "wait_read") \/ Goto(r, "done") \/ Goto(r, "failed")
      BY <2>3 DEF FindReply
    <3> QED
      BY <1>0, <2>3, <3>1, DrainType, GotoType, JoinFacts, PlaceFacts
         DEF FindReply, history, TypeOK
  <2> QED
    BY <2>1, <2>2, <2>3 DEF ReaderStep
<1>2. TypeOK'
  BY <1>1 DEF TypeOK, StoreTypeOK, store, memory, process, Places
<1>3. \A a \in Asks : AskInv(a)'
  BY <1>0, <1>1, AskFrame DEF TaskInv
<1> QED
  BY <1>1, <1>2, <1>3 DEF TaskInv, Counted, memory

(* A cancelled statement may still commit.                                 *)
LEMMA InsertType ==
    ASSUME StoreTypeOK, NEW op \in Ops, Insert(op)
    PROVE  StoreTypeOK'
<1>1. op.conv \in Asks /\ op.ask \in Asks
  BY DEF Ops
<1>2. op.kind \in {"user", "assistant"} => op \in Messages
  BY DEF Ops, Messages
<1> QED
  BY <1>1, <1>2 DEF Insert, StoreTypeOK

(* A cancelled handler keeps the type invariant.                           *)
LEMMA CancelType ==
    ASSUME TypeInv, NEW t \in Tasks, Cancel(t) PROVE TypeInv'
<1> USE DEF TypeInv
<1>1. /\ pc' \in [Tasks -> Places]
      /\ pc'[t] = "failed"
      /\ \A u \in Tasks \ {t} : pc'[u] = pc[u]
  BY GotoType, PlaceFacts DEF Cancel
<1>2. /\ job' = [a \in Asks |-> IF a = t THEN None ELSE job[a]]
      /\ UNCHANGED <<memory, conv, next, running, process, history>>
  BY DEF Cancel
<1>3. StoreTypeOK'
  <2>1. CASE UNCHANGED store
    BY <2>1 DEF StoreTypeOK, store, TypeOK
  <2>2. CASE t \in Asks /\ pc[t] \in {"direct", "fallback"} /\ Insert(job[t].op)
    <3>1. job[t].op \in Ops
      BY <2>2 DEF TaskInv, AskInv, Jobs
    <3> QED
      BY <2>2, <3>1, InsertType DEF TypeOK
  <2> QED
    BY <2>1, <2>2 DEF Cancel
<1>4. job' \in [Asks -> Jobs \cup {None}]
  BY <1>2 DEF TypeOK
<1>5. TypeOK'
  BY <1>1, <1>2, <1>3, <1>4 DEF TypeOK, memory, process, history, Places
<1>6. ASSUME NEW a \in Asks PROVE AskInv(a)'
  <2>1. CASE a = t
    BY <1>1, <2>1 DEF AskInv
  <2>2. CASE a # t
    BY <1>1, <1>2, <2>2, AskFrame DEF TaskInv, Tasks
  <2> QED
    BY <2>1, <2>2
<1> QED
  BY <1>2, <1>5, <1>6 DEF TaskInv, Counted, memory

(* A step of the shutdown keeps the type invariant.                        *)
LEMMA ShutdownType ==
    ASSUME TypeInv, StopServer \/ CloseStep PROVE TypeInv'
<1> USE DEF TypeInv
<1>1. CASE StopServer \/ Close
  <2>1. /\ UNCHANGED <<store, memory, tasks, starts, history>>
        /\ service' \in {"stopping", "closed", "sentinel", "draining"}
    BY <1>1 DEF StopServer, Close
  <2>2. TypeOK'
    BY <2>1 DEF TypeOK, StoreTypeOK, store, memory, tasks, history
  <2>3. \A a \in Asks : AskInv(a)'
    BY <2>1, AskFrame DEF TaskInv, tasks
  <2> QED
    BY <2>1, <2>2, <2>3 DEF TaskInv, Counted, memory
<1>2. CASE PutSentinel
  <2>1. queue' \in Seq(Ops \cup {None}) /\ Len(queue') = Len(queue) + 1
    BY <1>2 DEF PutSentinel, TypeOK
  <2>2. /\ unfinished' = unfinished + 1 /\ service' = "closing"
        /\ UNCHANGED <<store, worker, hand, known, tasks, starts, history>>
    BY <1>2 DEF PutSentinel
  <2>3. TypeOK'
    BY <2>1, <2>2 DEF TypeOK, StoreTypeOK, store, tasks, history
  <2>4. \A a \in Asks : AskInv(a)'
    BY <2>2, AskFrame DEF TaskInv, tasks
  <2> QED
    BY <2>1, <2>2, <2>3, <2>4 DEF TaskInv, Counted, TypeOK
<1>3. CASE Closed
  <2>1. /\ worker' = "none" /\ service' = "closed"
        /\ UNCHANGED <<store, queue, unfinished, hand, known, tasks, starts, history>>
    BY <1>3 DEF Closed
  <2>2. TypeOK'
    BY <2>1 DEF TypeOK, StoreTypeOK, store, tasks, history
  <2>3. \A a \in Asks : AskInv(a)'
    BY <2>1, AskFrame DEF TaskInv, tasks
  <2> QED
    BY <2>1, <2>2, <2>3 DEF TaskInv, Counted
<1> QED
  BY <1>1, <1>2, <1>3 DEF CloseStep

(* What a crash loses are writes.                                          *)
LEMMA RangeOps == TypeOK => Queued \subseteq Ops
<1> SUFFICES ASSUME TypeOK PROVE Queued \subseteq Ops
  OBVIOUS
<1>1. queue \in Seq(Ops \cup {None})
  BY DEF TypeOK
<1>2. \A i \in DOMAIN queue : queue[i] \in Ops \cup {None}
  BY <1>1
<1> QED
  BY <1>2 DEF Queued, Range

(* A crash keeps the type invariant.                                       *)
LEMMA CrashType ==
    ASSUME TypeInv, Crash PROVE TypeInv'
<1> USE DEF TypeInv
<1>1. /\ pc' = [t \in Tasks |-> IF pc[t] \in Ended \cup {"new"} THEN pc[t] ELSE "failed"]
      /\ lost' = lost \cup Queued \cup (IF hand = None THEN {} ELSE {hand.op})
      /\ job' = [a \in Asks |-> None]
      /\ running' = None /\ service' = "down" /\ Forget
      /\ UNCHANGED <<store, conv, next, starts, overflowed, dead, faulted, before>>
  BY DEF Crash
<1>2. pc' \in [Tasks -> Places]
  BY <1>1, PlaceFacts DEF TypeOK, Places
<1>3. lost' \subseteq Ops
  BY <1>1, RangeOps DEF TypeOK, Jobs
<1>4. TypeOK'
  BY <1>1, <1>2, <1>3 DEF TypeOK, StoreTypeOK, store, Forget, Places
<1>5. ASSUME NEW a \in Asks PROVE AskInv(a)'
  <2>1. a \in Tasks /\ pc'[a] \in {"done", "new", "failed"} /\
        (pc'[a] # "failed" => pc'[a] = pc[a])
    BY <1>1 DEF Tasks, Ended
  <2> QED
    BY <1>1, <2>1 DEF AskInv, TaskInv
<1>6. Counted'
  BY <1>1 DEF Forget, Counted
<1> QED
  BY <1>4, <1>5, <1>6 DEF TaskInv

(* A restart keeps the type invariant.                                     *)
LEMMA RestartType ==
    ASSUME TypeInv, Restart PROVE TypeInv'
<1> USE DEF TypeInv
<1>1. /\ starts < MaxStarts /\ starts' = starts + 1 /\ service' = "up" /\ Forget
      /\ UNCHANGED <<store, tasks, history>>
  BY DEF Restart
<1>2. starts' \in 1..MaxStarts
  BY <1>1, SizesAssumption DEF TypeOK
<1>3. TypeOK'
  BY <1>1, <1>2 DEF TypeOK, StoreTypeOK, store, tasks, history, Forget
<1>4. \A a \in Asks : AskInv(a)'
  BY <1>1, AskFrame DEF TaskInv, tasks
<1>5. Counted'
  BY <1>1 DEF Forget, Counted
<1> QED
  BY <1>3, <1>4, <1>5 DEF TaskInv

(* A stuttering step keeps the type invariant.                             *)
LEMMA StutterType ==
    ASSUME TypeInv, UNCHANGED vars PROVE TypeInv'
<1> USE DEF TypeInv
<1>1. TypeOK'
  BY DEF TypeOK, StoreTypeOK, vars, store, memory, tasks, process, history
<1>2. \A a \in Asks : AskInv(a)'
  BY AskFrame DEF TaskInv, vars, tasks
<1> QED
  BY <1>1, <1>2 DEF TaskInv, Counted, vars, memory

(* Every step keeps the type invariant.                                    *)
LEMMA NextType ==
    ASSUME TypeInv, [Next]_vars PROVE TypeInv'
<1>1. ASSUME NEW a \in Asks, AskStep(a) PROVE TypeInv'
  BY <1>1, StartAskType, LatestReplyType, HistoryReplyType,
     VerifyConversationType, NameConversationType, EnqueueType, OverflowType,
     FallbackReplyType, DirectReplyType DEF AskStep
<1>2. CASE WorkerStep
  BY <1>2, WorkerGetType, WorkerStopType, WorkerReplyType DEF WorkerStep
<1> QED
  BY <1>1, <1>2, ReaderType, CancelType, ShutdownType, CrashType, RestartType,
     StutterType DEF Next

(* Every variable keeps its type, the handlers hold what their place says, *)
(* and the queue's unfinished count is its length plus the write in hand:  *)
(* the count drain() and close() wait on.                                  *)
THEOREM TypeCorrect == Spec => [](TypeOK /\ Counted)
<1>1. Spec => []TypeInv
  BY InitType, NextType, PTL DEF Spec
<1>2. TypeInv => TypeOK /\ Counted
  BY DEF TypeInv
<1> QED
  BY <1>1, <1>2, PTL

-----------------------------------------------------------------------------
(* The inductive invariant behind the persistence guarantees.              *)

(* An accepted write is on its way or has arrived somewhere.               *)
Tracked(op) == Pending(op) \/ Settled(op)

TurnOp(i, a) == Op(Turn[i], a, conv[a])

(* The writes an ask has behind it are tracked.                            *)
RecordOf(a) ==
    /\ pc[a] \in {"enqueue", "fallback"} =>
          \A i \in 1..4 : i < next[a] => Tracked(TurnOp(i, a))
    /\ pc[a] = "done" => \A i \in 1..4 : Tracked(TurnOp(i, a))

RecordInv == \A a \in Asks : RecordOf(a)

(* What a drained read counts on.                                          *)
ReadInv ==
    \A t \in Tasks : \A a \in before[t] :
        /\ pc[a] = "done"
        /\ pc[t] \in Reads => \A i \in 1..4 : Settled(TurnOp(i, a))

(* Shutdown: handlers end before close() drains, close() drains before it  *)
(* puts the sentinel, and only a live worker leaves anything queued.       *)
ShutInv ==
    /\ service \notin {"up", "stopping"} =>
          \A t \in Tasks : pc[t] \in Ended \cup {"new"}
    /\ service \in {"draining", "sentinel"} => worker = "alive"
    /\ service \in {"closed", "down"} => worker = "none"
    /\ worker = "done" => service = "closing"
    /\ hand # None => worker = "alive"
    /\ worker # "alive" => queue = <<>>
    /\ \A i \in 1..Len(queue) :
          queue[i] = None => i = Len(queue) /\ service = "closing"

IInv == TypeInv /\ RecordInv /\ ReadInv /\ ShutInv

(* The tables only grow, and an inserted row is there.                     *)
LEMMA InsertKeeps ==
    ASSUME StoreTypeOK, NEW op \in Ops, Insert(op)
    PROVE  /\ \A o \in Ops : Stored(o) => Stored(o)'
           /\ Stored(op)'
<1>1. /\ op.kind \in {"create", "user", "assistant", "trace"}
      /\ op.ask \in Asks /\ op.conv \in Asks
      /\ op.kind \in {"user", "assistant"} => op \in Messages
  BY TurnFacts DEF Ops, Messages
<1>2. /\ Range(convs) \subseteq Range(convs')
      /\ op.kind = "create" => op.conv \in Range(convs')
  <2>1. Range(Append(convs, op.conv)) = Range(convs) \cup {op.conv}
    BY <1>1, RangeAppend DEF StoreTypeOK
  <2> QED
    BY <2>1 DEF Insert
<1>3. /\ Range(msgs) \subseteq Range(msgs')
      /\ op.kind \in {"user", "assistant"} => op \in Range(msgs')
  <2>1. op.kind \in {"user", "assistant"} =>
           Range(Append(msgs, op)) = Range(msgs) \cup {op}
    BY <1>1, RangeAppend DEF StoreTypeOK
  <2> QED
    BY <2>1 DEF Insert
<1>4. /\ \A a \in Asks : traces[a] > 0 => traces'[a] > 0
      /\ op.kind = "trace" => traces'[op.ask] > 0
  BY <1>1 DEF Insert, StoreTypeOK
<1>5. ASSUME NEW o \in Ops, Stored(o) PROVE Stored(o)'
  <2>1. o.ask \in Asks
    BY DEF Ops
  <2> QED
    BY <1>2, <1>3, <1>4, <1>5, <2>1 DEF Stored, HasConv, HasMessage
<1>6. Stored(op)'
  BY <1>1, <1>2, <1>3, <1>4 DEF Stored, HasConv, HasMessage
<1> QED
  BY <1>5, <1>6

(* Unchanged tables hold the same rows.                                    *)
LEMMA UnchangedKeeps ==
    ASSUME UNCHANGED store
    PROVE  \A o : Stored(o) <=> Stored(o)'
  BY DEF store, Stored, HasConv, HasMessage

(* "ok" means the rows are there.                                          *)
LEMMA ReplyKeeps ==
    ASSUME StoreTypeOK, NEW j \in Jobs, NEW result, NEW fault \in BOOLEAN,
           Reply(j, result, fault)
    PROVE  /\ \A o \in Ops : Stored(o) => Stored(o)'
           /\ result = "ok" => Stored(j.op)'
<1>0. j.op \in Ops /\ (j.stmt = "select" => j.op.kind = "create")
  BY DEF Jobs
<1>1. CASE /\ j.stmt = "select" /\ ~fault
           /\ result = IF HasConv(j.op.conv) THEN "ok" ELSE "missing"
           /\ UNCHANGED store
  <2>1. result = "ok" => Stored(j.op)
    BY <1>0, <1>1 DEF Stored
  <2> QED
    BY <1>1, <2>1, <1>0, UnchangedKeeps
<1>2. CASE Insert(j.op)
  BY <1>0, <1>2, InsertKeeps
<1>3. CASE result = "error" /\ UNCHANGED store
  BY <1>3, UnchangedKeeps
<1> QED
  BY <1>1, <1>2, <1>3 DEF Reply

(* What every step preserves of the accepted writes and answered asks.     *)
Keeps ==
    /\ \A op \in Ops : Settled(op) => Settled(op)'
    /\ \A op \in Ops : Tracked(op) => Tracked(op)'
    /\ \A a \in Asks : pc[a] = "done" => pc'[a] = "done" /\ conv'[a] = conv[a]

(* What settled stays so while rows, dead letters and losses only grow.    *)
LEMMA StaySettled ==
    ASSUME \A o \in Ops : Stored(o) => Stored(o)',
           dead \subseteq dead', lost \subseteq lost'
    PROVE  \A op \in Ops : Settled(op) => Settled(op)'
  BY DEF Settled

(* A write that is pending or settled stays one of both.                   *)
LEMMA StayTracked ==
    ASSUME \A op \in Ops : Settled(op) => Settled(op)',
           \A op \in Ops : Pending(op) => Pending(op)' \/ Settled(op)'
    PROVE  \A op \in Ops : Tracked(op) => Tracked(op)'
  BY DEF Tracked

(* The same queue and hand hold the same pending writes.                   *)
LEMMA SamePending ==
    ASSUME UNCHANGED <<queue, hand>>
    PROVE  \A op : Pending(op) => Pending(op)'
  BY DEF Pending, Queued, InHand

(* The writes of a turn are writes.                                        *)
LEMMA TurnOpType ==
    ASSUME TypeOK, NEW a \in Asks, conv[a] \in Asks, NEW i \in 1..4
    PROVE  TurnOp(i, a) \in Ops
  BY TurnFacts, OpType DEF TurnOp

(* The next write is the one its index names.                              *)
LEMMA NextTurnOp ==
    ASSUME TypeOK, NEW a \in Asks
    PROVE  NextOp(a) = TurnOp(next[a], a)
  BY DEF NextOp, TurnOp

(* The tables, the dead letters and the losses as a step of Next leaves    *)
(* them, and what becomes of pending writes.                               *)
LEMMA KeepsStatic ==
    ASSUME TypeInv, UNCHANGED <<store, queue, hand, dead, lost>>,
           \A a \in Asks : pc[a] = "done" => pc'[a] = "done" /\ conv'[a] = conv[a]
    PROVE  Keeps
  BY UnchangedKeeps, StaySettled, StayTracked, SamePending DEF Keeps

(* A step that leaves an ask where it is keeps its turn tracked.           *)
LEMMA RecordFrame ==
    ASSUME TypeInv, Keeps, NEW a \in Asks, RecordOf(a),
           pc'[a] = pc[a], conv'[a] = conv[a], next'[a] = next[a]
    PROVE  RecordOf(a)'
<1>1. CASE conv[a] \in Asks
  <2>1. ASSUME NEW i \in 1..4, Tracked(TurnOp(i, a)) PROVE Tracked(TurnOp(i, a))'
    <3>1. TurnOp(i, a) \in Ops /\ TurnOp(i, a)' = TurnOp(i, a)
      BY <1>1, TurnOpType DEF TypeInv, TurnOp
    <3> QED
      BY <2>1, <3>1 DEF Keeps, Tracked, Pending, Queued, InHand, Settled, Stored,
                        HasConv, HasMessage
  <2> QED
    BY <2>1 DEF RecordOf
<1>2. CASE conv[a] \notin Asks
  BY <1>2 DEF TypeInv, TaskInv, AskInv, RecordOf
<1> QED
  BY <1>1, <1>2

(* Outside persistence nothing is claimed of an ask's turn.                *)
LEMMA RecordElsewhere ==
    ASSUME NEW a \in Asks, pc'[a] \notin {"enqueue", "fallback", "done"}
    PROVE  RecordOf(a)'
  BY DEF RecordOf

(* An ask that goes on after its write numbered next[a] is tracked.        *)
LEMMA RecordAdvance ==
    ASSUME TypeInv, Keeps, NEW a \in Asks, RecordOf(a), conv' = conv,
           pc[a] \in {"enqueue", "fallback", "direct"},
           Proceed(a),
           \A op \in Ops : op = NextOp(a) => Tracked(op)'
    PROVE  RecordOf(a)'
<1> USE DEF TypeInv
<1>1. conv[a] \in Asks /\ next[a] \in 1..4 /\ (pc[a] = "direct" => next[a] = 1)
  BY DEF TaskInv, AskInv, TypeOK
<1>2. /\ pc'[a] \in {"done", "enqueue"}
      /\ pc'[a] = "done" <=> next[a] = 4
      /\ next[a] # 4 => next'[a] = next[a] + 1
  BY ProceedType
<1>3. ASSUME NEW i \in 1..4, i <= next[a] PROVE Tracked(TurnOp(i, a))'
  <2>1. TurnOp(i, a) \in Ops /\ TurnOp(i, a)' = TurnOp(i, a)
    BY <1>1, TurnOpType DEF TurnOp
  <2>2. PICK o \in Ops : o = TurnOp(i, a)
    BY <2>1
  <2>3. Tracked(o)'
    <3>1. CASE i = next[a]
      BY <2>2, <3>1, NextTurnOp
    <3>2. CASE i < next[a]
      <4>1. pc[a] \in {"enqueue", "fallback"}
        BY <1>1, <3>2
      <4>2. Tracked(o)
        BY <3>2, <4>1, <2>2 DEF RecordOf
      <4> QED
        BY <4>2 DEF Keeps
    <3> QED
      BY <1>1, <1>3, <3>1, <3>2
  <2> QED
    BY <2>1, <2>2, <2>3 DEF Tracked, Pending, Queued, InHand, Settled, Stored,
                            HasConv, HasMessage
<1>4. CASE next[a] = 4
  BY <1>2, <1>3, <1>4 DEF RecordOf
<1>5. CASE next[a] # 4
  <2>1. pc'[a] = "enqueue" /\ next'[a] = next[a] + 1
    BY <1>2, <1>5
  <2>2. \A i \in 1..4 : i < next'[a] => i <= next[a]
    BY <1>1, <2>1
  <2> QED
    BY <1>3, <2>1, <2>2 DEF RecordOf
<1> QED
  BY <1>4, <1>5

(* drain() returns only over an empty queue and an idle worker.            *)
LEMMA DrainedEmpty ==
    ASSUME TypeInv, ShutInv, Drained
    PROVE  queue = <<>> /\ hand = None
<1>1. CASE worker = "none"
  BY <1>1 DEF ShutInv
<1>2. CASE unfinished = 0
  <2>1. Len(queue) = 0 /\ hand = None
    BY <1>2 DEF TypeInv, Counted, TypeOK
  <2> QED
    BY <2>1 DEF TypeInv, TypeOK
<1> QED
  BY <1>1, <1>2 DEF Drained

(* A queue without unfinished items is empty and its worker idle.          *)
LEMMA ZeroEmpty ==
    ASSUME TypeInv, unfinished = 0
    PROVE  queue = <<>> /\ hand = None
<1>1. Len(queue) = 0 /\ hand = None
  BY DEF TypeInv, Counted, TypeOK
<1> QED
  BY <1>1 DEF TypeInv, TypeOK

(* Nothing is pending with an empty queue and an idle worker.              *)
LEMMA NothingPending ==
    ASSUME queue = <<>>, hand = None
    PROVE  \A op : ~Pending(op)
  BY DEF Pending, Queued, InHand, Range

(* A task reads what it drained before, or enters its read over nothing    *)
(* pending.                                                                *)
LEMMA ReadStep ==
    ASSUME TypeInv, TypeInv', RecordInv, ReadInv, Keeps,
           \A t \in Tasks : \A a \in before'[t] : pc[a] = "done",
           \A t \in Tasks : pc'[t] \in Reads =>
              \/ pc[t] \in Reads /\ before'[t] = before[t]
              \/ queue' = <<>> /\ hand' = None
    PROVE  ReadInv'
<1> USE DEF TypeInv
<1> SUFFICES ASSUME NEW t \in Tasks, NEW a \in before'[t]
             PROVE  /\ pc'[a] = "done"
                    /\ pc'[t] \in Reads => \A i \in 1..4 : Settled(TurnOp(i, a))'
  BY DEF ReadInv
<1>1. a \in Asks
  BY DEF TypeOK
<1>2. pc[a] = "done" /\ pc'[a] = "done" /\ conv'[a] = conv[a] /\ conv[a] \in Asks
  BY <1>1 DEF Keeps, TaskInv, AskInv
<1>3. ASSUME pc'[t] \in Reads, NEW i \in 1..4 PROVE Settled(TurnOp(i, a))'
  <2>1. TurnOp(i, a) \in Ops /\ TurnOp(i, a)' = TurnOp(i, a)
    BY <1>1, <1>2, TurnOpType DEF TurnOp
  <2>2. PICK o \in Ops : o = TurnOp(i, a)
    BY <2>1
  <2>3. Settled(o)'
    <3>1. CASE pc[t] \in Reads /\ before'[t] = before[t]
      <4>1. Settled(o)
        BY <2>2, <3>1 DEF ReadInv
      <4> QED
        BY <4>1 DEF Keeps
    <3>2. CASE queue' = <<>> /\ hand' = None
      <4>1. Tracked(o)
        BY <1>1, <1>2, <2>2 DEF RecordInv, RecordOf
      <4>2. Tracked(o)'
        BY <4>1 DEF Keeps
      <4>3. ~Pending(o)'
        BY <3>2, NothingPending DEF Pending, Queued, InHand, Range
      <4> QED
        BY <4>2, <4>3 DEF Tracked
    <3> QED
      BY <1>3, <3>1, <3>2
  <2> QED
    BY <2>1, <2>2, <2>3 DEF Settled, Stored, HasConv, HasMessage
<1> QED
  BY <1>2, <1>3

(* A step of one handler that leaves the queue and the worker's hand alone.*)
LEMMA HandlerStep ==
    ASSUME IInv, TypeInv', Keeps, NEW t \in Tasks,
           UNCHANGED <<queue, hand, service>>, worker' \in {worker, "alive"},
           service \in {"up", "stopping"},
           \A u \in Tasks \ {t} : pc'[u] = pc[u] /\ before'[u] = before[u],
           \A b \in Asks \ {t} : conv'[b] = conv[b] /\ next'[b] = next[b],
           t \in Asks => RecordOf(t)',
           \A a \in before'[t] : pc[a] = "done",
           pc'[t] \in Reads =>
              Drained \/ (pc[t] \in Reads /\ before'[t] = before[t])
    PROVE  IInv'
<1> USE DEF IInv
<1>1. RecordInv'
  <2> SUFFICES ASSUME NEW b \in Asks PROVE RecordOf(b)'
    BY DEF RecordInv
  <2>1. CASE b = t
    BY <2>1
  <2>2. CASE b # t
    BY <2>2, RecordFrame DEF RecordInv, Tasks
  <2> QED
    BY <2>1, <2>2
<1>2. ReadInv'
  <2>1. \A u \in Tasks : \A a \in before'[u] : pc[a] = "done"
    BY DEF ReadInv
  <2>2. Drained => queue' = <<>> /\ hand' = None
    BY DrainedEmpty
  <2> QED
    BY <2>1, <2>2, ReadStep
<1>3. ShutInv'
  BY DEF ShutInv
<1> QED
  BY <1>1, <1>2, <1>3

(* The service of a handler that is neither new nor ended accepts calls or *)
(* waits for them to end.                                                  *)
LEMMA ServiceUp ==
    ASSUME ShutInv, NEW t \in Tasks, pc[t] \notin Ended \cup {"new"}
    PROVE  service \in {"up", "stopping"}
  BY DEF ShutInv

(* drain() lets its caller read only if nothing is unfinished.             *)
LEMMA DrainReads ==
    ASSUME TypeOK, NEW t \in Tasks, NEW w \in Waits, Drain(t, w), pc'[t] \in Reads
    PROVE  Drained
<1>1. w \notin Reads
  BY JoinFacts
<1>2. pc'[t] = IF Drained THEN AfterJoin[w] ELSE w
  BY DEF Drain, TypeOK
<1> QED
  BY <1>1, <1>2

(* An ask that begins keeps the inductive invariant.                       *)
LEMMA StartAskInv ==
    ASSUME IInv, TypeInv', NEW a \in Asks, StartAsk(a) PROVE IInv'
<1> USE DEF IInv, TypeInv
<1>1. a \in Tasks
  BY DEF Tasks
<1>2. PICK w \in {"wait_latest", "wait_history"} : Drain(a, w)
  BY DEF StartAsk
<1>3. /\ pc'[a] \in {"wait_latest", "wait_history", "latest", "history"}
      /\ \A u \in Tasks \ {a} : pc'[u] = pc[u]
      /\ pc'[a] \in Reads => Drained
  BY <1>1, <1>2, DrainType, DrainReads, JoinFacts
<1>4. /\ UNCHANGED <<store, memory, next, job, running, process, overflowed,
                     dead, faulted, lost>>
      /\ service = "up" /\ pc[a] = "new"
      /\ before' = [before EXCEPT ![a] = {b \in Asks : pc[b] = "done"}]
      /\ \A b \in Asks \ {a} : conv'[b] = conv[b]
  BY DEF StartAsk, TypeOK
<1>5. Keeps
  <2>1. \A b \in Asks : pc[b] = "done" => pc'[b] = "done" /\ conv'[b] = conv[b]
    BY <1>3, <1>4 DEF Tasks
  <2> QED
    BY <2>1, <1>4, KeepsStatic DEF memory
<1>6. RecordOf(a)'
  BY <1>3, RecordElsewhere
<1>7. (\A b \in before'[a] : pc[b] = "done")
      /\ \A u \in Tasks \ {a} : before'[u] = before[u]
  BY <1>1, <1>4 DEF TypeOK
<1> QED
  BY <1>1, <1>3, <1>4, <1>5, <1>6, <1>7, HandlerStep DEF memory, process

(* The lookup reply keeps the inductive invariant.                         *)
LEMMA LatestReplyInv ==
    ASSUME IInv, TypeInv', NEW a \in Asks, LatestReply(a) PROVE IInv'
<1> USE DEF IInv, TypeInv
<1>1. a \in Tasks /\ service \in {"up", "stopping"} /\ pc[a] = "latest"
  BY ServiceUp DEF Tasks, LatestReply, Ended
<1>2. PICK c : /\ conv' = [conv EXCEPT ![a] = c]
               /\ IF c = None THEN Goto(a, "answer") ELSE Drain(a, "wait_history")
  BY DEF LatestReply
<1>3. /\ pc'[a] \in {"wait_history", "history", "answer"}
      /\ \A u \in Tasks \ {a} : pc'[u] = pc[u]
      /\ pc'[a] \in Reads => Drained
  <2>1. CASE c = None
    BY <1>1, <1>2, <2>1, GotoType, PlaceFacts, JoinFacts
  <2>2. CASE c # None
    BY <1>1, <1>2, <2>2, DrainType, DrainReads, JoinFacts
  <2> QED
    BY <2>1, <2>2
<1>4. /\ UNCHANGED <<store, memory, next, job, running, process, history>>
      /\ \A b \in Asks \ {a} : conv'[b] = conv[b]
  BY <1>2 DEF LatestReply, TypeOK
<1>5. Keeps
  <2>1. \A b \in Asks : pc[b] = "done" => pc'[b] = "done" /\ conv'[b] = conv[b]
    BY <1>1, <1>3, <1>4 DEF Tasks
  <2> QED
    BY <2>1, <1>4, KeepsStatic DEF memory, history
<1>6. RecordOf(a)'
  BY <1>3, RecordElsewhere
<1> QED
  BY <1>1, <1>3, <1>4, <1>5, <1>6, HandlerStep DEF memory, process, history, ReadInv

(* Steps of an ask that only move it, none of them to a read.              *)
LEMMA MoveInv ==
    ASSUME IInv, TypeInv', NEW a \in Asks,
           pc[a] \in {"history", "answer"}, NEW l \in {"answer", "direct", "enqueue"},
           Goto(a, l),
           \A b \in Asks \ {a} : conv'[b] = conv[b],
           UNCHANGED <<store, queue, hand, worker, next, service, history>>
    PROVE  IInv'
<1> USE DEF IInv, TypeInv
<1>1. a \in Tasks /\ service \in {"up", "stopping"} /\ next[a] = 1
  BY ServiceUp DEF Tasks, Ended, TaskInv, AskInv
<1>2. /\ pc'[a] = l
      /\ \A u \in Tasks \ {a} : pc'[u] = pc[u]
      /\ pc'[a] \notin Reads
  BY <1>1, GotoType, PlaceFacts, JoinFacts
<1>3. Keeps
  <2>1. \A b \in Asks : pc[b] = "done" => pc'[b] = "done" /\ conv'[b] = conv[b]
    BY <1>1, <1>2 DEF Tasks
  <2> QED
    BY <2>1, KeepsStatic DEF history
<1>4. RecordOf(a)'
  <2>1. \A i \in 1..4 : ~(i < next'[a])
    BY <1>1
  <2> QED
    BY <1>2, <2>1 DEF RecordOf
<1> QED
  BY <1>1, <1>2, <1>3, <1>4, HandlerStep DEF history, ReadInv

(* The steps that move an ask without a write keep the invariant.          *)
LEMMA MovesInv ==
    ASSUME IInv, TypeInv', NEW a \in Asks,
           HistoryReply(a) \/ VerifyConversation(a) \/ NameConversation(a)
    PROVE  IInv'
<1> USE DEF IInv, TypeInv
<1>1. CASE HistoryReply(a)
  BY <1>1, MoveInv DEF HistoryReply, memory, process
<1>2. CASE VerifyConversation(a)
  BY <1>2, MoveInv DEF VerifyConversation, memory, process
<1>3. CASE NameConversation(a)
  <2>1. \A b \in Asks \ {a} : conv'[b] = conv[b]
    BY <1>3 DEF NameConversation, TypeOK
  <2> QED
    BY <1>3, <2>1, MoveInv DEF NameConversation, process
<1> QED
  BY <1>1, <1>2, <1>3

(* A write with room in the queue keeps the inductive invariant.           *)
LEMMA EnqueueInv ==
    ASSUME IInv, TypeInv', NEW a \in Asks, Enqueue(a) PROVE IInv'
<1> USE DEF IInv, TypeInv
<1>1. /\ a \in Tasks /\ pc[a] = "enqueue" /\ service \in {"up", "stopping"}
      /\ conv[a] \in Asks
  BY ServiceUp DEF Tasks, Enqueue, Ended, TaskInv, AskInv
<1>2. /\ Proceed(a) /\ queue' = Append(queue, NextOp(a)) /\ worker' = "alive"
      /\ UNCHANGED <<store, hand, known, conv, job, process, history>>
  BY DEF Enqueue, EnsureWorker
<1>3. /\ NextOp(a) \in Ops /\ NextOp(a) # None
      /\ queue \in Seq(Ops \cup {None})
      /\ Range(queue') = Range(queue) \cup {NextOp(a)}
  <2>1. NextOp(a) \in Ops /\ NextOp(a) # None
    BY <1>1, NextOpType, NamesAssumption
  <2>2. queue \in Seq(Ops \cup {None})
    BY DEF TypeOK
  <2> QED
    BY <1>2, <2>1, <2>2, RangeAppend
<1>4. Keeps
  <2>1. \A op \in Ops : Settled(op) => Settled(op)'
    BY <1>2, UnchangedKeeps, StaySettled DEF history
  <2>2. \A op \in Ops : Pending(op) => Pending(op)'
    BY <1>2, <1>3 DEF Pending, Queued, InHand
  <2>3. \A b \in Asks : pc[b] = "done" => pc'[b] = "done" /\ conv'[b] = conv[b]
    BY <1>1, <1>2, ProceedType DEF Tasks
  <2> QED
    BY <2>1, <2>2, <2>3, StayTracked DEF Keeps
<1>5. RecordInv'
  <2>1. RecordOf(a)'
    <3>1. \A op \in Ops : op = NextOp(a) => Tracked(op)'
      BY <1>3 DEF Tracked, Pending, Queued
    <3> QED
      BY <1>1, <1>2, <1>4, <3>1, RecordAdvance DEF RecordInv
  <2>2. ASSUME NEW b \in Asks \ {a} PROVE RecordOf(b)'
    BY <1>2, <1>4, ProceedType, RecordFrame DEF RecordInv, Tasks
  <2> QED
    BY <2>1, <2>2 DEF RecordInv
<1>6. ReadInv'
  <2>1. \A t \in Tasks : pc'[t] \in Reads => pc[t] \in Reads
    BY <1>2, ProceedType, JoinFacts
  <2> QED
    BY <1>2, <1>4, <2>1, ReadStep DEF ReadInv, history
<1>7. ShutInv'
  <2>1. \A i \in 1..Len(queue) : queue[i] # None
    BY <1>1 DEF ShutInv
  <2>2. \A i \in 1..Len(queue') : queue'[i] # None
    BY <1>2, <1>3, <2>1
  <2> QED
    BY <1>1, <1>2, <2>2 DEF ShutInv, process
<1> QED
  BY <1>5, <1>6, <1>7

(* A write that meets a full queue keeps the inductive invariant.          *)
LEMMA OverflowInv ==
    ASSUME IInv, TypeInv', NEW a \in Asks, Overflow(a) PROVE IInv'
<1> USE DEF IInv, TypeInv
<1>1. a \in Tasks /\ pc[a] = "enqueue" /\ service \in {"up", "stopping"}
  BY ServiceUp DEF Tasks, Overflow, Ended
<1>2. /\ pc'[a] = "fallback"
      /\ \A u \in Tasks \ {a} : pc'[u] = pc[u]
  BY <1>1, GotoType, PlaceFacts DEF Overflow
<1>3. /\ worker' = "alive"
      /\ UNCHANGED <<store, queue, hand, conv, next, process, dead, lost, before>>
  BY DEF Overflow, EnsureWorker
<1>4. Keeps
  <2>1. \A b \in Asks : pc[b] = "done" => pc'[b] = "done" /\ conv'[b] = conv[b]
    BY <1>1, <1>2, <1>3 DEF Tasks
  <2> QED
    BY <2>1, <1>3, KeepsStatic
<1>5. RecordOf(a)'
  <2>1. conv[a] \in Asks
    BY <1>1 DEF TaskInv, AskInv
  <2>2. ASSUME NEW i \in 1..4, i < next[a] PROVE Tracked(TurnOp(i, a))'
    <3>1. Tracked(TurnOp(i, a))
      BY <1>1, <2>2 DEF RecordInv, RecordOf
    <3>2. TurnOp(i, a) \in Ops /\ TurnOp(i, a)' = TurnOp(i, a)
      BY <1>3, <2>1, TurnOpType DEF TurnOp
    <3> QED
      BY <1>4, <3>1, <3>2 DEF Keeps, Tracked, Pending, Queued, InHand, Settled,
                              Stored, HasConv, HasMessage
  <2> QED
    BY <1>2, <1>3, <2>2 DEF RecordOf
<1>6. pc'[a] \notin Reads
  BY <1>2, JoinFacts
<1> QED
  BY <1>1, <1>2, <1>3, <1>4, <1>5, <1>6, HandlerStep DEF process, ReadInv

(* A reply in the queue-full fallback keeps the inductive invariant.       *)
LEMMA FallbackReplyInv ==
    ASSUME IInv, TypeInv', NEW a \in Asks, FallbackReply(a) PROVE IInv'
<1> USE DEF IInv, TypeInv
<1>1. /\ a \in Tasks /\ pc[a] = "fallback" /\ service \in {"up", "stopping"}
      /\ job[a] \in Jobs /\ job[a].op = NextOp(a) /\ NextOp(a) \in Ops
  BY ServiceUp, NextOpType DEF Tasks, FallbackReply, Ended, TaskInv, AskInv
<1>j. PICK j \in Jobs : j = job[a]
  BY <1>1
<1>2. PICK result \in {"ok", "missing", "error"}, fault \in BOOLEAN :
          /\ Reply(j, result, fault)
          /\ \/ /\ result = "ok" \/ GivesUp(j, result)
                /\ Proceed(a)
             \/ UNCHANGED <<pc, running, next>>
          /\ NoteFailure(j, result)
  BY <1>j DEF FallbackReply
<1>3. UNCHANGED <<memory, conv, process, overflowed, lost, before>>
  BY DEF FallbackReply
<1>4. /\ \A u \in Tasks \ {a} : pc'[u] = pc[u]
      /\ \A b \in Asks \ {a} : next'[b] = next[b]
      /\ pc'[a] \in {"fallback", "enqueue", "done"}
  BY <1>1, <1>2, ProceedType
<1>5. /\ \A op \in Ops : Stored(op) => Stored(op)'
      /\ result = "ok" => Stored(j.op)'
      /\ dead \subseteq dead'
      /\ GivesUp(j, result) => j.op \in dead'
  BY <1>1, <1>2, ReplyKeeps DEF TypeOK, NoteFailure
<1>6. Keeps
  <2>1. \A op \in Ops : Settled(op) => Settled(op)'
    BY <1>3, <1>5, StaySettled
  <2>2. \A op \in Ops : Pending(op) => Pending(op)'
    BY <1>3, SamePending DEF memory
  <2>3. \A b \in Asks : pc[b] = "done" => pc'[b] = "done" /\ conv'[b] = conv[b]
    BY <1>1, <1>3, <1>4 DEF Tasks
  <2> QED
    BY <2>1, <2>2, <2>3, StayTracked DEF Keeps
<1>7. RecordOf(a)'
  <2>1. CASE (result = "ok" \/ GivesUp(j, result)) /\ Proceed(a)
    <3>1. \A op \in Ops : op = NextOp(a) => Tracked(op)'
      <4> SUFFICES ASSUME NEW op \in Ops, op = j.op PROVE Tracked(op)'
        BY <1>1, <1>j
      <4>1. CASE result = "ok"
        <5>1. Stored(op)'
          BY <1>5, <4>1 DEF Stored, HasConv, HasMessage
        <5> QED
          BY <5>1 DEF Tracked, Settled
      <4>2. CASE GivesUp(j, result)
        <5>1. op \in dead'
          BY <1>5, <4>2
        <5> QED
          BY <5>1 DEF Tracked, Settled
      <4> QED
        BY <2>1, <4>1, <4>2
    <3> QED
      BY <1>1, <1>3, <1>6, <2>1, <3>1, RecordAdvance DEF RecordInv
  <2>2. CASE UNCHANGED <<pc, running, next>>
    BY <1>1, <1>3, <1>6, <2>2, RecordFrame DEF RecordInv
  <2> QED
    BY <1>2, <2>1, <2>2
<1>8. pc'[a] \notin Reads
  BY <1>4, JoinFacts
<1> QED
  BY <1>1, <1>3, <1>4, <1>6, <1>7, <1>8, HandlerStep DEF memory, process, ReadInv

(* The reply to an unqueued create keeps the inductive invariant.          *)
LEMMA DirectReplyInv ==
    ASSUME IInv, TypeInv', NEW a \in Asks, DirectReply(a) PROVE IInv'
<1> USE DEF IInv, TypeInv
<1>1. /\ a \in Tasks /\ pc[a] = "direct" /\ service \in {"up", "stopping"}
      /\ job[a] \in Jobs /\ job[a].op = NextOp(a) /\ NextOp(a) \in Ops
  BY ServiceUp, NextOpType DEF Tasks, DirectReply, Ended, TaskInv, AskInv
<1>j. PICK j \in Jobs : j = job[a]
  BY <1>1
<1>2. PICK result \in {"ok", "missing", "error"}, fault \in BOOLEAN :
          /\ Reply(j, result, fault)
          /\ \/ result = "ok" /\ Proceed(a)
             \/ UNCHANGED <<pc, next>>
             \/ Goto(a, "failed") /\ UNCHANGED next
  BY <1>j DEF DirectReply
<1>3. UNCHANGED <<queue, unfinished, worker, hand, conv, process, overflowed,
                  dead, lost, before>>
  BY DEF DirectReply
<1>4. /\ \A u \in Tasks \ {a} : pc'[u] = pc[u]
      /\ \A b \in Asks \ {a} : next'[b] = next[b]
      /\ pc'[a] \in {"direct", "enqueue", "done", "failed"}
  BY <1>1, <1>2, ProceedType, GotoType, PlaceFacts
<1>5. /\ \A op \in Ops : Stored(op) => Stored(op)'
      /\ result = "ok" => Stored(j.op)'
  BY <1>1, <1>2, ReplyKeeps DEF TypeOK
<1>6. Keeps
  <2>1. \A op \in Ops : Settled(op) => Settled(op)'
    BY <1>3, <1>5, StaySettled
  <2>2. \A op \in Ops : Pending(op) => Pending(op)'
    BY <1>3, SamePending
  <2>3. \A b \in Asks : pc[b] = "done" => pc'[b] = "done" /\ conv'[b] = conv[b]
    BY <1>1, <1>3, <1>4 DEF Tasks
  <2> QED
    BY <2>1, <2>2, <2>3, StayTracked DEF Keeps
<1>7. RecordOf(a)'
  <2>1. CASE result = "ok" /\ Proceed(a)
    <3>1. \A op \in Ops : op = NextOp(a) => Tracked(op)'
      <4> SUFFICES ASSUME NEW op \in Ops, op = j.op PROVE Tracked(op)'
        BY <1>1, <1>j
      <4>1. Stored(op)'
        BY <1>5, <2>1 DEF Stored, HasConv, HasMessage
      <4> QED
        BY <4>1 DEF Tracked, Settled
    <3> QED
      BY <1>1, <1>3, <1>6, <2>1, <3>1, RecordAdvance DEF RecordInv
  <2>2. CASE UNCHANGED <<pc, next>>
    BY <1>1, <2>2, RecordElsewhere
  <2>3. CASE Goto(a, "failed")
    BY <1>1, <2>3, GotoType, PlaceFacts, RecordElsewhere
  <2> QED
    BY <1>2, <2>1, <2>2, <2>3
<1>8. pc'[a] \notin Reads
  BY <1>4, JoinFacts
<1> QED
  BY <1>1, <1>3, <1>4, <1>6, <1>7, <1>8, HandlerStep DEF process, ReadInv

(* A step of a read call keeps the inductive invariant.                    *)
LEMMA ReaderInv ==
    ASSUME IInv, TypeInv', NEW r \in Readers, ReaderStep(r) PROVE IInv'
<1> USE DEF IInv, TypeInv
<1>0. r \in Tasks /\ r \notin Asks
  BY NamesAssumption DEF Tasks
<1>1. /\ service \in {"up", "stopping"}
      /\ \A u \in Tasks \ {r} : pc'[u] = pc[u] /\ before'[u] = before[u]
      /\ \A b \in before'[r] : pc[b] = "done"
      /\ pc'[r] \in Reads => Drained
      /\ UNCHANGED <<store, memory, conv, next, job, running, process,
                     overflowed, dead, faulted, lost>>
  <2>1. CASE StartReader(r)
    <3>1. PICK w \in {"wait_find", "wait_read"} : Drain(r, w)
      BY <2>1 DEF StartReader
    <3>2. service = "up"
      BY <2>1 DEF StartReader
    <3> QED
      BY <1>0, <2>1, <3>1, <3>2, DrainType, DrainReads, JoinFacts DEF StartReader, TypeOK
  <2>2. CASE ReadReply(r)
    <3>1. PICK l \in {"done", "failed"} : Goto(r, l)
      BY <2>2 DEF ReadReply
    <3>2. service \in {"up", "stopping"}
      BY <1>0, <2>2, ServiceUp DEF ReadReply, Ended
    <3> QED
      BY <1>0, <2>2, <3>1, <3>2, GotoType, PlaceFacts, JoinFacts
         DEF ReadReply, history, ReadInv
  <2>3. CASE FindReply(r)
    <3>1. Drain(r, "wait_read") \/ Goto(r, "done") \/ Goto(r, "failed")
      BY <2>3 DEF FindReply
    <3>2. service \in {"up", "stopping"}
      BY <1>0, <2>3, ServiceUp DEF FindReply, Ended
    <3>3. CASE Drain(r, "wait_read")
      BY <1>0, <2>3, <3>2, <3>3, DrainType, DrainReads, JoinFacts
         DEF FindReply, history, TypeOK, ReadInv
    <3>4. CASE Goto(r, "done") \/ Goto(r, "failed")
      BY <1>0, <2>3, <3>2, <3>4, GotoType, PlaceFacts, JoinFacts
         DEF FindReply, history, ReadInv
    <3> QED
      BY <3>1, <3>3, <3>4
  <2> QED
    BY <2>1, <2>2, <2>3 DEF ReaderStep
<1>2. Keeps
  <2>1. \A b \in Asks : pc[b] = "done" => pc'[b] = "done" /\ conv'[b] = conv[b]
    BY <1>0, <1>1 DEF Tasks
  <2> QED
    BY <2>1, <1>1, KeepsStatic DEF memory
<1> QED
  BY <1>0, <1>1, <1>2, HandlerStep DEF memory, process

(* A cancelled handler keeps the inductive invariant.                      *)
LEMMA CancelInv ==
    ASSUME IInv, TypeInv', NEW t \in Tasks, Cancel(t) PROVE IInv'
<1> USE DEF IInv, TypeInv
<1>1. /\ pc[t] \notin Ended \cup {"new"} /\ service \in {"up", "stopping"}
      /\ pc'[t] = "failed"
      /\ \A u \in Tasks \ {t} : pc'[u] = pc[u]
      /\ UNCHANGED <<memory, conv, next, running, process, history>>
  BY GotoType, PlaceFacts DEF Cancel
<1>2. \A op \in Ops : Stored(op) => Stored(op)'
  <2>1. CASE UNCHANGED store
    BY <2>1, UnchangedKeeps
  <2>2. CASE t \in Asks /\ pc[t] \in {"direct", "fallback"} /\ Insert(job[t].op)
    <3>1. job[t].op \in Ops
      BY <2>2 DEF TaskInv, AskInv, Jobs
    <3> QED
      BY <2>2, <3>1, InsertKeeps DEF TypeOK
  <2> QED
    BY <2>1, <2>2 DEF Cancel
<1>3. Keeps
  <2>1. \A op \in Ops : Settled(op) => Settled(op)'
    BY <1>1, <1>2, StaySettled DEF history
  <2>2. \A op \in Ops : Pending(op) => Pending(op)'
    BY <1>1, SamePending DEF memory
  <2>3. \A b \in Asks : pc[b] = "done" => pc'[b] = "done" /\ conv'[b] = conv[b]
    BY <1>1 DEF Tasks, Ended
  <2> QED
    BY <2>1, <2>2, <2>3, StayTracked DEF Keeps
<1>4. t \in Asks => RecordOf(t)'
  BY <1>1, RecordElsewhere
<1>5. pc'[t] \notin Reads
  BY <1>1, JoinFacts
<1> QED
  BY <1>1, <1>3, <1>4, <1>5, HandlerStep DEF memory, process, history, ReadInv

(* The worker that takes a write keeps the inductive invariant.            *)
LEMMA WorkerGetInv ==
    ASSUME IInv, TypeInv', WorkerGet PROVE IInv'
<1> USE DEF IInv, TypeInv
<1>1. /\ worker = "alive" /\ hand = None /\ queue # <<>> /\ Head(queue) # None
      /\ hand' = Job(Head(queue), 1) /\ queue' = Tail(queue)
      /\ UNCHANGED <<store, unfinished, worker, known, tasks, process, history>>
  BY DEF WorkerGet
<1>2. /\ hand'.op = Head(queue) /\ hand' # None
      /\ Range(queue) = {Head(queue)} \cup Range(queue')
  BY <1>1, TakeType
<1>3. Keeps
  <2>1. \A op \in Ops : Settled(op) => Settled(op)'
    BY <1>1, UnchangedKeeps, StaySettled DEF history
  <2>2. \A op \in Ops : Pending(op) => Pending(op)'
    BY <1>1, <1>2 DEF Pending, Queued, InHand
  <2> QED
    BY <1>1, <2>1, <2>2, StayTracked DEF Keeps, tasks
<1>4. RecordInv'
  BY <1>1, <1>3, RecordFrame DEF RecordInv, tasks
<1>5. ReadInv'
  BY <1>1, <1>3, ReadStep DEF ReadInv, tasks, history
<1>6. ShutInv'
  <2>1. ASSUME NEW i \in 1..Len(queue'), queue'[i] = None
        PROVE  i = Len(queue') /\ service = "closing"
    <3>1. /\ i + 1 \in 1..Len(queue) /\ queue'[i] = queue[i + 1]
          /\ Len(queue') = Len(queue) - 1 /\ Len(queue) \in Nat
      BY <1>1 DEF TypeOK
    <3>2. i + 1 = Len(queue) /\ service = "closing"
      BY <2>1, <3>1 DEF ShutInv
    <3> QED
      BY <3>1, <3>2
  <2> QED
    BY <1>1, <2>1 DEF ShutInv, tasks, process
<1> QED
  BY <1>4, <1>5, <1>6

(* What task_done() does to the handlers, for the record and the reads.    *)
LEMMA ReleaseInv ==
    ASSUME IInv, TypeInv', Release, Keeps,
           UNCHANGED <<conv, next, before>>
    PROVE  /\ RecordInv' /\ ReadInv'
           /\ service \notin {"up", "stopping"} => pc' = pc
           /\ service' = service \/ (service = "draining" /\ service' = "sentinel")
<1> USE DEF IInv, TypeInv
<1>1. RecordInv'
  <2> SUFFICES ASSUME NEW a \in Asks PROVE RecordOf(a)'
    BY DEF RecordInv
  <2>0. a \in Tasks
    BY DEF Tasks
  <2>1. CASE pc[a] \notin Waits
    BY <2>0, <2>1, ReleaseType, RecordFrame DEF RecordInv
  <2>2. CASE pc[a] \in Waits
    <3>1. pc'[a] \notin {"enqueue", "fallback", "done"}
      BY <2>0, <2>2, ReleaseType, JoinFacts
    <3> QED
      BY <3>1, RecordElsewhere
  <2> QED
    BY <2>1, <2>2
<1>2. ReadInv'
  <2>1. ASSUME NEW t \in Tasks, pc'[t] \in Reads
        PROVE  pc[t] \in Reads \/ (queue' = <<>> /\ hand' = None)
    <3>1. CASE unfinished' = 0
      <4>1. Len(queue') = 0 /\ hand' = None /\ queue' \in Seq(Ops \cup {None})
        BY <3>1 DEF Counted, TypeOK
      <4> QED
        BY <4>1
    <3>2. CASE unfinished' # 0
      BY <2>1, <3>2 DEF Release
    <3> QED
      BY <3>1, <3>2
  <2> QED
    BY <2>1, ReadStep DEF ReadInv
<1>3. ASSUME service \notin {"up", "stopping"} PROVE pc' = pc
  <2>1. \A t \in Tasks : pc[t] \notin Waits
    BY <1>3, JoinFacts DEF ShutInv, Ended
  <2> QED
    BY <2>1 DEF Release, TypeOK
<1>4. service' = service \/ (service = "draining" /\ service' = "sentinel")
  BY DEF Release
<1> QED
  BY <1>1, <1>2, <1>3, <1>4

(* The worker that takes the sentinel keeps the inductive invariant.       *)
LEMMA WorkerStopInv ==
    ASSUME IInv, TypeInv', WorkerStop PROVE IInv'
<1> USE DEF IInv, TypeInv
<1>1. /\ worker = "alive" /\ hand = None /\ queue # <<>> /\ Head(queue) = None
      /\ queue' = Tail(queue) /\ worker' = "done" /\ Release
      /\ UNCHANGED <<store, hand, known, conv, next, job, running, starts, history>>
  BY DEF WorkerStop
<1>2. /\ Range(queue) = {None} \cup Range(queue')
      /\ queue \in Seq(Ops \cup {None})
  BY <1>1, RangeTail DEF TypeOK
<1>3. queue' = <<>> /\ service = "closing"
  <2>1. 1 \in 1..Len(queue) /\ queue[1] = None
    BY <1>1, <1>2
  <2>2. Len(queue) = 1 /\ service = "closing"
    BY <2>1 DEF ShutInv
  <2> QED
    BY <1>1, <1>2, <2>2
<1>4. Keeps
  <2>1. \A op \in Ops : Settled(op) => Settled(op)'
    BY <1>1, UnchangedKeeps, StaySettled DEF history
  <2>2. \A op \in Ops : Pending(op) => Pending(op)'
    BY <1>1, <1>2 DEF Pending, Queued, InHand
  <2>3. \A a \in Asks : pc[a] = "done" => pc'[a] = "done" /\ conv'[a] = conv[a]
    BY <1>1, ReleaseType, JoinFacts DEF Tasks
  <2> QED
    BY <2>1, <2>2, <2>3, StayTracked DEF Keeps
<1>5. RecordInv' /\ ReadInv' /\ pc' = pc /\ service' = "closing"
  BY <1>1, <1>3, <1>4, ReleaseInv DEF history
<1>6. ShutInv'
  BY <1>1, <1>3, <1>5 DEF ShutInv
<1> QED
  BY <1>5, <1>6

(* The worker moves on from a write that is stored or given up.            *)
LEMMA SettleKeeps ==
    ASSUME IInv, Settle, hand # None, UNCHANGED conv,
           \A op \in Ops : Settled(op) => Settled(op)',
           \A op \in Ops : op = hand.op => Settled(op)'
    PROVE  Keeps
<1> USE DEF IInv, TypeInv
<1>1. \A op \in Ops : Pending(op) => Pending(op)' \/ Settled(op)'
  <2> SUFFICES ASSUME NEW op \in Ops, Pending(op), op # hand.op
               PROVE  Pending(op)'
    OBVIOUS
  <2>1. op \in Queued
    BY DEF Pending, InHand
  <2>2. CASE queue # <<>> /\ Head(queue) # None
    <3>1. /\ hand' = Job(Head(queue), 1) /\ queue' = Tail(queue)
          /\ hand'.op = Head(queue) /\ hand' # None
          /\ Range(queue) = {Head(queue)} \cup Range(queue')
      BY <2>2, TakeType DEF Settle
    <3> QED
      BY <2>1, <3>1 DEF Pending, Queued, InHand
  <2>3. CASE ~(queue # <<>> /\ Head(queue) # None)
    <3>1. queue' = queue
      BY <2>3 DEF Settle
    <3> QED
      BY <2>1, <3>1 DEF Pending, Queued
  <2> QED
    BY <2>2, <2>3
<1>2. \A a \in Asks : pc[a] = "done" => pc'[a] = "done" /\ conv'[a] = conv[a]
  <2>1. Release
    BY DEF Settle
  <2> QED
    BY <2>1, ReleaseType, JoinFacts DEF Tasks
<1> QED
  BY <1>1, <1>2, StayTracked DEF Keeps

(* The reply to the worker's statement keeps the inductive invariant.      *)
LEMMA WorkerReplyInv ==
    ASSUME IInv, TypeInv', WorkerReply PROVE IInv'
<1> USE DEF IInv, TypeInv
<1>0. hand # None /\ hand \in Jobs /\ worker = "alive"
  BY DEF WorkerReply, TypeOK, ShutInv
<1>j. PICK j \in Jobs : j = hand
  BY <1>0
<1>1. PICK result \in {"ok", "missing", "error"}, fault \in BOOLEAN :
          /\ Reply(j, result, fault)
          /\ \/ /\ result = "ok" \/ GivesUp(j, result)
                /\ Settle
             \/ /\ result = "missing"
                /\ hand' = Inserting(j)
                /\ UNCHANGED <<queue, unfinished, pc, service>>
             \/ /\ result = "error" /\ ~GivesUp(j, result)
                /\ hand' = Retry(j)
                /\ UNCHANGED <<queue, unfinished, pc, service>>
          /\ NoteFailure(j, result)
  BY <1>j DEF WorkerReply
<1>2. UNCHANGED <<worker, known, conv, next, job, running, starts,
                  overflowed, lost, before>>
  BY DEF WorkerReply
<1>3. /\ \A op \in Ops : Stored(op) => Stored(op)'
      /\ result = "ok" => Stored(j.op)'
      /\ dead \subseteq dead'
      /\ GivesUp(j, result) => j.op \in dead'
  BY <1>1, ReplyKeeps DEF TypeOK, NoteFailure
<1>4. \A op \in Ops : Settled(op) => Settled(op)'
  BY <1>2, <1>3, StaySettled
<1>5. CASE (result = "ok" \/ GivesUp(j, result)) /\ Settle
  <2>1. \A op \in Ops : op = hand.op => Settled(op)'
    <3> SUFFICES ASSUME NEW op \in Ops, op = j.op PROVE Settled(op)'
      BY <1>j
    <3>1. CASE result = "ok"
      <4>1. Stored(op)'
        BY <1>3, <3>1 DEF Stored, HasConv, HasMessage
      <4> QED
        BY <4>1 DEF Settled
    <3>2. CASE GivesUp(j, result)
      <4>1. op \in dead'
        BY <1>3, <3>2
      <4> QED
        BY <4>1 DEF Settled
    <3> QED
      BY <1>5, <3>1, <3>2
  <2>2. Keeps
    BY <1>0, <1>2, <1>4, <1>5, <2>1, SettleKeeps
  <2>3. /\ RecordInv' /\ ReadInv'
        /\ service \notin {"up", "stopping"} => pc' = pc
        /\ service' = service \/ (service = "draining" /\ service' = "sentinel")
    BY <1>2, <1>5, <2>2, ReleaseInv DEF Settle
  <2>4. \A i \in 1..Len(queue') :
           queue'[i] = None => i = Len(queue') /\ service = "closing"
    <3>1. CASE queue # <<>> /\ Head(queue) # None
      <4>1. queue' = Tail(queue) /\ queue \in Seq(Ops \cup {None})
        BY <1>5, <3>1 DEF Settle, TypeOK
      <4> SUFFICES ASSUME NEW i \in 1..Len(queue'), queue'[i] = None
                   PROVE  i = Len(queue') /\ service = "closing"
        OBVIOUS
      <4>2. /\ i + 1 \in 1..Len(queue) /\ queue'[i] = queue[i + 1]
            /\ Len(queue') = Len(queue) - 1 /\ Len(queue) \in Nat
        BY <3>1, <4>1
      <4>3. i + 1 = Len(queue) /\ service = "closing"
        BY <4>2 DEF ShutInv
      <4> QED
        BY <4>2, <4>3
    <3>2. CASE ~(queue # <<>> /\ Head(queue) # None)
      BY <1>5, <3>2 DEF Settle, ShutInv
    <3> QED
      BY <3>1, <3>2
  <2>5. ShutInv'
    BY <1>0, <1>2, <2>3, <2>4 DEF ShutInv
  <2> QED
    BY <2>3, <2>5
<1>6. CASE hand' \in {Inserting(j), Retry(j)} /\ hand' \in Jobs /\ hand'.op = hand.op
           /\ UNCHANGED <<queue, unfinished, pc, service>>
  <2>1. hand' # None
    BY <1>6, NamesAssumption
  <2>2. \A op \in Ops : Pending(op) => Pending(op)'
    BY <1>0, <1>6, <2>1 DEF Pending, Queued, InHand
  <2>3. Keeps
    BY <1>2, <1>4, <1>6, <2>2, StayTracked DEF Keeps
  <2>4. RecordInv'
    BY <1>2, <1>6, <2>3, RecordFrame DEF RecordInv
  <2>5. ReadInv'
    BY <1>2, <1>6, <2>3, ReadStep DEF ReadInv
  <2>6. ShutInv'
    BY <1>0, <1>2, <1>6 DEF ShutInv
  <2> QED
    BY <2>4, <2>5, <2>6
<1> QED
  BY <1>j, <1>1, <1>5, <1>6, JobSteps

(* Steps of the process that leave the handlers where they are.            *)
LEMMA QuietStep ==
    ASSUME IInv, TypeInv', ShutInv', UNCHANGED <<store, tasks, history>>,
           \A op \in Ops : Pending(op) => Pending(op)'
    PROVE  IInv'
<1> USE DEF IInv, TypeInv
<1>1. Keeps
  <2>1. \A op \in Ops : Settled(op) => Settled(op)'
    BY UnchangedKeeps, StaySettled DEF history
  <2> QED
    BY <2>1, StayTracked DEF Keeps, tasks
<1>2. RecordInv'
  BY <1>1, RecordFrame DEF RecordInv, tasks
<1>3. ReadInv'
  BY <1>1, ReadStep DEF ReadInv, tasks, history
<1> QED
  BY <1>2, <1>3

(* A step of the shutdown keeps the inductive invariant.                   *)
LEMMA ShutdownInv ==
    ASSUME IInv, TypeInv', StopServer \/ CloseStep PROVE IInv'
<1> USE DEF IInv, TypeInv
<1>1. CASE StopServer
  <2>1. /\ service' = "stopping"
        /\ UNCHANGED <<store, memory, tasks, starts, history>>
        /\ service = "up"
    BY <1>1 DEF StopServer
  <2>2. ShutInv'
    BY <2>1 DEF ShutInv, memory, tasks
  <2> QED
    BY <2>1, <2>2, QuietStep, SamePending DEF memory
<1>2. CASE Close
  <2>1. /\ service = "stopping"
        /\ \A t \in Tasks : pc[t] \in Ended \cup {"new"}
        /\ service' = IF worker = "none" THEN "closed"
                      ELSE IF Drained THEN "sentinel" ELSE "draining"
        /\ UNCHANGED <<store, memory, tasks, starts, history>>
    BY <1>2 DEF Close
  <2>2. worker \in {"none", "alive"}
    BY <2>1 DEF ShutInv, TypeOK
  <2>3. ShutInv'
    BY <2>1, <2>2 DEF ShutInv, memory, tasks
  <2> QED
    BY <2>1, <2>3, QuietStep, SamePending DEF memory
<1>3. CASE PutSentinel
  <2>1. /\ service = "sentinel" /\ worker = "alive"
        /\ queue' = Append(queue, None) /\ service' = "closing"
        /\ UNCHANGED <<store, worker, hand, known, tasks, starts, history>>
    BY <1>3 DEF PutSentinel, ShutInv
  <2>2. /\ queue \in Seq(Ops \cup {None})
        /\ Range(queue') = Range(queue) \cup {None}
    BY <2>1, RangeAppend DEF TypeOK
  <2>3. \A op \in Ops : Pending(op) => Pending(op)'
    BY <2>1, <2>2 DEF Pending, Queued, InHand
  <2>4. \A i \in 1..Len(queue') : queue'[i] = None => i = Len(queue')
    <3>1. \A i \in 1..Len(queue) : queue[i] # None
      BY <2>1 DEF ShutInv
    <3>2. /\ Len(queue') = Len(queue) + 1 /\ Len(queue) \in Nat
          /\ \A i \in 1..Len(queue) : queue'[i] = queue[i]
      BY <2>1, <2>2
    <3> QED
      BY <3>1, <3>2
  <2>5. ShutInv'
    BY <2>1, <2>4 DEF ShutInv, tasks
  <2> QED
    BY <2>1, <2>3, <2>5, QuietStep
<1>4. CASE Closed
  <2>1. /\ service = "closing" /\ worker = "done"
        /\ worker' = "none" /\ service' = "closed"
        /\ UNCHANGED <<store, queue, unfinished, hand, known, tasks, starts, history>>
    BY <1>4 DEF Closed
  <2>2. ShutInv'
    BY <2>1 DEF ShutInv, tasks
  <2> QED
    BY <2>1, <2>2, QuietStep, SamePending
<1> QED
  BY <1>1, <1>2, <1>3, <1>4 DEF CloseStep

(* A crash keeps the inductive invariant.                                  *)
LEMMA CrashInv ==
    ASSUME IInv, TypeInv', Crash PROVE IInv'
<1> USE DEF IInv, TypeInv
<1>1. /\ pc' = [t \in Tasks |-> IF pc[t] \in Ended \cup {"new"} THEN pc[t] ELSE "failed"]
      /\ lost' = lost \cup Queued \cup (IF hand = None THEN {} ELSE {hand.op})
      /\ service' = "down" /\ Forget
      /\ UNCHANGED <<store, conv, next, starts, dead, before>>
  BY DEF Crash
<1>2. \A t \in Tasks : pc'[t] \in Ended \cup {"new"} /\ (pc'[t] # "failed" => pc'[t] = pc[t])
  BY <1>1 DEF Ended
<1>3. Keeps
  <2>1. \A op \in Ops : Settled(op) => Settled(op)'
    BY <1>1, UnchangedKeeps, StaySettled
  <2>2. \A op \in Ops : Pending(op) => Settled(op)'
    BY <1>1 DEF Pending, InHand, Settled
  <2>3. \A a \in Asks : pc[a] = "done" => pc'[a] = "done" /\ conv'[a] = conv[a]
    BY <1>1 DEF Tasks, Ended
  <2> QED
    BY <2>1, <2>2, <2>3, StayTracked DEF Keeps
<1>4. RecordInv'
  <2> SUFFICES ASSUME NEW a \in Asks PROVE RecordOf(a)'
    BY DEF RecordInv
  <2>1. CASE pc'[a] = "done"
    BY <1>1, <1>2, <1>3, <2>1, RecordFrame DEF RecordInv, Tasks
  <2>2. CASE pc'[a] # "done"
    <3>1. pc'[a] \notin {"enqueue", "fallback", "done"}
      BY <1>2, <2>2 DEF Tasks, Ended
    <3> QED
      BY <3>1, RecordElsewhere
  <2> QED
    BY <2>1, <2>2
<1>5. ReadInv'
  <2>1. \A t \in Tasks : pc'[t] \notin Reads
    BY <1>2, JoinFacts DEF Ended
  <2> QED
    BY <1>1, <1>3, <2>1, ReadStep DEF ReadInv
<1>6. ShutInv'
  BY <1>1, <1>2 DEF ShutInv, Forget
<1> QED
  BY <1>4, <1>5, <1>6

(* A restart keeps the inductive invariant.                                *)
LEMMA RestartInv ==
    ASSUME IInv, TypeInv', Restart PROVE IInv'
<1> USE DEF IInv, TypeInv
<1>1. /\ service \in {"closed", "down"} /\ service' = "up" /\ Forget
      /\ UNCHANGED <<store, tasks, history>>
  BY DEF Restart
<1>2. queue = <<>> /\ hand = None
  BY <1>1 DEF ShutInv
<1>3. \A op \in Ops : Pending(op) => Pending(op)'
  BY <1>1, <1>2 DEF Pending, Queued, InHand, Forget
<1>4. ShutInv'
  BY <1>1 DEF ShutInv, Forget
<1> QED
  BY <1>1, <1>3, <1>4, QuietStep

(* A stuttering step keeps the inductive invariant.                        *)
LEMMA StutterInv ==
    ASSUME IInv, TypeInv', UNCHANGED vars PROVE IInv'
<1> USE DEF IInv, TypeInv
<1>1. ShutInv'
  BY DEF ShutInv, vars, memory, tasks, process
<1> QED
  BY <1>1, QuietStep, SamePending DEF vars, memory

(* The initial state satisfies the inductive invariant.                    *)
LEMMA InitInv == Init => IInv
<1> SUFFICES ASSUME Init PROVE IInv
  OBVIOUS
<1>1. TypeInv
  BY InitType
<1>2. RecordInv /\ ReadInv
  BY JoinFacts DEF Init, RecordInv, RecordOf, ReadInv, Tasks
<1>3. ShutInv
  BY DEF Init, ShutInv
<1> QED
  BY <1>1, <1>2, <1>3 DEF IInv

(* Every step keeps the inductive invariant.                               *)
LEMMA NextInv ==
    ASSUME IInv, [Next]_vars PROVE IInv'
<1>0. TypeInv'
  BY NextType DEF IInv
<1>1. ASSUME NEW a \in Asks, AskStep(a) PROVE IInv'
  BY <1>0, <1>1, StartAskInv, LatestReplyInv, MovesInv, EnqueueInv, OverflowInv,
     FallbackReplyInv, DirectReplyInv DEF AskStep
<1>2. CASE WorkerStep
  BY <1>0, <1>2, WorkerGetInv, WorkerStopInv, WorkerReplyInv DEF WorkerStep
<1> QED
  BY <1>0, <1>1, <1>2, ReaderInv, CancelInv, ShutdownInv, CrashInv, RestartInv,
     StutterInv DEF Next

(* The inductive invariant holds in every reachable state.                 *)
LEMMA Invariant == Spec => []IInv
  BY InitInv, NextInv, PTL DEF Spec

(* Every write of a turn is one of its four numbered ones.                 *)
LEMMA TurnOpsNumbered ==
    ASSUME NEW a \in Asks, NEW op \in TurnOps(a)
    PROVE  \E i \in 1..4 : op = TurnOp(i, a)
  BY TurnFacts DEF TurnOps, TurnOp

(* No write of an answered turn disappears, whatever the queue's size, the *)
(* number of attempts, the database's failures, and with any number of     *)
(* handlers, cancellations, shutdowns, crashes and restarts.               *)
THEOREM NoSilentLossHolds == Spec => []NoSilentLoss
<1>1. IInv => NoSilentLoss
  <2> SUFFICES ASSUME IInv, NEW a \in Asks, pc[a] = "done", NEW op \in TurnOps(a)
               PROVE  Pending(op) \/ Settled(op)
    BY DEF NoSilentLoss
  <2>1. PICK i \in 1..4 : op = TurnOp(i, a)
    BY TurnOpsNumbered
  <2> QED
    BY <2>1 DEF IInv, RecordInv, RecordOf, Tracked
<1> QED
  BY <1>1, Invariant, PTL

(* A read that drained the queue sees every write of every ask answered    *)
(* before the read's call began, or that write was given up or lost.       *)
THEOREM ReadYourWritesHolds == Spec => []ReadYourWrites
<1>1. IInv => ReadYourWrites
  <2> SUFFICES ASSUME IInv, NEW t \in Tasks, pc[t] \in Reads, NEW a \in before[t],
                      NEW op \in TurnOps(a)
               PROVE  Settled(op)
    BY DEF ReadYourWrites
  <2>1. a \in Asks
    BY DEF IInv, TypeInv, TypeOK
  <2>2. PICK i \in 1..4 : op = TurnOp(i, a)
    BY <2>1, TurnOpsNumbered
  <2> QED
    BY <2>2 DEF IInv, ReadInv
<1> QED
  BY <1>1, Invariant, PTL

(* After close() nothing is queued, counted as unfinished or in hand.      *)
THEOREM CloseLeavesNothingHolds == Spec => []CloseLeavesNothing
<1>1. IInv => CloseLeavesNothing
  <2> SUFFICES ASSUME IInv, service = "closed"
               PROVE  queue = <<>> /\ unfinished = 0 /\ hand = None
    BY DEF CloseLeavesNothing
  <2>1. queue = <<>> /\ hand = None
    BY DEF IInv, ShutInv
  <2> QED
    BY <2>1 DEF IInv, TypeInv, Counted
<1> QED
  BY <1>1, Invariant, PTL

-----------------------------------------------------------------------------
(* Nobody waits for nothing.                                               *)

(* Who waits in join() waits for a live worker and a count above 0.        *)
Waiting == service = "draining" \/ \E t \in Tasks : pc[t] \in Waits

WaitInv == Waiting => worker = "alive" /\ unfinished # 0

(* A step that leaves worker and count alone, and sends only those to join *)
(* who find both.                                                          *)
LEMMA WaitStep ==
    ASSUME WaitInv, UNCHANGED <<worker, unfinished>>,
           service' = "draining" => service = "draining"
                                    \/ (worker = "alive" /\ unfinished # 0),
           \A t \in Tasks : pc'[t] \in Waits =>
               pc[t] \in Waits \/ (worker = "alive" /\ unfinished # 0)
    PROVE  WaitInv'
  BY DEF WaitInv, Waiting

(* drain() waits only for a live worker.                                   *)
LEMMA DrainWait ==
    ASSUME IInv, WaitInv, NEW t \in Tasks, NEW w \in Waits, Drain(t, w),
           UNCHANGED <<worker, unfinished, service>>,
           service = "up" \/ pc[t] \notin Ended \cup {"new"}
    PROVE  WaitInv'
<1>1. worker \in {"none", "alive"}
  BY DEF IInv, ShutInv, TypeInv, TypeOK
<1>2. TypeOK
  BY DEF IInv, TypeInv
<1>3. pc'[t] = IF Drained THEN AfterJoin[w] ELSE w
  BY <1>2 DEF Drain, TypeOK
<1>4. AfterJoin[w] \notin Waits
  BY JoinFacts
<1>5. pc'[t] \in Waits => worker = "alive" /\ unfinished # 0
  BY <1>1, <1>3, <1>4 DEF Drained
<1>6. \A u \in Tasks \ {t} : pc'[u] = pc[u]
  BY <1>2, DrainType
<1> QED
  BY <1>5, <1>6, WaitStep

(* A call that goes anywhere but to join().                                *)
LEMMA GotoWait ==
    ASSUME IInv, WaitInv, NEW t \in Tasks, NEW l \in Places \ Waits, Goto(t, l),
           UNCHANGED <<worker, unfinished, service>>
    PROVE  WaitInv'
<1>1. pc'[t] = l /\ \A u \in Tasks \ {t} : pc'[u] = pc[u]
  BY GotoType DEF IInv, TypeInv
<1> QED
  BY <1>1, WaitStep

(* Calls keep the waiters served.                                          *)
LEMMA CallWait ==
    ASSUME IInv, WaitInv,
           \/ \E a \in Asks : AskStep(a)
           \/ \E r \in Readers : ReaderStep(r)
           \/ \E t \in Tasks : Cancel(t)
    PROVE  WaitInv'
<1> USE DEF IInv, TypeInv
<1>0. {"answer", "direct", "enqueue", "fallback", "done", "failed"} \subseteq Places \ Waits
      /\ {"wait_latest", "wait_history", "wait_find", "wait_read"} \subseteq Waits
  BY PlaceFacts, JoinFacts
<1>1. ASSUME NEW a \in Asks, StartAsk(a) \/ LatestReply(a) PROVE WaitInv'
  <2>1. /\ a \in Tasks /\ UNCHANGED <<worker, unfinished, service>>
        /\ service = "up" \/ pc[a] \notin Ended \cup {"new"}
    BY <1>1 DEF StartAsk, LatestReply, memory, process, Tasks, Ended
  <2>2. (\E w \in Waits : Drain(a, w)) \/ Goto(a, "answer")
    BY <1>0, <1>1 DEF StartAsk, LatestReply
  <2> QED
    BY <1>0, <2>1, <2>2, DrainWait, GotoWait
<1>2. ASSUME NEW a \in Asks,
             HistoryReply(a) \/ VerifyConversation(a) \/ NameConversation(a)
      PROVE  WaitInv'
  <2>1. a \in Tasks /\ UNCHANGED <<worker, unfinished, service>>
    BY <1>2 DEF HistoryReply, VerifyConversation, NameConversation, memory, process, Tasks
  <2>2. \E l \in {"answer", "direct", "enqueue"} : Goto(a, l)
    BY <1>2 DEF HistoryReply, VerifyConversation, NameConversation
  <2> QED
    BY <1>0, <2>1, <2>2, GotoWait
<1>3. ASSUME NEW a \in Asks, Enqueue(a) PROVE WaitInv'
  BY <1>3 DEF Enqueue, EnsureWorker, WaitInv, TypeOK
<1>4. ASSUME NEW a \in Asks, Overflow(a) PROVE WaitInv'
  <2>1. /\ worker' = "alive" /\ UNCHANGED <<unfinished, service>> /\ a \in Tasks
        /\ Goto(a, "fallback")
    BY <1>4 DEF Overflow, EnsureWorker, process, Tasks
  <2>2. pc'[a] = "fallback" /\ \A u \in Tasks \ {a} : pc'[u] = pc[u]
    BY <1>0, <2>1, GotoType
  <2> QED
    BY <1>0, <2>1, <2>2 DEF WaitInv, Waiting
<1>5. ASSUME NEW a \in Asks, FallbackReply(a) \/ DirectReply(a) PROVE WaitInv'
  <2>1. /\ a \in Tasks /\ UNCHANGED <<worker, unfinished, service>>
        /\ Proceed(a) \/ pc' = pc \/ Goto(a, "failed")
    BY <1>5 DEF FallbackReply, DirectReply, memory, process, Tasks
  <2>2. CASE Proceed(a)
    <3>1. pc'[a] \in {"done", "enqueue"} /\ \A u \in Tasks \ {a} : pc'[u] = pc[u]
      BY <2>2, ProceedType
    <3> QED
      BY <1>0, <2>1, <3>1, WaitStep
  <2>3. CASE pc' = pc
    BY <2>1, <2>3, WaitStep
  <2> QED
    BY <1>0, <2>1, <2>2, <2>3, GotoWait
<1>6. ASSUME NEW r \in Readers, ReaderStep(r) PROVE WaitInv'
  <2>1. /\ r \in Tasks /\ UNCHANGED <<worker, unfinished, service>>
        /\ service = "up" \/ pc[r] \notin Ended \cup {"new"}
    BY <1>6 DEF ReaderStep, StartReader, FindReply, ReadReply, memory, process,
                Tasks, Ended
  <2>2. (\E w \in Waits : Drain(r, w)) \/ (\E l \in {"done", "failed"} : Goto(r, l))
    BY <1>0, <1>6 DEF ReaderStep, StartReader, FindReply, ReadReply
  <2> QED
    BY <1>0, <2>1, <2>2, DrainWait, GotoWait
<1>7. ASSUME NEW t \in Tasks, Cancel(t) PROVE WaitInv'
  <2>1. Goto(t, "failed") /\ UNCHANGED <<worker, unfinished, service>>
    BY <1>7 DEF Cancel, memory, process
  <2> QED
    BY <1>0, <2>1, GotoWait
<1> QED
  BY <1>1, <1>2, <1>3, <1>4, <1>5, <1>6, <1>7 DEF AskStep

(* A task_done() that reaches 0 leaves nobody in join().                   *)
LEMMA ReleaseWait ==
    ASSUME TypeOK, Release, unfinished' = 0
    PROVE  ~Waiting'
<1>1. \A t \in Tasks : pc'[t] \notin Waits
  BY JoinFacts DEF Release
<1> QED
  BY <1>1 DEF Release, Waiting

(* The worker leaves nobody waiting for nothing.                           *)
LEMMA WorkerWait ==
    ASSUME IInv, WaitInv, WorkerStep PROVE WaitInv'
<1> USE DEF IInv, TypeInv
<1>1. CASE WorkerGet
  BY <1>1, WaitStep DEF WorkerGet, tasks, process
<1>2. CASE WorkerStop
  <2>1. queue # <<>> /\ Head(queue) = None /\ Release
    BY <1>2 DEF WorkerStop
  <2>2. 1 \in 1..Len(queue) /\ queue[1] = None
    BY <2>1 DEF TypeOK
  <2>3. service = "closing" /\ \A t \in Tasks : pc[t] \in Ended \cup {"new"}
    BY <2>2 DEF ShutInv
  <2>4. ~Waiting'
    BY <2>1, <2>3, JoinFacts DEF Release, Waiting, Ended
  <2> QED
    BY <2>4 DEF WaitInv
<1>3. CASE WorkerReply
  <2>1. /\ worker' = worker
        /\ Settle \/ UNCHANGED <<unfinished, pc, service>>
    BY <1>3 DEF WorkerReply
  <2>2. CASE Settle
    <3>1. CASE unfinished' = 0
      BY <2>2, <3>1, ReleaseWait DEF Settle, WaitInv
    <3>2. CASE unfinished' # 0
      <4>1. Waiting' => Waiting
        BY <2>2, <3>2 DEF Settle, Release, Waiting
      <4> QED
        BY <2>1, <3>2, <4>1 DEF WaitInv
    <3> QED
      BY <3>1, <3>2
  <2>3. CASE UNCHANGED <<unfinished, pc, service>>
    BY <2>1, <2>3, WaitStep
  <2> QED
    BY <2>1, <2>2, <2>3
<1> QED
  BY <1>1, <1>2, <1>3 DEF WorkerStep

(* Nor does a process that stops, dies or starts.                          *)
LEMMA ProcessWait ==
    ASSUME IInv, WaitInv,
           StopServer \/ CloseStep \/ Crash \/ Restart \/ UNCHANGED vars
    PROVE  WaitInv'
<1> USE DEF IInv, TypeInv
<1>1. CASE StopServer \/ UNCHANGED vars
  <2>1. UNCHANGED <<worker, unfinished, pc>> /\ service' \in {service, "stopping"}
    BY <1>1 DEF StopServer, vars, memory, tasks, process
  <2> QED
    BY <2>1, WaitStep
<1>2. CASE Close
  <2>1. UNCHANGED <<worker, unfinished, pc>> /\ service = "stopping"
        /\ (service' = "draining" => worker # "none" /\ ~Drained)
    BY <1>2 DEF Close, memory, tasks
  <2>2. worker \in {"none", "alive"}
    BY <2>1 DEF ShutInv, TypeOK
  <2> QED
    BY <2>1, <2>2, WaitStep DEF Drained
<1>3. CASE PutSentinel \/ Closed \/ Restart
  <2>1. pc' = pc /\ service' # "draining" /\ service \notin {"up", "stopping"}
    BY <1>3 DEF PutSentinel, Closed, Restart, tasks
  <2>2. \A t \in Tasks : pc[t] \in Ended \cup {"new"}
    BY <2>1 DEF ShutInv
  <2> QED
    BY <2>1, <2>2, JoinFacts DEF WaitInv, Waiting, Ended
<1>4. CASE Crash
  <2>1. service' = "down" /\ \A t \in Tasks : pc'[t] \in Ended \cup {"new"}
    BY <1>4 DEF Crash, Ended
  <2> QED
    BY <2>1, JoinFacts DEF WaitInv, Waiting, Ended
<1> QED
  BY <1>1, <1>2, <1>3, <1>4 DEF CloseStep

(* No call and no close() ever waits in join() with nothing left to be     *)
(* done or nobody to do it, in any order of calls, cancellations, failures,*)
(* shutdowns and restarts.                                                 *)
THEOREM WaitersHaveWorkHolds == Spec => []WaitersHaveWork
<1>1. Init => WaitInv
  BY JoinFacts DEF Init, WaitInv, Waiting
<1>2. IInv /\ WaitInv /\ [Next]_vars => WaitInv'
  BY CallWait, WorkerWait, ProcessWait DEF Next
<1>3. IInv /\ WaitInv => WaitersHaveWork
  BY DEF WaitersHaveWork, WaitInv, Waiting, IInv, TypeInv, Counted
<1> QED
  BY <1>1, <1>2, <1>3, Invariant, PTL DEF Spec

=============================================================================
