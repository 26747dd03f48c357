--------------------- MODULE AsyncRepositoryOrderProofs ---------------------
(***************************************************************************)
(* What holds of AsyncRepository as long as the queue never overflows: a   *)
(* turn is persisted whole, its rows stand next to each other, and a write *)
(* is given up only for the database's failures.                           *)
(***************************************************************************)
EXTENDS AsyncRepositoryRowsProofs

-----------------------------------------------------------------------------
(* The handler that enqueues a turn has the event loop to itself.          *)
LoopInv == \A a \in Asks : pc[a] = "enqueue" <=> running = a

(* A conversation is named by the ask that created it.  One that is known  *)
(* to the process but not in the database yet is no other ask's to verify. *)
NameInv ==
    /\ \A a \in Asks : pc[a] \in {"new", "wait_latest", "latest"} => conv[a] = None
    /\ \A b \in Asks : conv[b] # None => conv[conv[b]] = conv[b]
    /\ \A c \in Asks : HasConv(c) \/ c \in known => conv[c] = c
    /\ \A c \in known, a \in Asks :
          pc[a] = "direct" /\ conv[a] = c => HasConv(c)
    /\ \A a \in Asks : pc[a] \in {"enqueue", "fallback"} => conv[a] \in known
    /\ \A op \in Ops : op.kind = "create" /\ Pending(op) => op.conv \in known

(* An INSERT adds the conversation it is for and no other.                 *)
LEMMA InsertConv ==
    ASSUME StoreTypeOK, NEW op \in Ops, Insert(op), NEW c
    PROVE  HasConv(c)' <=> HasConv(c) \/ (op.kind = "create" /\ c = op.conv)
<1>1. CASE op.kind = "create"
  <2>1. op.conv \in Asks /\ convs \in Seq(Asks) /\ convs' = Append(convs, op.conv)
    BY <1>1 DEF Ops, StoreTypeOK, Insert
  <2>2. Range(convs') = Range(convs) \cup {op.conv}
    BY <2>1, RangeAppend
  <2> QED
    BY <1>1, <2>2 DEF HasConv
<1>2. CASE op.kind # "create"
  BY <1>2 DEF Insert, HasConv
<1> QED
  BY <1>1, <1>2

(* A reply concerns the conversation of its statement and no other.        *)
LEMMA ReplyConv ==
    ASSUME StoreTypeOK, NEW j \in Jobs, NEW result, NEW fault \in BOOLEAN,
           Reply(j, result, fault), NEW c
    PROVE  /\ HasConv(c) => HasConv(c)'
           /\ HasConv(c)' => HasConv(c) \/ (j.op.kind = "create" /\ c = j.op.conv)
           /\ result = "ok" /\ j.op.kind = "create" => HasConv(j.op.conv)'
<1>0. j.op \in Ops /\ (j.stmt = "select" => j.op.kind = "create")
  BY DEF Jobs
<1>1. CASE /\ j.stmt = "select"
           /\ result = IF HasConv(j.op.conv) THEN "ok" ELSE "missing"
           /\ UNCHANGED store
  BY <1>1 DEF store, HasConv
<1>2. CASE Insert(j.op)
  BY <1>0, <1>2, InsertConv
<1>3. CASE result = "error" /\ UNCHANGED store
  BY <1>3 DEF store, HasConv
<1> QED
  BY <1>1, <1>2, <1>3 DEF Reply

(* What a step must respect for conversations to keep their names.         *)
LEMMA NameStep ==
    ASSUME TypeInv, NameInv,
           \A b \in Asks : \/ conv'[b] = conv[b]
                           \/ conv[b] = None /\ conv'[conv'[b]] = conv'[b],
           \A c \in Asks : HasConv(c) => HasConv(c)',
           \A c \in Asks : HasConv(c)' => HasConv(c) \/ conv[c] = c,
           \A c \in known' : \/ c \in known
                             \/ HasConv(c)' /\ conv[c] = c
                             \/ conv[c] = None /\ conv'[c] = c,
           \A a \in Asks : pc'[a] \in {"new", "wait_latest", "latest"} =>
               conv'[a] = conv[a] /\ pc[a] \in {"new", "wait_latest", "latest"},
           \A a \in Asks : pc'[a] = "direct" =>
               /\ conv'[a] = conv[a]
               /\ pc[a] = "direct" \/ (conv[a] \notin known' /\ conv[a] \in Asks),
           \A a \in Asks : pc'[a] \in {"enqueue", "fallback"} => conv'[a] \in known',
           \A op \in Ops : op.kind = "create" /\ Pending(op)' => op.conv \in known',
           known' \subseteq Asks
    PROVE  NameInv'
<1>0. None \notin Asks
  BY NamesAssumption
<1>1. ASSUME NEW a \in Asks, pc'[a] \in {"new", "wait_latest", "latest"}
      PROVE  conv'[a] = None
  BY <1>1 DEF NameInv
<1>2. \A c \in Asks : conv[c] = c => conv'[c] = c
  BY <1>0
<1>3. ASSUME NEW b \in Asks, conv'[b] # None PROVE conv'[conv'[b]] = conv'[b]
  <2>1. CASE conv'[b] = conv[b]
    <3>1. conv[b] \in Asks /\ conv[conv[b]] = conv[b]
      BY <1>3, <2>1 DEF TypeInv, TypeOK, NameInv
    <3> QED
      BY <1>2, <2>1, <3>1
  <2> QED
    BY <2>1
<1>4. ASSUME NEW c \in Asks, HasConv(c)' \/ c \in known' PROVE conv'[c] = c
  <2>1. conv[c] = c \/ conv'[c] = c
    BY <1>4 DEF NameInv
  <2> QED
    BY <1>2, <2>1
<1>5. ASSUME NEW c \in known', NEW a \in Asks, pc'[a] = "direct", conv'[a] = c
      PROVE  HasConv(c)'
  <2>1. c \in Asks /\ conv[a] = c /\ pc[a] = "direct"
    BY <1>5
  <2>2. CASE c \in known
    BY <2>1, <2>2 DEF NameInv
  <2>3. CASE conv[c] = None
    BY <1>0, <2>1, <2>3 DEF NameInv
  <2> QED
    BY <2>2, <2>3
<1> QED
  BY <1>1, <1>3, <1>4, <1>5 DEF NameInv

(* A step that leaves tables, queue, hand and known alone, and moves task t*)
(* where its conversation allows.                                          *)
LEMMA NameQuiet ==
    ASSUME TypeInv, NameInv, UNCHANGED <<convs, queue, hand, known>>,
           \A a \in Asks :
              \/ /\ conv'[a] = conv[a]
                 /\ \/ pc'[a] = pc[a]
                    \/ pc[a] = "wait_latest" /\ pc'[a] = "latest"
                    \/ pc[a] = "new" /\ pc'[a] = "wait_latest"
                    \/ pc[a] = "new" /\ pc'[a] = "latest"
                    \/ pc[a] = "enqueue" /\ pc'[a] = "fallback"
                    \/ pc'[a] = "direct" /\ conv[a] \notin known /\ conv[a] \in Asks
                    \/ pc'[a] \notin {"new", "wait_latest", "latest", "direct",
                                      "enqueue", "fallback"}
              \/ /\ conv[a] = None /\ conv'[conv'[a]] = conv'[a]
                 /\ pc'[a] \notin {"new", "wait_latest", "latest", "direct",
                                   "enqueue", "fallback"}
    PROVE  NameInv'
<1>1. \A c : HasConv(c)' <=> HasConv(c)
  BY DEF HasConv
<1>2. \A op : Pending(op)' <=> Pending(op)
  BY DEF Pending, Queued, InHand
<1>3. \A a \in Asks : pc'[a] \in {"enqueue", "fallback"} => conv'[a] \in known'
  BY DEF NameInv
<1>4. known' \subseteq Asks
  BY DEF TypeInv, TypeOK
<1>5. \A op \in Ops : op.kind = "create" /\ Pending(op)' => op.conv \in known'
  BY <1>2 DEF NameInv
<1>6. \A a \in Asks : pc'[a] \in {"new", "wait_latest", "latest"} =>
               conv'[a] = conv[a] /\ pc[a] \in {"new", "wait_latest", "latest"}
  OBVIOUS
<1>7. \A a \in Asks : pc'[a] = "direct" =>
               /\ conv'[a] = conv[a]
               /\ pc[a] = "direct" \/ (conv[a] \notin known' /\ conv[a] \in Asks)
  OBVIOUS
<1> QED
  BY <1>1, <1>3, <1>4, <1>5, <1>6, <1>7, NameStep

(* A step of task t alone.                                                 *)
LEMMA LoopStep ==
    ASSUME TypeInv, LoopInv, NEW t \in Tasks, MayRun(t),
           \A b \in Asks \ {t} : pc'[b] = pc[b],
           running' = running \/ running' = None \/ running' = t,
           t \in Asks => (pc'[t] = "enqueue" <=> running' = t)
    PROVE  LoopInv'
<1>1. None \notin Asks /\ Asks \cap Readers = {}
  BY NamesAssumption
<1>2. running \in Asks \cup {None}
  BY DEF TypeInv, TypeOK
<1>3. ASSUME NEW b \in Asks, b # t PROVE pc'[b] # "enqueue" /\ running' # b
  <2>1. running # b
    BY <1>1, <1>3 DEF MayRun
  <2> QED
    BY <1>1, <1>3, <2>1 DEF LoopInv
<1> QED
  BY <1>3 DEF LoopInv

(* An ask that begins keeps names and turns in order.                      *)
LEMMA StartAskOrder ==
    ASSUME TypeInv, LoopInv, NameInv, NEW a \in Asks, StartAsk(a)
    PROVE  LoopInv' /\ NameInv'
<1> USE DEF TypeInv
<1>0. a \in Tasks /\ a \in Asks
  BY DEF Tasks
<1>1. /\ UNCHANGED <<convs, queue, hand, known, running>>
      /\ MayRun(a) /\ pc[a] = "new" /\ conv[a] = None
  BY DEF StartAsk, store, memory, NameInv
<1>2. \/ conv' = conv /\ pc'[a] \in {"wait_latest", "latest"}
      \/ /\ \E b \in Asks : pc[b] = "done" /\ conv' = [conv EXCEPT ![a] = conv[b]]
         /\ pc'[a] \in {"wait_history", "history"}
  BY <1>0, DrainType, JoinFacts DEF StartAsk
<1>3. \A u \in Tasks \ {a} : pc'[u] = pc[u]
  BY <1>0, DrainType, JoinFacts DEF StartAsk
<1>4. \A u \in Asks \ {a} : pc'[u] = pc[u] /\ conv'[u] = conv[u]
  BY <1>2, <1>3 DEF Tasks, TypeOK
<1>5. LoopInv'
  <2>1. pc'[a] # "enqueue" /\ running' # a
    BY <1>1, <1>2 DEF LoopInv
  <2> QED
    BY <1>0, <1>1, <1>4, <2>1, LoopStep
<1>6. CASE \E b \in Asks : pc[b] = "done" /\ conv' = [conv EXCEPT ![a] = conv[b]]
  <2>1. PICK b \in Asks : pc[b] = "done" /\ conv' = [conv EXCEPT ![a] = conv[b]]
    BY <1>6
  <2>2. PICK c \in Asks : c = conv[b] /\ conv[c] = c /\ conv[c] # None
    BY <2>1, NamesAssumption DEF TaskInv, AskInv, NameInv
  <2>3. conv'[a] = c /\ c # a /\ conv'[c] = c
    BY <1>1, <2>1, <2>2 DEF TypeOK
  <2>4. conv[a] = None /\ conv'[conv'[a]] = conv'[a]
    BY <1>1, <2>3
  <2>5. pc'[a] \notin {"new", "wait_latest", "latest", "direct", "enqueue", "fallback"}
    <3>1. conv'[a] # conv[a]
      BY <1>1, <2>3, NamesAssumption
    <3> QED
      BY <1>2, <3>1
  <2> QED
    BY <1>1, <1>4, <1>5, <2>4, <2>5, NameQuiet
<1>7. CASE conv' = conv /\ pc'[a] \in {"wait_latest", "latest"}
  BY <1>1, <1>4, <1>5, <1>7, NameQuiet
<1> QED
  BY <1>2, <1>6, <1>7

(* The lookup's reply keeps names and turns in order.                      *)
LEMMA LatestReplyOrder ==
    ASSUME TypeInv, LoopInv, NameInv, NEW a \in Asks, LatestReply(a)
    PROVE  LoopInv' /\ NameInv'
<1> USE DEF TypeInv
<1>0. a \in Tasks /\ a \in Asks
  BY DEF Tasks
<1>1. /\ UNCHANGED <<convs, queue, hand, known, running>>
      /\ MayRun(a) /\ pc[a] = "latest" /\ conv[a] = None
  BY DEF LatestReply, store, memory, NameInv
<1>2. Latest(None) = None \/ (Latest(None) \in Asks /\ HasConv(Latest(None)))
  <2>1. CASE convs = <<>>
    BY <2>1 DEF Latest
  <2>2. CASE convs # <<>>
    <3>1. convs \in Seq(Asks)
      BY DEF TypeOK, StoreTypeOK
    <3>2. Len(convs) \in DOMAIN convs /\ convs[Len(convs)] \in Asks
      BY <3>1, <2>2
    <3> QED
      BY <3>2, <2>2 DEF Latest, HasConv, Range
  <2> QED
    BY <2>1, <2>2
<1>3. PICK c \in {Latest(None)} \cup (IF "lost" \in Faults THEN {None} ELSE {}) :
         /\ conv' = [conv EXCEPT ![a] = c]
         /\ IF c = None THEN Goto(a, "answer") ELSE Drain(a, "wait_history")
  BY DEF LatestReply
<1>9. c = None \/ (c \in Asks /\ HasConv(c))
  BY <1>2
<1>4. /\ pc'[a] \in {"wait_history", "history", "answer"}
      /\ \A u \in Tasks \ {a} : pc'[u] = pc[u]
  BY <1>0, <1>3, DrainType, GotoType, JoinFacts, PlaceFacts
<1>5. \A u \in Asks \ {a} : pc'[u] = pc[u] /\ conv'[u] = conv[u]
  BY <1>3, <1>4 DEF Tasks, TypeOK
<1>6. LoopInv'
  <2>1. pc'[a] # "enqueue" /\ running' # a
    BY <1>1, <1>4 DEF LoopInv
  <2> QED
    BY <1>0, <1>1, <1>5, <2>1, LoopStep
<1>7. CASE c = None
  <2>1. conv'[a] = conv[a]
    BY <1>1, <1>3, <1>7 DEF TypeOK
  <2>2. pc'[a] \notin {"new", "wait_latest", "latest", "direct", "enqueue", "fallback"}
    BY <1>4
  <2> QED
    BY <1>1, <1>5, <1>6, <2>1, <2>2, NameQuiet
<1>8. CASE c \in Asks /\ HasConv(c)
  <2>1. conv[c] = c /\ c # None
    BY <1>8, NamesAssumption DEF NameInv
  <2>2. conv[a] = None /\ conv'[conv'[a]] = conv'[a]
    BY <1>1, <1>3, <1>8, <2>1 DEF TypeOK
  <2>3. pc'[a] \notin {"new", "wait_latest", "latest", "direct", "enqueue", "fallback"}
    BY <1>4
  <2> QED
    BY <1>1, <1>5, <1>6, <2>2, <2>3, NameQuiet
<1> QED
  BY <1>9, <1>7, <1>8

(* Steps of an ask that keeps its conversation and writes nothing.         *)
LEMMA MovesOrder ==
    ASSUME TypeInv, LoopInv, NameInv, NEW a \in Asks,
           HistoryReply(a) \/ VerifyConversation(a) \/ Overflow(a)
    PROVE  LoopInv' /\ NameInv'
<1> USE DEF TypeInv
<1>0. a \in Tasks /\ a \in Asks
  BY DEF Tasks
<1>1. /\ UNCHANGED <<convs, queue, hand, known, conv>>
      /\ MayRun(a) /\ running' \in {running, None}
      /\ \/ pc[a] = "history" /\ Goto(a, "answer") /\ running' = running
         \/ /\ pc[a] = "answer" /\ Goto(a, "direct") /\ running' = running
            /\ conv[a] # None /\ conv[a] \notin known
         \/ pc[a] = "enqueue" /\ Goto(a, "fallback") /\ running' = None
  BY DEF HistoryReply, VerifyConversation, Overflow, store, memory
<1>2. /\ \A u \in Tasks \ {a} : pc'[u] = pc[u]
      /\ \/ pc[a] = "history" /\ pc'[a] = "answer" /\ running' = running
         \/ /\ pc[a] = "answer" /\ pc'[a] = "direct" /\ running' = running
            /\ conv[a] \in Asks /\ conv[a] \notin known
         \/ pc[a] = "enqueue" /\ pc'[a] = "fallback" /\ running' = None
  BY <1>0, <1>1, GotoType, PlaceFacts DEF TypeOK
<1>3. LoopInv'
  <2>1. pc'[a] # "enqueue" /\ running' # a
    BY <1>2, NamesAssumption DEF LoopInv
  <2>2. \A b \in Asks \ {a} : pc'[b] = pc[b]
    BY <1>2 DEF Tasks
  <2> QED
    BY <1>0, <1>1, <2>1, <2>2, LoopStep
<1>4. \A u \in Asks \ {a} : pc'[u] = pc[u]
  BY <1>2 DEF Tasks
<1>5. NameInv'
  BY <1>1, <1>2, <1>4, NameQuiet
<1> QED
  BY <1>3, <1>5

(* Naming a conversation keeps names and turns in order.                   *)
LEMMA NameConversationOrder ==
    ASSUME TypeInv, LoopInv, NameInv, NEW a \in Asks, NameConversation(a)
    PROVE  LoopInv' /\ NameInv'
<1> USE DEF TypeInv
<1>0. a \in Tasks /\ a \in Asks /\ a # None
  BY NamesAssumption DEF Tasks
<1>1. /\ UNCHANGED <<convs, queue, hand>> /\ running' = a
      /\ MayRun(a) /\ pc[a] = "answer"
      /\ conv[a] = None \/ conv[a] \in known
      /\ conv' = [conv EXCEPT ![a] = IF @ = None THEN a ELSE @]
      /\ known' = known \cup {conv'[a]}
      /\ Goto(a, "enqueue")
  BY DEF NameConversation, store
<1>2. /\ \A u \in Tasks \ {a} : pc'[u] = pc[u]
      /\ pc'[a] = "enqueue"
  BY <1>0, <1>1, GotoType, PlaceFacts
<1>3. /\ \A u \in Asks \ {a} : pc'[u] = pc[u] /\ conv'[u] = conv[u]
      /\ conv'[a] = IF conv[a] = None THEN a ELSE conv[a]
  BY <1>1, <1>2 DEF Tasks, TypeOK
<1>4. LoopInv'
  BY <1>0, <1>1, <1>2, <1>3, LoopStep
<1>5. conv'[a] \in Asks /\ conv'[a] \in known' /\ known' \subseteq Asks
      /\ known \subseteq known'
  BY <1>1, <1>3 DEF TypeOK
<1>6. \A b \in Asks : \/ conv'[b] = conv[b]
                      \/ conv[b] = None /\ conv'[conv'[b]] = conv'[b]
  BY <1>3
<1>7. \A c \in known' : c \in known \/ (conv[c] = None /\ conv'[c] = c)
  BY <1>1, <1>3
<1>8. (\A c : HasConv(c)' <=> HasConv(c)) /\ (\A op : Pending(op)' <=> Pending(op))
  BY <1>1 DEF HasConv, Pending, Queued, InHand
<1>9. /\ \A b \in Asks : pc'[b] \in {"new", "wait_latest", "latest"} =>
            conv'[b] = conv[b] /\ pc[b] \in {"new", "wait_latest", "latest"}
      /\ \A b \in Asks : pc'[b] = "direct" => conv'[b] = conv[b] /\ pc[b] = "direct"
      /\ \A b \in Asks : pc'[b] \in {"enqueue", "fallback"} => conv'[b] \in known'
      /\ \A op \in Ops : op.kind = "create" /\ Pending(op)' => op.conv \in known'
  BY <1>2, <1>3, <1>5, <1>8 DEF NameInv
<1>10. NameInv'
  BY <1>5, <1>6, <1>7, <1>8, <1>9, NameStep
<1> QED
  BY <1>4, <1>10

(* A write that joins the queue keeps names and turns in order.            *)
LEMMA EnqueueOrder ==
    ASSUME TypeInv, LoopInv, NameInv, NEW a \in Asks, Enqueue(a)
    PROVE  LoopInv' /\ NameInv'
<1> USE DEF TypeInv
<1>0. a \in Tasks /\ a \in Asks /\ a # None
  BY NamesAssumption DEF Tasks
<1>1. /\ UNCHANGED <<convs, hand, known, conv>>
      /\ MayRun(a) /\ pc[a] = "enqueue" /\ conv[a] \in Asks /\ conv[a] \in known
      /\ Proceed(a) /\ queue' = Append(queue, NextOp(a))
  BY DEF Enqueue, store, TaskInv, AskInv, NameInv
<1>2. /\ pc'[a] \in {"done", "enqueue"}
      /\ \A u \in Asks \ {a} : pc'[u] = pc[u]
      /\ pc'[a] = "enqueue" <=> running' = a
      /\ running' \in {a, None}
  <2>1. pc'[a] \in {"done", "enqueue"} /\ \A u \in Tasks \ {a} : pc'[u] = pc[u]
    BY <1>1, ProceedType
  <2>2. CASE next[a] = 4
    BY <1>0, <1>1, <2>1, <2>2, ProceedType DEF Proceed, Tasks
  <2>3. CASE next[a] # 4
    BY <1>0, <1>1, <2>1, <2>3, ProceedType DEF Proceed, Tasks
  <2> QED
    BY <2>2, <2>3
<1>3. LoopInv'
  BY <1>0, <1>1, <1>2, LoopStep
<1>4. NextOp(a) \in Ops /\ NextOp(a).conv = conv[a]
      /\ queue \in Seq(Ops \cup {None})
  BY <1>1, NextOpType DEF TypeOK
<1>5. Range(queue') = Range(queue) \cup {NextOp(a)}
  BY <1>1, <1>4, RangeAppend
<1>6. (\A c : HasConv(c)' <=> HasConv(c))
      /\ (\A op : Pending(op)' => Pending(op) \/ op = NextOp(a))
  BY <1>1, <1>5 DEF HasConv, Pending, Queued, InHand
<1>7. \A op \in Ops : op.kind = "create" /\ Pending(op)' => op.conv \in known'
  BY <1>1, <1>4, <1>6 DEF NameInv
<1>8. /\ \A b \in Asks : pc'[b] \in {"new", "wait_latest", "latest"} =>
            pc[b] \in {"new", "wait_latest", "latest"}
      /\ \A b \in Asks : pc'[b] = "direct" => pc[b] = "direct"
      /\ \A b \in Asks : pc'[b] \in {"enqueue", "fallback"} => conv'[b] \in known'
  BY <1>1, <1>2 DEF NameInv
<1>9. known' \subseteq Asks
  BY <1>1 DEF TypeOK
<1>10. NameInv'
  BY <1>1, <1>6, <1>7, <1>8, <1>9, NameStep
<1> QED
  BY <1>3, <1>10


(* After a write the handler holds the loop until its next one, if any.    *)
LEMMA ProceedLoop ==
    ASSUME TypeOK, NEW a \in Asks, Proceed(a)
    PROVE  /\ pc'[a] \in {"done", "enqueue"}
           /\ \A u \in Asks \ {a} : pc'[u] = pc[u]
           /\ pc'[a] = "enqueue" <=> running' = a
           /\ running' \in {a, None}
<1>0. a # None
  BY NamesAssumption
<1>1. pc'[a] \in {"done", "enqueue"} /\ \A u \in Tasks \ {a} : pc'[u] = pc[u]
  BY ProceedType
<1>2. CASE next[a] = 4
  BY <1>0, <1>1, <1>2, ProceedType DEF Proceed, Tasks
<1>3. CASE next[a] # 4
  BY <1>0, <1>1, <1>3, ProceedType DEF Proceed, Tasks
<1> QED
  BY <1>2, <1>3

(* The reply to a write an ask executes itself keeps names and turns in    *)
(* order.                                                                  *)
LEMMA OwnReplyOrder ==
    ASSUME TypeInv, LoopInv, NameInv, NEW a \in Asks,
           FallbackReply(a) \/ DirectReply(a)
    PROVE  LoopInv' /\ NameInv'
<1> USE DEF TypeInv
<1>0. /\ a \in Tasks /\ a \in Asks /\ a # None /\ running # a
      /\ pc[a] \in {"fallback", "direct"} /\ MayRun(a)
      /\ UNCHANGED <<queue, hand, conv>>
  BY NamesAssumption DEF Tasks, FallbackReply, DirectReply, LoopInv, memory
<1>1. /\ conv[a] \in Asks /\ conv[conv[a]] = conv[a]
      /\ job[a] \in Jobs /\ job[a].op.conv = conv[a]
      /\ pc[a] = "direct" => job[a].op.kind = "create"
  <2>1. conv[a] \in Asks /\ job[a] \in Jobs /\ job[a].op = NextOp(a)
    BY <1>0 DEF TaskInv, AskInv
  <2>2. pc[a] = "direct" => next[a] = 1
    BY <1>0 DEF TaskInv, AskInv
  <2>3. conv[conv[a]] = conv[a]
    BY <2>1, NamesAssumption DEF NameInv
  <2>4. job[a].op.conv = conv[a]
    BY <2>1, NextOpType
  <2>5. pc[a] = "direct" => job[a].op.kind = "create"
    BY <2>1, <2>2 DEF NextOp, Op, Turn
  <2> QED
    BY <2>1, <2>3, <2>4, <2>5
<1>2. PICK result \in {"ok", "missing", "error"}, fault \in BOOLEAN :
         /\ Reply(job[a], result, fault)
         /\ \/ Proceed(a)
            \/ UNCHANGED <<pc, running>>
            \/ pc[a] = "direct" /\ Goto(a, "failed") /\ running' = running
         /\ \/ known' = known
            \/ pc[a] = "direct" /\ result = "ok" /\ known' = known \cup {conv[a]}
         /\ pc[a] = "direct" /\ Proceed(a) => known' = known \cup {conv[a]}
  <2>1. CASE FallbackReply(a)
    BY <2>1 DEF FallbackReply, memory
  <2>2. CASE DirectReply(a)
    <3>1. PICK result \in {"ok", "missing", "error"}, fault \in BOOLEAN :
             /\ Reply(job[a], result, fault)
             /\ \/ result = "ok" /\ Proceed(a) /\ known' = known \cup {conv[a]}
                \/ UNCHANGED <<known, pc, running>>
                \/ Goto(a, "failed") /\ UNCHANGED <<known, running>>
      BY <2>2 DEF DirectReply
    <3>2. ~(Proceed(a) /\ UNCHANGED <<pc, running>>)
      BY <1>0, ProceedLoop
    <3>3. ~(Proceed(a) /\ Goto(a, "failed"))
      BY <1>0, ProceedLoop, GotoType, PlaceFacts
    <3>4. pc[a] = "direct"
      BY <2>2 DEF DirectReply
    <3> QED
      BY <3>1, <3>2, <3>3, <3>4
  <2> QED
    BY <2>1, <2>2
<1>3. /\ \A u \in Asks \ {a} : pc'[u] = pc[u]
      /\ pc'[a] = pc[a] \/ pc'[a] \in {"done", "enqueue", "failed"}
      /\ pc'[a] = "enqueue" <=> running' = a
      /\ running' \in {running, a, None}
      /\ pc'[a] = "enqueue" => Proceed(a)
  <2>1. CASE Proceed(a)
    BY <2>1, ProceedLoop
  <2>2. CASE UNCHANGED <<pc, running>>
    BY <1>0, <2>2
  <2>3. CASE Goto(a, "failed") /\ running' = running
    <3>1. pc'[a] = "failed" /\ \A u \in Tasks \ {a} : pc'[u] = pc[u]
      BY <1>0, <2>3, GotoType, PlaceFacts
    <3> QED
      BY <1>0, <2>3, <3>1 DEF Tasks
  <2> QED
    BY <1>2, <2>1, <2>2, <2>3
<1>4. LoopInv'
  BY <1>0, <1>3, LoopStep
<1>5. /\ \A c \in Asks : HasConv(c) => HasConv(c)'
      /\ \A c \in Asks : HasConv(c)' => HasConv(c) \/ conv[c] = c
      /\ \A c \in known' : c \in known \/ (HasConv(c)' /\ conv[c] = c)
  <2>1. PICK j \in Jobs : j = job[a]
    BY <1>1
  <2>2. PICK d \in Asks : d = conv[a]
    BY <1>1
  <2>3. j.op.conv = d /\ conv[d] = d /\ (pc[a] = "direct" => j.op.kind = "create")
        /\ Reply(j, result, fault)
    BY <1>1, <1>2, <2>1, <2>2
  <2>4. \A c : /\ HasConv(c) => HasConv(c)'
               /\ HasConv(c)' => HasConv(c) \/ c = d
               /\ pc[a] = "direct" /\ result = "ok" => HasConv(d)'
    BY <2>3, ReplyConv DEF TypeOK
  <2>5. known' = known \/ (known' = known \cup {d} /\ HasConv(d)')
    BY <1>2, <2>2, <2>4
  <2> QED
    BY <2>3, <2>4, <2>5
<1>7. known \subseteq known' /\ known' \subseteq Asks
  BY <1>1, <1>2 DEF TypeOK
<1>8. \A b \in Asks : pc'[b] \in {"enqueue", "fallback"} => conv'[b] \in known'
  <2>1. ASSUME NEW b \in Asks \ {a}, pc'[b] \in {"enqueue", "fallback"}
        PROVE  conv[b] \in known'
    BY <1>3, <1>7, <2>1 DEF NameInv
  <2>2. ASSUME pc'[a] \in {"enqueue", "fallback"} PROVE conv[a] \in known'
    <3>1. CASE pc[a] = "fallback"
      BY <1>7, <3>1 DEF NameInv
    <3>2. CASE pc[a] = "direct"
      BY <1>2, <1>3, <2>2, <3>2
    <3> QED
      BY <1>0, <3>1, <3>2
  <2> QED
    BY <1>0, <2>1, <2>2
<1>9. \A op \in Ops : op.kind = "create" /\ Pending(op)' => op.conv \in known'
  BY <1>0, <1>7 DEF NameInv, Pending, Queued, InHand
<1>10. /\ \A b \in Asks : pc'[b] \in {"new", "wait_latest", "latest"} =>
             pc[b] \in {"new", "wait_latest", "latest"}
       /\ \A b \in Asks : pc'[b] = "direct" => pc[b] = "direct"
  BY <1>0, <1>3
<1>11. NameInv'
  BY <1>0, <1>1, <1>5, <1>7, <1>8, <1>9, <1>10, NameStep
<1> QED
  BY <1>4, <1>11

(* Calls that read keep names and turns in order.                          *)
LEMMA ReaderOrder ==
    ASSUME TypeInv, LoopInv, NameInv, NEW r \in Readers, ReaderStep(r)
    PROVE  LoopInv' /\ NameInv'
<1> USE DEF TypeInv
<1>0. r \in Tasks /\ r \notin Asks
  BY NamesAssumption DEF Tasks
<1>1. /\ UNCHANGED <<convs, queue, hand, known, conv, running>> /\ MayRun(r)
      /\ \/ \E w \in Waits : Drain(r, w)
         \/ \E l \in Places : Goto(r, l)
  BY JoinFacts, PlaceFacts
     DEF ReaderStep, StartReader, FindReply, ReadReply, store, memory
<1>2. \A u \in Tasks \ {r} : pc'[u] = pc[u]
  BY <1>0, <1>1, DrainType, GotoType
<1>3. \A a \in Asks : pc'[a] = pc[a]
  BY <1>0, <1>2 DEF Tasks
<1>4. LoopInv'
  BY <1>1, <1>3 DEF LoopInv
<1>5. NameInv'
  BY <1>1, <1>3, NameQuiet
<1> QED
  BY <1>4, <1>5

(* A cancelled call keeps names and turns in order.                        *)
LEMMA CancelOrder ==
    ASSUME TypeInv, LoopInv, NameInv, NEW t \in Tasks, Cancel(t)
    PROVE  LoopInv' /\ NameInv'
<1> USE DEF TypeInv
<1>0. /\ UNCHANGED <<queue, hand, known, conv, running>> /\ running = None
      /\ pc'[t] = "failed" /\ \A u \in Tasks \ {t} : pc'[u] = pc[u]
      /\ None \notin Asks
  BY GotoType, PlaceFacts, NamesAssumption DEF Cancel, memory
<1>1. \A b \in Asks : pc'[b] = pc[b] \/ pc'[b] = "failed"
  BY <1>0 DEF Tasks
<1>2. LoopInv'
  BY <1>0, <1>1 DEF LoopInv
<1>3. \A c \in Asks : /\ HasConv(c) => HasConv(c)'
                      /\ HasConv(c)' => HasConv(c) \/ conv[c] = c
  <2>1. CASE UNCHANGED store
    BY <2>1 DEF store, HasConv
  <2>2. CASE t \in Asks /\ pc[t] \in {"direct", "fallback"} /\ Insert(job[t].op)
    <3>1. job[t] \in Jobs /\ job[t].op = NextOp(t) /\ conv[t] \in Asks
      BY <2>2 DEF TaskInv, AskInv
    <3>2. PICK op \in Ops : op = NextOp(t) /\ Insert(op) /\ op.conv = conv[t]
      BY <2>2, <3>1, NextOpType
    <3>3. conv[op.conv] = op.conv
      BY <2>2, <3>1, <3>2, NamesAssumption DEF NameInv
    <3> QED
      BY <3>2, <3>3, InsertConv DEF TypeOK
  <2> QED
    BY <2>1, <2>2 DEF Cancel
<1>4. /\ \A b \in Asks : pc'[b] \in {"enqueue", "fallback"} => conv'[b] \in known'
      /\ \A op \in Ops : op.kind = "create" /\ Pending(op)' => op.conv \in known'
      /\ known' \subseteq Asks
  BY <1>0, <1>1 DEF NameInv, Pending, Queued, InHand, TypeOK
<1>5. NameInv'
  BY <1>0, <1>1, <1>3, <1>4, NameStep
<1> QED
  BY <1>2, <1>5

(* Tasks that the end of a join releases have yet to write.                *)
LEMMA ReleaseLoop ==
    ASSUME TypeInv, Release, NEW a \in Asks
    PROVE  \/ pc'[a] = pc[a]
           \/ pc[a] = "wait_latest" /\ pc'[a] = "latest"
           \/ pc[a] \in Waits \ {"wait_latest"}
              /\ pc'[a] \in {"history", "find", "read"}
  BY JoinFacts DEF Release, Tasks

(* The worker keeps names and turns in order.                              *)
LEMMA WorkerOrder ==
    ASSUME TypeInv, LoopInv, NameInv, WorkerStep
    PROVE  LoopInv' /\ NameInv'
<1> USE DEF TypeInv
<1>0. UNCHANGED <<known, conv, running>> /\ (UNCHANGED pc \/ Release)
  BY DEF WorkerStep, WorkerGet, WorkerStop, WorkerReply, Settle, tasks
<1>1. \A a \in Asks : \/ pc'[a] = pc[a]
                      \/ pc[a] = "wait_latest" /\ pc'[a] = "latest"
                      \/ pc[a] \in Waits \ {"wait_latest"}
                         /\ pc'[a] \in {"history", "find", "read"}
  BY <1>0, ReleaseLoop
<1>2. LoopInv'
  <2>1. \A a \in Asks : pc'[a] = "enqueue" <=> pc[a] = "enqueue"
    BY <1>1, JoinFacts
  <2> QED
    BY <1>0, <2>1 DEF LoopInv
<1>3. \A op : Pending(op)' => Pending(op)
  <2>1. CASE WorkerGet
    BY <2>1, TakeType DEF WorkerGet, Pending, Queued, InHand
  <2>2. CASE WorkerStop
    BY <2>2, RangeTail DEF WorkerStop, Pending, Queued, InHand, TypeOK
  <2>3. CASE WorkerReply
    <3>1. hand # None /\ hand \in Jobs
      BY <2>3 DEF WorkerReply, TypeOK
    <3>2. \/ hand' = None /\ queue' = queue
          \/ /\ queue # <<>> /\ Head(queue) # None
             /\ hand' = Job(Head(queue), 1) /\ queue' = Tail(queue)
          \/ hand' # None /\ hand'.op = hand.op /\ queue' = queue
      <4>1. PICK result \in {"ok", "missing", "error"} :
               \/ Settle
               \/ hand' = Inserting(hand) /\ queue' = queue
               \/ /\ result = "error" /\ ~GivesUp(hand, result)
                  /\ hand' = Retry(hand) /\ queue' = queue
        BY <2>3 DEF WorkerReply
      <4>2. None \notin Jobs
        BY NamesAssumption
      <4>3. CASE Settle
        BY <4>3 DEF Settle
      <4> QED
        BY <3>1, <4>1, <4>2, <4>3, JobSteps
    <3>3. CASE hand' = None /\ queue' = queue
      BY <3>3 DEF Pending, Queued, InHand
    <3>4. CASE /\ queue # <<>> /\ Head(queue) # None
               /\ hand' = Job(Head(queue), 1) /\ queue' = Tail(queue)
      BY <3>4, TakeType DEF Pending, Queued, InHand
    <3>5. CASE hand' # None /\ hand'.op = hand.op /\ queue' = queue
      BY <3>1, <3>5 DEF Pending, Queued, InHand
    <3> QED
      BY <3>2, <3>3, <3>4, <3>5
  <2> QED
    BY <2>1, <2>2, <2>3 DEF WorkerStep
<1>4. \A c \in Asks : /\ HasConv(c) => HasConv(c)'
                      /\ HasConv(c)' => HasConv(c) \/ conv[c] = c
  <2>1. CASE UNCHANGED store
    BY <2>1 DEF store, HasConv
  <2>2. CASE WorkerReply
    <3>1. PICK j \in Jobs : j = hand /\ hand # None
      BY <2>2 DEF WorkerReply, TypeOK
    <3>2. PICK result \in {"ok", "missing", "error"}, fault \in BOOLEAN :
             Reply(j, result, fault)
      BY <2>2, <3>1 DEF WorkerReply
    <3>3. j.op.kind = "create" => j.op.conv \in known
      BY <3>1 DEF NameInv, Pending, InHand, Jobs
    <3>4. j.op.kind = "create" => conv[j.op.conv] = j.op.conv
      BY <3>3 DEF NameInv, TypeOK
    <3> QED
      BY <3>2, <3>4, ReplyConv DEF TypeOK
  <2> QED
    BY <2>1, <2>2 DEF WorkerStep, WorkerGet, WorkerStop
<1>5. /\ \A b \in Asks : pc'[b] \in {"new", "wait_latest", "latest"} =>
            pc[b] \in {"new", "wait_latest", "latest"}
      /\ \A b \in Asks : pc'[b] = "direct" => pc[b] = "direct"
      /\ \A b \in Asks : pc'[b] \in {"enqueue", "fallback"} => conv'[b] \in known'
      /\ \A op \in Ops : op.kind = "create" /\ Pending(op)' => op.conv \in known'
      /\ known' \subseteq Asks
  BY <1>0, <1>1, <1>3, JoinFacts DEF NameInv, TypeOK
<1>6. NameInv'
  BY <1>0, <1>4, <1>5, NameStep
<1> QED
  BY <1>2, <1>6

(* A stopping, crashing and restarting process keeps names and turns in    *)
(* order: one that forgets what it knows has nothing queued for it.        *)
LEMMA ProcessOrder ==
    ASSUME IInv, LoopInv, NameInv,
           StopServer \/ CloseStep \/ Crash \/ Restart \/ UNCHANGED vars
    PROVE  LoopInv' /\ NameInv'
<1> USE DEF IInv, TypeInv
<1>0. None \notin Asks
  BY NamesAssumption
<1>1. CASE StopServer \/ CloseStep \/ UNCHANGED vars
  <2>1. UNCHANGED <<convs, known, hand, pc, conv, running>>
    BY <1>1 DEF StopServer, CloseStep, Close, PutSentinel, Closed, vars, store, memory, tasks
  <2>2. \A op \in Ops : Pending(op)' => Pending(op)
    <3>1. CASE queue' = queue
      BY <2>1, <3>1 DEF Pending, Queued, InHand
    <3>2. CASE queue' = Append(queue, None)
      <4>1. queue \in Seq(Ops \cup {None})
        BY DEF TypeOK
      <4>2. Range(queue') = Range(queue) \cup {None}
        BY <3>2, <4>1, RangeAppend
      <4> QED
        BY <2>1, <4>2 DEF Pending, Queued, InHand
    <3> QED
      BY <1>1, <3>1, <3>2
         DEF StopServer, CloseStep, Close, PutSentinel, Closed, vars, memory
  <2>3. LoopInv'
    BY <2>1 DEF LoopInv
  <2>4. \A c : HasConv(c)' <=> HasConv(c)
    BY <2>1 DEF HasConv
  <2>5. /\ \A op \in Ops : op.kind = "create" /\ Pending(op)' => op.conv \in known'
        /\ \A b \in Asks : pc'[b] \in {"enqueue", "fallback"} => conv'[b] \in known'
        /\ known' \subseteq Asks
    BY <2>1, <2>2 DEF NameInv, TypeOK
  <2>6. NameInv'
    BY <2>1, <2>4, <2>5, NameStep
  <2> QED
    BY <2>3, <2>6
<1>2. CASE Crash \/ Restart
  <2>1. /\ UNCHANGED <<convs, conv>> /\ queue' = <<>> /\ hand' = None /\ known' = {}
    BY <1>2 DEF Crash, Restart, Forget, store, tasks
  <2>2. /\ \A a \in Asks : \/ pc'[a] = pc[a] /\ pc[a] \in Ended \cup {"new"}
                           \/ pc'[a] = "failed"
        /\ running' = None
    <3>1. CASE Crash
      BY <3>1 DEF Crash, Tasks
    <3>2. CASE Restart
      <4>1. service \in {"closed", "down"} /\ UNCHANGED <<pc, running>>
        BY <3>2 DEF Restart, tasks
      <4>2. \A a \in Asks : pc[a] \in Ended \cup {"new"}
        BY <4>1 DEF ShutInv, Tasks
      <4>3. running = None
        BY <4>2 DEF LoopInv, Ended, TypeOK
      <4> QED
        BY <4>1, <4>2, <4>3
    <3> QED
      BY <1>2, <3>1, <3>2
  <2>3. LoopInv'
    BY <1>0, <2>2 DEF LoopInv, Ended
  <2>4. \A c : HasConv(c)' <=> HasConv(c)
    BY <2>1 DEF HasConv
  <2>5. \A op : ~Pending(op)'
    BY <2>1 DEF Pending, Queued, InHand, Range
  <2>6. /\ \A b \in Asks : pc'[b] \in {"new", "wait_latest", "latest"} =>
              pc[b] \in {"new", "wait_latest", "latest"}
        /\ \A b \in Asks : pc'[b] \notin {"direct", "enqueue", "fallback"}
    BY <2>2 DEF Ended
  <2>7. NameInv'
    BY <2>1, <2>4, <2>5, <2>6, NameStep
  <2> QED
    BY <2>3, <2>7
<1> QED
  BY <1>1, <1>2

(* Every step keeps names and turns in order.                              *)
LEMMA NextNames ==
    ASSUME IInv, LoopInv, NameInv, [Next]_vars
    PROVE  LoopInv' /\ NameInv'
<1>0. TypeInv
  BY DEF IInv
<1>1. ASSUME NEW a \in Asks, AskStep(a) PROVE LoopInv' /\ NameInv'
  BY <1>0, <1>1, StartAskOrder, LatestReplyOrder, MovesOrder,
     NameConversationOrder, EnqueueOrder, OwnReplyOrder DEF AskStep
<1>2. CASE WorkerStep
  BY <1>0, <1>2, WorkerOrder
<1>3. CASE StopServer \/ CloseStep \/ Crash \/ Restart \/ UNCHANGED vars
  BY <1>3, ProcessOrder
<1> QED
  BY <1>0, <1>1, <1>2, <1>3, ReaderOrder, CancelOrder DEF Next

LEMMA InitNames == Init => LoopInv /\ NameInv
<1> SUFFICES ASSUME Init PROVE LoopInv /\ NameInv
  OBVIOUS
<1>1. LoopInv
  BY NamesAssumption DEF Init, LoopInv, Tasks
<1>2. \A op : ~Pending(op)
  BY DEF Init, Pending, Queued, InHand, Range
<1>3. \A c : ~HasConv(c)
  BY DEF Init, StoreInit, HasConv, Range
<1>4. NameInv
  BY <1>2, <1>3 DEF Init, NameInv, Tasks
<1> QED
  BY <1>1, <1>4

-----------------------------------------------------------------------------
(* The order of the writes while the queue does not overflow.              *)

(* The write before a row's in its turn, as a handler queues them.         *)
Prior(op) ==
    Op(IF op.kind = "user" THEN "create"
       ELSE IF op.kind = "assistant" THEN "user" ELSE "assistant",
       op.ask, op.conv)

Newest(op) == msgs # <<>> /\ msgs[Len(msgs)] = op
Last(op) == queue # <<>> /\ queue[Len(queue)] = op

(* The write executed next, and one queued right behind another.           *)
Front(op) ==
    \/ hand # None /\ hand.op = op
    \/ hand = None /\ queue # <<>> /\ queue[1] = op

Behind(op, x) ==
    \/ hand # None /\ hand.op = x /\ queue # <<>> /\ queue[1] = op
    \/ \E i \in 2..Len(queue) : queue[i - 1] = x /\ queue[i] = op

(* The row a write refers to is there, or was given up before it; an       *)
(* answer's question is then the newest message.                           *)
Ready(op) ==
    /\ op.kind # "create" => Stored(Parent(op)) \/ Parent(op) \in dead
    /\ op.kind = "assistant" =>
          Prior(op) \in dead \/ Stored(op) \/ Newest(Prior(op))

(* A write may follow x in the queue: it will be ready when x is done.     *)
MayBegin(op) ==
    op.kind = "create" \/ (op.kind = "user" /\ Stored(Parent(op)))

Due(a, op) == pc[a] = "enqueue" /\ op = NextOp(a)

QueueInv ==
    /\ \A op \in Ops : Front(op) => Ready(op)
    /\ \A op, x \in Ops : Behind(op, x) => MayBegin(op) \/ x = Prior(op)
    /\ \A a \in Asks, op \in Ops : Due(a, op) => MayBegin(op) \/ Last(Prior(op))

(* A queued row is not stored yet; one in hand is stored only if an        *)
(* attempt committed and its reply was lost.                               *)
FreshInv ==
    /\ \A op \in Rows : op \in Queued => ~Stored(op)
    /\ hand # None /\ hand.stmt = "insert" /\ Stored(hand.op) =>
          hand.op \in faulted

(* A question in the database, or pending when its handler is done with    *)
(* the turn, has its answer on the way.                                    *)
AnswerTo(op) == Op("assistant", op.ask, op.conv)
TurnInv ==
    /\ \A m \in Range(msgs) : m.kind = "user" => Tracked(AnswerTo(m))
    /\ \A op \in Rows : op.kind = "user" /\ Pending(op) =>
          \/ Tracked(AnswerTo(op))
          \/ running = op.ask /\ next[op.ask] = 3 /\ conv[op.ask] = op.conv

AdjacentInv ==
    \A i \in DOMAIN msgs : msgs[i].kind = "assistant" =>
        \/ Op("user", msgs[i].ask, msgs[i].conv) \in dead
        \/ i > 1 /\ msgs[i - 1] = Op("user", msgs[i].ask, msgs[i].conv)

BlameInv ==
    \A op \in dead : op \in faulted \/ (op.kind # "create" /\ Parent(op) \in dead)

CoreInv == QueueInv /\ FreshInv /\ AdjacentInv /\ BlameInv

CalmInv == CoreInv /\ TurnInv

FallbackInv == \A a \in Asks : pc[a] = "fallback" => overflowed # {}

OrderInv ==
    LoopInv /\ NameInv /\ FallbackInv /\ (overflowed = {} => CalmInv)

-----------------------------------------------------------------------------
(* Lemmas about the writes, the queue and the tables.                      *)

(* The writes of a turn that are named after one of them.                  *)
LEMMA TurnOfOp ==
    ASSUME NEW op \in Ops
    PROVE  /\ op.kind \in {"create", "user", "assistant", "trace"}
           /\ op.ask \in Asks /\ op.conv \in Asks
           /\ Parent(op) \in Ops /\ Prior(op) \in Ops
           /\ op.kind = "user" => Prior(op) = Parent(op)
           /\ op.kind = "assistant" =>
                 /\ Prior(op) = Op("user", op.ask, op.conv)
                 /\ Prior(op).kind = "user"
                 /\ Parent(Prior(op)) = Parent(op)
           /\ op.kind = "trace" => Prior(op) = Parent(op)
           /\ op.kind # "trace" =>
                 Parent(op).kind = "create" /\ Parent(op).conv = op.conv
           /\ op.kind = "trace" =>
                 Parent(op).kind = "assistant" /\ Parent(op).ask = op.ask
<1>1. /\ op.kind \in {"create", "user", "assistant", "trace"}
      /\ op.ask \in Asks /\ op.conv \in Asks
  BY TurnFacts DEF Ops
<1>2. \A k \in {"create", "user", "assistant", "trace"} :
         /\ Op(k, op.ask, op.conv) \in Ops
         /\ Op(k, op.ask, op.conv).kind = k
         /\ Op(k, op.ask, op.conv).ask = op.ask
         /\ Op(k, op.ask, op.conv).conv = op.conv
  BY <1>1, OpType, TurnFacts
<1>3. CASE op.kind = "create"
  BY <1>1, <1>2, <1>3 DEF Parent, Prior
<1>4. CASE op.kind = "user"
  BY <1>1, <1>2, <1>4 DEF Parent, Prior
<1>5. CASE op.kind = "assistant"
  <2>1. Prior(op) = Op("user", op.ask, op.conv) /\ Parent(op) = Op("create", op.ask, op.conv)
    BY <1>5 DEF Parent, Prior
  <2>2. Parent(Prior(op)) = Op("create", op.ask, op.conv)
    BY <1>2, <2>1 DEF Parent
  <2> QED
    BY <1>1, <1>2, <1>5, <2>1, <2>2
<1>6. CASE op.kind = "trace"
  BY <1>1, <1>2, <1>6 DEF Parent, Prior
<1> QED
  BY <1>1, <1>3, <1>4, <1>5, <1>6

(* What a write finds in the tables when the database refuses it.          *)
LEMMA Refused ==
    ASSUME NEW op \in Ops, ~Accepts(op)
    PROVE  Stored(op) \/ (op.kind # "create" /\ ~Stored(Parent(op)))
<1>1. CASE op.kind = "create"
  BY <1>1 DEF Accepts, Stored
<1>2. CASE op.kind = "trace"
  BY <1>2, TurnOfOp DEF Accepts, Stored
<1>3. CASE op.kind \in {"user", "assistant"}
  BY <1>3, TurnOfOp DEF Accepts, Stored
<1> QED
  BY <1>1, <1>2, <1>3, TurnOfOp

(* A write joins the queue behind its last one.                            *)
LEMMA AppendQueue ==
    ASSUME TypeOK, NEW y \in Ops \cup {None},
           queue' = Append(queue, y), hand' = hand
    PROVE  /\ \A op : Front(op)' =>
                 Front(op) \/ (op = y /\ hand = None /\ queue = <<>>)
           /\ \A op, x : Behind(op, x)' =>
                 \/ Behind(op, x)
                 \/ /\ op = y
                    /\ Last(x) \/ (queue = <<>> /\ hand # None /\ hand.op = x)
           /\ Last(y)'
<1>1. queue \in Seq(Ops \cup {None}) /\ Len(queue) \in Nat
  BY DEF TypeOK
<1>2. /\ Len(queue') = Len(queue) + 1 /\ queue' # <<>>
      /\ \A i \in 1..Len(queue) : queue'[i] = queue[i]
      /\ queue'[Len(queue) + 1] = y
      /\ queue # <<>> <=> Len(queue) > 0
  BY <1>1
<1>3. Last(y)'
  BY <1>2 DEF Last
<1>4. queue # <<>> => queue'[1] = queue[1]
  BY <1>1, <1>2
<1>5. queue = <<>> => queue'[1] = y
  BY <1>1, <1>2
<1>6. ASSUME NEW op, Front(op)'
      PROVE  Front(op) \/ (op = y /\ hand = None /\ queue = <<>>)
  BY <1>4, <1>5, <1>6 DEF Front
<1>7. ASSUME NEW op, NEW x, Behind(op, x)'
      PROVE  \/ Behind(op, x)
             \/ /\ op = y
                /\ Last(x) \/ (queue = <<>> /\ hand # None /\ hand.op = x)
  <2>1. CASE hand' # None /\ hand'.op = x /\ queue'[1] = op
    BY <1>4, <1>5, <2>1 DEF Behind
  <2>2. CASE \E i \in 2..Len(queue') : queue'[i - 1] = x /\ queue'[i] = op
    <3>1. PICK i \in 2..Len(queue') : queue'[i - 1] = x /\ queue'[i] = op
      BY <2>2
    <3>2. CASE i <= Len(queue)
      <4>1. i \in 2..Len(queue) /\ queue[i - 1] = x /\ queue[i] = op
        BY <1>1, <1>2, <3>1, <3>2
      <4> QED
        BY <4>1 DEF Behind
    <3>3. CASE i = Len(queue) + 1
      <4>1. op = y /\ Len(queue) \in 1..Len(queue) /\ queue[Len(queue)] = x
        BY <1>1, <1>2, <3>1, <3>3
      <4> QED
        BY <1>2, <4>1 DEF Last
    <3> QED
      BY <1>1, <1>2, <3>1, <3>2, <3>3
  <2> QED
    BY <1>7, <2>1, <2>2 DEF Behind
<1> QED
  BY <1>3, <1>6, <1>7

(* The worker takes the queue's first write.                               *)
LEMMA TakeQueue ==
    ASSUME TypeOK, queue # <<>>, Head(queue) # None,
           hand' = Job(Head(queue), 1), queue' = Tail(queue)
    PROVE  /\ \A op : Front(op)' => queue[1] = op
           /\ \A op, x : Behind(op, x)' => Behind(op, x)
<1>1. queue \in Seq(Ops \cup {None}) /\ Len(queue) \in Nat \ {0}
  BY DEF TypeOK
<1>2. /\ Len(queue') = Len(queue) - 1
      /\ \A i \in 1..Len(queue') : queue'[i] = queue[i + 1]
      /\ Head(queue) = queue[1]
      /\ queue' # <<>> => 1 \in 1..Len(queue')
  BY <1>1
<1>3. hand' # None /\ hand'.op = queue[1]
  BY <1>2, TakeType
<1>4. \A op : Front(op)' => queue[1] = op
  BY <1>3 DEF Front
<1>5. ASSUME NEW op, NEW x, Behind(op, x)' PROVE Behind(op, x)
  <2>1. CASE hand'.op = x /\ queue' # <<>> /\ queue'[1] = op
    <3>1. 2 \in 2..Len(queue) /\ queue[2 - 1] = x /\ queue[2] = op
      BY <1>1, <1>2, <1>3, <2>1
    <3> QED
      BY <3>1 DEF Behind
  <2>2. CASE \E i \in 2..Len(queue') : queue'[i - 1] = x /\ queue'[i] = op
    <3>1. PICK i \in 2..Len(queue') : queue'[i - 1] = x /\ queue'[i] = op
      BY <2>2
    <3>2. i + 1 \in 2..Len(queue) /\ queue[(i + 1) - 1] = x /\ queue[i + 1] = op
      BY <1>1, <1>2, <3>1
    <3> QED
      BY <3>2 DEF Behind
  <2> QED
    BY <1>5, <2>1, <2>2 DEF Behind
<1> QED
  BY <1>4, <1>5

(* When the worker settles its write the next one comes to the front.      *)
LEMMA SettleQueue ==
    ASSUME TypeOK, hand # None, Settle
    PROVE  /\ \A op \in Ops : Front(op)' => Behind(op, hand.op)
           /\ \A op, x : Behind(op, x)' => Behind(op, x)
           /\ \A op : op \in Queued' => op \in Queued
           /\ hand' # None =>
                 hand'.op \in Queued /\ hand' = Job(hand'.op, 1)
<1>1. CASE queue # <<>> /\ Head(queue) # None
  <2>1. hand' = Job(Head(queue), 1) /\ queue' = Tail(queue)
    BY <1>1 DEF Settle
  <2>2. Head(queue) = queue[1]
    BY <1>1 DEF TypeOK
  <2>3. hand'.op = Head(queue) /\ Head(queue) \in Queued
        /\ \A op : op \in Queued' => op \in Queued
    BY <1>1, <2>1, TakeType DEF Queued
  <2>4. \A op : Front(op)' => Behind(op, hand.op)
    BY <1>1, <2>1, TakeQueue DEF Behind
  <2> QED
    BY <1>1, <2>1, <2>3, <2>4, TakeQueue
<1>2. CASE ~(queue # <<>> /\ Head(queue) # None)
  <2>1. hand' = None /\ queue' = queue
    BY <1>2 DEF Settle
  <2>2. queue # <<>> => queue[1] = None
    BY <1>2 DEF TypeOK
  <2>3. \A op \in Ops : ~Front(op)'
    BY <2>1, <2>2, NamesAssumption DEF Front
  <2>4. \A op, x : Behind(op, x)' => Behind(op, x)
    BY <2>1 DEF Behind
  <2> QED
    BY <2>1, <2>3, <2>4 DEF Queued
<1> QED
  BY <1>1, <1>2

-----------------------------------------------------------------------------
(* Each step keeps the writes in order.                                    *)

(* What is ready stays so while rows and dead letters are added and the    *)
(* newest message is kept.                                                 *)
LEMMA StaysReady ==
    ASSUME NEW op \in Ops, Ready(op),
           \A o \in Ops : Stored(o) => Stored(o)',
           dead \subseteq dead',
           msgs' = msgs \/ (op.kind = "assistant" => Stored(op)')
    PROVE  Ready(op)'
<1>1. Parent(op) \in Ops /\ Prior(op) \in Ops
  BY TurnOfOp
<1>2. PICK p \in Ops : p = Parent(op)
  BY <1>1
<1>3. PICK q \in Ops : q = Prior(op)
  BY <1>1
<1>4. op.kind # "create" => Stored(p)' \/ p \in dead'
  BY <1>2 DEF Ready
<1>5. op.kind = "assistant" => q \in dead' \/ Stored(op)' \/ Newest(q)'
  BY <1>3 DEF Ready, Newest
<1> QED
  BY <1>2, <1>3, <1>4, <1>5 DEF Ready, Parent, Prior

(* ... and so does what may begin.                                         *)
LEMMA StaysBegun ==
    ASSUME NEW op \in Ops, MayBegin(op),
           \A o \in Ops : Stored(o) => Stored(o)'
    PROVE  MayBegin(op)'
<1>1. PICK p \in Ops : p = Parent(op)
  BY TurnOfOp
<1>2. op.kind = "create" \/ (op.kind = "user" /\ Stored(p)')
  BY <1>1 DEF MayBegin
<1> QED
  BY <1>1, <1>2 DEF MayBegin, Parent

(* A step that leaves queue, messages and dead letters alone, and stores   *)
(* nothing that is pending.                                                *)
LEMMA QuietCore ==
    ASSUME TypeInv, CoreInv, UNCHANGED <<queue, hand, msgs, dead>>,
           faulted \subseteq faulted',
           \A o \in Ops : Stored(o) => Stored(o)',
           \A o \in Ops : Pending(o) /\ Stored(o)' => Stored(o),
           \A a \in Asks, o \in Ops : Due(a, o)' => Due(a, o) \/ MayBegin(o)'
    PROVE  CoreInv'
<1>1. \A op \in Ops : Ready(op) => Ready(op)'
  BY StaysReady
<1>2. \A op \in Ops : MayBegin(op) => MayBegin(op)'
  BY StaysBegun
<1>3. /\ \A op : Front(op)' => Front(op)
      /\ \A op, x : Behind(op, x)' => Behind(op, x)
      /\ \A op : Last(op)' <=> Last(op)
      /\ \A op : op \in Queued' <=> op \in Queued
  BY DEF Front, Behind, Last, Queued
<1>4. QueueInv'
  <2>1. \A op \in Ops : Front(op)' => Ready(op)'
    BY <1>1, <1>3 DEF CoreInv, QueueInv
  <2>2. \A op, x \in Ops : Behind(op, x)' => MayBegin(op)' \/ x = Prior(op)
    BY <1>2, <1>3 DEF CoreInv, QueueInv
  <2>3. ASSUME NEW a \in Asks, NEW op \in Ops, Due(a, op)'
        PROVE  MayBegin(op)' \/ Last(Prior(op))'
    <3>1. Due(a, op) => MayBegin(op) \/ Last(Prior(op))
      BY DEF CoreInv, QueueInv
    <3>2. PICK p : p = Prior(op)
      OBVIOUS
    <3>3. MayBegin(op)' \/ Last(p)'
      BY <1>2, <1>3, <2>3, <3>1, <3>2
    <3> QED
      BY <3>2, <3>3 DEF Last
  <2> QED
    BY <2>1, <2>2, <2>3 DEF QueueInv, Prior
<1>5. FreshInv'
  <2>1. \A op \in Rows : op \in Queued' => ~Stored(op)'
    BY <1>3 DEF CoreInv, FreshInv, Pending, Rows
  <2>2. ASSUME hand # None, hand.stmt = "insert", Stored(hand.op)'
        PROVE  hand.op \in faulted'
    <3>1. PICK x \in Ops : x = hand.op
      BY <2>2 DEF TypeInv, TypeOK, Jobs
    <3>2. Stored(x)'
      BY <2>2, <3>1 DEF Stored
    <3>3. Stored(x)
      BY <2>2, <3>1, <3>2 DEF Pending, InHand
    <3> QED
      BY <2>2, <3>1, <3>3 DEF CoreInv, FreshInv
  <2> QED
    BY <2>1, <2>2 DEF FreshInv
<1>6. AdjacentInv' /\ BlameInv'
  BY DEF CoreInv, AdjacentInv, BlameInv, Parent
<1> QED
  BY <1>4, <1>5, <1>6 DEF CoreInv

(* A step that leaves nothing queued, in hand or about to be.              *)
LEMMA EmptyCore ==
    ASSUME CoreInv, UNCHANGED <<store, dead, faulted>>,
           queue' = <<>>, hand' = None, \A a \in Asks : pc'[a] # "enqueue"
    PROVE  CoreInv'
<1>1. QueueInv'
  BY DEF QueueInv, Front, Behind, Due
<1>2. FreshInv'
  BY DEF FreshInv, Queued, Range
<1>3. AdjacentInv' /\ BlameInv'
  BY DEF CoreInv, AdjacentInv, BlameInv, Parent, store
<1> QED
  BY <1>1, <1>2, <1>3 DEF CoreInv

(* A write of ask a, or the sentinel, joins the queue.                     *)
LEMMA AppendCore ==
    ASSUME TypeInv, CoreInv, NEW y \in Ops \cup {None},
           queue' = Append(queue, y), UNCHANGED <<store, hand, dead, faulted>>,
           y # None => MayBegin(y) \/ Last(Prior(y)),
           y \in Rows => ~Stored(y),
           \A a \in Asks, o \in Ops : Due(a, o)' => Prior(o) = y
    PROVE  CoreInv'
<1>0. TypeOK /\ None \notin Ops
  BY NamesAssumption DEF TypeInv
<1>1. \A op : Stored(op)' <=> Stored(op)
  BY UnchangedKeeps
<1>2. msgs' = msgs /\ dead' = dead /\ faulted' = faulted
  BY DEF store
<1>3. QueueInv'
  <2>1. ASSUME NEW op \in Ops, Front(op)' PROVE Ready(op)'
    <3>1. Front(op) \/ (op = y /\ hand = None /\ queue = <<>>)
      BY <1>0, <2>1, AppendQueue
    <3>2. Ready(op)
      <4>1. CASE Front(op)
        BY <4>1 DEF CoreInv, QueueInv
      <4>2. CASE op = y /\ queue = <<>>
        <5>1. MayBegin(op)
          BY <1>0, <4>2 DEF Last
        <5> QED
          BY <5>1 DEF MayBegin, Ready
      <4> QED
        BY <3>1, <4>1, <4>2
    <3> QED
      BY <1>1, <1>2, <3>2, StaysReady
  <2>2. ASSUME NEW op \in Ops, NEW x \in Ops, Behind(op, x)'
        PROVE  MayBegin(op)' \/ x = Prior(op)
    <3>1. \/ Behind(op, x)
          \/ /\ op = y
             /\ Last(x) \/ (queue = <<>> /\ hand # None /\ hand.op = x)
      BY <1>0, <2>2, AppendQueue
    <3>2. MayBegin(op) \/ x = Prior(op)
      BY <1>0, <3>1 DEF CoreInv, QueueInv, Last
    <3> QED
      BY <1>1, <3>2, StaysBegun
  <2>3. ASSUME NEW a \in Asks, NEW op \in Ops, Due(a, op)'
        PROVE  Last(Prior(op))'
    <3>1. PICK p : p = Prior(op)
      OBVIOUS
    <3>2. p = y
      BY <2>3, <3>1
    <3>3. Last(p)'
      BY <1>0, <3>2, AppendQueue
    <3> QED
      BY <3>1, <3>3 DEF Last
  <2> QED
    BY <2>1, <2>2, <2>3 DEF QueueInv, Prior
<1>4. FreshInv'
  <2>1. Range(queue') = Range(queue) \cup {y}
    BY <1>0, RangeAppend DEF TypeOK
  <2>2. \A op \in Rows : op \in Queued' => ~Stored(op)'
    BY <1>1, <2>1 DEF CoreInv, FreshInv, Queued
  <2>3. ASSUME hand # None, hand.stmt = "insert", Stored(hand.op)'
        PROVE  hand.op \in faulted
    <3>1. PICK x : x = hand.op
      OBVIOUS
    <3>2. Stored(x)'
      BY <2>3, <3>1 DEF Stored
    <3> QED
      BY <1>1, <2>3, <3>1, <3>2 DEF CoreInv, FreshInv
  <2> QED
    BY <1>2, <2>2, <2>3 DEF FreshInv
<1>5. AdjacentInv' /\ BlameInv'
  BY <1>2 DEF CoreInv, AdjacentInv, BlameInv, Parent
<1> QED
  BY <1>3, <1>4, <1>5 DEF CoreInv

(* The worker wakes up with a write.                                       *)
LEMMA WorkerGetCore ==
    ASSUME TypeInv, CoreInv, WorkerGet, \A a \in Asks : pc'[a] # "enqueue"
    PROVE  CoreInv'
<1>0. /\ TypeOK /\ hand = None /\ queue # <<>> /\ Head(queue) # None
      /\ hand' = Job(Head(queue), 1) /\ queue' = Tail(queue)
      /\ UNCHANGED <<store, dead, faulted>>
  BY DEF TypeInv, WorkerGet, history
<1>1. /\ \A op : Stored(op)' <=> Stored(op)
      /\ msgs' = msgs
  BY <1>0, UnchangedKeeps DEF store
<1>2. PICK y \in Ops : y = Head(queue) /\ y \in Queued
  BY <1>0, TakeType DEF Queued
<1>3. hand' = Job(y, 1) /\ hand' # None /\ hand'.op = y
      /\ \A op : op \in Queued' => op \in Queued
  BY <1>0, <1>2, TakeType DEF Queued
<1>4. QueueInv'
  <2>1. \A op \in Ops : Front(op)' => Front(op)
    BY <1>0, TakeQueue DEF Front
  <2>2. \A op \in Ops : Front(op)' => Ready(op)'
    BY <1>0, <1>1, <2>1, StaysReady DEF CoreInv, QueueInv
  <2>3. \A op, x \in Ops : Behind(op, x)' => MayBegin(op)' \/ x = Prior(op)
    BY <1>0, <1>1, TakeQueue, StaysBegun DEF CoreInv, QueueInv
  <2> QED
    BY <2>2, <2>3 DEF QueueInv, Due, Prior
<1>5. FreshInv'
  <2>1. \A op \in Rows : op \in Queued' => ~Stored(op)'
    BY <1>1, <1>3 DEF CoreInv, FreshInv
  <2>2. hand'.stmt = "insert" => ~Stored(y)'
    BY <1>1, <1>2, <1>3 DEF Job, Rows, CoreInv, FreshInv
  <2>3. hand'.stmt = "insert" => ~Stored(hand.op)'
    BY <1>3, <2>2 DEF Stored
  <2> QED
    BY <2>1, <2>3 DEF FreshInv
<1>6. AdjacentInv' /\ BlameInv'
  BY <1>0, <1>1 DEF CoreInv, AdjacentInv, BlameInv, Parent
<1> QED
  BY <1>4, <1>5, <1>6 DEF CoreInv

(* What the reply to a statement tells of the tables.                      *)
LEMMA ReplyTables ==
    ASSUME StoreTypeOK, NEW j \in Jobs, NEW x \in Ops, x = j.op,
           NEW result, NEW fault \in BOOLEAN, Reply(j, result, fault)
    PROVE  /\ \A o \in Ops : Stored(o) => Stored(o)'
           /\ result = "ok" => Stored(x)'
           /\ result = "ok" /\ x.kind \in {"user", "assistant"} => Newest(x)'
           /\ \/ msgs' = msgs
              \/ /\ x.kind \in {"user", "assistant"} /\ Accepts(x)
                 /\ msgs' = Append(msgs, x) /\ Stored(x)'
           /\ \A o \in Rows : Stored(o)' =>
                 Stored(o) \/ (o.kind = x.kind /\ o.ask = x.ask)
           /\ result = "error" /\ ~fault =>
                 j.stmt = "insert" /\ ~Accepts(x) /\ UNCHANGED store
           /\ result = "missing" => x.kind = "create" /\ ~Stored(x)'
<1>1. (\A o \in Ops : Stored(o) => Stored(o)') /\ (result = "ok" => Stored(x)')
  BY ReplyKeeps
<1>2. j.stmt = "select" => x.kind = "create"
  BY DEF Jobs
<1>3. ASSUME Insert(x)
      PROVE  /\ x.kind \in {"user", "assistant"} =>
                   msgs' = Append(msgs, x) /\ Newest(x)'
             /\ x.kind \notin {"user", "assistant"} => msgs' = msgs
             /\ Stored(x)'
  <2>1. x.kind \in {"user", "assistant"} => x \in Messages
    BY TurnFacts DEF Messages, Ops
  <2>2. x.kind \in {"user", "assistant"} =>
           /\ msgs' = Append(msgs, x) /\ msgs' # <<>> /\ msgs'[Len(msgs')] = x
    BY <1>3, <2>1 DEF Insert, StoreTypeOK
  <2> QED
    BY <1>3, <2>2, InsertKeeps DEF Insert, Newest
<1>4. \/ msgs' = msgs
      \/ /\ x.kind \in {"user", "assistant"} /\ Accepts(x)
         /\ msgs' = Append(msgs, x) /\ Stored(x)'
  BY <1>3 DEF Reply, store
<1>5. result = "ok" /\ x.kind \in {"user", "assistant"} => Newest(x)'
  BY <1>2, <1>3 DEF Reply
<1>6. ASSUME NEW o \in Rows, Stored(o)'
      PROVE  Stored(o) \/ (o.kind = x.kind /\ o.ask = x.ask)
  <2>1. o \in Ops /\ o.kind \in RowKinds /\ o.ask \in Asks
    BY RowFacts
  <2>2. PICK k \in RowKinds, a \in Asks : k = o.kind /\ a = o.ask
    BY <2>1
  <2>3. PICK c : c = o.conv /\ o = Op(k, a, c)
    BY <2>1, <2>2, RowIs
  <2>4. (Stored(o) <=> HasRow(k, a)) /\ (Stored(o)' <=> HasRow(k, a)')
    <3>1. PICK p : p = Op(k, a, c) /\ p = o /\ p.kind = k /\ p.ask = a
      BY <2>2, <2>3
    <3>2. k \in {"user", "assistant", "trace"}
      BY DEF RowKinds
    <3>3. (Stored(p) <=> HasRow(k, a)) /\ (Stored(p)' <=> HasRow(k, a)')
      BY <3>1, <3>2 DEF Stored, HasRow
    <3> QED
      BY <3>1, <3>3
  <2>5. HasRow(k, a)' => HasRow(k, a) \/ (j.op.kind = k /\ j.op.ask = a)
    BY ReplyRow
  <2> QED
    BY <1>6, <2>2, <2>4, <2>5
<1>7. result = "error" /\ ~fault =>
         j.stmt = "insert" /\ ~Accepts(x) /\ UNCHANGED store
  BY DEF Reply
<1>8. result = "missing" => x.kind = "create" /\ ~Stored(x)'
  <2>1. result = "missing" =>
           j.stmt = "select" /\ ~HasConv(x.conv) /\ UNCHANGED store
    BY DEF Reply
  <2> QED
    BY <1>2, <2>1, UnchangedKeeps DEF Stored
<1> QED
  BY <1>1, <1>4, <1>5, <1>6, <1>7, <1>8

(* What follows a settled write is ready: its row was stored, or it is in  *)
(* the dead letters.                                                       *)
LEMMA NextReady ==
    ASSUME NEW x \in Ops, NEW y \in Ops, Ready(x),
           MayBegin(y) \/ x = Prior(y),
           \A o \in Ops : Stored(o) => Stored(o)', dead \subseteq dead',
           \/ x \in dead'
           \/ /\ Stored(x)'
              /\ x.kind \in {"user", "assistant"} => Newest(x)'
    PROVE  Ready(y)'
<1>1. PICK p \in Ops : p = Parent(y)
  BY TurnOfOp
<1>2. PICK q \in Ops : q = Prior(y)
  BY TurnOfOp
<1>3. /\ y.kind # "create" => Stored(p)' \/ p \in dead'
      /\ y.kind = "assistant" => q \in dead' \/ Stored(y)' \/ Newest(q)'
  <2>1. CASE MayBegin(y)
    BY <1>1, <2>1 DEF MayBegin
  <2>2. CASE x = q
    <3>1. CASE y.kind \in {"user", "trace"}
      BY <1>1, <1>2, <2>2, <3>1, TurnOfOp
    <3>2. CASE y.kind = "assistant"
      <4>1. x.kind = "user" /\ Parent(x) = p
        BY <1>1, <1>2, <2>2, <3>2, TurnOfOp
      <4> QED
        BY <2>2, <3>2, <4>1 DEF Ready
    <3>3. CASE y.kind = "create"
      BY <3>3
    <3> QED
      BY <3>1, <3>2, <3>3, TurnOfOp
  <2> QED
    BY <1>2, <2>1, <2>2
<1> QED
  BY <1>1, <1>2, <1>3 DEF Ready, Parent, Prior

(* The worker's statement comes back.                                      *)
LEMMA WorkerReplyCore ==
    ASSUME TypeInv, RowsInv, CoreInv, WorkerReply,
           \A a \in Asks : pc'[a] # "enqueue"
    PROVE  CoreInv'
<1>0. TypeOK /\ StoreTypeOK /\ None \notin Jobs
  BY NamesAssumption DEF TypeInv, TypeOK
<1>1. PICK j \in Jobs, x \in Ops : j = hand /\ x = j.op /\ j # None
  BY DEF TypeInv, TypeOK, WorkerReply, Jobs
<1>2. PICK result \in {"ok", "missing", "error"}, fault \in BOOLEAN :
          /\ Reply(hand, result, fault)
          /\ Blame(hand, fault)
          /\ \/ (result = "ok" \/ GivesUp(hand, result)) /\ Settle
             \/ result = "missing" /\ hand' = Inserting(hand) /\ queue' = queue
             \/ /\ result = "error" /\ ~GivesUp(hand, result)
                /\ hand' = Retry(hand) /\ queue' = queue
          /\ NoteFailure(hand, result)
  BY DEF WorkerReply
<1>3. /\ Reply(j, result, fault)
      /\ faulted' = IF fault THEN faulted \cup {x} ELSE faulted
      /\ dead' = IF GivesUp(j, result) THEN dead \cup {x} ELSE dead
  BY <1>1, <1>2 DEF Blame, NoteFailure
<1>4. /\ \A o \in Ops : Stored(o) => Stored(o)'
      /\ result = "ok" => Stored(x)'
      /\ result = "ok" /\ x.kind \in {"user", "assistant"} => Newest(x)'
      /\ \/ msgs' = msgs
         \/ /\ x.kind \in {"user", "assistant"} /\ Accepts(x)
            /\ msgs' = Append(msgs, x) /\ Stored(x)'
      /\ \A o \in Rows : Stored(o)' =>
            Stored(o) \/ (o.kind = x.kind /\ o.ask = x.ask)
      /\ result = "error" /\ ~fault =>
            j.stmt = "insert" /\ ~Accepts(x) /\ UNCHANGED store
      /\ result = "missing" => x.kind = "create" /\ ~Stored(x)'
  BY <1>0, <1>1, <1>3, ReplyTables
<1>5. dead \subseteq dead' /\ faulted \subseteq faulted'
  BY <1>3
<1>6. /\ Front(x) /\ Ready(x) /\ Pending(x)
      /\ j.stmt = "insert" /\ Stored(x) => x \in faulted
  BY <1>1 DEF Front, Pending, InHand, CoreInv, QueueInv, FreshInv
<1>7. Ready(x)'
  BY <1>4, <1>5, <1>6, StaysReady
<1>8. \A op \in Rows : op \in Queued => ~Stored(op)'
  <2> SUFFICES ASSUME NEW op \in Rows, op \in Queued, Stored(op)' PROVE FALSE
    OBVIOUS
  <2>1. ~Stored(op)
    BY DEF CoreInv, FreshInv
  <2>2. op.kind = x.kind /\ op.ask = x.ask /\ op \in Ops
    BY <1>4, <2>1 DEF Rows
  <2>3. x \in Rows
    BY <2>2 DEF Rows
  <2>4. op.conv = conv[op.ask] /\ x.conv = conv[x.ask]
    BY <1>6, <2>3 DEF RowsInv, RowInv, Claimed, Pending
  <2>5. op = x
    BY <2>2, <2>4, RowIs
  <2> QED
    BY <1>1, <2>3, <2>5 DEF RowsInv, Once, Queued
<1>9. AdjacentInv'
  <2>1. CASE msgs' = msgs
    BY <1>5, <2>1 DEF CoreInv, AdjacentInv
  <2>2. CASE /\ x.kind \in {"user", "assistant"} /\ Accepts(x)
             /\ msgs' = Append(msgs, x)
    <3>1. msgs \in Seq(Messages) /\ x \in Messages
      BY <1>0, <2>2, TurnFacts DEF StoreTypeOK, Messages, Ops
    <3>2. /\ DOMAIN msgs' = 1..(Len(msgs) + 1) /\ DOMAIN msgs = 1..Len(msgs)
          /\ Len(msgs) \in Nat
          /\ \A i \in 1..Len(msgs) : msgs'[i] = msgs[i]
          /\ msgs'[Len(msgs) + 1] = x
          /\ msgs # <<>> => Len(msgs) \in 1..Len(msgs) /\ Len(msgs) + 1 > 1
      BY <2>2, <3>1
    <3>3. x.kind = "assistant" =>
             \/ Op("user", x.ask, x.conv) \in dead
             \/ msgs # <<>> /\ msgs[Len(msgs)] = Op("user", x.ask, x.conv)
      BY <1>6, <2>2, TurnOfOp DEF Ready, Newest, Accepts, Stored
    <3>4. ASSUME NEW i \in DOMAIN msgs', msgs'[i].kind = "assistant"
          PROVE  \/ Op("user", msgs'[i].ask, msgs'[i].conv) \in dead'
                 \/ i > 1 /\ msgs'[i - 1] = Op("user", msgs'[i].ask, msgs'[i].conv)
      <4>1. CASE i = Len(msgs) + 1
        <5>1. msgs'[i] = x /\ i - 1 = Len(msgs)
          BY <3>2, <4>1
        <5>2. msgs # <<>> => i > 1 /\ msgs'[i - 1] = msgs[Len(msgs)]
          BY <3>2, <4>1
        <5> QED
          BY <1>5, <3>3, <3>4, <5>1, <5>2
      <4>2. CASE i \in 1..Len(msgs)
        <5>1. msgs'[i] = msgs[i] /\ (i > 1 => msgs'[i - 1] = msgs[i - 1])
          BY <3>2, <4>2
        <5> QED
          BY <1>5, <3>2, <3>4, <4>2, <5>1 DEF CoreInv, AdjacentInv
      <4> QED
        BY <3>2, <4>1, <4>2
    <3> QED
      BY <3>4 DEF AdjacentInv, Op
  <2> QED
    BY <1>4, <2>1, <2>2
<1>10. BlameInv'
  <2>1. ASSUME GivesUp(j, result)
        PROVE  x \in faulted' \/ (x.kind # "create" /\ Parent(x) \in dead')
    <3>1. result = "error"
      BY <2>1 DEF GivesUp
    <3>2. CASE fault
      BY <1>3, <3>2
    <3>3. CASE ~fault
      <4>1. j.stmt = "insert" /\ ~Accepts(x)
        BY <1>4, <3>1, <3>3
      <4>2. CASE Stored(x)
        BY <1>5, <1>6, <4>1, <4>2
      <4>3. CASE x.kind # "create" /\ ~Stored(Parent(x))
        BY <1>5, <1>6, <4>3 DEF Ready
      <4> QED
        BY <4>1, <4>2, <4>3, Refused
    <3> QED
      BY <3>2, <3>3
  <2>2. \A op \in dead' : op \in dead \/ (op = x /\ GivesUp(j, result))
    BY <1>3
  <2>3. \A op \in dead' :
           op \in faulted' \/ (op.kind # "create" /\ Parent(op) \in dead')
    BY <1>5, <2>1, <2>2 DEF CoreInv, BlameInv
  <2> QED
    BY <2>3 DEF BlameInv, Parent
<1>11. CASE (result = "ok" \/ GivesUp(hand, result)) /\ Settle
  <2>0. hand # None /\ hand.op = x /\ TypeOK /\ Settle
    BY <1>0, <1>1, <1>11
  <2>1. /\ \A op \in Ops : Front(op)' => Behind(op, x)
        /\ \A op, z : Behind(op, z)' => Behind(op, z)
        /\ \A op : op \in Queued' => op \in Queued
        /\ hand' # None => hand'.op \in Queued /\ hand' = Job(hand'.op, 1)
    BY <2>0, SettleQueue
  <2>2. \/ x \in dead'
        \/ Stored(x)' /\ (x.kind \in {"user", "assistant"} => Newest(x)')
    BY <1>1, <1>3, <1>4, <1>11
  <2>3. ASSUME NEW op \in Ops, Front(op)' PROVE Ready(op)'
    <3>1. MayBegin(op) \/ x = Prior(op)
      BY <2>1, <2>3 DEF CoreInv, QueueInv
    <3> QED
      BY <1>4, <1>5, <1>6, <2>2, <3>1, NextReady
  <2>4. \A op, z \in Ops : Behind(op, z)' => MayBegin(op)' \/ z = Prior(op)
    BY <1>4, <2>1, StaysBegun DEF CoreInv, QueueInv
  <2>5. QueueInv'
    BY <2>3, <2>4 DEF QueueInv, Due, Prior
  <2>6. ASSUME hand' # None, hand'.stmt = "insert", Stored(hand.op)' PROVE FALSE
    <3>1. PICK y : y = hand'.op
      OBVIOUS
    <3>2. y \in Queued /\ y \in Ops /\ hand' = Job(y, 1)
      BY <1>0, <2>1, <2>6, <3>1, RangeOps
    <3>3. y.kind # "create"
      BY <2>6, <3>2 DEF Job
    <3>4. Stored(y)'
      BY <2>6, <3>1 DEF Stored
    <3> QED
      BY <1>8, <3>2, <3>3, <3>4 DEF Rows
  <2>7. FreshInv'
    BY <1>8, <2>1, <2>6 DEF FreshInv
  <2> QED
    BY <1>9, <1>10, <2>5, <2>7 DEF CoreInv
<1>12. CASE /\ queue' = queue
            /\ \/ result = "missing" /\ hand' = Inserting(hand)
               \/ result = "error" /\ ~GivesUp(hand, result) /\ hand' = Retry(hand)
  <2>1. hand' # None /\ hand'.op = x
    BY <1>0, <1>1, <1>12, JobSteps
  <2>2. /\ \A op : Front(op)' => op = x
        /\ \A op, z : Behind(op, z)' => Behind(op, z)
        /\ \A op : op \in Queued' => op \in Queued
    BY <1>1, <1>12, <2>1 DEF Front, Behind, Queued
  <2>3. \A op \in Ops : Front(op)' => Ready(op)'
    BY <1>7, <2>2
  <2>4. \A op, z \in Ops : Behind(op, z)' => MayBegin(op)' \/ z = Prior(op)
    BY <1>4, <2>2, StaysBegun DEF CoreInv, QueueInv
  <2>5. QueueInv'
    BY <2>3, <2>4 DEF QueueInv, Due, Prior
  <2>6. ASSUME hand'.stmt = "insert", Stored(x)' PROVE x \in faulted'
    <3>1. result = "error" /\ hand' = Retry(hand)
      BY <1>4, <1>12, <2>6
    <3>2. CASE fault
      BY <1>3, <3>2
    <3>3. CASE ~fault
      <4>1. j.stmt = "insert" /\ UNCHANGED store
        BY <1>4, <3>1, <3>3
      <4>2. Stored(x)
        BY <2>6, <4>1, UnchangedKeeps
      <4> QED
        BY <1>5, <1>6, <4>1, <4>2
    <3> QED
      BY <3>2, <3>3
  <2>7. hand'.stmt = "insert" /\ Stored(hand.op)' => hand'.op \in faulted'
    <3>1. Stored(hand.op)' <=> Stored(x)'
      BY <2>1 DEF Stored
    <3> QED
      BY <2>1, <2>6, <3>1
  <2>8. FreshInv'
    BY <1>8, <2>2, <2>7 DEF FreshInv
  <2> QED
    BY <1>9, <1>10, <2>5, <2>8 DEF CoreInv
<1> QED
  BY <1>2, <1>11, <1>12

-----------------------------------------------------------------------------
(* Which of these each action is.                                          *)

Quiet ==
    /\ UNCHANGED <<queue, hand, msgs, dead>>
    /\ faulted \subseteq faulted'
    /\ \A o \in Ops : Stored(o) => Stored(o)'
    /\ \A o \in Ops : Pending(o) /\ Stored(o)' => Stored(o)
    /\ \A a \in Asks, o \in Ops : Due(a, o)' => Due(a, o) \/ MayBegin(o)'

Emptied ==
    /\ queue' = <<>> /\ hand' = None
    /\ UNCHANGED <<store, dead, faulted>>
    /\ \A a \in Asks : pc'[a] # "enqueue"

(* While a handler holds the loop, nothing else happens but a crash.       *)
LEMMA HeldLoop ==
    ASSUME IInv, LoopInv, NEW a \in Asks, running = a, [Next]_vars
    PROVE  Enqueue(a) \/ Overflow(a) \/ Crash \/ UNCHANGED vars
<1>0. a # None /\ a \notin Readers /\ pc[a] = "enqueue" /\ a \in Tasks
  BY NamesAssumption DEF LoopInv, Tasks
<1>1. ASSUME NEW b \in Asks, AskStep(b) PROVE Enqueue(a) \/ Overflow(a)
  <2>1. MayRun(b)
    BY <1>1 DEF AskStep, StartAsk, LatestReply, HistoryReply, VerifyConversation,
                NameConversation, Enqueue, Overflow, FallbackReply, DirectReply
  <2>2. b = a
    BY <1>0, <2>1 DEF MayRun
  <2> QED
    BY <1>0, <1>1, <2>2
       DEF AskStep, StartAsk, LatestReply, HistoryReply, VerifyConversation,
           NameConversation, FallbackReply, DirectReply
<1>2. ASSUME NEW r \in Readers, ReaderStep(r) PROVE FALSE
  BY <1>0, <1>2 DEF ReaderStep, StartReader, FindReply, ReadReply, MayRun
<1>3. ~WorkerStep /\ ~StopServer /\ ~CloseStep
  BY <1>0 DEF WorkerStep, WorkerGet, WorkerStop, WorkerReply, StopServer,
              CloseStep, Close, PutSentinel, Closed
<1>4. ASSUME NEW t \in Tasks, Cancel(t) PROVE FALSE
  BY <1>0, <1>4 DEF Cancel
<1>5. ~Restart
  BY <1>0 DEF Restart, IInv, ShutInv, Ended
<1> QED
  BY <1>1, <1>2, <1>3, <1>4, <1>5 DEF Next

(* Only a full queue sends a handler to the fallback, and it is noted.     *)
LEMMA FallbackNext ==
    ASSUME IInv, RowsInv, LoopInv, FallbackInv, [Next]_vars
    PROVE  FallbackInv' /\ overflowed \subseteq overflowed'
<1>1. overflowed \subseteq overflowed'
  <2>1. ASSUME NEW a \in Asks, AskStep(a) PROVE overflowed \subseteq overflowed'
    BY <2>1 DEF AskStep, StartAsk, LatestReply, HistoryReply, VerifyConversation,
         NameConversation, Enqueue, Overflow, FallbackReply, DirectReply, history
  <2>2. ASSUME NEW r \in Readers, ReaderStep(r) PROVE overflowed' = overflowed
    BY <2>2 DEF ReaderStep, StartReader, FindReply, ReadReply, history
  <2>3. ASSUME WorkerStep PROVE overflowed' = overflowed
    BY <2>3 DEF WorkerStep, WorkerGet, WorkerStop, WorkerReply, history
  <2>4. ASSUME NEW t \in Tasks, Cancel(t) PROVE overflowed' = overflowed
    BY <2>4 DEF Cancel, history
  <2>5. ASSUME StopServer \/ CloseStep \/ Crash \/ Restart \/ UNCHANGED vars
        PROVE  overflowed' = overflowed
    BY <2>5 DEF StopServer, CloseStep, Close, PutSentinel, Closed, Crash, Restart,
                vars, history
  <2> QED
    BY <2>1, <2>2, <2>3, <2>4, <2>5 DEF Next
<1>2. \A a \in Asks : Moves(a)
  BY StepEffect DEF Static, Losing, OwnWrite, WorkerWrite, MovesBut
<1>3. ASSUME NEW a \in Asks, pc'[a] = "fallback" PROVE overflowed' # {}
  <2>1. pc[a] = "fallback" \/ pc[a] = "enqueue"
    <3>1. TypeOK
      BY DEF IInv, TypeInv
    <3>2. ~Advances(a)
      BY <1>3, <3>1, ProceedType DEF Advances
    <3> QED
      BY <1>2, <1>3, <3>2 DEF Moves, Early
  <2>2. CASE pc[a] = "fallback"
    BY <1>1, <2>2 DEF FallbackInv
  <2>3. CASE pc[a] = "enqueue"
    <3>1. Enqueue(a) \/ Overflow(a) \/ Crash \/ UNCHANGED vars
      BY <2>3, HeldLoop DEF LoopInv
    <3>2. TypeOK /\ a \in Tasks
      BY DEF IInv, TypeInv, Tasks
    <3>3. ~Enqueue(a)
      BY <1>3, <3>2, ProceedType DEF Enqueue
    <3>4. ~Crash
      BY <1>3, <2>3, <3>2 DEF Crash, Ended
    <3>5. ~UNCHANGED vars
      BY <1>3, <2>3 DEF vars, tasks
    <3> QED
      BY <3>1, <3>3, <3>4, <3>5 DEF Overflow
  <2> QED
    BY <2>1, <2>2, <2>3
<1> QED
  BY <1>1, <1>3 DEF FallbackInv

(* A step that touches neither tables nor queue.                           *)
LEMMA SameStoreQuiet ==
    ASSUME UNCHANGED <<store, queue, hand, dead, faulted>>,
           \A a \in Asks : pc'[a] = "enqueue" =>
              \/ pc[a] = "enqueue" /\ conv'[a] = conv[a] /\ next'[a] = next[a]
              \/ next'[a] = 1
    PROVE  Quiet
<1>1. \A o : Stored(o)' <=> Stored(o)
  BY UnchangedKeeps
<1>2. ASSUME NEW a \in Asks, NEW o \in Ops, Due(a, o)'
      PROVE  Due(a, o) \/ MayBegin(o)'
  <2>1. CASE pc[a] = "enqueue" /\ conv'[a] = conv[a] /\ next'[a] = next[a]
    BY <1>2, <2>1 DEF Due, NextOp
  <2>2. CASE next'[a] = 1
    BY <1>2, <2>2 DEF Due, NextOp, Op, Turn, MayBegin
  <2> QED
    BY <1>2, <2>1, <2>2 DEF Due
<1> QED
  BY <1>1, <1>2 DEF Quiet, store

(* The unqueued create concerns no write that is pending.                  *)
LEMMA DirectTables ==
    ASSUME TypeInv, NameInv, NEW a \in Asks, pc[a] = "direct",
           NEW x \in Ops, x = job[a].op, Insert(x) \/ UNCHANGED store
    PROVE  /\ msgs' = msgs
           /\ \A o \in Ops : Stored(o) => Stored(o)'
           /\ \A o \in Ops : Pending(o) /\ Stored(o)' => Stored(o)
<1>0. StoreTypeOK
  BY DEF TypeInv, TypeOK
<1>1. x = NextOp(a) /\ next[a] = 1 /\ conv[a] \in Asks
  BY DEF TypeInv, TaskInv, AskInv
<1>2. x.kind = "create" /\ x.conv = conv[a]
  BY <1>1 DEF NextOp, Op, Turn
<1>3. CASE UNCHANGED store
  BY <1>3, UnchangedKeeps DEF store
<1>4. CASE Insert(x)
  <2>1. msgs' = msgs /\ traces' = traces
    BY <1>2, <1>4 DEF Insert
  <2>2. \A c : HasConv(c)' <=> HasConv(c) \/ c = x.conv
    BY <1>0, <1>2, <1>4, InsertConv
  <2>3. ASSUME NEW o \in Ops, Pending(o), Stored(o)' PROVE Stored(o)
    <3>1. CASE o.kind # "create"
      BY <2>1, <2>3, <3>1 DEF Stored, HasMessage
    <3>2. CASE o.kind = "create"
      <4>1. HasConv(o.conv)' /\ o.conv \in known
        BY <2>3, <3>2 DEF Stored, NameInv
      <4>2. HasConv(o.conv)
        BY <1>2, <2>2, <4>1 DEF NameInv
      <4> QED
        BY <3>2, <4>2 DEF Stored
    <3> QED
      BY <3>1, <3>2
  <2> QED
    BY <1>0, <1>4, <2>1, <2>3, InsertKeeps
<1> QED
  BY <1>3, <1>4

(* The reply to it lets the ask go on only when the conversation is there. *)
LEMMA DirectQuiet ==
    ASSUME TypeInv, NameInv, NEW a \in Asks, DirectReply(a)
    PROVE  Quiet
<1>0. /\ TypeOK /\ StoreTypeOK /\ pc[a] = "direct" /\ next[a] = 1
      /\ conv[a] \in Asks /\ conv' = conv
      /\ UNCHANGED <<queue, hand, dead>> /\ job[a] \in Jobs /\ a \in Tasks
  BY DEF TypeInv, TypeOK, TaskInv, AskInv, DirectReply, Tasks
<1>1. PICK j \in Jobs, x \in Ops : j = job[a] /\ x = j.op /\ x = NextOp(a)
  BY <1>0, NextOpType DEF TypeInv, TaskInv, AskInv
<1>2. PICK result \in {"ok", "missing", "error"}, fault \in BOOLEAN :
          /\ Reply(j, result, fault)
          /\ Blame(j, fault)
          /\ \/ result = "ok" /\ Proceed(a)
             \/ UNCHANGED <<pc, running, next>>
             \/ Goto(a, "failed") /\ UNCHANGED <<running, next>>
  BY <1>1 DEF DirectReply
<1>3. /\ msgs' = msgs
      /\ \A o \in Ops : Stored(o) => Stored(o)'
      /\ \A o \in Ops : Pending(o) /\ Stored(o)' => Stored(o)
      /\ result = "ok" => Stored(x)'
  <2>1. Insert(x) \/ UNCHANGED store
    BY <1>1, <1>2 DEF Reply
  <2>2. result = "ok" => Stored(x)'
    BY <1>0, <1>1, <1>2, ReplyTables
  <2> QED
    BY <1>0, <1>1, <2>1, <2>2, DirectTables
<1>4. faulted \subseteq faulted'
  BY <1>2 DEF Blame
<1>5. ASSUME NEW b \in Asks, NEW o \in Ops, Due(b, o)' PROVE Due(b, o) \/ MayBegin(o)'
  <2>1. CASE result = "ok" /\ Proceed(a)
    <3>1. \A u \in Asks \ {a} : pc'[u] = pc[u] /\ next'[u] = next[u]
      BY <1>0, <2>1, ProceedLoop DEF Proceed, TypeOK
    <3>2. CASE b # a
      BY <1>0, <1>5, <3>1, <3>2 DEF Due, NextOp
    <3>3. CASE b = a
      <4>1. next'[a] = 2
        BY <1>0, <2>1, ProceedType
      <4>2. o = Op("user", a, conv[a]) /\ x = Op("create", a, conv[a])
        BY <1>0, <1>1, <1>5, <3>3, <4>1 DEF Due, NextOp, Turn
      <4>3. o.kind = "user" /\ Parent(o) = x
        BY <4>2 DEF Parent, Op
      <4>4. PICK p : p = Parent(o) /\ Stored(p)'
        BY <1>3, <2>1, <4>3
      <4> QED
        BY <4>3, <4>4 DEF MayBegin, Parent
    <3> QED
      BY <3>2, <3>3
  <2>2. CASE UNCHANGED <<pc, running, next>>
    BY <1>0, <1>5, <2>2 DEF Due, NextOp
  <2>3. CASE Goto(a, "failed") /\ UNCHANGED <<running, next>>
    <3>1. pc'[a] = "failed" /\ \A u \in Tasks \ {a} : pc'[u] = pc[u]
      BY <1>0, <2>3, GotoType, PlaceFacts
    <3>2. \A u \in Asks \ {a} : pc'[u] = pc[u]
      BY <3>1 DEF Tasks
    <3> QED
      BY <1>0, <1>5, <2>3, <3>1, <3>2 DEF Due, NextOp
  <2> QED
    BY <1>2, <2>1, <2>2, <2>3
<1> QED
  BY <1>0, <1>3, <1>4, <1>5 DEF Quiet

(* An ask on its way to its first write, and a call that reads.            *)
LEMMA CallQuiet ==
    ASSUME TypeInv,
           \/ \E a \in Asks : \/ StartAsk(a) \/ LatestReply(a) \/ HistoryReply(a)
                             \/ VerifyConversation(a) \/ NameConversation(a)
           \/ \E r \in Readers : ReaderStep(r)
    PROVE  Quiet
<1>0. TypeOK
  BY DEF TypeInv
<1>1. ASSUME NEW a \in Asks,
             \/ StartAsk(a) \/ LatestReply(a) \/ HistoryReply(a)
             \/ VerifyConversation(a) \/ NameConversation(a)
      PROVE  Quiet
  <2>1. /\ a \in Tasks /\ UNCHANGED <<store, queue, hand, dead, faulted, next>>
        /\ pc[a] \in {"new", "latest", "history", "answer"}
        /\ \A b \in Asks \ {a} : conv'[b] = conv[b]
    BY <1>0, <1>1 DEF StartAsk, LatestReply, HistoryReply, VerifyConversation,
         NameConversation, memory, history, Tasks, TypeOK
  <2>2. next[a] = 1
    BY <2>1 DEF TypeInv, TaskInv, AskInv
  <2>3. (\E w \in Waits : Drain(a, w)) \/ (\E l \in Places : Goto(a, l))
    BY <1>1, JoinFacts, PlaceFacts
       DEF StartAsk, LatestReply, HistoryReply, VerifyConversation, NameConversation
  <2>4. \A u \in Tasks \ {a} : pc'[u] = pc[u]
    BY <1>0, <2>1, <2>3, DrainType, GotoType
  <2>5. \A b \in Asks \ {a} : pc'[b] = pc[b]
    BY <2>4 DEF Tasks
  <2> QED
    BY <2>1, <2>2, <2>5, SameStoreQuiet
<1>2. ASSUME NEW r \in Readers, ReaderStep(r) PROVE Quiet
  <2>1. r \in Tasks /\ r \notin Asks
    BY NamesAssumption DEF Tasks
  <2>2. UNCHANGED <<store, queue, hand, dead, faulted, next, conv>>
    BY <1>2 DEF ReaderStep, StartReader, FindReply, ReadReply, memory, history
  <2>3. (\E w \in Waits : Drain(r, w)) \/ (\E l \in Places : Goto(r, l))
    BY <1>2, JoinFacts, PlaceFacts DEF ReaderStep, StartReader, FindReply, ReadReply
  <2>4. \A u \in Tasks \ {r} : pc'[u] = pc[u]
    BY <1>0, <2>1, <2>3, DrainType, GotoType
  <2>5. \A b \in Asks : pc'[b] = pc[b]
    BY <2>1, <2>4 DEF Tasks
  <2> QED
    BY <2>2, <2>5, SameStoreQuiet
<1> QED
  BY <1>1, <1>2

(* A cancelled call.                                                       *)
LEMMA CancelQuiet ==
    ASSUME TypeInv, NameInv, FallbackInv, overflowed = {},
           NEW t \in Tasks, Cancel(t)
    PROVE  Quiet
<1>0. /\ TypeOK /\ UNCHANGED <<queue, hand, dead, faulted, conv, next>>
      /\ pc'[t] = "failed" /\ \A u \in Tasks \ {t} : pc'[u] = pc[u]
  BY GotoType, PlaceFacts DEF TypeInv, Cancel, memory, history
<1>1. \A b \in Asks : pc'[b] = pc[b] \/ pc'[b] = "failed"
  BY <1>0 DEF Tasks
<1>2. CASE UNCHANGED store
  BY <1>0, <1>1, <1>2, SameStoreQuiet
<1>3. CASE t \in Asks /\ pc[t] \in {"direct", "fallback"} /\ Insert(job[t].op)
  <2>1. pc[t] = "direct" /\ job[t] \in Jobs
    BY <1>3 DEF FallbackInv, TypeInv, TaskInv, AskInv
  <2>2. PICK x \in Ops : x = job[t].op /\ Insert(x)
    BY <1>3, <2>1 DEF Jobs
  <2>3. /\ msgs' = msgs
        /\ \A o \in Ops : Stored(o) => Stored(o)'
        /\ \A o \in Ops : Pending(o) /\ Stored(o)' => Stored(o)
    BY <1>3, <2>1, <2>2, DirectTables
  <2>4. \A a \in Asks, o \in Ops : Due(a, o)' => Due(a, o)
    BY <1>0, <1>1 DEF Due, NextOp
  <2> QED
    BY <1>0, <2>3, <2>4 DEF Quiet
<1> QED
  BY <1>2, <1>3 DEF Cancel

(* A stopping process.                                                     *)
LEMMA ProcessQuiet ==
    ASSUME StopServer \/ Close \/ Closed \/ UNCHANGED vars
    PROVE  Quiet
<1>1. UNCHANGED <<store, queue, hand, dead, faulted, pc, conv, next>>
  BY DEF StopServer, Close, Closed, vars, memory, tasks, history
<1> QED
  BY <1>1, SameStoreQuiet

(* A worker that stops, a crash and a restart leave nothing queued.        *)
LEMMA StopEmpties ==
    ASSUME IInv, LoopInv, LoopInv', WorkerStop \/ Crash \/ Restart
    PROVE  Emptied
<1>0. TypeOK /\ None \notin Asks
  BY NamesAssumption DEF IInv, TypeInv
<1>1. CASE WorkerStop
  <2>1. /\ queue # <<>> /\ Head(queue) = None /\ queue' = Tail(queue)
        /\ hand' = None /\ UNCHANGED <<store, dead, faulted>> /\ running' = None
    BY <1>1 DEF WorkerStop, history
  <2>2. Len(queue) = 1
    <3>1. 1 \in 1..Len(queue) /\ queue[1] = None
      BY <1>0, <2>1 DEF TypeOK
    <3> QED
      BY <3>1 DEF IInv, ShutInv
  <2>3. queue' = <<>>
    BY <1>0, <2>1, <2>2 DEF TypeOK
  <2>4. \A a \in Asks : pc'[a] # "enqueue"
    BY <1>0, <2>1 DEF LoopInv
  <2> QED
    BY <2>1, <2>3, <2>4 DEF Emptied
<1>2. CASE Crash
  <2>1. /\ queue' = <<>> /\ hand' = None /\ running' = None
        /\ UNCHANGED <<store, dead, faulted>>
    BY <1>2 DEF Crash, Forget
  <2>2. \A a \in Asks : pc'[a] # "enqueue"
    BY <1>0, <2>1 DEF LoopInv
  <2> QED
    BY <2>1, <2>2 DEF Emptied
<1>3. CASE Restart
  <2>1. /\ queue' = <<>> /\ hand' = None /\ pc' = pc
        /\ UNCHANGED <<store, dead, faulted>> /\ service \in {"closed", "down"}
    BY <1>3 DEF Restart, Forget, tasks, history
  <2>2. \A a \in Asks : pc[a] \in Ended \cup {"new"}
    BY <2>1 DEF IInv, ShutInv, Tasks
  <2> QED
    BY <2>1, <2>2 DEF Emptied, Ended
<1> QED
  BY <1>1, <1>2, <1>3

(* While the queue does not overflow, every step is one of six.            *)
LEMMA CalmStep ==
    ASSUME IInv, LoopInv, LoopInv', NameInv, FallbackInv, [Next]_vars,
           overflowed = {}, overflowed' = {}
    PROVE  \/ Quiet \/ Emptied \/ WorkerGet \/ WorkerReply \/ PutSentinel
           \/ \E a \in Asks : Enqueue(a)
<1>0. TypeInv
  BY DEF IInv
<1>1. ASSUME NEW a \in Asks, AskStep(a) PROVE Quiet \/ Enqueue(a)
  <2>1. ~Overflow(a)
    BY DEF Overflow
  <2>2. ~FallbackReply(a)
    BY DEF FallbackReply, FallbackInv
  <2> QED
    BY <1>0, <1>1, <2>1, <2>2, CallQuiet, DirectQuiet DEF AskStep
<1>2. ASSUME NEW r \in Readers, ReaderStep(r) PROVE Quiet
  BY <1>0, <1>2, CallQuiet
<1>3. ASSUME NEW t \in Tasks, Cancel(t) PROVE Quiet
  BY <1>0, <1>3, CancelQuiet
<1> QED
  BY <1>1, <1>2, <1>3, ProcessQuiet, StopEmpties DEF Next, WorkerStep, CloseStep

(* A write that is enqueued is of a kind its handler has yet to make, ...  *)
LEMMA EnqueueCore ==
    ASSUME TypeInv, RowsInv, LoopInv, LoopInv', CoreInv, NEW a \in Asks, Enqueue(a)
    PROVE  CoreInv'
<1>0. /\ TypeOK /\ pc[a] = "enqueue" /\ conv[a] \in Asks /\ conv' = conv
      /\ Proceed(a) /\ queue' = Append(queue, NextOp(a))
      /\ UNCHANGED <<store, hand, dead, faulted>> /\ next[a] \in 1..4
  BY DEF TypeInv, TypeOK, TaskInv, AskInv, Enqueue, history
<1>1. PICK y \in Ops : y = NextOp(a)
  BY <1>0, NextOpType
<1>2. y.kind = Turn[next[a]] /\ y.ask = a /\ y.conv = conv[a]
  BY <1>1 DEF NextOp, Op
<1>3. MayBegin(y) \/ Last(Prior(y))
  BY <1>0, <1>1 DEF Due, CoreInv, QueueInv
<1>4. y \in Rows => ~Stored(y)
  <2>1. ASSUME y \in Rows PROVE Ahead(y)
    BY <1>0, <1>2 DEF Ahead, Ended
  <2>2. ASSUME y \in Rows PROVE ~HasRow(y.kind, y.ask)
    BY <1>0, <1>2, <2>1, <2>2 DEF RowsInv, RowInv
  <2>3. ASSUME y \in Rows PROVE Stored(y) <=> HasRow(y.kind, y.ask)
    BY <2>3, RowFacts, RowStored, RowIs
  <2> QED
    BY <2>2, <2>3
<1>5. ASSUME NEW b \in Asks, NEW o \in Ops, Due(b, o)' PROVE Prior(o) = y
  <2>1. running' = b /\ running' \in {a, None} /\ b # None
    BY <1>0, <1>5, ProceedLoop, NamesAssumption DEF Due, LoopInv
  <2>2. b = a /\ pc'[a] = "enqueue"
    BY <1>5, <2>1 DEF Due
  <2>3. next[a] # 4 /\ next'[a] = next[a] + 1
    BY <1>0, <2>2, ProceedType
  <2>4. o.kind = Turn[next[a] + 1] /\ o.ask = a /\ o.conv = conv[a]
    BY <1>0, <1>5, <2>2, <2>3 DEF Due, NextOp, Op
  <2>5. next[a] \in {1, 2, 3}
    BY <1>0, <2>3
  <2>6. /\ next[a] = 1 => y.kind = "create" /\ o.kind = "user"
        /\ next[a] = 2 => y.kind = "user" /\ o.kind = "assistant"
        /\ next[a] = 3 => y.kind = "assistant" /\ o.kind = "trace"
    BY <1>2, <2>4 DEF Turn
  <2>7. Prior(o) = Op(y.kind, a, conv[a])
    BY <2>4, <2>5, <2>6 DEF Prior
  <2> QED
    BY <1>1, <1>2, <2>7, RowIs
<1> QED
  BY <1>0, <1>1, <1>3, <1>4, <1>5, AppendCore

(* The writes stay in order.                                               *)
LEMMA CoreNext ==
    ASSUME IInv, RowsInv, LoopInv, LoopInv', NameInv, FallbackInv, [Next]_vars,
           overflowed = {}, overflowed' = {}, CoreInv
    PROVE  CoreInv'
<1>0. TypeInv /\ None \notin Asks
  BY NamesAssumption DEF IInv
<1>1. CASE Quiet
  BY <1>0, <1>1, QuietCore DEF Quiet
<1>2. CASE Emptied
  BY <1>2, EmptyCore DEF Emptied
<1>3. CASE WorkerGet \/ WorkerReply \/ PutSentinel
  <2>1. running' = None
    BY <1>3 DEF WorkerGet, WorkerReply, PutSentinel, tasks
  <2>2. \A a \in Asks : pc'[a] # "enqueue"
    BY <1>0, <2>1 DEF LoopInv
  <2>3. CASE PutSentinel
    <3>1. UNCHANGED <<store, hand, dead, faulted>> /\ queue' = Append(queue, None)
      BY <2>3 DEF PutSentinel, history
    <3>2. None \notin Rows
      BY NamesAssumption DEF Rows
    <3>3. PICK y \in Ops \cup {None} : y = None
      OBVIOUS
    <3> QED
      BY <1>0, <2>2, <3>1, <3>2, <3>3, AppendCore DEF Due
  <2> QED
    BY <1>0, <1>3, <2>2, <2>3, WorkerGetCore, WorkerReplyCore
<1>4. CASE \E a \in Asks : Enqueue(a)
  BY <1>0, <1>4, EnqueueCore
<1> QED
  BY <1>1, <1>2, <1>3, <1>4, CalmStep

-----------------------------------------------------------------------------
(* Turns are persisted whole.                                              *)

(* A row that is pending or has settled stays one of both.                 *)
LEMMA RowTracked ==
    ASSUME NEW op \in Rows
    PROVE  Tracked(op) <=> Claimed(op) \/ HasRow(op.kind, op.ask)
<1>1. op \in Ops /\ op.kind \in RowKinds
  BY RowFacts
<1>2. Stored(op) <=> HasRow(op.kind, op.ask)
  BY <1>1, RowStored, RowIs
<1> QED
  BY <1>2 DEF Tracked, Settled, Claimed

RowTrackedNow == \A op \in Rows : Tracked(op) <=> Claimed(op) \/ HasRow(op.kind, op.ask)

LEMMA RowsTracked == RowTrackedNow
  BY RowTracked DEF RowTrackedNow

LEMMA RowsTrackedNext == RowTrackedNow'
  BY RowsTracked, PTL

LEMMA RowsKeep ==
    ASSUME IInv, RowsInv, [Next]_vars, NEW op \in Rows, Tracked(op)
    PROVE  Tracked(op)'
<1>0. op \in Ops /\ op.ask \in Asks /\ RowInv(op)
  BY RowFacts DEF RowsInv
<1>1. Claimed(op) \/ HasRow(op.kind, op.ask)
  BY RowsTracked DEF RowTrackedNow
<1>2. SUFFICES Claimed(op)' \/ HasRow(op.kind, op.ask)'
  BY RowsTrackedNext DEF RowTrackedNow
<1>3. CASE Static
  BY <1>1, <1>3 DEF Static, Same, Claimed
<1>4. CASE Losing
  BY <1>1, <1>4 DEF Losing, Claimed
<1>5. ASSUME NEW o \in Rows, OwnWrite(o)
      PROVE  Claimed(op)' \/ HasRow(op.kind, op.ask)'
  <2>1. CASE Apart(op, o)
    BY <1>1, <1>5, <2>1 DEF OwnWrite, Same, Claimed
  <2>2. CASE ~Apart(op, o)
    <3>1. op.kind = o.kind /\ op.ask = o.ask
      BY <2>2 DEF Apart
    <3>2. Ahead(o)
      <4>1. o.ask \in Asks /\ o.kind = Turn[next[o.ask]] /\ next[o.ask] \in 1..4
        BY <1>5, RowFacts DEF OwnWrite, NextOp, Op, IInv, TypeInv, TypeOK
      <4> QED
        BY <1>5, <4>1 DEF OwnWrite, Ahead, Ended
    <3>3. ~Claimed(op)
      BY <1>0, <3>1, <3>2 DEF RowInv, Ahead
    <3>4. HasRow(o.kind, o.ask) => HasRow(o.kind, o.ask)'
      BY <1>5 DEF OwnWrite
    <3> QED
      BY <1>1, <3>1, <3>3, <3>4
  <2> QED
    BY <2>1, <2>2
<1>6. ASSUME NEW o \in Rows, WorkerWrite(o)
      PROVE  Claimed(op)' \/ HasRow(op.kind, op.ask)'
  <2>1. CASE Apart(op, o)
    BY <1>1, <1>6, <2>1 DEF WorkerWrite, Same, Claimed
  <2>2. CASE ~Apart(op, o)
    <3>1. op.kind = o.kind /\ op.ask = o.ask
      BY <2>2 DEF Apart
    <3>2. HasRow(o.kind, o.ask) => HasRow(o.kind, o.ask)'
      BY <1>6 DEF WorkerWrite
    <3>3. CASE Claimed(op)
      <4>1. op.conv = conv[op.ask] /\ o.conv = conv[o.ask]
        BY <1>0, <1>6, <3>3 DEF RowsInv, RowInv, WorkerWrite, Claimed
      <4>2. op = o
        BY <1>0, <3>1, <4>1, RowIs, RowFacts
      <4> QED
        BY <1>6, <4>2 DEF WorkerWrite
    <3> QED
      BY <1>1, <3>1, <3>2, <3>3
  <2> QED
    BY <2>1, <2>2
<1> QED
  BY <1>3, <1>4, <1>5, <1>6, StepEffect

(* A message becomes one only from the worker's hand.                      *)
LEMMA NewMessages ==
    ASSUME IInv, LoopInv, LoopInv', NameInv, FallbackInv, [Next]_vars,
           overflowed = {}, overflowed' = {}, NEW m \in Range(msgs')
    PROVE  m \in Range(msgs) \/ (running = None /\ m \in Rows /\ Pending(m))
<1>1. CASE msgs' = msgs
  BY <1>1
<1>2. CASE WorkerReply
  <2>1. /\ running = None /\ hand # None /\ hand \in Jobs /\ hand.op \in Ops
        /\ StoreTypeOK
    BY <1>2 DEF WorkerReply, IInv, TypeInv, TypeOK, Jobs
  <2>2. PICK j \in Jobs, x \in Ops : j = hand /\ x = j.op
    BY <2>1
  <2>3. PICK result \in {"ok", "missing", "error"}, fault \in BOOLEAN :
           Reply(j, result, fault)
    BY <1>2, <2>2 DEF WorkerReply
  <2>4. \/ msgs' = msgs
        \/ x.kind \in {"user", "assistant"} /\ msgs' = Append(msgs, x)
    BY <2>1, <2>2, <2>3, ReplyTables
  <2>5. CASE x.kind \in {"user", "assistant"} /\ msgs' = Append(msgs, x)
    <3>1. msgs \in Seq(Messages) /\ x \in Messages
      BY <2>1, <2>5, TurnFacts DEF StoreTypeOK, Messages, Ops
    <3>2. Range(msgs') = Range(msgs) \cup {x}
      BY <2>5, <3>1, RangeAppend
    <3>3. x \in Rows /\ Pending(x)
      BY <2>1, <2>2, <2>5 DEF Rows, Pending, InHand
    <3> QED
      BY <2>1, <3>2, <3>3
  <2> QED
    BY <2>4, <2>5
<1>3. CASE Quiet \/ Emptied \/ WorkerGet \/ PutSentinel \/ \E a \in Asks : Enqueue(a)
  BY <1>1, <1>3 DEF Quiet, Emptied, WorkerGet, PutSentinel, Enqueue, store
<1> QED
  BY <1>2, <1>3, CalmStep

(* A question becomes pending when its handler is about to enqueue the     *)
(* answer.                                                                 *)
LEMMA NewPending ==
    ASSUME IInv, LoopInv, LoopInv', NameInv, FallbackInv, [Next]_vars,
           overflowed = {}, overflowed' = {},
           NEW op \in Rows, op.kind = "user", Pending(op)'
    PROVE  \/ Pending(op)
           \/ running' = op.ask /\ next'[op.ask] = 3 /\ conv'[op.ask] = op.conv
<1>0. TypeOK /\ op \in Ops /\ op # None
  BY NamesAssumption DEF IInv, TypeInv, Rows
<1>1. CASE UNCHANGED <<queue, hand>>
  BY <1>1 DEF Pending, Queued, InHand
<1>2. CASE Emptied
  BY <1>2 DEF Emptied, Pending, Queued, InHand, Range
<1>3. CASE WorkerGet
  BY <1>3, <1>0, TakeType DEF WorkerGet, Pending, Queued, InHand
<1>4. CASE WorkerReply
  <2>1. hand # None /\ hand \in Jobs /\ None \notin Jobs
    BY <1>0, <1>4, NamesAssumption DEF WorkerReply, TypeOK
  <2>2. CASE Settle
    <3>1. op \in Queued' => op \in Queued
      BY <1>0, <2>1, <2>2, SettleQueue
    <3>2. hand' # None => hand'.op \in Queued
      BY <1>0, <2>1, <2>2, SettleQueue
    <3> QED
      BY <3>1, <3>2 DEF Pending, InHand
  <2>3. CASE queue' = queue /\ hand'.op = hand.op
    BY <2>1, <2>3 DEF Pending, Queued, InHand
  <2>4. Settle \/ (queue' = queue /\ hand'.op = hand.op)
    <3>1. PICK result \in {"ok", "missing", "error"} :
             \/ Settle
             \/ hand' = Inserting(hand) /\ queue' = queue
             \/ /\ result = "error" /\ ~GivesUp(hand, result)
                /\ hand' = Retry(hand) /\ queue' = queue
      BY <1>4 DEF WorkerReply
    <3> QED
      BY <2>1, <3>1, JobSteps
  <2> QED
    BY <2>2, <2>3, <2>4
<1>5. CASE PutSentinel
  <2>1. queue' = Append(queue, None) /\ hand' = hand
        /\ queue \in Seq(Ops \cup {None})
    BY <1>0, <1>5 DEF PutSentinel, TypeOK
  <2>2. Range(queue') = Range(queue) \cup {None}
    BY <2>1, RangeAppend
  <2> QED
    BY <1>0, <2>1, <2>2 DEF Pending, Queued, InHand
<1>6. ASSUME NEW a \in Asks, Enqueue(a)
      PROVE  \/ Pending(op)
             \/ running' = op.ask /\ next'[op.ask] = 3 /\ conv'[op.ask] = op.conv
  <2>1. /\ queue' = Append(queue, NextOp(a)) /\ hand' = hand /\ conv' = conv
        /\ queue \in Seq(Ops \cup {None}) /\ NextOp(a) \in Ops
        /\ Proceed(a) /\ next[a] \in 1..4
    BY <1>0, <1>6, NextOpType DEF Enqueue, TypeOK, IInv, TypeInv, TaskInv, AskInv
  <2>2. Range(queue') = Range(queue) \cup {NextOp(a)}
    BY <2>1, RangeAppend
  <2>3. Pending(op) \/ op = NextOp(a)
    BY <2>1, <2>2 DEF Pending, Queued, InHand
  <2>4. ASSUME op = NextOp(a)
        PROVE  running' = op.ask /\ next'[op.ask] = 3 /\ conv'[op.ask] = op.conv
    <3>1. op.ask = a /\ op.conv = conv[a] /\ Turn[next[a]] = "user"
      BY <2>4 DEF NextOp, Op
    <3>2. next[a] = 2
      BY <2>1, <3>1, RowFacts DEF Turn
    <3>3. next'[a] = 3 /\ running' = a
      BY <1>0, <2>1, <3>2, ProceedType DEF Proceed
    <3> QED
      BY <2>1, <3>1, <3>3
  <2> QED
    BY <2>3, <2>4
<1> QED
  BY <1>1, <1>2, <1>3, <1>4, <1>5, <1>6, CalmStep DEF Quiet

(* Questions keep their answers.                                           *)
LEMMA TurnNext ==
    ASSUME IInv, RowsInv, LoopInv, LoopInv', NameInv, FallbackInv, [Next]_vars,
           overflowed = {}, overflowed' = {}, TurnInv
    PROVE  TurnInv'
<1>0. TypeInv /\ TypeOK /\ None \notin Asks
  BY NamesAssumption DEF IInv, TypeInv
<1>1. \A op \in Ops : op.kind = "user" => AnswerTo(op) \in Rows
  BY TurnFacts, OpType, TurnOfOp DEF AnswerTo, Rows
<1>2. \A m \in Range(msgs) : m \in Ops
  <2>1. msgs \in Seq(Messages) /\ Messages \subseteq Ops
    BY <1>0, TurnFacts DEF TypeOK, StoreTypeOK, Messages, Ops
  <2> QED
    BY <2>1 DEF Range
<1>3. ASSUME NEW m \in Range(msgs'), m.kind = "user" PROVE Tracked(AnswerTo(m))'
  <2>1. \/ m \in Range(msgs)
        \/ running = None /\ m \in Rows /\ Pending(m)
    BY NewMessages
  <2>2. m \in Ops /\ Tracked(AnswerTo(m))
    <3>1. CASE m \in Range(msgs)
      BY <1>2, <1>3, <3>1 DEF TurnInv
    <3>2. CASE running = None /\ m \in Rows /\ Pending(m)
      BY <1>0, <1>3, <3>2, RowFacts DEF TurnInv
    <3> QED
      BY <2>1, <3>1, <3>2
  <2>3. PICK r \in Rows : r = AnswerTo(m)
    BY <1>1, <1>3, <2>2
  <2>4. Tracked(r)'
    BY <2>2, <2>3, RowsKeep
  <2> QED
    BY <2>3, <2>4 DEF AnswerTo
<1>4. ASSUME NEW op \in Rows, op.kind = "user", Pending(op)'
      PROVE  \/ Tracked(AnswerTo(op))'
             \/ running' = op.ask /\ next'[op.ask] = 3 /\ conv'[op.ask] = op.conv
  <2>0. op.ask \in Asks /\ op \in Ops
    BY RowFacts
  <2>1. PICK r \in Rows : r = AnswerTo(op)
    BY <1>1, <1>4, <2>0
  <2>2. \/ Pending(op)
        \/ running' = op.ask /\ next'[op.ask] = 3 /\ conv'[op.ask] = op.conv
    BY <1>4, NewPending
  <2>3. CASE Tracked(r)
    <3>1. Tracked(r)'
      BY <2>3, RowsKeep
    <3> QED
      BY <2>1, <3>1 DEF AnswerTo
  <2>4. CASE running = op.ask /\ next[op.ask] = 3 /\ conv[op.ask] = op.conv
    <3>1. PICK a \in Asks : a = op.ask
      BY <2>0
    <3>2. Enqueue(a) \/ Overflow(a) \/ Crash \/ UNCHANGED vars
      BY <2>4, <3>1, HeldLoop
    <3>3. ~Overflow(a)
      BY DEF Overflow
    <3>4. CASE Crash
      BY <1>4, <3>4 DEF Crash, Forget, Pending, Queued, InHand, Range
    <3>5. CASE UNCHANGED vars
      BY <2>4, <3>5 DEF vars, tasks
    <3>6. CASE Enqueue(a)
      <4>1. r = NextOp(a)
        BY <2>1, <2>4, <3>1 DEF AnswerTo, NextOp, Turn
      <4>2. queue' = Append(queue, r) /\ queue \in Seq(Ops \cup {None})
        BY <1>0, <3>6, <4>1 DEF Enqueue, TypeOK
      <4>3. Range(queue') = Range(queue) \cup {r} /\ r # None
        BY <4>2, RangeAppend, NamesAssumption DEF Rows
      <4>4. Tracked(r)'
        BY <4>3 DEF Tracked, Pending, Queued
      <4> QED
        BY <2>1, <4>4 DEF AnswerTo
    <3> QED
      BY <3>2, <3>3, <3>4, <3>5, <3>6
  <2> QED
    BY <1>4, <2>1, <2>2, <2>3, <2>4 DEF TurnInv
<1> QED
  BY <1>3, <1>4 DEF TurnInv, AnswerTo

-----------------------------------------------------------------------------
(* The order of the writes is an invariant.                                *)
LEMMA OrderNext ==
    ASSUME IInv, RowsInv, OrderInv, [Next]_vars
    PROVE  OrderInv'
<1>1. LoopInv' /\ NameInv'
  BY NextNames DEF OrderInv
<1>2. FallbackInv' /\ overflowed \subseteq overflowed'
  BY FallbackNext DEF OrderInv
<1>3. ASSUME overflowed' = {} PROVE CalmInv'
  <2>1. overflowed = {}
    BY <1>2, <1>3
  <2>2. CoreInv'
    BY <1>1, <1>3, <2>1, CoreNext DEF OrderInv, CalmInv
  <2>3. TurnInv'
    BY <1>1, <1>3, <2>1, TurnNext DEF OrderInv, CalmInv
  <2> QED
    BY <2>2, <2>3 DEF CalmInv
<1> QED
  BY <1>1, <1>2, <1>3 DEF OrderInv

LEMMA InitOrder == Init => OrderInv
<1> SUFFICES ASSUME Init PROVE OrderInv
  OBVIOUS
<1>1. LoopInv /\ NameInv
  BY InitNames
<1>2. FallbackInv
  BY DEF Init, FallbackInv, Tasks
<1>3. QueueInv
  BY DEF Init, QueueInv, Front, Behind, Due, Tasks
<1>4. FreshInv /\ TurnInv /\ AdjacentInv /\ BlameInv
  BY DEF Init, StoreInit, FreshInv, TurnInv, AdjacentInv, BlameInv, Pending,
         Queued, InHand, Range
<1> QED
  BY <1>1, <1>2, <1>3, <1>4 DEF OrderInv, CalmInv, CoreInv

LEMMA OrderInvariant == Spec => [](IInv /\ RowsInv /\ OrderInv)
<1>1. Spec => []OrderInv
  <2>1. IInv /\ RowsInv /\ OrderInv /\ [Next]_vars => OrderInv'
    BY OrderNext
  <2> QED
    BY <2>1, InitOrder, RowsInvariant, PTL DEF Spec
<1> QED
  BY <1>1, RowsInvariant, PTL

(* Unless the queue overflowed, a turn is persisted whole: with any number *)
(* of handlers, cancellations, failures, crashes and restarts, no USER row *)
(* stands without its ASSISTANT row in the database or on the way, unless  *)
(* that was given up or lost (_persist_if_configured, put_nowait).         *)
THEOREM TurnsWholeHolds == Spec => []TurnsWhole
<1>1. OrderInv => TurnsWhole
  BY DEF OrderInv, CalmInv, TurnInv, AnswerTo, Tracked, TurnsWhole
<1> QED
  BY <1>1, OrderInvariant, PTL

(* Unless the queue overflowed, an ASSISTANT row directly follows its own  *)
(* USER row, or that was given up: turns do not interleave.                *)
THEOREM TurnsAdjacentHolds == Spec => []TurnsAdjacent
<1>1. OrderInv => TurnsAdjacent
  BY DEF OrderInv, CalmInv, CoreInv, AdjacentInv, TurnsAdjacent
<1> QED
  BY <1>1, OrderInvariant, PTL

(* Unless the queue overflowed, the worker gives a write up only because   *)
(* the database failed it, or failed the write of the same turn it refers  *)
(* to: never for another turn's sake, or a restart's.                      *)
THEOREM FailuresBlamedHolds == Spec => []FailuresBlamed
<1>1. OrderInv => FailuresBlamed
  BY DEF OrderInv, CalmInv, CoreInv, BlameInv, FailuresBlamed
<1> QED
  BY <1>1, OrderInvariant, PTL

=============================================================================
