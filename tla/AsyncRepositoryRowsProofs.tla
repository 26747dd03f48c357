---------------------- MODULE AsyncRepositoryRowsProofs ----------------------
(***************************************************************************)
(* The queued, retried, crashing repository of AsyncRepository implements  *)
(* the promises of AuditLog, for every number of asks and readers, every   *)
(* queue size, retry count and fault model.                                *)
(***************************************************************************)
EXTENDS AsyncRepositoryProofs

-----------------------------------------------------------------------------
(* The writes that leave a row of a turn: all but the create, which any    *)
(* number of turns of one conversation repeat.                             *)
Rows == {op \in Ops : op.kind # "create"}

(* Whether the database holds a row of ask a: it is keyed by ask and kind. *)
HasRow(k, a) == IF k = "trace" THEN traces[a] > 0 ELSE HasMessage(k, a)

(* A write that was accepted, whatever became of it.                       *)
Claimed(op) == Pending(op) \/ op \in dead \/ op \in lost

(* A write its handler has yet to make, or is making itself.               *)
Ahead(op) ==
    /\ pc[op.ask] \notin Ended
    /\ \E i \in 1..4 : i >= next[op.ask] /\ op.kind = Turn[i]

(* A row is accepted once, under the conversation its ask keeps; a handler *)
(* still on its way to a row has left no trace of it, unless it is just    *)
(* executing that write itself.                                            *)
RowInv(op) ==
    /\ Claimed(op) => op.conv = conv[op.ask] /\ ~Ahead(op)
    /\ HasRow(op.kind, op.ask) /\ Ahead(op) =>
          pc[op.ask] = "fallback" /\ op.kind = Turn[next[op.ask]]

(* No row is queued twice, or queued while the worker writes it.           *)
Once ==
    /\ \A i, j \in 1..Len(queue) :
          queue[i] = queue[j] /\ queue[i] \in Rows => i = j
    /\ hand # None => (hand.op \in Rows => hand.op \notin Range(queue))

RowsInv == (\A op \in Rows : RowInv(op)) /\ Once

-----------------------------------------------------------------------------
(* A row's kind, ask and conversation.                                     *)
LEMMA RowFacts ==
    /\ RowKinds = {"user", "assistant", "trace"}
    /\ \A op \in Rows : /\ op \in Ops /\ op.kind \in RowKinds
                        /\ op.ask \in Asks /\ op.conv \in Asks
    /\ \A op \in Ops : op \in Rows <=> op.kind \in RowKinds
    /\ \A i, j \in 1..4 : Turn[i] = Turn[j] => i = j
    /\ \A i \in 1..4 : Turn[i] = "create" <=> i = 1
    /\ \A k \in RowKinds : \E i \in 2..4 : k = Turn[i]
<1>1. RowKinds = {"user", "assistant", "trace"}
  BY DEF RowKinds
<1>2. \A op \in Ops : op.kind \in Kinds /\ op.ask \in Asks /\ op.conv \in Asks
  BY DEF Ops
<1>3. Turn[1] = "create" /\ Turn[2] = "user" /\ Turn[3] = "assistant"
      /\ Turn[4] = "trace"
  BY DEF Turn
<1>4. 1..4 = {1, 2, 3, 4} /\ 2..4 = {2, 3, 4}
  OBVIOUS
<1>5. \A i, j \in 1..4 : Turn[i] = Turn[j] => i = j
  BY <1>3, <1>4
<1>6. \A i \in 1..4 : Turn[i] = "create" <=> i = 1
  BY <1>3, <1>4
<1>7. \A k \in RowKinds : \E i \in 2..4 : k = Turn[i]
  BY <1>1, <1>3, <1>4
<1> QED
  BY <1>1, <1>2, <1>5, <1>6, <1>7, TurnFacts DEF Rows

(* A row is stored when its table holds it.                                *)
LEMMA RowStored ==
    ASSUME NEW k \in RowKinds, NEW a, NEW c
    PROVE  Stored(Op(k, a, c)) <=> HasRow(k, a)
<1>1. k \in {"user", "assistant", "trace"}
  BY DEF RowKinds
<1>2. Op(k, a, c).kind = k /\ Op(k, a, c).ask = a
  BY DEF Op
<1> QED
  BY <1>1, <1>2 DEF Stored, HasRow

(* A write is its kind, ask and conversation.                              *)
LEMMA RowIs ==
    ASSUME NEW op \in Ops
    PROVE  op = Op(op.kind, op.ask, op.conv)
  BY DEF Ops, Op

(* What is pending, dead or lost is a write.                               *)
LEMMA ClaimedOps ==
    ASSUME TypeInv, NEW op, Claimed(op)
    PROVE  op \in Ops
  BY RangeOps DEF TypeInv, TypeOK, Claimed, Pending, InHand, Jobs

(* An INSERT adds the row it is for and no other.                          *)
LEMMA InsertRow ==
    ASSUME StoreTypeOK, NEW op \in Ops, Insert(op),
           NEW k \in RowKinds, NEW a \in Asks
    PROVE  /\ HasRow(k, a) => HasRow(k, a)'
           /\ HasRow(k, a)' => HasRow(k, a) \/ (op.kind = k /\ op.ask = a)
           /\ op.kind = k /\ op.ask = a => HasRow(k, a)'
<1>1. op.ask \in Asks /\ op.kind \in {"create", "user", "assistant", "trace"}
      /\ (op.kind \in {"user", "assistant"} => op \in Messages)
      /\ k \in {"user", "assistant", "trace"}
  BY TurnFacts DEF Ops, Messages, RowKinds
<1>2. CASE k = "trace"
  BY <1>1, <1>2 DEF Insert, HasRow, StoreTypeOK
<1>3. CASE k # "trace"
  <2>1. CASE op.kind \in {"user", "assistant"}
    <3>1. Range(msgs') = Range(msgs) \cup {op}
      BY <1>1, <2>1, RangeAppend DEF Insert, StoreTypeOK
    <3> QED
      BY <1>3, <3>1 DEF HasRow, HasMessage
  <2>2. CASE op.kind \notin {"user", "assistant"}
    <3>1. msgs' = msgs
      BY <2>2 DEF Insert
    <3> QED
      BY <1>1, <1>3, <2>2, <3>1 DEF HasRow, HasMessage
  <2> QED
    BY <2>1, <2>2
<1> QED
  BY <1>2, <1>3

(* Unchanged tables hold the same rows.                                    *)
LEMMA SameStoreRow ==
    ASSUME UNCHANGED store, NEW k, NEW a
    PROVE  HasRow(k, a)' <=> HasRow(k, a)
  BY DEF store, HasRow, HasMessage

(* A reply concerns the row of its statement and no other.                 *)
LEMMA ReplyRow ==
    ASSUME StoreTypeOK, NEW j \in Jobs, NEW result, NEW fault \in BOOLEAN,
           Reply(j, result, fault), NEW k \in RowKinds, NEW a \in Asks
    PROVE  /\ HasRow(k, a) => HasRow(k, a)'
           /\ HasRow(k, a)' => HasRow(k, a) \/ (j.op.kind = k /\ j.op.ask = a)
           /\ result = "ok" /\ j.op.kind = k /\ j.op.ask = a => HasRow(k, a)'
<1>0. j.op \in Ops /\ (j.stmt = "select" => j.op.kind = "create")
      /\ k # "create"
  BY DEF Jobs, RowKinds
<1>1. CASE j.stmt = "select" /\ UNCHANGED store
  BY <1>0, <1>1, SameStoreRow
<1>2. CASE Insert(j.op)
  BY <1>0, <1>2, InsertRow
<1>3. CASE result = "error" /\ UNCHANGED store
  BY <1>3, SameStoreRow
<1> QED
  BY <1>1, <1>2, <1>3 DEF Reply

-----------------------------------------------------------------------------
(* What a step may do to ask a: nothing; fail it; move it while it has not *)
(* begun to write, whatever conversation that gives it; send its write to  *)
(* the fallback; or finish its write.                                      *)
Early(a) == next[a] = 1 /\ pc[a] \notin Ended \cup {"fallback"}

Advances(a) ==
    /\ pc[a] \in {"enqueue", "direct", "fallback"}
    /\ conv'[a] = conv[a]
    /\ Proceed(a)

Moves(a) ==
    \/ /\ next'[a] = next[a] /\ conv'[a] = conv[a]
       /\ \/ pc'[a] = pc[a]
          \/ pc[a] # "done" /\ pc'[a] = "failed"
          \/ pc[a] = "enqueue" /\ pc'[a] = "fallback"
    \/ Early(a) /\ Early(a)'
    \/ Advances(a)

(* After its move an ask has no new write ahead of it, and the write it    *)
(* finished is behind it.                                                  *)
LEMMA AheadMoves ==
    ASSUME TypeInv, NEW op \in Rows, Moves(op.ask), Ahead(op)'
    PROVE  /\ Ahead(op)
           /\ Advances(op.ask) => op.kind # Turn[next[op.ask]]
           /\ ~Advances(op.ask) /\ pc[op.ask] = "fallback" =>
                 pc'[op.ask] = "fallback" /\ next'[op.ask] = next[op.ask]
<1>0. op.ask \in Asks /\ op.ask \in Tasks /\ op.kind \in RowKinds
      /\ next[op.ask] \in 1..4
  BY RowFacts DEF Tasks, TypeInv, TypeOK
<1>1. PICK i \in 1..4 : i >= next'[op.ask] /\ op.kind = Turn[i]
  BY DEF Ahead
<1>2. CASE Advances(op.ask)
  <2>1. TypeOK /\ Proceed(op.ask)
    BY <1>2 DEF Advances, TypeInv
  <2>2. next[op.ask] # 4 /\ next'[op.ask] = next[op.ask] + 1
    BY <1>0, <2>1, ProceedType DEF Ahead, Ended
  <2>3. i > next[op.ask] /\ pc[op.ask] \notin Ended
    BY <1>0, <1>1, <1>2, <2>2 DEF Advances, Ended
  <2>4. op.kind # Turn[next[op.ask]]
    BY <1>0, <1>1, <2>3, RowFacts
  <2> QED
    BY <1>0, <1>1, <1>2, <2>3, <2>4 DEF Ahead
<1>3. CASE Early(op.ask) /\ Early(op.ask)'
  <2>1. next[op.ask] = 1 /\ next'[op.ask] = 1
        /\ pc[op.ask] \notin Ended \cup {"fallback"}
    BY <1>3 DEF Early
  <2>2. Ahead(op)
    BY <1>1, <2>1 DEF Ahead
  <2>3. Advances(op.ask) => op.kind # Turn[next[op.ask]]
    BY <1>0, <2>1, RowFacts DEF RowKinds, Turn
  <2> QED
    BY <2>1, <2>2, <2>3
<1>4. CASE /\ ~Advances(op.ask) /\ next'[op.ask] = next[op.ask]
           /\ \/ pc'[op.ask] = pc[op.ask]
              \/ pc'[op.ask] = "failed"
              \/ pc[op.ask] = "enqueue" /\ pc'[op.ask] = "fallback"
  BY <1>1, <1>4 DEF Ahead, Ended
<1> QED
  BY <1>2, <1>3, <1>4 DEF Moves

(* An ask that has not begun to write has no row.                          *)
LEMMA EarlyRows ==
    ASSUME NEW op \in Rows, RowInv(op), Early(op.ask)
    PROVE  ~Claimed(op) /\ ~HasRow(op.kind, op.ask)
<1>1. \E i \in 2..4 : op.kind = Turn[i]
  BY RowFacts
<1>2. Ahead(op)
  BY <1>1 DEF Ahead, Early
<1> QED
  BY <1>2 DEF RowInv, Early

(* Rows stay as RowInv says when each ask moves as Moves says, only the    *)
(* write an ask finished is newly accepted, and only an accepted write, or *)
(* one an ask executes itself, is newly stored.                            *)
LEMMA RowsStep ==
    ASSUME TypeInv, RowsInv, NEW op \in Rows, Moves(op.ask),
           Claimed(op)' => Claimed(op) \/ (Advances(op.ask) /\ op = NextOp(op.ask)),
           HasRow(op.kind, op.ask)' =>
              \/ HasRow(op.kind, op.ask) \/ Claimed(op)
              \/ pc[op.ask] = "fallback" /\ op.kind = Turn[next[op.ask]]
    PROVE  RowInv(op)'
<1>0. op.ask \in Asks /\ RowInv(op)
  BY RowFacts DEF RowsInv
<1>1. ASSUME Claimed(op)' PROVE op.conv = conv'[op.ask] /\ ~Ahead(op)'
  <2>1. CASE Claimed(op)
    <3>1. op.conv = conv[op.ask] /\ ~Ahead(op) /\ ~Early(op.ask)
      BY <1>0, <2>1, EarlyRows DEF RowInv
    <3>2. conv'[op.ask] = conv[op.ask]
      BY <3>1 DEF Moves, Advances
    <3> QED
      BY <3>1, <3>2, AheadMoves
  <2>2. CASE Advances(op.ask) /\ op = NextOp(op.ask)
    <3>1. op.kind = Turn[next[op.ask]] /\ op.conv = conv[op.ask]
      BY <2>2 DEF NextOp, Op
    <3> QED
      BY <2>2, <3>1, AheadMoves DEF Advances
  <2> QED
    BY <1>1, <2>1, <2>2
<1>2. ASSUME HasRow(op.kind, op.ask)', Ahead(op)'
      PROVE  pc'[op.ask] = "fallback" /\ op.kind = Turn[next'[op.ask]]
  <2>1. Ahead(op)
    BY <1>2, AheadMoves
  <2>2. ~Claimed(op)
    BY <1>0, <2>1 DEF RowInv
  <2>3. pc[op.ask] = "fallback" /\ op.kind = Turn[next[op.ask]]
    BY <1>0, <1>2, <2>1, <2>2 DEF RowInv
  <2> QED
    BY <1>2, <2>3, AheadMoves
<1> QED
  BY <1>1, <1>2 DEF RowInv

-----------------------------------------------------------------------------
(* What a step does to the rows: nothing, ...                              *)
Same(op) ==
    /\ Pending(op)' <=> Pending(op)
    /\ op \in dead' <=> op \in dead
    /\ op \in lost' <=> op \in lost
    /\ HasRow(op.kind, op.ask)' <=> HasRow(op.kind, op.ask)

(* (answering no ask but, perhaps, a)                                      *)
MovesBut(S) ==
    /\ \A a \in Asks : Moves(a)
    /\ \A a \in Asks \ S : pc'[a] = "done" <=> pc[a] = "done"

Static ==
    /\ \A op \in Rows : Same(op)
    /\ MovesBut({}) /\ Once'

Apart(o, op) == o.kind # op.kind \/ o.ask # op.ask

(* ... an ask's own write of a row, queued or executed by the ask, ...     *)
OwnWrite(op) ==
    /\ op \in Rows /\ op = NextOp(op.ask)
    /\ pc[op.ask] \in {"enqueue", "fallback"}
    /\ MovesBut({op.ask}) /\ Once'
    /\ conv'[op.ask] = conv[op.ask]
    /\ pc'[op.ask] = "done" => Advances(op.ask)
    /\ Advances(op.ask) => Claimed(op)' \/ HasRow(op.kind, op.ask)'
    /\ pc[op.ask] = "fallback" => (Pending(op)' <=> Pending(op))
    /\ HasRow(op.kind, op.ask) => HasRow(op.kind, op.ask)'
    /\ HasRow(op.kind, op.ask)' =>
          HasRow(op.kind, op.ask) \/ pc[op.ask] = "fallback"
    /\ \A o \in Rows : Apart(o, op) => Same(o)
    /\ \A o \in Rows : Claimed(o)' => Claimed(o) \/ (Advances(op.ask) /\ o = op)

(* ... the worker's, which keeps it in hand or settles it, ...             *)
WorkerWrite(op) ==
    /\ op \in Rows /\ Pending(op)
    /\ MovesBut({}) /\ Once'
    /\ HasRow(op.kind, op.ask) => HasRow(op.kind, op.ask)'
    /\ Claimed(op)' \/ HasRow(op.kind, op.ask)'
    /\ \A o \in Rows : Apart(o, op) => Same(o)
    /\ \A o \in Rows : Claimed(o)' => Claimed(o)

(* ... or the loss of all that is pending.                                 *)
Losing ==
    /\ \A op \in Rows : /\ op \in lost' <=> op \in lost \/ Pending(op)
                        /\ ~Pending(op)'
                        /\ op \in dead' <=> op \in dead
                        /\ HasRow(op.kind, op.ask)' <=> HasRow(op.kind, op.ask)
    /\ MovesBut({}) /\ Once'

(* Each of them keeps the rows in order.                                   *)
LEMMA EffectRows ==
    ASSUME TypeInv, RowsInv,
           \/ Static \/ Losing
           \/ \E op \in Rows : OwnWrite(op) \/ WorkerWrite(op)
    PROVE  RowsInv'
<1>1. CASE Static
  <2>1. \A op \in Rows : RowInv(op)'
    BY <1>1, RowFacts, RowsStep DEF Static, Same, MovesBut, Claimed
  <2> QED
    BY <1>1, <2>1 DEF Static, RowsInv
<1>2. CASE Losing
  <2>1. \A op \in Rows : RowInv(op)'
    BY <1>2, RowFacts, RowsStep DEF Losing, MovesBut, Claimed
  <2> QED
    BY <1>2, <2>1 DEF Losing, RowsInv
<1>3. ASSUME NEW op \in Rows, OwnWrite(op) PROVE RowsInv'
  <2> SUFFICES ASSUME NEW o \in Rows PROVE RowInv(o)'
    BY <1>3 DEF OwnWrite, RowsInv
  <2>0. /\ Moves(o.ask) /\ op = NextOp(op.ask)
        /\ Claimed(o)' => Claimed(o) \/ (Advances(op.ask) /\ o = op)
        /\ Apart(o, op) => (HasRow(o.kind, o.ask)' <=> HasRow(o.kind, o.ask))
    BY <1>3, RowFacts DEF OwnWrite, MovesBut, Same
  <2>1. Claimed(o)' => Claimed(o) \/ (Advances(o.ask) /\ o = NextOp(o.ask))
    BY <2>0
  <2>2. op.kind = Turn[next[op.ask]]
    BY <2>0 DEF NextOp, Op
  <2>3. ASSUME HasRow(o.kind, o.ask)'
        PROVE  \/ HasRow(o.kind, o.ask)
               \/ pc[o.ask] = "fallback" /\ o.kind = Turn[next[o.ask]]
    <3>1. CASE Apart(o, op)
      BY <2>0, <2>3, <3>1
    <3>2. CASE ~Apart(o, op)
      <4>1. o.kind = op.kind /\ o.ask = op.ask
        BY <3>2 DEF Apart
      <4>2. HasRow(op.kind, op.ask)' => HasRow(op.kind, op.ask) \/ pc[op.ask] = "fallback"
        BY <1>3 DEF OwnWrite
      <4> QED
        BY <2>2, <2>3, <4>1, <4>2
    <3> QED
      BY <3>1, <3>2
  <2> QED
    BY <2>0, <2>1, <2>3, RowsStep
<1>4. ASSUME NEW op \in Rows, WorkerWrite(op) PROVE RowsInv'
  <2> SUFFICES ASSUME NEW o \in Rows PROVE RowInv(o)'
    BY <1>4 DEF WorkerWrite, RowsInv
  <2>0. /\ Moves(o.ask) /\ Claimed(op)
        /\ Claimed(o)' => Claimed(o)
        /\ Apart(o, op) => (HasRow(o.kind, o.ask)' <=> HasRow(o.kind, o.ask))
    BY <1>4, RowFacts DEF WorkerWrite, MovesBut, Same, Claimed
  <2>1. CASE Apart(o, op)
    BY <2>0, <2>1, RowsStep
  <2>2. CASE ~Apart(o, op)
    <3>1. o.kind = op.kind /\ o.ask = op.ask
      BY <2>2 DEF Apart
    <3>2. ~Ahead(op)
      BY <2>0 DEF RowsInv, RowInv
    <3>3. ~Ahead(o)
      BY <3>1, <3>2 DEF Ahead
    <3>4. ~Ahead(o)'
      BY <2>0, <3>3, AheadMoves
    <3>5. Claimed(o)' => o.conv = conv'[o.ask]
      <4>1. Claimed(o) => o.conv = conv[o.ask] /\ ~Early(o.ask)
        BY EarlyRows DEF RowsInv, RowInv
      <4>2. ~Early(o.ask) => conv'[o.ask] = conv[o.ask]
        BY <2>0 DEF Moves, Advances
      <4> QED
        BY <2>0, <4>1, <4>2
    <3> QED
      BY <3>4, <3>5 DEF RowInv
  <2> QED
    BY <2>1, <2>2
<1> QED
  BY <1>1, <1>2, <1>3, <1>4

-----------------------------------------------------------------------------
(* Which effect each action has.                                           *)

(* Rows are as they were when tables, queue, hand, dead letters and losses *)
(* are.                                                                    *)
LEMMA SameRows ==
    ASSUME UNCHANGED <<store, queue, hand, dead, lost>>
    PROVE  (\A op : Same(op)) /\ (Once => Once')
<1>1. \A op : Same(op)
  BY SameStoreRow DEF Same, Pending, Queued, InHand
<1>2. Once => Once'
  BY DEF Once
<1> QED
  BY <1>1, <1>2

(* A step of ask a, or of a call that reads, which leaves the rows alone.  *)
LEMMA StaticStep ==
    ASSUME RowsInv, UNCHANGED <<store, queue, hand, dead, lost>>, MovesBut({})
    PROVE  Static
  BY SameRows DEF Static, RowsInv

(* A step that moves no ask but a.                                         *)
LEMMA MovesOne ==
    ASSUME NEW t, NEW S,
           \A b \in Asks \ {t} : pc'[b] = pc[b] /\ conv'[b] = conv[b] /\ next'[b] = next[b],
           t \in Asks => Moves(t),
           t \in Asks \ S => (pc'[t] = "done" <=> pc[t] = "done")
    PROVE  MovesBut(S)
  BY DEF MovesBut, Moves

(* A step of an ask that has not begun to write.                           *)
LEMMA EarlyStatic ==
    ASSUME TypeInv, TypeInv', RowsInv, NEW a \in Asks,
           StartAsk(a) \/ LatestReply(a) \/ HistoryReply(a)
           \/ VerifyConversation(a) \/ NameConversation(a)
    PROVE  Static
<1> USE DEF TypeInv
<1>0. a \in Tasks /\ a \in Asks
  BY DEF Tasks
<1>1. /\ UNCHANGED <<store, queue, hand, dead, lost, next>>
      /\ \A b \in Asks \ {a} : conv'[b] = conv[b]
      /\ pc[a] \in {"new", "latest", "history", "answer"}
  <2>1. CASE StartAsk(a)
    BY <2>1 DEF StartAsk, memory, TypeOK
  <2>2. CASE LatestReply(a)
    BY <2>2 DEF LatestReply, memory, history, TypeOK
  <2>3. CASE HistoryReply(a) \/ VerifyConversation(a) \/ NameConversation(a)
    BY <2>3 DEF HistoryReply, VerifyConversation, NameConversation, memory,
                history, TypeOK
  <2> QED
    BY <2>1, <2>2, <2>3
<1>2. /\ pc'[a] \in {"wait_latest", "latest", "wait_history", "history", "answer",
                     "direct", "enqueue"}
      /\ \A u \in Tasks \ {a} : pc'[u] = pc[u]
  <2>1. CASE StartAsk(a)
    <3>1. PICK w \in {"wait_latest", "wait_history"} : Drain(a, w)
      BY <2>1 DEF StartAsk
    <3> QED
      BY <1>0, <3>1, DrainType, JoinFacts
  <2>2. CASE LatestReply(a)
    <3>1. Goto(a, "answer") \/ Drain(a, "wait_history")
      BY <2>2 DEF LatestReply
    <3> QED
      BY <1>0, <3>1, DrainType, GotoType, JoinFacts, PlaceFacts
  <2>3. CASE HistoryReply(a) \/ VerifyConversation(a) \/ NameConversation(a)
    <3>1. Goto(a, "answer") \/ Goto(a, "direct") \/ Goto(a, "enqueue")
      BY <2>3 DEF HistoryReply, VerifyConversation, NameConversation
    <3> QED
      BY <1>0, <3>1, GotoType, PlaceFacts
  <2> QED
    BY <2>1, <2>2, <2>3
<1>3. next[a] = 1
  BY <1>1 DEF TaskInv, AskInv
<1>4. Moves(a) /\ (pc'[a] = "done" <=> pc[a] = "done")
  BY <1>1, <1>2, <1>3 DEF Moves, Early, Ended
<1>5. \A b \in Asks \ {a} : pc'[b] = pc[b] /\ conv'[b] = conv[b] /\ next'[b] = next[b]
  BY <1>1, <1>2 DEF Tasks
<1>6. MovesBut({})
  BY <1>4, <1>5, MovesOne
<1> QED
  BY <1>1, <1>6, StaticStep

(* A write that meets a full queue is not accepted.                        *)
LEMMA OverflowStatic ==
    ASSUME TypeInv, RowsInv, NEW a \in Asks, Overflow(a)
    PROVE  Static
<1> USE DEF TypeInv
<1>0. a \in Tasks
  BY DEF Tasks
<1>1. /\ UNCHANGED <<store, queue, hand, dead, lost, next, conv>>
      /\ pc[a] = "enqueue" /\ pc'[a] = "fallback"
      /\ \A u \in Tasks \ {a} : pc'[u] = pc[u]
  BY <1>0, GotoType, PlaceFacts DEF Overflow
<1>2. Moves(a)
  BY <1>1 DEF Moves
<1>3. \A b \in Asks \ {a} : pc'[b] = pc[b] /\ conv'[b] = conv[b] /\ next'[b] = next[b]
  BY <1>1 DEF Tasks
<1>4. MovesBut({})
  BY <1>1, <1>2, <1>3, MovesOne
<1> QED
  BY <1>1, <1>4, StaticStep

(* A reading call leaves the asks alone.                                   *)
LEMMA ReaderStatic ==
    ASSUME TypeInv, RowsInv, NEW r \in Readers, ReaderStep(r)
    PROVE  Static
<1> USE DEF TypeInv
<1>0. r \in Tasks /\ r \notin Asks
  BY NamesAssumption DEF Tasks
<1>1. /\ UNCHANGED <<store, queue, hand, dead, lost, next, conv>>
      /\ \A u \in Tasks \ {r} : pc'[u] = pc[u]
  <2>1. CASE StartReader(r)
    <3>1. PICK w \in {"wait_find", "wait_read"} : Drain(r, w)
      BY <2>1 DEF StartReader
    <3> QED
      BY <1>0, <2>1, <3>1, DrainType, JoinFacts DEF StartReader, memory
  <2>2. CASE ReadReply(r)
    <3>1. PICK l \in {"done", "failed"} : Goto(r, l)
      BY <2>2 DEF ReadReply
    <3> QED
      BY <1>0, <2>2, <3>1, GotoType, PlaceFacts DEF ReadReply, memory, history
  <2>3. CASE FindReply(r)
    <3>1. Drain(r, "wait_read") \/ Goto(r, "done") \/ Goto(r, "failed")
      BY <2>3 DEF FindReply
    <3> QED
      BY <1>0, <2>3, <3>1, DrainType, GotoType, JoinFacts, PlaceFacts
         DEF FindReply, memory, history
  <2> QED
    BY <2>1, <2>2, <2>3 DEF ReaderStep
<1>2. \A b \in Asks \ {r} : pc'[b] = pc[b] /\ conv'[b] = conv[b] /\ next'[b] = next[b]
  BY <1>1 DEF Tasks
<1>3. MovesBut({})
  BY <1>0, <1>2, MovesOne
<1> QED
  BY <1>1, <1>3, StaticStep

(* The write an ask is about to make, as a row.                            *)
LEMMA OwnRow ==
    ASSUME TypeInv, RowsInv, NEW a \in Asks, pc[a] \in {"enqueue", "fallback"},
           NEW op \in Rows, op = NextOp(a)
    PROVE  /\ op.ask = a /\ op.kind = Turn[next[a]] /\ op.conv = conv[a]
           /\ Ahead(op) /\ ~Claimed(op)
           /\ HasRow(op.kind, op.ask) => pc[a] = "fallback"
<1>1. op.ask = a /\ op.kind = Turn[next[a]] /\ op.conv = conv[a]
  BY DEF NextOp, Op
<1>2. next[a] \in 1..4 /\ next[a] >= next[a]
  BY DEF TypeInv, TypeOK
<1>3. Ahead(op)
  BY <1>1, <1>2 DEF Ahead, Ended
<1>4. RowInv(op)
  BY DEF RowsInv
<1> QED
  BY <1>1, <1>3, <1>4 DEF RowInv

(* A row joins the queue.                                                  *)
LEMMA EnqueueEffect ==
    ASSUME IInv, RowsInv, NEW a \in Asks, Enqueue(a)
    PROVE  Static \/ \E op \in Rows : OwnWrite(op)
<1> USE DEF IInv, TypeInv
<1>1. /\ a \in Tasks /\ pc[a] = "enqueue" /\ conv[a] \in Asks /\ Advances(a)
      /\ Proceed(a) /\ queue' = Append(queue, NextOp(a))
      /\ UNCHANGED <<store, hand, known, conv, job, dead, lost>>
  BY DEF Tasks, Enqueue, TaskInv, AskInv, Advances, history
<1>2. /\ NextOp(a) \in Ops /\ NextOp(a) # None
      /\ queue \in Seq(Ops \cup {None}) /\ Len(queue) \in Nat
      /\ Range(queue') = Range(queue) \cup {NextOp(a)}
  <2>1. NextOp(a) \in Ops /\ NextOp(a) # None
    BY <1>1, NextOpType, NamesAssumption
  <2>2. queue \in Seq(Ops \cup {None}) /\ Len(queue) \in Nat
    BY DEF TypeOK
  <2> QED
    BY <1>1, <2>1, <2>2, RangeAppend
<1>3. \A op : Pending(op)' <=> Pending(op) \/ op = NextOp(a)
  BY <1>1, <1>2 DEF Pending, Queued, InHand
<1>4. \A b \in Asks \ {a} : pc'[b] = pc[b] /\ conv'[b] = conv[b] /\ next'[b] = next[b]
  BY <1>1, ProceedType DEF Tasks
<1>5. NextOp(a) \in Rows => ~Claimed(NextOp(a)) /\ ~HasRow(NextOp(a).kind, a)
  BY <1>1, OwnRow
<1>6. Once'
  <2>1. /\ Len(queue') = Len(queue) + 1
        /\ queue'[Len(queue) + 1] = NextOp(a)
        /\ \A i \in 1..Len(queue) : queue'[i] = queue[i] /\ queue[i] \in Range(queue)
    <3>1. DOMAIN queue = 1..Len(queue)
      BY <1>2
    <3> QED
      BY <1>1, <1>2, <3>1 DEF Range
  <2>2. NextOp(a) \in Rows => NextOp(a) \notin Range(queue)
    BY <1>2, <1>5 DEF Claimed, Pending, Queued
  <2>3. ASSUME NEW i \in 1..Len(queue'), NEW k \in 1..Len(queue'),
               queue'[i] = queue'[k], queue'[i] \in Rows
        PROVE  i = k
    <3>1. (i \in 1..Len(queue) \/ i = Len(queue) + 1)
          /\ (k \in 1..Len(queue) \/ k = Len(queue) + 1)
      BY <1>2, <2>1
    <3>2. CASE i \in 1..Len(queue) /\ k \in 1..Len(queue)
      BY <2>1, <2>3, <3>2 DEF RowsInv, Once
    <3>3. CASE i = Len(queue) + 1 /\ k \in 1..Len(queue)
      BY <2>1, <2>2, <2>3, <3>3
    <3>4. CASE i \in 1..Len(queue) /\ k = Len(queue) + 1
      BY <2>1, <2>2, <2>3, <3>4
    <3> QED
      BY <3>1, <3>2, <3>3, <3>4
  <2>4. hand # None => (hand.op \in Rows => hand.op \notin Range(queue'))
    <3>1. hand # None => (hand.op \in Rows => hand.op # NextOp(a))
      BY <1>5 DEF Claimed, Pending, InHand
    <3> QED
      BY <1>2, <3>1 DEF RowsInv, Once
  <2> QED
    BY <1>1, <2>3, <2>4 DEF Once
<1>7. MovesBut({a}) /\ (next[a] # 4 => MovesBut({}))
  <2>1. Moves(a)
    BY <1>1 DEF Moves
  <2>2. next[a] # 4 => (pc'[a] = "done" <=> pc[a] = "done")
    BY <1>1, ProceedType
  <2> QED
    BY <1>4, <2>1, <2>2, MovesOne
<1>8. \A k, b : HasRow(k, b)' <=> HasRow(k, b)
  BY <1>1, SameStoreRow
<1>9. CASE NextOp(a) \in Rows
  <2>1. PICK op \in Rows : op = NextOp(a)
    BY <1>9
  <2>2. op.ask = a
    BY <2>1 DEF NextOp, Op
  <2>3. \A o \in Rows : Apart(o, op) => Same(o)
    BY <1>1, <1>3, <1>8, <2>1 DEF Same, Apart
  <2>4. \A o \in Rows : Claimed(o)' => Claimed(o) \/ o = op
    BY <1>1, <1>3, <2>1 DEF Claimed
  <2>5. Claimed(op)'
    BY <1>3, <2>1 DEF Claimed
  <2>6. OwnWrite(op)
    BY <1>1, <1>6, <1>7, <1>8, <2>1, <2>2, <2>3, <2>4, <2>5 DEF OwnWrite
  <2> QED
    BY <2>6
<1>10. CASE NextOp(a) \notin Rows
  <2>1. next[a] # 4
    <3>1. next[a] = 4 => Turn[next[a]] \in RowKinds
      BY DEF Turn, RowKinds
    <3>2. NextOp(a).kind = Turn[next[a]]
      BY DEF NextOp, Op
    <3> QED
      BY <1>2, <1>10, <3>1, <3>2, RowFacts
  <2>2. \A o \in Rows : Same(o)
    BY <1>1, <1>3, <1>8, <1>10 DEF Same
  <2> QED
    BY <1>6, <1>7, <2>1, <2>2 DEF Static
<1> QED
  BY <1>9, <1>10

(* A statement an ask executes itself in the fallback.                     *)
LEMMA FallbackEffect ==
    ASSUME IInv, RowsInv, NEW a \in Asks, FallbackReply(a)
    PROVE  Static \/ \E op \in Rows : OwnWrite(op)
<1> USE DEF IInv, TypeInv
<1>1. /\ a \in Tasks /\ pc[a] = "fallback" /\ conv[a] \in Asks
      /\ job[a] \in Jobs /\ job[a].op = NextOp(a) /\ NextOp(a) \in Ops
  BY NextOpType DEF Tasks, FallbackReply, TaskInv, AskInv
<1>j. PICK j \in Jobs : j = job[a]
  BY <1>1
<1>2. PICK result \in {"ok", "missing", "error"}, fault \in BOOLEAN :
          /\ Reply(j, result, fault)
          /\ \/ /\ result = "ok" \/ GivesUp(j, result)
                /\ Proceed(a)
             \/ ~GivesUp(j, result) /\ UNCHANGED <<pc, running, next>>
          /\ NoteFailure(j, result)
  BY <1>j DEF FallbackReply, GivesUp
<1>3. UNCHANGED <<queue, hand, conv, lost>>
  BY DEF FallbackReply, memory
<1>4. /\ \A o : Pending(o)' <=> Pending(o)
      /\ Once'
      /\ \A o : o \in dead' => o \in dead \/ (o = NextOp(a) /\ GivesUp(j, result))
      /\ \A o : o \in dead => o \in dead'
      /\ GivesUp(j, result) => NextOp(a) \in dead'
  <2>1. Once'
    BY <1>3 DEF RowsInv, Once
  <2>2. \A o : Pending(o)' <=> Pending(o)
    BY <1>3 DEF Pending, Queued, InHand
  <2> QED
    BY <1>1, <1>2, <1>j, <2>1, <2>2 DEF NoteFailure
<1>5. ASSUME NEW k \in RowKinds, NEW b \in Asks
      PROVE  /\ HasRow(k, b) => HasRow(k, b)'
             /\ HasRow(k, b)' => HasRow(k, b) \/ (NextOp(a).kind = k /\ NextOp(a).ask = b)
             /\ result = "ok" /\ NextOp(a).kind = k /\ NextOp(a).ask = b => HasRow(k, b)'
  BY <1>1, <1>2, <1>j, ReplyRow DEF TypeOK
<1>6. /\ Advances(a) \/ UNCHANGED <<pc, running, next>>
      /\ \A u \in Tasks \ {a} : pc'[u] = pc[u]
      /\ \A b \in Asks \ {a} : pc'[b] = pc[b] /\ conv'[b] = conv[b] /\ next'[b] = next[b]
  BY <1>1, <1>2, <1>3, ProceedType DEF Advances, Tasks
<1>7. MovesBut({a}) /\ (next[a] # 4 => MovesBut({}))
  <2>1. Moves(a)
    BY <1>3, <1>6 DEF Moves
  <2>2. next[a] # 4 => (pc'[a] = "done" <=> pc[a] = "done")
    BY <1>1, <1>6, ProceedType DEF Advances
  <2> QED
    BY <1>6, <2>1, <2>2, MovesOne
<1>8. Advances(a) => result = "ok" \/ GivesUp(j, result)
  <2>1. Proceed(a) => ~UNCHANGED <<pc, running, next>>
    <3>1. Proceed(a) => pc'[a] # "fallback"
      BY ProceedType
    <3> QED
      BY <1>1, <3>1
  <2> QED
    BY <1>2, <2>1 DEF Advances
<1>11. GivesUp(j, result) => Advances(a)
  BY <1>1, <1>2, <1>3 DEF Advances
<1>9. CASE NextOp(a) \in Rows
  <2>1. PICK op \in Rows : op = NextOp(a)
    BY <1>9
  <2>2. op.ask = a /\ op.kind \in RowKinds /\ ~Claimed(op)
    BY <1>1, <2>1, OwnRow, RowFacts
  <2>3. ASSUME NEW o \in Rows, Apart(o, op) PROVE Same(o)
    <3>1. o # op /\ o.kind \in RowKinds /\ o.ask \in Asks
      BY <2>3, RowFacts DEF Apart
    <3>2. HasRow(o.kind, o.ask)' <=> HasRow(o.kind, o.ask)
      BY <1>5, <2>1, <2>3, <3>1 DEF Apart
    <3> QED
      BY <1>3, <1>4, <2>1, <3>1, <3>2 DEF Same
  <2>4. \A o \in Rows : Claimed(o)' => Claimed(o) \/ (Advances(a) /\ o = op)
    BY <1>3, <1>4, <1>11, <2>1 DEF Claimed
  <2>5. Advances(a) => Claimed(op)' \/ HasRow(op.kind, op.ask)'
    <3>1. result = "ok" => HasRow(op.kind, op.ask)'
      BY <1>5, <2>1, <2>2
    <3>2. GivesUp(j, result) => op \in dead'
      BY <1>4, <2>1
    <3> QED
      BY <1>8, <3>1, <3>2 DEF Claimed
  <2>6. /\ HasRow(op.kind, op.ask) => HasRow(op.kind, op.ask)'
        /\ pc'[a] = "done" => Advances(a)
    BY <1>1, <1>5, <1>6, <2>2
  <2>7. OwnWrite(op)
    BY <1>1, <1>3, <1>4, <1>7, <2>1, <2>2, <2>3, <2>4, <2>5, <2>6 DEF OwnWrite
  <2> QED
    BY <2>7
<1>10. CASE NextOp(a) \notin Rows
  <2>0. NextOp(a).kind \notin RowKinds
    BY <1>1, <1>10, RowFacts
  <2>1. next[a] # 4
    <3>1. next[a] = 4 => Turn[next[a]] \in RowKinds
      BY DEF Turn, RowKinds
    <3>2. NextOp(a).kind = Turn[next[a]]
      BY DEF NextOp, Op
    <3> QED
      BY <2>0, <3>1, <3>2
  <2>2. ASSUME NEW o \in Rows PROVE Same(o)
    <3>1. o # NextOp(a) /\ o.kind \in RowKinds /\ o.ask \in Asks
      BY <1>10, RowFacts
    <3>2. HasRow(o.kind, o.ask)' <=> HasRow(o.kind, o.ask)
      BY <1>5, <2>0, <3>1
    <3> QED
      BY <1>3, <1>4, <3>1, <3>2 DEF Same
  <2> QED
    BY <1>4, <1>7, <2>1, <2>2 DEF Static
<1> QED
  BY <1>9, <1>10

(* The unqueued create concerns no row.                                    *)
LEMMA DirectStatic ==
    ASSUME IInv, RowsInv, NEW a \in Asks, DirectReply(a)
    PROVE  Static
<1> USE DEF IInv, TypeInv
<1>1. /\ a \in Tasks /\ pc[a] = "direct" /\ conv[a] \in Asks /\ next[a] = 1
      /\ job[a] \in Jobs /\ job[a].op = NextOp(a) /\ NextOp(a) \in Ops
  BY NextOpType DEF Tasks, DirectReply, TaskInv, AskInv
<1>j. PICK j \in Jobs : j = job[a]
  BY <1>1
<1>2. PICK result \in {"ok", "missing", "error"}, fault \in BOOLEAN :
          /\ Reply(j, result, fault)
          /\ \/ result = "ok" /\ Proceed(a)
             \/ UNCHANGED <<pc, next>>
             \/ Goto(a, "failed") /\ UNCHANGED next
  BY <1>j DEF DirectReply
<1>3. UNCHANGED <<queue, hand, conv, dead, lost>>
  BY DEF DirectReply
<1>4. NextOp(a).kind = "create"
  BY <1>1 DEF NextOp, Op, Turn
<1>5. ASSUME NEW o \in Rows PROVE Same(o)
  <2>1. o.kind \in RowKinds /\ o.ask \in Asks /\ o.kind # "create"
    BY RowFacts DEF RowKinds
  <2>2. HasRow(o.kind, o.ask)' <=> HasRow(o.kind, o.ask)
    BY <1>1, <1>2, <1>j, <1>4, <2>1, ReplyRow DEF TypeOK
  <2> QED
    BY <1>3, <2>2 DEF Same, Pending, Queued, InHand
<1>6. /\ Moves(a) /\ (pc'[a] = "done" <=> pc[a] = "done")
      /\ \A b \in Asks \ {a} : pc'[b] = pc[b] /\ conv'[b] = conv[b] /\ next'[b] = next[b]
  <2>1. CASE Proceed(a)
    BY <1>1, <1>3, <2>1, ProceedType DEF Moves, Advances, Tasks
  <2>2. CASE UNCHANGED <<pc, next>>
    BY <1>3, <2>2 DEF Moves
  <2>3. CASE Goto(a, "failed") /\ UNCHANGED next
    BY <1>1, <1>3, <2>3, GotoType, PlaceFacts DEF Moves, Tasks
  <2> QED
    BY <1>2, <2>1, <2>2, <2>3
<1>7. MovesBut({})
  BY <1>6, MovesOne
<1>8. Once'
  BY <1>3 DEF RowsInv, Once
<1> QED
  BY <1>5, <1>7, <1>8 DEF Static

(* A cancelled handler's statement may still commit.                       *)
LEMMA CancelEffect ==
    ASSUME IInv, RowsInv, NEW t \in Tasks, Cancel(t)
    PROVE  Static \/ \E op \in Rows : OwnWrite(op)
<1> USE DEF IInv, TypeInv
<1>1. /\ pc[t] \notin Ended \cup {"new"} /\ pc'[t] = "failed"
      /\ \A u \in Tasks \ {t} : pc'[u] = pc[u]
      /\ UNCHANGED <<queue, hand, conv, next, dead, lost>>
  BY GotoType, PlaceFacts DEF Cancel, memory, history
<1>2. \A b \in Asks \ {t} : pc'[b] = pc[b] /\ conv'[b] = conv[b] /\ next'[b] = next[b]
  BY <1>1 DEF Tasks
<1>3. MovesBut({})
  BY <1>1, <1>2, MovesOne DEF Moves, Ended
<1>4. CASE UNCHANGED store
  BY <1>1, <1>3, <1>4, StaticStep
<1>5. CASE t \in Asks /\ pc[t] \in {"direct", "fallback"} /\ Insert(job[t].op)
  <2>1. job[t].op = NextOp(t) /\ NextOp(t) \in Ops
    BY <1>5, NextOpType DEF TaskInv, AskInv
  <2>2. PICK op \in Ops : op = NextOp(t)
    BY <2>1
  <2>3. /\ \A o : Pending(o)' <=> Pending(o)
        /\ Once'
    BY <1>1 DEF Pending, Queued, InHand, RowsInv, Once
  <2>4. ASSUME NEW o \in Rows, Apart(o, op) PROVE Same(o)
    <3>1. o.kind \in RowKinds /\ o.ask \in Asks
      BY RowFacts
    <3>2. HasRow(o.kind, o.ask)' <=> HasRow(o.kind, o.ask)
      BY <1>5, <2>1, <2>2, <2>4, <3>1, InsertRow DEF TypeOK, Apart
    <3> QED
      BY <1>1, <2>3, <3>2 DEF Same
  <2>5. op.ask = t /\ op.kind = Turn[next[t]]
    BY <2>2 DEF NextOp, Op
  <2>6. CASE op \in Rows
    <3>1. pc[t] = "fallback"
      <4>1. pc[t] = "direct" => next[t] = 1
        BY <1>5 DEF TaskInv, AskInv
      <4> QED
        BY <1>5, <2>5, <2>6, <4>1 DEF Rows, Turn
    <3>2. op.kind \in RowKinds /\ HasRow(op.kind, op.ask)'
      BY <1>5, <2>1, <2>2, <2>5, <2>6, RowFacts, InsertRow DEF TypeOK
    <3>3. ~Advances(t)
      BY <1>1, ProceedType, <1>5 DEF Advances
    <3>4. \A o \in Rows : Claimed(o)' => Claimed(o)
      BY <1>1, <2>3 DEF Claimed
    <3>5. MovesBut({t})
      BY <1>3 DEF MovesBut
    <3>6. OwnWrite(op)
      BY <1>1, <2>2, <2>3, <2>4, <2>5, <2>6, <3>1, <3>2, <3>3, <3>4, <3>5
         DEF OwnWrite
    <3> QED
      BY <2>6, <3>6
  <2>7. CASE op \notin Rows
    <3>1. \A o \in Rows : Apart(o, op)
      BY <2>7 DEF Rows, Apart
    <3> QED
      BY <1>3, <2>3, <2>4, <3>1 DEF Static
  <2> QED
    BY <2>6, <2>7
<1> QED
  BY <1>4, <1>5 DEF Cancel

(* The head of the queue comes to the worker's hand.                       *)
LEMMA TakeRows ==
    ASSUME TypeOK, Once, queue # <<>>, Head(queue) # None,
           hand' = Job(Head(queue), 1), queue' = Tail(queue)
    PROVE  /\ \A op : Pending(op)' <=> op \in Queued
           /\ Once'
<1>1. /\ hand'.op = Head(queue) /\ hand' # None
      /\ Range(queue) = {Head(queue)} \cup Range(queue')
      /\ queue \in Seq(Ops \cup {None})
  BY TakeType DEF TypeOK
<1>2. \A op : Pending(op)' <=> op \in Queued
  BY <1>1 DEF Pending, Queued, InHand
<1>3. /\ Len(queue) \in Nat \ {0} /\ Len(queue') = Len(queue) - 1
      /\ DOMAIN queue' = 1..Len(queue')
      /\ Head(queue) = queue[1]
      /\ \A i \in 1..Len(queue') : i + 1 \in 1..Len(queue) /\ queue'[i] = queue[i + 1]
  BY <1>1
<1>4. ASSUME NEW i \in 1..Len(queue'), NEW k \in 1..Len(queue'),
             queue'[i] = queue'[k], queue'[i] \in Rows
      PROVE  i = k
  <2>1. i + 1 = k + 1
    BY <1>3, <1>4 DEF Once
  <2> QED
    BY <1>3, <2>1
<1>5. ASSUME hand'.op \in Rows PROVE hand'.op \notin Range(queue')
  <2> SUFFICES ASSUME NEW i \in 1..Len(queue'), queue'[i] = hand'.op PROVE FALSE
    BY <1>3 DEF Range
  <2>1. i + 1 = 1
    BY <1>1, <1>3, <1>5 DEF Once
  <2> QED
    BY <1>3, <2>1
<1> QED
  BY <1>2, <1>4, <1>5 DEF Once

(* The worker takes a row.                                                 *)
LEMMA WorkerGetStatic ==
    ASSUME IInv, RowsInv, WorkerGet
    PROVE  Static
<1> USE DEF IInv, TypeInv
<1>1. /\ hand = None /\ queue # <<>> /\ Head(queue) # None
      /\ hand' = Job(Head(queue), 1) /\ queue' = Tail(queue)
      /\ UNCHANGED <<store, pc, conv, next, dead, lost>>
  BY DEF WorkerGet, tasks, history
<1>2. (\A op : Pending(op)' <=> Pending(op)) /\ Once'
  BY <1>1, TakeRows DEF RowsInv, Pending, InHand
<1>3. MovesBut({})
  BY <1>1 DEF MovesBut, Moves
<1> QED
  BY <1>1, <1>2, <1>3, SameStoreRow DEF Static, Same

(* task_done() moves only handlers that have not begun to write.           *)
LEMMA ReleaseMoves ==
    ASSUME TypeInv, Release, UNCHANGED <<conv, next>>
    PROVE  MovesBut({})
<1> USE DEF TypeInv
<1> SUFFICES ASSUME NEW a \in Asks
             PROVE  Moves(a) /\ (pc'[a] = "done" <=> pc[a] = "done")
  BY DEF MovesBut
<1>0. a \in Tasks
  BY DEF Tasks
<1>1. CASE pc[a] \notin Waits
  BY <1>0, <1>1, ReleaseType DEF Moves
<1>2. CASE pc[a] \in Waits
  <2>1. pc'[a] \in Waits \cup Reads
    BY <1>0, <1>2, ReleaseType
  <2>2. next[a] = 1
    BY <1>2, JoinFacts DEF TaskInv, AskInv
  <2> QED
    BY <1>2, <2>1, <2>2, JoinFacts DEF Moves, Early, Ended
<1> QED
  BY <1>1, <1>2

(* The sentinel is no row.                                                 *)
LEMMA WorkerStopStatic ==
    ASSUME IInv, RowsInv, WorkerStop
    PROVE  Static
<1> USE DEF IInv, TypeInv
<1>1. /\ hand = None /\ queue # <<>> /\ Head(queue) = None
      /\ queue' = Tail(queue) /\ Release
      /\ UNCHANGED <<store, hand, conv, next, dead, lost>>
  BY DEF WorkerStop, history
<1>2. /\ Range(queue) = {None} \cup Range(queue')
      /\ Len(queue') = Len(queue) - 1 /\ Len(queue) \in Nat
      /\ \A i \in 1..Len(queue') : i + 1 \in 1..Len(queue) /\ queue'[i] = queue[i + 1]
  BY <1>1, RangeTail DEF TypeOK
<1>3. \A op : Pending(op)' <=> Pending(op)
  BY <1>1, <1>2 DEF Pending, Queued, InHand
<1>4. Once'
  <2>1. ASSUME NEW i \in 1..Len(queue'), NEW k \in 1..Len(queue'),
               queue'[i] = queue'[k], queue'[i] \in Rows
        PROVE  i = k
    <3>1. i + 1 = k + 1
      BY <1>2, <2>1 DEF RowsInv, Once
    <3> QED
      BY <1>2, <3>1
  <2> QED
    BY <1>1, <2>1 DEF Once
<1> QED
  BY <1>1, <1>3, <1>4, ReleaseMoves, SameStoreRow DEF Static, Same

(* The worker's statement concerns the row in its hand.                    *)
LEMMA WorkerReplyEffect ==
    ASSUME IInv, RowsInv, WorkerReply
    PROVE  Static \/ \E op \in Rows : WorkerWrite(op)
<1> USE DEF IInv, TypeInv
<1>0. hand # None /\ hand \in Jobs
  BY DEF WorkerReply, TypeOK
<1>j. PICK j \in Jobs : j = hand
  BY <1>0
<1>1. PICK result \in {"ok", "missing", "error"}, fault \in BOOLEAN :
          /\ Reply(j, result, fault)
          /\ \/ /\ result = "ok" \/ GivesUp(j, result)
                /\ Settle
             \/ /\ ~GivesUp(j, result)
                /\ \/ result = "missing" /\ hand' = Inserting(j)
                   \/ result = "error" /\ hand' = Retry(j)
                /\ UNCHANGED <<queue, unfinished, pc, service>>
          /\ NoteFailure(j, result)
  BY <1>j DEF WorkerReply, GivesUp
<1>2. UNCHANGED <<conv, next, lost>>
  BY DEF WorkerReply
<1>o. PICK op \in Ops : op = j.op /\ op = hand.op
  BY <1>j DEF Jobs
<1>3. ASSUME NEW k \in RowKinds, NEW b \in Asks
      PROVE  /\ HasRow(k, b) => HasRow(k, b)'
             /\ HasRow(k, b)' => HasRow(k, b) \/ (op.kind = k /\ op.ask = b)
             /\ result = "ok" /\ op.kind = k /\ op.ask = b => HasRow(k, b)'
  <2>1. StoreTypeOK /\ Reply(j, result, fault)
    BY <1>1 DEF TypeOK
  <2>2. /\ HasRow(k, b) => HasRow(k, b)'
        /\ HasRow(k, b)' => HasRow(k, b) \/ (j.op.kind = k /\ j.op.ask = b)
        /\ result = "ok" /\ j.op.kind = k /\ j.op.ask = b => HasRow(k, b)'
    BY <2>1, ReplyRow
  <2> QED
    BY <1>o, <2>2
<1>4. /\ \A o : o \in dead' => o \in dead \/ (o = op /\ GivesUp(j, result))
      /\ \A o : o \in dead => o \in dead'
      /\ GivesUp(j, result) => op \in dead'
  BY <1>1, <1>o DEF NoteFailure
<1>5. /\ \A o \in Rows : o # op => (Pending(o)' <=> Pending(o))
      /\ \A o \in Rows : Pending(o)' => Pending(o)
      /\ Once' /\ MovesBut({})
      /\ Pending(op)' \/ result = "ok" \/ GivesUp(j, result)
  <2>1. CASE (result = "ok" \/ GivesUp(j, result)) /\ Settle
    <3>1. MovesBut({})
      BY <1>2, <2>1, ReleaseMoves DEF Settle
    <3>2. \A o \in Rows : Pending(o) <=> o = op \/ o \in Queued
      BY <1>0, <1>o DEF Pending, InHand
    <3>3. \A o : Pending(o)' <=> o \in Queued
      <4>1. CASE queue # <<>> /\ Head(queue) # None
        BY <2>1, <4>1, TakeRows DEF Settle, RowsInv
      <4>2. CASE ~(queue # <<>> /\ Head(queue) # None)
        BY <2>1, <4>2 DEF Settle, Pending, Queued, InHand
      <4> QED
        BY <4>1, <4>2
    <3>4. Once'
      <4>1. CASE queue # <<>> /\ Head(queue) # None
        BY <2>1, <4>1, TakeRows DEF Settle, RowsInv
      <4>2. CASE ~(queue # <<>> /\ Head(queue) # None)
        BY <2>1, <4>2 DEF Settle, RowsInv, Once
      <4> QED
        BY <4>1, <4>2
    <3> QED
      BY <2>1, <3>1, <3>2, <3>3, <3>4
  <2>2. CASE /\ ~GivesUp(j, result)
             /\ \/ result = "missing" /\ hand' = Inserting(j)
                \/ result = "error" /\ hand' = Retry(j)
             /\ UNCHANGED <<queue, unfinished, pc, service>>
    <3>1. hand' \in Jobs /\ hand'.op = op /\ hand' # None
      BY <1>o, <2>2, JobSteps, NamesAssumption
    <3>2. \A o : Pending(o)' <=> Pending(o)
      BY <1>0, <1>o, <2>2, <3>1 DEF Pending, Queued, InHand
    <3>3. Once'
      BY <1>0, <1>o, <2>2, <3>1 DEF RowsInv, Once
    <3>4. MovesBut({})
      BY <1>2, <2>2 DEF MovesBut, Moves
    <3>5. Pending(op)
      BY <1>0, <1>o DEF Pending, InHand
    <3> QED
      BY <3>2, <3>3, <3>4, <3>5
  <2> QED
    BY <1>1, <2>1, <2>2
<1>6. ASSUME NEW o \in Rows, Apart(o, op) PROVE Same(o)
  <2>1. o # op /\ o.kind \in RowKinds /\ o.ask \in Asks
    BY <1>6, RowFacts DEF Apart
  <2>2. HasRow(o.kind, o.ask)' <=> HasRow(o.kind, o.ask)
    BY <1>3, <1>6, <2>1 DEF Apart
  <2> QED
    BY <1>2, <1>4, <1>5, <2>1, <2>2 DEF Same
<1>7. CASE op \in Rows
  <2>1. Pending(op)
    BY <1>0, <1>o DEF Pending, InHand
  <2>2. op.kind \in RowKinds /\ op.ask \in Asks
    BY <1>7, RowFacts
  <2>3. Claimed(op)' \/ HasRow(op.kind, op.ask)'
    BY <1>3, <1>4, <1>5, <2>2 DEF Claimed
  <2>4. \A o \in Rows : Claimed(o)' => Claimed(o)
    BY <1>2, <1>4, <1>5, <2>1 DEF Claimed
  <2>5. WorkerWrite(op)
    BY <1>3, <1>5, <1>6, <1>7, <2>1, <2>2, <2>3, <2>4 DEF WorkerWrite
  <2> QED
    BY <1>7, <2>5
<1>8. CASE op \notin Rows
  <2>1. \A o \in Rows : Apart(o, op)
    BY <1>8 DEF Rows, Apart
  <2> QED
    BY <1>5, <1>6, <2>1 DEF Static
<1> QED
  BY <1>7, <1>8

(* A step of the process over rows that stay where they are.               *)
LEMMA ProcessStatic ==
    ASSUME IInv, RowsInv, StopServer \/ CloseStep \/ Restart \/ UNCHANGED vars
    PROVE  Static
<1> USE DEF IInv, TypeInv
<1>1. UNCHANGED <<store, pc, conv, next, dead, lost>>
  BY DEF StopServer, CloseStep, Close, PutSentinel, Closed, Restart, vars, tasks,
         history
<1>2. MovesBut({})
  BY <1>1 DEF MovesBut, Moves
<1>3. CASE UNCHANGED <<queue, hand>>
  BY <1>1, <1>2, <1>3, StaticStep
<1>4. CASE PutSentinel
  <2>1. queue' = Append(queue, None) /\ UNCHANGED hand
        /\ queue \in Seq(Ops \cup {None})
    BY <1>4 DEF PutSentinel, TypeOK
  <2>2. Range(queue') = Range(queue) \cup {None}
    BY <2>1, RangeAppend
  <2>3. \A op : Pending(op)' <=> Pending(op)
    BY <2>1, <2>2 DEF Pending, Queued, InHand
  <2>4. None \notin Rows
    BY NamesAssumption DEF Rows
  <2>5. \A i \in 1..Len(queue') :
           queue'[i] \in Rows => i \in 1..Len(queue) /\ queue'[i] = queue[i]
    BY <2>1, <2>4
  <2>6. Once'
    BY <2>1, <2>2, <2>4, <2>5 DEF RowsInv, Once
  <2> QED
    BY <1>1, <1>2, <2>3, <2>6, SameStoreRow DEF Static, Same
<1>5. CASE Restart
  <2>1. queue = <<>> /\ hand = None /\ queue' = <<>> /\ hand' = None
    BY <1>5 DEF Restart, Forget, ShutInv
  <2> QED
    BY <1>1, <1>2, <2>1, StaticStep
<1> QED
  BY <1>3, <1>4, <1>5 DEF StopServer, CloseStep, Close, Closed, vars, memory

(* A crash loses what is pending.                                          *)
LEMMA CrashLosing ==
    ASSUME IInv, RowsInv, Crash
    PROVE  Losing
<1> USE DEF IInv, TypeInv
<1>1. /\ pc' = [t \in Tasks |-> IF pc[t] \in Ended \cup {"new"} THEN pc[t] ELSE "failed"]
      /\ lost' = lost \cup Queued \cup (IF hand = None THEN {} ELSE {hand.op})
      /\ queue' = <<>> /\ hand' = None
      /\ UNCHANGED <<store, conv, next, dead>>
  BY DEF Crash, Forget
<1>2. MovesBut({})
  <2> SUFFICES ASSUME NEW a \in Asks
               PROVE  Moves(a) /\ (pc'[a] = "done" <=> pc[a] = "done")
    BY DEF MovesBut
  <2>1. pc'[a] = IF pc[a] \in Ended \cup {"new"} THEN pc[a] ELSE "failed"
    BY <1>1 DEF Tasks
  <2> QED
    BY <1>1, <2>1 DEF Moves, Ended
<1>3. \A op : op \in lost' <=> op \in lost \/ Pending(op)
  BY <1>1 DEF Pending, InHand
<1>4. \A op : ~Pending(op)'
  BY <1>1, NothingPending DEF Pending, Queued, InHand, Range
<1>5. Once'
  BY <1>1 DEF Once
<1> QED
  BY <1>1, <1>2, <1>3, <1>4, <1>5, SameStoreRow DEF Losing

(* Every step has one of the four effects on the rows.                     *)
LEMMA StepEffect ==
    ASSUME IInv, RowsInv, [Next]_vars
    PROVE  \/ Static \/ Losing
           \/ \E op \in Rows : OwnWrite(op) \/ WorkerWrite(op)
<1>0. TypeInv /\ TypeInv'
  BY NextInv DEF IInv
<1>1. ASSUME NEW a \in Asks, AskStep(a)
      PROVE  Static \/ \E op \in Rows : OwnWrite(op)
  BY <1>0, <1>1, EarlyStatic, EnqueueEffect, OverflowStatic, FallbackEffect,
     DirectStatic DEF AskStep
<1>2. ASSUME NEW r \in Readers, ReaderStep(r) PROVE Static
  BY <1>0, <1>2, ReaderStatic
<1>3. ASSUME WorkerStep PROVE Static \/ \E op \in Rows : WorkerWrite(op)
  BY <1>3, WorkerGetStatic, WorkerStopStatic, WorkerReplyEffect DEF WorkerStep
<1>4. ASSUME NEW t \in Tasks, Cancel(t)
      PROVE  Static \/ \E op \in Rows : OwnWrite(op)
  BY <1>4, CancelEffect
<1>5. ASSUME StopServer \/ CloseStep \/ Restart \/ UNCHANGED vars PROVE Static
  BY <1>5, ProcessStatic
<1>6. ASSUME Crash PROVE Losing
  BY <1>6, CrashLosing
<1> QED
  BY <1>1, <1>2, <1>3, <1>4, <1>5, <1>6 DEF Next

(* No row is written before its turn, twice, or under another              *)
(* conversation.                                                           *)
LEMMA RowsInvariant == Spec => [](IInv /\ RowsInv)
<1>1. Init => RowsInv
  <2> SUFFICES ASSUME Init PROVE RowsInv
    OBVIOUS
  <2>1. ASSUME NEW op \in Rows PROVE ~Claimed(op) /\ ~HasRow(op.kind, op.ask)
    <3>1. op.ask \in Asks
      BY RowFacts
    <3> QED
      BY <3>1 DEF Init, StoreInit, Claimed, Pending, Queued, InHand, HasRow,
                  HasMessage, Range
  <2>2. Once
    BY DEF Init, Once
  <2> QED
    BY <2>1, <2>2 DEF RowsInv, RowInv
<1>2. IInv /\ RowsInv /\ [Next]_vars => (IInv /\ RowsInv)'
  BY NextInv, StepEffect, EffectRows DEF IInv
<1> QED
  BY <1>1, <1>2, InitInv, PTL DEF Spec

-----------------------------------------------------------------------------
(* The refinement.                                                         *)

(* The fates of the row of kind k of ask a.                                *)
TurnRow(k, a) == Op(k, a, conv[a])
RowPending(k, a) == Pending(TurnRow(k, a))
RowKept(k, a) == HasRow(k, a) /\ ~RowPending(k, a)
RowGone(k, a) ==
    /\ TurnRow(k, a) \in dead \/ TurnRow(k, a) \in lost
    /\ ~HasRow(k, a) /\ ~RowPending(k, a)

Answered == {a \in Asks : pc[a] = "done"}

(* A set of rows is known by its members.                                  *)
LEMMA RowPairs ==
    ASSUME NEW r \in RowKinds \X Asks
    PROVE  r[1] \in RowKinds /\ r[2] \in Asks /\ r = <<r[1], r[2]>>
  OBVIOUS

(* The abstract sets, by the fates of their rows.                          *)
ViewsAgree ==
    /\ PendingRows = {r \in RowKinds \X Asks : RowPending(r[1], r[2])}
    /\ KeptRows = {r \in RowKinds \X Asks : RowKept(r[1], r[2])}
    /\ GoneRows = {r \in RowKinds \X Asks : RowGone(r[1], r[2])}

LEMMA Views == ViewsAgree
<1>1. \A r \in RowKinds \X Asks :
        /\ Op(r[1], r[2], conv[r[2]]) = TurnRow(r[1], r[2])
        /\ Stored(Op(r[1], r[2], conv[r[2]])) <=> HasRow(r[1], r[2])
  BY RowPairs, RowStored DEF TurnRow
<1>2. PendingRows = {r \in RowKinds \X Asks : RowPending(r[1], r[2])}
  BY DEF PendingRows, RowsWhere, RowPending, TurnRow
<1>3. KeptRows = {r \in RowKinds \X Asks : RowKept(r[1], r[2])}
  BY <1>1 DEF KeptRows, RowsWhere, RowKept, RowPending, TurnRow
<1>4. GoneRows = {r \in RowKinds \X Asks : RowGone(r[1], r[2])}
  BY <1>1 DEF GoneRows, RowsWhere, RowGone, RowPending, TurnRow
<1> QED
  BY <1>2, <1>3, <1>4 DEF ViewsAgree

LEMMA ViewsNext == ViewsAgree'
  BY Views, PTL

(* A row keeps its fate.                                                   *)
SameFate(k, a) ==
    /\ RowPending(k, a)' <=> RowPending(k, a)
    /\ RowKept(k, a)' <=> RowKept(k, a)
    /\ RowGone(k, a)' <=> RowGone(k, a)

(* An ask that has not begun to write, or has no conversation, has no row  *)
(* on its way.                                                             *)
FatesInv ==
    TypeInv /\ RowsInv => \A a \in Asks, k \in RowKinds :
        /\ Early(a) => ~Claimed(TurnRow(k, a)) /\ ~HasRow(k, a)
        /\ conv[a] \notin Asks => ~Claimed(TurnRow(k, a))

LEMMA Fates == FatesInv
<1> SUFFICES ASSUME TypeInv, RowsInv, NEW a \in Asks, NEW k \in RowKinds
             PROVE  /\ Early(a) => ~Claimed(TurnRow(k, a)) /\ ~HasRow(k, a)
                    /\ conv[a] \notin Asks => ~Claimed(TurnRow(k, a))
  BY DEF FatesInv
<1>1. k \in Kinds /\ k # "create"
  BY TurnFacts DEF RowKinds
<1>2. \A c \in Asks : Op(k, a, c) \in Rows /\ Op(k, a, c).kind = k
                     /\ Op(k, a, c).ask = a
  BY <1>1, OpType DEF Rows
<1>3. conv[a] \notin Asks => ~Claimed(TurnRow(k, a))
  <2>1. TurnRow(k, a) \in Ops => conv[a] \in Asks
    <3>1. TurnRow(k, a).conv = conv[a]
      BY DEF TurnRow, Op
    <3> QED
      BY <3>1 DEF Ops
  <2> QED
    BY <2>1, ClaimedOps
<1>4. ASSUME Early(a) PROVE ~Claimed(TurnRow(k, a)) /\ ~HasRow(k, a)
  <2>1. \A c \in Asks : ~Claimed(Op(k, a, c)) /\ ~HasRow(k, a)
    BY <1>2, <1>4, EarlyRows DEF RowsInv
  <2>2. ~HasRow(k, a)
    BY <2>1
  <2> QED
    BY <1>3, <2>1, <2>2 DEF TurnRow
<1> QED
  BY <1>3, <1>4

LEMMA FatesNext == FatesInv'
  BY Fates, PTL

(* A row on which a step has no effect keeps its fate, though its ask may  *)
(* come to another conversation before it writes.                          *)
LEMMA SameKeepsFate ==
    ASSUME TypeInv, TypeInv', RowsInv, RowsInv',
           NEW k \in RowKinds, NEW a \in Asks, Moves(a),
           \A op \in Rows : op.kind = k /\ op.ask = a => Same(op)
    PROVE  SameFate(k, a)
<1>1. k \in Kinds /\ k # "create"
  BY TurnFacts DEF RowKinds
<1>2. \A c \in Asks : Op(k, a, c) \in Rows /\ Op(k, a, c).kind = k
                     /\ Op(k, a, c).ask = a
  BY <1>1, OpType DEF Rows
<1>3. HasRow(k, a)' <=> HasRow(k, a)
  BY <1>2 DEF Same
<1>4. CASE Early(a) /\ Early(a)'
  <2>1. ~Claimed(TurnRow(k, a)) /\ ~HasRow(k, a)
    BY <1>4, Fates DEF FatesInv
  <2>2. ~Claimed(TurnRow(k, a))' /\ ~HasRow(k, a)'
    BY <1>4, FatesNext DEF FatesInv
  <2>3. ~RowPending(k, a) /\ ~RowKept(k, a) /\ ~RowGone(k, a)
    BY <2>1 DEF RowPending, RowKept, RowGone, Claimed
  <2>4. ~RowPending(k, a)' /\ ~RowKept(k, a)' /\ ~RowGone(k, a)'
    BY <2>2 DEF RowPending, RowKept, RowGone, Claimed
  <2> QED
    BY <2>3, <2>4 DEF SameFate
<1>5. CASE conv'[a] = conv[a]
  <2>1. TurnRow(k, a)' = TurnRow(k, a)
    BY <1>5 DEF TurnRow
  <2>2. PICK op : op = TurnRow(k, a)
    OBVIOUS
  <2>3. /\ Pending(op)' <=> Pending(op)
        /\ op \in dead' \/ op \in lost' <=> op \in dead \/ op \in lost
    <3>1. CASE conv[a] \in Asks
      <4>1. op \in Rows /\ op.kind = k /\ op.ask = a
        BY <1>2, <2>2, <3>1 DEF TurnRow
      <4> QED
        BY <4>1 DEF Same
    <3>2. CASE conv[a] \notin Asks
      <4>1. ~Claimed(op)
        BY <2>2, <3>2, Fates DEF FatesInv
      <4>2. ~Claimed(TurnRow(k, a))'
        BY <1>5, <3>2, FatesNext DEF FatesInv
      <4>3. ~Claimed(op)'
        BY <2>1, <2>2, <4>2 DEF Claimed, Pending, Queued, InHand
      <4> QED
        BY <4>1, <4>3 DEF Claimed
    <3> QED
      BY <3>1, <3>2
  <2>4. RowPending(k, a) <=> Pending(op)
    BY <2>2 DEF RowPending
  <2>5. RowPending(k, a)' <=> Pending(op)'
    BY <2>1, <2>2 DEF RowPending, Pending, Queued, InHand
  <2>6. RowKept(k, a)' <=> RowKept(k, a)
    BY <1>3, <2>3, <2>4, <2>5 DEF RowKept
  <2>7. RowGone(k, a)' <=> RowGone(k, a)
    BY <1>3, <2>1, <2>2, <2>3, <2>4, <2>5 DEF RowGone
  <2> QED
    BY <2>3, <2>4, <2>5, <2>6, <2>7 DEF SameFate
<1> QED
  BY <1>4, <1>5 DEF Moves, Advances

(* Rows that keep their fate leave the abstract sets as they are.          *)
LEMMA SameFates ==
    ASSUME \A k \in RowKinds, a \in Asks : SameFate(k, a)
    PROVE  UNCHANGED <<PendingRows, KeptRows, GoneRows>>
<1>1. \A r \in RowKinds \X Asks :
         /\ RowPending(r[1], r[2])' <=> RowPending(r[1], r[2])
         /\ RowKept(r[1], r[2])' <=> RowKept(r[1], r[2])
         /\ RowGone(r[1], r[2])' <=> RowGone(r[1], r[2])
  BY RowPairs DEF SameFate
<1>2. ViewsAgree /\ ViewsAgree'
  BY Views, ViewsNext
<1> QED
  BY <1>1, <1>2 DEF ViewsAgree

(* When only one row's fate changes, each set gains or loses that row.     *)
LEMMA OneFate ==
    ASSUME NEW k \in RowKinds, NEW a \in Asks,
           \A l \in RowKinds, b \in Asks : l # k \/ b # a => SameFate(l, b)
    PROVE  /\ PendingRows' = IF RowPending(k, a)' THEN PendingRows \cup {<<k, a>>}
                                                 ELSE PendingRows \ {<<k, a>>}
           /\ KeptRows' = IF RowKept(k, a)' THEN KeptRows \cup {<<k, a>>}
                                           ELSE KeptRows \ {<<k, a>>}
           /\ GoneRows' = IF RowGone(k, a)' THEN GoneRows \cup {<<k, a>>}
                                           ELSE GoneRows \ {<<k, a>>}
<1>1. \A r \in RowKinds \X Asks : r # <<k, a>> =>
         /\ RowPending(r[1], r[2])' <=> RowPending(r[1], r[2])
         /\ RowKept(r[1], r[2])' <=> RowKept(r[1], r[2])
         /\ RowGone(r[1], r[2])' <=> RowGone(r[1], r[2])
  BY RowPairs DEF SameFate
<1>2. ViewsAgree /\ ViewsAgree'
  BY Views, ViewsNext
<1>3. <<k, a>> \in RowKinds \X Asks
  OBVIOUS
<1>4. PendingRows' = IF RowPending(k, a)' THEN PendingRows \cup {<<k, a>>}
                                         ELSE PendingRows \ {<<k, a>>}
  BY <1>1, <1>2, <1>3 DEF ViewsAgree
<1>5. KeptRows' = IF RowKept(k, a)' THEN KeptRows \cup {<<k, a>>}
                                   ELSE KeptRows \ {<<k, a>>}
  BY <1>1, <1>2, <1>3 DEF ViewsAgree
<1>6. GoneRows' = IF RowGone(k, a)' THEN GoneRows \cup {<<k, a>>}
                                   ELSE GoneRows \ {<<k, a>>}
  BY <1>1, <1>2, <1>3 DEF ViewsAgree
<1> QED
  BY <1>4, <1>5, <1>6

(* Every row of an answered turn has been recorded.                        *)
AllRecorded ==
    IInv => \A a \in Asks : pc[a] = "done" =>
        \A k \in RowKinds : <<k, a>> \in PendingRows \cup KeptRows \cup GoneRows

LEMMA AnsweredRecorded == AllRecorded
<1> SUFFICES ASSUME IInv, NEW a \in Asks, pc[a] = "done", NEW k \in RowKinds
             PROVE  <<k, a>> \in PendingRows \cup KeptRows \cup GoneRows
  BY DEF AllRecorded
<1>1. PICK i \in 1..4 : k = Turn[i]
  <2>1. PICK i \in 2..4 : k = Turn[i]
    BY RowFacts
  <2> QED
    BY <2>1
<1>2. Tracked(TurnRow(k, a))
  BY <1>1 DEF IInv, RecordInv, RecordOf, TurnOp, TurnRow
<1>3. RowPending(k, a) \/ RowKept(k, a) \/ RowGone(k, a)
  BY <1>2, RowStored DEF Tracked, Settled, RowPending, RowKept, RowGone, TurnRow
<1>4. <<k, a>> \in RowKinds \X Asks
  OBVIOUS
<1> QED
  BY <1>3, <1>4, Views DEF ViewsAgree

LEMMA RecordedNext == AllRecorded'
  BY AnsweredRecorded, PTL

(* A step without effect on the rows is no step of the log.                *)
LEMMA StaticLog ==
    ASSUME TypeInv, TypeInv', RowsInv, RowsInv', Static
    PROVE  UNCHANGED Log!vars
<1>1. \A k \in RowKinds, a \in Asks : SameFate(k, a)
  BY SameKeepsFate DEF Static, MovesBut
<1>2. UNCHANGED <<PendingRows, KeptRows, GoneRows>>
  BY <1>1, SameFates
<1>3. {a \in Asks : pc[a] = "done"}' = {a \in Asks : pc[a] = "done"}
  BY DEF Static, MovesBut
<1> QED
  BY <1>2, <1>3 DEF Log!vars

(* An ask's own write records its row, or answers the ask over a row       *)
(* recorded before, or leaves the row for a later attempt.                 *)
LEMMA OwnWriteLog ==
    ASSUME IInv, IInv', RowsInv, RowsInv', NEW op \in Rows, OwnWrite(op)
    PROVE  [Log!Next]_Log!vars
<1> USE DEF IInv
<1>1. PICK k \in RowKinds, a \in Asks : k = op.kind /\ a = op.ask
  BY RowFacts
<1>2. /\ pc[a] \in {"enqueue", "fallback"} /\ op = NextOp(a)
      /\ MovesBut({a}) /\ conv'[a] = conv[a]
      /\ pc'[a] = "done" => Advances(a)
      /\ Advances(a) => Claimed(op)' \/ HasRow(k, a)'
      /\ pc[a] = "fallback" => (Pending(op)' <=> Pending(op))
      /\ HasRow(k, a) => HasRow(k, a)'
      /\ \A o \in Rows : Apart(o, op) => Same(o)
  BY <1>1 DEF OwnWrite
<1>3. op.conv = conv[a] /\ ~Claimed(op) /\ (HasRow(k, a) => pc[a] = "fallback")
  BY <1>1, <1>2, OwnRow
<1>4. op = TurnRow(k, a) /\ op = TurnRow(k, a)'
  <2>1. op = Op(op.kind, op.ask, op.conv)
    BY RowIs, RowFacts
  <2> QED
    BY <1>1, <1>2, <1>3, <2>1 DEF TurnRow
<1>5. \A l \in RowKinds, b \in Asks : l # k \/ b # a => SameFate(l, b)
  BY <1>1, <1>2, SameKeepsFate DEF MovesBut, Apart
<1>6. /\ RowPending(k, a) <=> Pending(op)
      /\ RowPending(k, a)' <=> Pending(op)'
      /\ RowKept(k, a) <=> HasRow(k, a) /\ ~Pending(op)
      /\ RowKept(k, a)' <=> HasRow(k, a)' /\ ~Pending(op)'
      /\ RowGone(k, a) <=> (op \in dead \/ op \in lost) /\ ~HasRow(k, a) /\ ~Pending(op)
      /\ RowGone(k, a)' <=> (op \in dead' \/ op \in lost') /\ ~HasRow(k, a)' /\ ~Pending(op)'
  <2>1. RowPending(k, a) <=> Pending(op)
    BY <1>4 DEF RowPending
  <2>2. RowPending(k, a)' <=> Pending(op)'
    BY <1>4 DEF RowPending, Pending, Queued, InHand
  <2> QED
    BY <1>4, <2>1, <2>2 DEF RowKept, RowGone
<1>7. <<k, a>> \in RowKinds \X Asks /\ ViewsAgree /\ ViewsAgree'
  BY Views, ViewsNext
<1>8. /\ {b \in Asks : pc[b] = "done"}' = {b \in Asks : pc'[b] = "done"}
      /\ a \notin {b \in Asks : pc[b] = "done"}
      /\ pc'[a] # "done" =>
            {b \in Asks : pc'[b] = "done"} = {b \in Asks : pc[b] = "done"}
      /\ pc'[a] = "done" =>
            {b \in Asks : pc'[b] = "done"} = {b \in Asks : pc[b] = "done"} \cup {a}
  BY <1>2 DEF MovesBut
<1>9. pc'[a] = "done" =>
         \A l \in RowKinds : <<l, a>> \in PendingRows' \cup KeptRows' \cup GoneRows'
  BY RecordedNext DEF AllRecorded
<1>10. Log!MayAnswer(a)
  BY <1>8, <1>9 DEF Log!MayAnswer, Log!Recorded
<1>11. CASE HasRow(k, a) \/ ~(Claimed(op)' \/ HasRow(k, a)')
  <2>1. SameFate(k, a)
    BY <1>2, <1>3, <1>6, <1>11 DEF SameFate, Claimed
  <2>2. UNCHANGED <<PendingRows, KeptRows, GoneRows>>
    BY <1>5, <2>1, SameFates
  <2>3. CASE pc'[a] = "done"
    <3>1. Log!Answer(a)
      BY <1>8, <1>10, <2>2, <2>3 DEF Log!Answer
    <3> QED
      BY <3>1 DEF Log!Next
  <2>4. CASE pc'[a] # "done"
    BY <1>8, <2>2, <2>4 DEF Log!vars
  <2> QED
    BY <2>3, <2>4
<1>12. CASE ~HasRow(k, a) /\ (Claimed(op)' \/ HasRow(k, a)')
  <2>1. <<k, a>> \notin PendingRows \cup KeptRows \cup GoneRows
    BY <1>3, <1>6, <1>7, <1>12 DEF ViewsAgree, Claimed
  <2>2. /\ PendingRows' = IF RowPending(k, a)' THEN PendingRows \cup {<<k, a>>}
                                              ELSE PendingRows \ {<<k, a>>}
        /\ KeptRows' = IF RowKept(k, a)' THEN KeptRows \cup {<<k, a>>}
                                        ELSE KeptRows \ {<<k, a>>}
        /\ GoneRows' = IF RowGone(k, a)' THEN GoneRows \cup {<<k, a>>}
                                        ELSE GoneRows \ {<<k, a>>}
    BY <1>5, OneFate
  <2>3. \/ RowPending(k, a)' /\ ~RowKept(k, a)' /\ ~RowGone(k, a)'
        \/ ~RowPending(k, a)' /\ RowKept(k, a)' /\ ~RowGone(k, a)'
        \/ ~RowPending(k, a)' /\ ~RowKept(k, a)' /\ RowGone(k, a)'
    BY <1>6, <1>12 DEF Claimed
  <2>4. \/ PendingRows' = PendingRows \cup {<<k, a>>} /\ UNCHANGED <<KeptRows, GoneRows>>
        \/ KeptRows' = KeptRows \cup {<<k, a>>} /\ UNCHANGED <<PendingRows, GoneRows>>
        \/ GoneRows' = GoneRows \cup {<<k, a>>} /\ UNCHANGED <<PendingRows, KeptRows>>
    BY <2>1, <2>2, <2>3
  <2>5. Log!Record(k, a)
    BY <1>8, <1>10, <2>1, <2>4 DEF Log!Record, Log!Recorded
  <2> QED
    BY <2>5 DEF Log!Next
<1> QED
  BY <1>11, <1>12

(* The worker's write settles its row, or keeps it pending.                *)
LEMMA WorkerWriteLog ==
    ASSUME IInv, IInv', RowsInv, RowsInv', NEW op \in Rows, WorkerWrite(op)
    PROVE  [Log!Next]_Log!vars
<1> USE DEF IInv
<1>1. PICK k \in RowKinds, a \in Asks : k = op.kind /\ a = op.ask
  BY RowFacts
<1>2. /\ Pending(op) /\ MovesBut({})
      /\ Claimed(op)' \/ HasRow(k, a)'
      /\ HasRow(k, a) => HasRow(k, a)'
      /\ \A o \in Rows : Apart(o, op) => Same(o)
  BY <1>1 DEF WorkerWrite
<1>3. op.conv = conv[a] /\ conv'[a] = conv[a]
  <2>1. op.conv = conv[a] /\ ~Early(a)
    BY <1>1, <1>2, EarlyRows DEF RowsInv, RowInv, Claimed
  <2> QED
    BY <1>2, <2>1 DEF MovesBut, Moves, Advances
<1>4. op = TurnRow(k, a) /\ op = TurnRow(k, a)'
  <2>1. op = Op(op.kind, op.ask, op.conv)
    BY RowIs, RowFacts
  <2> QED
    BY <1>1, <1>3, <2>1 DEF TurnRow
<1>5. \A l \in RowKinds, b \in Asks : l # k \/ b # a => SameFate(l, b)
  BY <1>1, <1>2, SameKeepsFate DEF MovesBut, Apart
<1>6. /\ RowPending(k, a) /\ ~RowKept(k, a) /\ ~RowGone(k, a)
      /\ RowPending(k, a)' <=> Pending(op)'
      /\ RowKept(k, a)' <=> HasRow(k, a)' /\ ~Pending(op)'
      /\ RowGone(k, a)' <=> (op \in dead' \/ op \in lost') /\ ~HasRow(k, a)' /\ ~Pending(op)'
  <2>1. RowPending(k, a) /\ ~RowKept(k, a) /\ ~RowGone(k, a)
    BY <1>2, <1>4 DEF RowPending, RowKept, RowGone
  <2>2. RowPending(k, a)' <=> Pending(op)'
    BY <1>4 DEF RowPending, Pending, Queued, InHand
  <2> QED
    BY <1>4, <2>1, <2>2 DEF RowKept, RowGone
<1>7. <<k, a>> \in RowKinds \X Asks /\ ViewsAgree
  BY Views
<1>8. {b \in Asks : pc[b] = "done"}' = {b \in Asks : pc[b] = "done"}
  BY <1>2 DEF MovesBut
<1>9. CASE Pending(op)'
  <2>1. SameFate(k, a)
    BY <1>6, <1>9 DEF SameFate
  <2>2. UNCHANGED <<PendingRows, KeptRows, GoneRows>>
    BY <1>5, <2>1, SameFates
  <2> QED
    BY <1>8, <2>2 DEF Log!vars
<1>10. CASE ~Pending(op)'
  <2>1. <<k, a>> \in PendingRows /\ <<k, a>> \notin KeptRows \cup GoneRows
    BY <1>6, <1>7 DEF ViewsAgree
  <2>2. /\ PendingRows' = IF RowPending(k, a)' THEN PendingRows \cup {<<k, a>>}
                                              ELSE PendingRows \ {<<k, a>>}
        /\ KeptRows' = IF RowKept(k, a)' THEN KeptRows \cup {<<k, a>>}
                                        ELSE KeptRows \ {<<k, a>>}
        /\ GoneRows' = IF RowGone(k, a)' THEN GoneRows \cup {<<k, a>>}
                                        ELSE GoneRows \ {<<k, a>>}
    BY <1>5, OneFate
  <2>3. \/ RowKept(k, a)' /\ ~RowGone(k, a)'
        \/ ~RowKept(k, a)' /\ RowGone(k, a)'
    BY <1>2, <1>6, <1>10 DEF Claimed
  <2>4. PICK K \in SUBSET {<<k, a>>} :
           /\ KeptRows' = KeptRows \cup K
           /\ GoneRows' = GoneRows \cup ({<<k, a>>} \ K)
    <3>1. CASE RowKept(k, a)' /\ ~RowGone(k, a)'
      <4>1. /\ KeptRows' = KeptRows \cup {<<k, a>>}
            /\ GoneRows' = GoneRows \cup ({<<k, a>>} \ {<<k, a>>})
        BY <2>1, <2>2, <3>1
      <4> QED
        BY <4>1
    <3>2. CASE ~RowKept(k, a)' /\ RowGone(k, a)'
      <4>1. /\ KeptRows' = KeptRows \cup {}
            /\ GoneRows' = GoneRows \cup ({<<k, a>>} \ {})
        BY <2>1, <2>2, <3>2
      <4> QED
        BY <4>1
    <3> QED
      BY <2>3, <3>1, <3>2
  <2>5. PendingRows' = PendingRows \ {<<k, a>>}
    BY <1>6, <1>10, <2>2
  <2>6. Log!Settle({<<k, a>>})
    BY <1>8, <2>4, <2>5 DEF Log!Settle
  <2> QED
    BY <2>1, <2>6 DEF Log!Next, Log!SettleOne
<1> QED
  BY <1>9, <1>10

(* A crash settles everything that is pending.                             *)
LEMMA LosingLog ==
    ASSUME TypeInv, TypeInv', RowsInv, RowsInv', Losing
    PROVE  [Log!Next]_Log!vars
<1>1. ASSUME NEW k \in RowKinds, NEW a \in Asks
      PROVE  /\ ~RowPending(k, a)'
             /\ RowKept(k, a)' <=> RowKept(k, a) \/ (RowPending(k, a) /\ HasRow(k, a))
             /\ RowGone(k, a)' <=> RowGone(k, a) \/ (RowPending(k, a) /\ ~HasRow(k, a))
  <2>1. \A c \in Asks : Op(k, a, c) \in Rows /\ Op(k, a, c).kind = k
                       /\ Op(k, a, c).ask = a
    BY TurnFacts, OpType DEF Rows, RowKinds
  <2>2. HasRow(k, a)' <=> HasRow(k, a)
    BY <2>1 DEF Losing
  <2>3. Moves(a)
    BY DEF Losing, MovesBut
  <2>4. CASE Early(a) /\ Early(a)'
    <3>1. ~Claimed(TurnRow(k, a)) /\ ~HasRow(k, a)
      BY <2>4, Fates DEF FatesInv
    <3>2. ~Claimed(TurnRow(k, a))' /\ ~HasRow(k, a)'
      BY <2>4, FatesNext DEF FatesInv
    <3>3. ~RowPending(k, a) /\ ~RowKept(k, a) /\ ~RowGone(k, a)
      BY <3>1 DEF RowPending, RowKept, RowGone, Claimed
    <3>4. ~RowPending(k, a)' /\ ~RowKept(k, a)' /\ ~RowGone(k, a)'
      BY <3>2 DEF RowPending, RowKept, RowGone, Claimed
    <3> QED
      BY <3>3, <3>4
  <2>5. CASE conv'[a] = conv[a]
    <3>1. TurnRow(k, a)' = TurnRow(k, a)
      BY <2>5 DEF TurnRow
    <3>2. PICK op : op = TurnRow(k, a)
      OBVIOUS
    <3>3. /\ ~Pending(op)'
          /\ op \in dead' \/ op \in lost' <=> Claimed(op)
      <4>1. CASE conv[a] \in Asks
        <5>1. op \in Rows
          BY <2>1, <3>2, <4>1 DEF TurnRow
        <5> QED
          BY <5>1 DEF Losing, Claimed
      <4>2. CASE conv[a] \notin Asks
        <5>1. ~Claimed(op)
          BY <3>2, <4>2, Fates DEF FatesInv
        <5>2. ~Claimed(TurnRow(k, a))'
          BY <2>5, <4>2, FatesNext DEF FatesInv
        <5>3. ~Claimed(op)'
          BY <3>1, <3>2, <5>2 DEF Claimed, Pending, Queued, InHand
        <5> QED
          BY <5>1, <5>3 DEF Claimed
      <4> QED
        BY <4>1, <4>2
    <3>4. RowPending(k, a) <=> Pending(op)
      BY <3>2 DEF RowPending
    <3>5. RowPending(k, a)' <=> Pending(op)'
      BY <3>1, <3>2 DEF RowPending, Pending, Queued, InHand
    <3>6. RowKept(k, a)' <=> RowKept(k, a) \/ (RowPending(k, a) /\ HasRow(k, a))
      BY <2>2, <3>3, <3>4, <3>5 DEF RowKept
    <3>7. RowGone(k, a)' <=> RowGone(k, a) \/ (RowPending(k, a) /\ ~HasRow(k, a))
      BY <2>2, <3>1, <3>2, <3>3, <3>4, <3>5 DEF RowGone, Claimed
    <3> QED
      BY <3>3, <3>5, <3>6, <3>7
  <2> QED
    BY <2>3, <2>4, <2>5 DEF Moves, Advances
<1> DEFINE K == {r \in PendingRows : HasRow(r[1], r[2])}
<1>2. ViewsAgree /\ ViewsAgree'
  BY Views, ViewsNext
<1>3. \A r \in RowKinds \X Asks :
         /\ ~RowPending(r[1], r[2])'
         /\ RowKept(r[1], r[2])' <=>
               RowKept(r[1], r[2]) \/ (RowPending(r[1], r[2]) /\ HasRow(r[1], r[2]))
         /\ RowGone(r[1], r[2])' <=>
               RowGone(r[1], r[2]) \/ (RowPending(r[1], r[2]) /\ ~HasRow(r[1], r[2]))
  BY <1>1, RowPairs
<1>4. PendingRows' = {}
  BY <1>2, <1>3 DEF ViewsAgree
<1>5. KeptRows' = KeptRows \cup K
  BY <1>2, <1>3 DEF ViewsAgree
<1>6. GoneRows' = GoneRows \cup (PendingRows \ K)
  BY <1>2, <1>3 DEF ViewsAgree
<1>7. {b \in Asks : pc[b] = "done"}' = {b \in Asks : pc[b] = "done"}
  BY DEF Losing, MovesBut
<1>8. CASE PendingRows = {}
  BY <1>4, <1>5, <1>6, <1>7, <1>8 DEF Log!vars
<1>9. CASE PendingRows # {}
  <2>1. K \in SUBSET PendingRows /\ PendingRows' = PendingRows \ PendingRows
    BY <1>4
  <2>2. Log!Settle(PendingRows)
    BY <1>5, <1>6, <1>7, <2>1 DEF Log!Settle
  <2> QED
    BY <1>9, <2>2 DEF Log!Next, Log!SettleAll
<1> QED
  BY <1>8, <1>9

(* The repository with its queue, worker, retries, fallback, cancellations,*)
(* shutdowns, crashes and restarts implements the log of AuditLog: every   *)
(* row of a turn is recorded once, then kept or gone for good, and an ask  *)
(* is answered only when the whole turn has been recorded.                 *)
THEOREM ImplementsLogHolds == Spec => ImplementsLog
<1>1. Init => Log!Init
  <2> SUFFICES ASSUME Init PROVE Log!Init
    OBVIOUS
  <2>1. ASSUME NEW k \in RowKinds, NEW a \in Asks
        PROVE  ~RowPending(k, a) /\ ~RowKept(k, a) /\ ~RowGone(k, a)
    <3>1. ~HasRow(k, a)
      BY DEF Init, StoreInit, HasRow, HasMessage, Range
    <3>2. ~RowPending(k, a) /\ dead = {} /\ lost = {}
      BY DEF Init, RowPending, Pending, Queued, InHand, Range
    <3> QED
      BY <3>1, <3>2 DEF RowKept, RowGone
  <2>2. ViewsAgree
    BY Views
  <2>3. PendingRows = {} /\ KeptRows = {} /\ GoneRows = {}
    BY <2>1, <2>2, RowPairs DEF ViewsAgree
  <2>4. {a \in Asks : pc[a] = "done"} = {}
    BY DEF Init, Tasks
  <2> QED
    BY <2>3, <2>4 DEF Log!Init
<1>2. /\ IInv /\ RowsInv /\ IInv' /\ RowsInv'
      /\ [Next]_vars
      => [Log!Next]_Log!vars
  BY StepEffect, StaticLog, OwnWriteLog, WorkerWriteLog, LosingLog DEF IInv
<1> QED
  BY <1>1, <1>2, RowsInvariant, PTL DEF Spec, ImplementsLog, Log!Spec

=============================================================================
