------------------------------- MODULE AuditLog -------------------------------
(***************************************************************************)
(* What the chatbot promises about the rows an answered ask leaves behind, *)
(* with no queue, worker, retry or process in sight.                       *)
(*                                                                         *)
(* Each row is recorded once and then has exactly one fate: pending until  *)
(* it is kept by the database or gone for good.  A row that is gone never  *)
(* turns up later, a kept row never disappears, and an ask is answered only*)
(* when every row of its turn has been recorded.                           *)
(***************************************************************************)
CONSTANTS Asks, Kinds

VARIABLES pending, kept, gone, answered

vars == <<pending, kept, gone, answered>>

Recorded == pending \cup kept \cup gone

Init ==
    /\ pending = {} /\ kept = {} /\ gone = {}
    /\ answered = {}

(* Ask a may be answered by a step that leaves no row of it unrecorded.    *)
MayAnswer(a) ==
    \/ answered' = answered
    \/ /\ answered' = answered \cup {a}
       /\ \A k \in Kinds : <<k, a>> \in Recorded'

(* A row is recorded: queued, or written (or given up) at once.            *)
Record(k, a) ==
    /\ a \notin answered /\ <<k, a>> \notin Recorded
    /\ \/ pending' = pending \cup {<<k, a>>} /\ UNCHANGED <<kept, gone>>
       \/ kept' = kept \cup {<<k, a>>} /\ UNCHANGED <<pending, gone>>
       \/ gone' = gone \cup {<<k, a>>} /\ UNCHANGED <<pending, kept>>
    /\ MayAnswer(a)

(* The answer goes out after rows recorded earlier.                        *)
Answer(a) ==
    /\ answered' = answered \cup {a}
    /\ MayAnswer(a)
    /\ UNCHANGED <<pending, kept, gone>>

(* The pending rows in S get their fate, whatever mixture of the two it is:*)
(* the worker settles one row, a crash all of them.                        *)
Settle(S) ==
    /\ pending' = pending \ S
    /\ \E K \in SUBSET S : kept' = kept \cup K /\ gone' = gone \cup (S \ K)
    /\ UNCHANGED answered

SettleOne == \E r \in pending : Settle({r})
SettleAll == pending # {} /\ Settle(pending)

Next ==
    \/ \E k \in Kinds, a \in Asks : Record(k, a)
    \/ \E a \in Asks : Answer(a)
    \/ SettleOne \/ SettleAll

Spec == Init /\ [][Next]_vars

=============================================================================
