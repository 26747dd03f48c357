---------------------------- MODULE MCConversations ----------------------------
(* Instances of Conversations for TLC.                                     *)
EXTENDS Conversations, TLC

CONSTANTS u1, u2, k1

(* The earlier conversation is u1's, the later u2's.                       *)
SomeOwners == 1 :> u1 @@ 2 :> u2

(* The owner of a message and another user report on it with one key.      *)
SomeCalls == {[user |-> u, msg |-> 1, key |-> k1] : u \in Users}

Symmetry == Permutations(Reports)

=============================================================================
