----------------------------- MODULE SchemaLedger -----------------------------
(***************************************************************************)
(* What schema migration promises: the schema is always the work of a      *)
(* release's first migrations, and grows only to a whole release that      *)
(* begins with everything applied before.                                  *)
(***************************************************************************)
EXTENDS Naturals, Sequences

CONSTANT Releases   \* sequences of migrations
VARIABLE schema     \* the migrations executed on the database, in order

Init == schema = <<>>

(* `release' goes on where the schema is.                                  *)
Extends(release) ==
    /\ Len(schema) <= Len(release)
    /\ schema = SubSeq(release, 1, Len(schema))

Upgrade == \E release \in Releases : Extends(release) /\ schema' = release

Spec == Init /\ [][Upgrade]_schema

=============================================================================
