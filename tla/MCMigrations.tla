---------------------------- MODULE MCMigrations ----------------------------
(* Instances of Migrations for TLC.                                        *)
EXTENDS Migrations, TLC

CONSTANTS r1, r2, r3

M(v, c) == [version |-> v, checksum |-> c]

(* Two runners of neighbouring releases, and one whose first file changed. *)
TwoReleasesAndAnEdit ==
    r1 :> <<M(1, "a"), M(2, "b")>>
    @@ r2 :> <<M(1, "a"), M(2, "b"), M(3, "c")>>
    @@ r3 :> <<M(1, "x"), M(2, "b")>>

=============================================================================
