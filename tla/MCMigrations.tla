---------------------------- MODULE MCMigrations ----------------------------
(***************************************************************************)
(* Migrations for TLC: three migrators.                                    *)
(***************************************************************************)
EXTENDS Migrations

CONSTANTS m1, m2, m3

ThreeMigrators == {m1, m2, m3}
=============================================================================
