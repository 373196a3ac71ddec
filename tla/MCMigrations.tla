---------------------------- MODULE MCMigrations ----------------------------
(* The instances of Migrations for TLC.                                    *)
EXTENDS Migrations, TLC

CONSTANTS p1, p2
=============================================================================
