------------------------- MODULE MCDatabaseUpgrade -------------------------
(* Small instances of DatabaseUpgrade for TLC.                               *)
EXTENDS DatabaseUpgrade
=============================================================================
