--------------------------- MODULE MCSnapshotFile ---------------------------
(* SnapshotFile with three calls, for ledgers of different sizes.            *)
EXTENDS SnapshotFile

MCAccounts == <<1, 2, 1>>

=============================================================================
