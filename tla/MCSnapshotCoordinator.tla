----------------------- MODULE MCSnapshotCoordinator -----------------------
(***************************************************************************)
(* Small instances of SnapshotCoordinator for TLC.                         *)
(***************************************************************************)
EXTENDS SnapshotCoordinator

CONSTANTS c1, c2

TwoCallers == {c1, c2}
=============================================================================
