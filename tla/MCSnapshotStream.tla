-------------------------- MODULE MCSnapshotStream --------------------------
(* Snapshots of these sizes replace one another. *)
EXTENDS SnapshotInstall

OneSnapshot == <<3>>
Growing == <<2, 3>>
Shrinking == <<3, 1, 1>>
Long == <<4>>
Short == <<1, 2>>
=============================================================================
