-------------------------- MODULE MCIndexInstaller --------------------------
(* Small instances of IndexInstaller for TLC. *)
EXTENDS IndexInstaller

CONSTANTS c1, c2, e1

OneContract == {c1}
TwoContracts == {c1, c2}
OneExercise == {e1}
NoPartition == {}

ActiveIndex == {<<"active", c1>>}
=============================================================================
