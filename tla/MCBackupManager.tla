--------------------------- MODULE MCBackupManager ---------------------------
(* Instances of BackupManager for TLC. *)
EXTENDS BackupManager, TLC

\* Invocations are interchangeable: sound for the runs without liveness.
RunSymmetry == Permutations(Run)

=============================================================================
