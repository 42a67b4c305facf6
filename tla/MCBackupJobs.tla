---------------------------- MODULE MCBackupJobs ----------------------------
(* BackupJobs instantiated for TLC; the .cfg files give the constants. *)
EXTENDS BackupJobs, TLC

CONSTANTS a, b, j1, j2

OneServer  == {a}
TwoServers == {a, b}
OneJob     == {j1}
TwoJobs    == {j1, j2}
NoBigTree  == {}

\* Jobs are interchangeable where all or none of them have a big tree.
JobSymmetry == Permutations(TwoJobs)
=============================================================================
