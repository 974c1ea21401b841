-------------------------- MODULE MCBackupRestore ---------------------------
(* A small instance of BackupRestore.                                      *)
EXTENDS BackupRestore, TLC

CONSTANTS o1, o2

\* The codes are in the other order than a tree with o1 above o2.
MCCodeRank == o1 :> 2 @@ o2 :> 1

Symmetry == Permutations(Mover) \cup Permutations(Backup)
=============================================================================
