------------------------------ MODULE MCJournalStore ------------------------------
(* Two client processes on one operation's files. *)
EXTENDS JournalStore, TLC

Symmetry == Permutations(Proc) \cup Permutations(Inode)
=============================================================================
