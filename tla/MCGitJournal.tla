---------------------------- MODULE MCGitJournal ----------------------------
(* An instance of GitJournal for TLC.                                         *)
EXTENDS GitJournal, TLC

CONSTANTS o1, o2, u1, u2, main, feature

MCOp   == {o1, o2}
MCUndo == {u1, u2}
MCKind == AllKinds
MCBranch == {main, feature}

\* Operations and undo requests differ in nothing but their names.
MCSymmetry == Permutations(Op) \union Permutations(Undo)
=============================================================================
