----------------------------- MODULE MCTaskUndo -----------------------------
(* Instances of TaskUndo for TLC.                                           *)
EXTENDS TaskUndo, TLC

CONSTANTS f1, f2, r1, r2, u1, c1

MCFile == {f1, f2}
MCRun == {r1, r2}
MCRequest == {u1}
MCCommit == {c1}

\* Tasks differ in nothing but their names.
MCSymmetry == Permutations(MCRun)

\* Bound: one kind of disturbance per history, which leaves f2 out of it but
\* for what is written to either file while an undo is between its comparison
\* and its end.
OneDisturbance ==
    /\ Cardinality(past) \leq 1
    /\ past # {} => tree[f2] = Base \/ \E u \in Request : crossed[u] # {}
=============================================================================
