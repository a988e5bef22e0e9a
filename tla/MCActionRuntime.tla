-------------------------- MODULE MCActionRuntime --------------------------
\* Small runtimes: a dispatch key, interchangeable tasks.
EXTENDS ActionRuntime, TLC

CONSTANTS k1, t1, t2

OneTask  == {t1}
TwoTasks == {t1, t2}

\* Identifiers are fresh UUIDs: nothing depends on which one is drawn.
TaskSymmetry == Permutations(TwoTasks)
=============================================================================
