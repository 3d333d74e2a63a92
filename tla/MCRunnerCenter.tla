--------------------------- MODULE MCRunnerCenter ---------------------------
(* Small instances of the Runner Center.                                     *)
EXTENDS RunnerCenter, TLC
CONSTANTS r1, r2, t1, t2

Says(work, online) == [work |-> work, online |-> online, checked |-> TRUE]
OnlineReports == {Says("idle", TRUE)}
WholeReports == {Says("idle", TRUE), Says("busy", TRUE), Says("idle", FALSE)}
RunnerSymmetry == Permutations(Runners)
=============================================================================
