--------------------------- MODULE MCExecService ---------------------------
(* The root service and a WithDir child of the same directory: two caches    *)
(* and one mutex.                                                            *)
EXTENDS ExecService, TLC

CONSTANTS p1, p2, p3, root, child, d1

MCWorkingDir == [s \in Services |-> d1]

\* The mix of calls of the liveness run: refreshes and state operations.
MCMix == {"StateListSkipCache", "StateOp"}

Symmetric == Permutations(Procs)
=============================================================================
