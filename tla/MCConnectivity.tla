---------------------------- MODULE MCConnectivity ----------------------------
(* Connectivity with the values of its constants given in the .cfg files.    *)
EXTENDS Connectivity

CONSTANTS t1, t2

\* Two slots, so that a task that is still freeing its job can meet the next.
MCTasks == {t1, t2}
===============================================================================
