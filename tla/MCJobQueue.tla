---------------------------- MODULE MCJobQueue ----------------------------
(* Instances of JobQueue for TLC: the types of the two processes are "clean" *)
(* (pipeline-worker), "digest" and "delete" (scheduler-worker and the run-due *)
(* request of the same process).                                             *)
EXTENDS JobQueue

MCTypes == {"digest", "delete"}
MCAllowed == [w \in Workers |-> MCTypes]
MCWaited == {"digest"}

\* One type, claimed by every worker.
OneAllowed == [w \in Workers |-> Types]
=============================================================================
