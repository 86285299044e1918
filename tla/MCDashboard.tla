------------------------------ MODULE MCDashboard ------------------------------
(* Instances of Dashboard for TLC.                                           *)
EXTENDS Dashboard

\* One product to be eaten today; the user adds one for later.
MCTables == {<<>>, <<[expires |-> 4, status |-> "active"]>>}
MCDays == {5}
================================================================================
