------------------------------- MODULE MCDigest -------------------------------
(* Instances of Digest for TLC.                                              *)
EXTENDS Digest

\* One product that has expired on the first day and one that has not.
MCShelf == <<[expires |-> 1, status |-> "active"], [expires |-> 0, status |-> "active"]>>
===============================================================================
