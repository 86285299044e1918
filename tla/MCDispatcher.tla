---------------------------- MODULE MCDispatcher ----------------------------
(* Instances of Dispatcher for TLC.                                          *)
EXTENDS Dispatcher

\* Users and callers are alike and AnyKey only fills unused fields, so the
\* configurations give them as strings and need no symmetry.
MCKeys == {"u1", "u2"}
MCSubmitters == {"s1", "s2"}
=============================================================================
