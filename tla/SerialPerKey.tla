---------------------------- MODULE SerialPerKey ----------------------------
(***************************************************************************)
(* What the dispatcher promises of the updates it accepts: those of one    *)
(* key run one at a time and in the order they were accepted, and none is  *)
(* lost.  Keys do not wait for one another.                                *)
(***************************************************************************)
EXTENDS Naturals, Sequences

CONSTANTS Keys, Jobs, NoJob

VARIABLES queue, busy

serialVars == <<queue, busy>>

TypeOK ==
    /\ queue \in [Keys -> Seq(Jobs)]
    /\ busy \in [Keys -> Jobs \cup {NoJob}]

Init ==
    /\ queue = [k \in Keys |-> <<>>]
    /\ busy = [k \in Keys |-> NoJob]

Accept(k, j) ==
    /\ queue' = [queue EXCEPT ![k] = Append(@, j)]
    /\ UNCHANGED busy

Start(k) ==
    /\ busy[k] = NoJob
    /\ queue[k] # <<>>
    /\ busy' = [busy EXCEPT ![k] = Head(queue[k])]
    /\ queue' = [queue EXCEPT ![k] = Tail(@)]

End(k) ==
    /\ busy[k] # NoJob
    /\ busy' = [busy EXCEPT ![k] = NoJob]
    /\ UNCHANGED queue

Next ==
    \E k \in Keys : Start(k) \/ End(k) \/ \E j \in Jobs : Accept(k, j)

Spec == Init /\ [][Next]_serialVars

=============================================================================
