---------------------------- MODULE JobLifecycle ----------------------------
(***************************************************************************)
(* What the job queue promises of each job, whatever the workers do: it is *)
(* held by one worker at a time, at most MaxAttempts times, and it ends    *)
(* completed or abandoned at most once.  A job whose owner is lost is not  *)
(* given to another: nothing in the system takes a running job back.       *)
(***************************************************************************)
EXTENDS Naturals

CONSTANTS Jobs, Workers, Nobody, MaxAttempts

VARIABLES phase, owner, tries

lifeVars == <<phase, owner, tries>>

Phases == {"unborn", "waiting", "held", "completed", "abandoned", "gone"}

TypeOK ==
    /\ phase \in [Jobs -> Phases]
    /\ owner \in [Jobs -> Workers \cup {Nobody}]
    /\ tries \in [Jobs -> Nat]

Init ==
    /\ phase = [j \in Jobs |-> "unborn"]
    /\ owner = [j \in Jobs |-> Nobody]
    /\ tries = [j \in Jobs |-> 0]

Become(j, p, o) ==
    /\ phase' = [phase EXCEPT ![j] = p]
    /\ owner' = [owner EXCEPT ![j] = o]

Create(j) ==
    /\ phase[j] = "unborn"
    /\ Become(j, "waiting", Nobody)
    /\ UNCHANGED tries

\* The owner o is a worker that owns nothing else, or Nobody when the reply to
\* the claim is lost.
Take(j, o) ==
    /\ phase[j] = "waiting"
    /\ tries[j] < MaxAttempts
    /\ o # Nobody => \A other \in Jobs : owner[other] # o
    /\ Become(j, "held", o)
    /\ tries' = [tries EXCEPT ![j] = @ + 1]

Complete(j) ==
    /\ owner[j] # Nobody
    /\ Become(j, "completed", Nobody)
    /\ UNCHANGED tries

GiveBack(j) ==
    /\ owner[j] # Nobody
    /\ tries[j] < MaxAttempts
    /\ Become(j, "waiting", Nobody)
    /\ UNCHANGED tries

GiveUp(j) ==
    /\ owner[j] # Nobody
    /\ tries[j] = MaxAttempts
    /\ Become(j, "abandoned", Nobody)
    /\ UNCHANGED tries

Orphan(j) ==
    /\ owner[j] # Nobody
    /\ Become(j, "held", Nobody)
    /\ UNCHANGED tries

Remove(S) ==
    /\ \A j \in S : phase[j] # "unborn"
    /\ phase' = [j \in Jobs |-> IF j \in S THEN "gone" ELSE phase[j]]
    /\ owner' = [j \in Jobs |-> IF j \in S THEN Nobody ELSE owner[j]]
    /\ UNCHANGED tries

Next ==
    \/ \E S \in SUBSET Jobs : Remove(S)
    \/ \E j \in Jobs :
          \/ Create(j)
          \/ \E o \in Workers \cup {Nobody} : Take(j, o)
          \/ Complete(j)
          \/ GiveBack(j)
          \/ GiveUp(j)
          \/ Orphan(j)

Spec == Init /\ [][Next]_lifeVars

=============================================================================
