--------------------------- MODULE JobQueueProofs ---------------------------
(***************************************************************************)
(* What holds of the job queue for every set of workers, types and keys,   *)
(* every limit and every number of rows.  The invariant IInv ties what the *)
(* workers hold in memory to the table.                                    *)
(***************************************************************************)
EXTENDS JobQueue, TLAPS

\* What a worker holds it alone holds, and nobody rewrote the row since.
Ownership ==
    /\ \A w \in Workers : job[w] # NoJob <=> pc[w] \in Holding
    /\ \A v, w \in Workers : v # w /\ job[v] # NoJob => job[v] # job[w]
    /\ \A w \in Workers : job[w] # NoJob =>
          /\ jobs[job[w]].status \in {"running", "absent"}
          /\ job[w] < nextId

\* Ids that were never given to a row have no past.
Unborn ==
    \A id \in JobIds : id >= nextId =>
        /\ jobs[id].status = "absent"
        /\ starts[id] = 0
        /\ readAt[id] = {}
        /\ id \notin succeeded

Accounting ==
    \A id \in JobIds :
        /\ starts[id] <= jobs[id].attempts
        /\ jobs[id].attempts <= MaxAttempts
        /\ jobs[id].status = "failed" => jobs[id].attempts = MaxAttempts
        /\ jobs[id].status \in Waiting => jobs[id].attempts < MaxAttempts

\* Where a job stands once its processor has succeeded.
Successes ==
    /\ \A id \in JobIds :
          /\ jobs[id].status = "done" => id \in succeeded
          /\ id \in succeeded => jobs[id].status \in {"running", "done", "absent"}
    /\ \A w \in Workers :
          /\ pc[w] = "succeeded" => job[w] \in succeeded
          /\ pc[w] \in {"processing", "errored"} => job[w] \notin succeeded

\* A row waits past every clock it was claimed with, and its holder has the
\* latest of them.
Postponed ==
    /\ \A id \in JobIds : jobs[id].status \in Waiting =>
          \A t \in readAt[id] : t + Delay <= jobs[id].runAt
    /\ \A w \in Workers : job[w] # NoJob => \A t \in readAt[job[w]] : t <= seen[w]

IInv == TypeOK /\ Ownership /\ Unborn /\ Accounting /\ Successes /\ Postponed

-----------------------------------------------------------------------------

\* The queue starts in the invariant.
LEMMA InitIInv == Init => IInv
<1> SUFFICES ASSUME Init PROVE IInv
  OBVIOUS
<1>1. (CHOOSE t \in Types : TRUE) \in Types
  BY JobQueueAssumption
<1>2. \A w \in Workers : Rest(w) \in {"ready", "idle"}
  BY DEF Rest
<1>3. TypeOK
  BY <1>1, <1>2, JobQueueAssumption
  DEF Init, TypeOK, Row, Statuses, Active, Waiting, Settled, Places, Holding, Resting,
      JobIds, NoJob
<1>4. Ownership
  BY <1>2 DEF Init, Ownership, Holding, NoJob
<1>5. Unborn
  BY DEF Init, Unborn, JobIds
<1>6. Accounting
  BY JobQueueAssumption DEF Init, Accounting, Waiting, JobIds
<1>7. Successes
  BY <1>2, Zenon DEF Init, Successes, Rest
<1>8. Postponed
  BY JobQueueAssumption DEF Init, Postponed, Waiting
<1> QED
  BY <1>3, <1>4, <1>5, <1>6, <1>7, <1>8 DEF IInv

\* Rows keep their type whatever a worker writes into them.
LEMMA RowTypes ==
  ASSUME TypeOK, NEW id \in JobIds
  PROVE  /\ RunningRow(id) \in Row
         /\ DoneRow(id) \in Row
         /\ \A t \in Nat : RetryRow(id, t) \in Row
<1>1. /\ jobs[id] \in Row
      /\ jobs[id].attempts + 1 \in Nat
  BY DEF TypeOK, Row
<1>2. RunningRow(id) \in Row
  BY <1>1 DEF Row, RunningRow, Statuses, Active
<1>3. DoneRow(id) \in Row
  BY <1>1 DEF Row, DoneRow, Statuses, Settled
<1>4. ASSUME NEW t \in Nat PROVE RetryRow(id, t) \in Row
  <2>1. (IF jobs[id].attempts >= MaxAttempts THEN "failed" ELSE "retry") \in Statuses
    BY DEF Statuses, Active, Settled, Waiting
  <2> QED
    BY <1>1, <2>1 DEF Row, RetryRow
<1> QED
  BY <1>2, <1>3, <1>4

\* Every step keeps the types.
LEMMA NextTypeOK == TypeOK /\ Ownership /\ [Next]_vars => TypeOK'
<1> SUFFICES ASSUME TypeOK, Ownership, [Next]_vars PROVE TypeOK'
  OBVIOUS
<1> USE DEF table, worker, history
<1>1. ASSUME NEW t \in Types, NEW k \in Keys \cup {NoKey}, NEW r \in 0..(now + Lead),
             Enqueue(t, k, r)
      PROVE  TypeOK'
  <2>1. now + Lead \in Nat /\ r \in Nat
    BY JobQueueAssumption DEF TypeOK
  <2>2. [status |-> "queued", type |-> t, key |-> k, runAt |-> r, attempts |-> 0] \in Row
    BY <2>1 DEF Row, Statuses, Active, Waiting
  <2>3. nextId \in JobIds /\ nextId' \in 1..(MaxJobs + 1)
    BY <1>1, JobQueueAssumption DEF TypeOK, Enqueue, JobIds
  <2> QED
    BY <1>1, <2>2, <2>3 DEF TypeOK, Enqueue
<1>2. ASSUME NEW w \in Workers, StartRunDue(w) PROVE TypeOK'
  BY <1>2 DEF TypeOK, StartRunDue, Goto, DueActive, Places
<1>3. ASSUME NEW w \in Workers, ReadClock(w) PROVE TypeOK'
  BY <1>3 DEF TypeOK, ReadClock, Goto, Places
<1>4. ASSUME NEW w \in Workers, DrainLimitReached(w) PROVE TypeOK'
  BY <1>4 DEF TypeOK, DrainLimitReached, Goto, Places
<1>5. ASSUME NEW w \in Workers, NEW id \in JobIds, Claim(w, id) PROVE TypeOK'
  BY <1>5, RowTypes DEF TypeOK, Claim, Goto, Places, Holding
<1>6. ASSUME NEW w \in Workers, NEW place \in Places, Leave(w, place)
      PROVE  /\ pc' \in [Workers -> Places]
             /\ job' \in [Workers -> JobIds \cup {NoJob}]
             /\ seen' \in [Workers -> Nat]
             /\ asked' \in [Workers -> SUBSET JobIds]
  BY <1>6 DEF TypeOK, Leave, Goto
<1>7. ASSUME NEW w \in Workers PROVE Rest(w) \in Places
  BY DEF Rest, Places, Resting
<1>8. ASSUME NEW w \in Workers, ClaimNothing(w) PROVE TypeOK'
  <2>1. (IF w \in Loops THEN "ready" ELSE "settling") \in Places
    BY DEF Places
  <2> QED
    BY <1>8, <1>6, <2>1 DEF TypeOK, ClaimNothing
<1>9. ASSUME NEW w \in Workers, ClaimFails(w) PROVE TypeOK'
  BY <1>9, <1>6, <1>7, RowTypes DEF TypeOK, ClaimFails
<1>10. ASSUME NEW w \in Workers, ProcessOk(w) PROVE TypeOK'
  <2>1. job[w] \in JobIds
    BY <1>10 DEF ProcessOk, TypeOK, Ownership, Holding
  <2> QED
    BY <1>10, <2>1 DEF TypeOK, ProcessOk, Goto, Places, Holding
<1>11. ASSUME NEW w \in Workers, ProcessErr(w) PROVE TypeOK'
  BY <1>11 DEF TypeOK, ProcessErr, Goto, Places, Holding
<1>12. ASSUME NEW id \in JobIds, NEW row \in Row, Update(id, row)
       PROVE  jobs' \in [JobIds -> Row]
  BY <1>12 DEF TypeOK, Update
<1>13. ASSUME NEW w \in Workers, MarkDone(w) PROVE TypeOK'
  <2>1. job[w] \in JobIds /\ "ready" \in Places
    BY <1>13 DEF MarkDone, TypeOK, Ownership, Holding, Places
  <2> QED
    BY <1>13, <1>6, <1>12, <2>1, RowTypes DEF TypeOK, MarkDone
<1>14. ASSUME NEW w \in Workers, MarkDoneFails(w) PROVE TypeOK'
  <2>1. job[w] \in JobIds
    BY <1>14 DEF MarkDoneFails, TypeOK, Ownership, Holding
  <2> QED
    BY <1>14, <1>6, <1>7, <1>12, <2>1, RowTypes DEF TypeOK, MarkDoneFails
<1>15. ASSUME NEW w \in Workers, MarkRetry(w) PROVE TypeOK'
  <2>1. job[w] \in JobIds
    BY <1>15 DEF MarkRetry, TypeOK, Ownership, Holding
  <2>2. seen[w] + Delay \in Nat
    BY JobQueueAssumption DEF TypeOK
  <2> QED
    BY <1>15, <1>6, <1>7, <1>12, <2>1, <2>2, RowTypes DEF TypeOK, MarkRetry
<1>16. ASSUME NEW w \in Workers, MarkRetryFails(w) PROVE TypeOK'
  BY <1>16, <1>6, <1>7 DEF TypeOK, MarkRetryFails
<1>17. ASSUME NEW w \in Workers, Crash(w) PROVE TypeOK'
  BY <1>17, <1>6, <1>7 DEF TypeOK, Crash
<1>18. ASSUME NEW w \in Workers, SettleReadClock(w) PROVE TypeOK'
  BY <1>18 DEF TypeOK, SettleReadClock, Goto, Places
<1>19. ASSUME NEW w \in Workers, SettleOk(w) \/ SettleNotYet(w) \/ SettleTimeout(w)
       PROVE  TypeOK'
  <2>1. {"answered", "settling", "idle"} \subseteq Places
    BY DEF Places, Resting
  <2> QED
    BY <1>19, <1>6, <2>1 DEF TypeOK, SettleOk, SettleNotYet, SettleTimeout
<1>20. CASE Tick \/ \E t \in 0..Horizon : SetClock(t)
  BY <1>20, JobQueueAssumption DEF TypeOK, Tick, SetClock
<1>21. ASSUME NEW S \in SUBSET JobIds, ResetUser(S) PROVE TypeOK'
  <2>1. ASSUME NEW id \in JobIds
        PROVE  [jobs[id] EXCEPT !.status = "absent"] \in Row
    <3>1. jobs[id] \in Row
      BY DEF TypeOK
    <3>2. "absent" \in Statuses
      BY DEF Statuses
    <3> QED
      BY <3>1, <3>2 DEF Row
  <2> QED
    BY <1>21, <2>1 DEF TypeOK, ResetUser
<1>22. CASE UNCHANGED vars
  BY <1>22 DEF TypeOK, vars
<1> QED
  BY <1>1, <1>2, <1>3, <1>4, <1>5, <1>8, <1>9, <1>10, <1>11, <1>13, <1>14, <1>15, <1>16,
     <1>17, <1>18, <1>19, <1>20, <1>21, <1>22
  DEF Next, Producer, WorkerStep, FaultStep

-----------------------------------------------------------------------------

\* A worker that leaves an iteration holds nothing; the others go on as before.
LEMMA LeaveFacts ==
  ASSUME TypeOK, NEW w \in Workers, NEW place, Leave(w, place)
  PROVE  /\ job'[w] = NoJob /\ pc'[w] = place
         /\ \A v \in Workers : v # w => /\ job'[v] = job[v]
                                       /\ pc'[v] = pc[v]
                                       /\ seen'[v] = seen[v]
BY DEF TypeOK, Leave, Goto

\* Steps that move a worker between places where it holds nothing.
LEMMA IdleStep ==
  ASSUME IInv, TypeOK', NEW w \in Workers, UNCHANGED <<jobs, nextId, history>>,
         job[w] = NoJob, job' = job, pc'[w] \notin Holding,
         \A v \in Workers : v # w => pc'[v] = pc[v] /\ seen'[v] = seen[v]
  PROVE  IInv'
<1>1. pc[w] \notin Holding
  BY DEF IInv, Ownership
<1>2. Ownership'
  BY <1>1 DEF IInv, Ownership
<1>3. Unborn' /\ Accounting'
  BY DEF IInv, Unborn, Accounting, history
<1>4. Successes'
  BY <1>1 DEF IInv, Successes, history, Holding
<1>5. Postponed'
  BY DEF IInv, Postponed, history
<1> QED
  BY <1>2, <1>3, <1>4, <1>5 DEF IInv

\* A worker drops what it holds and the table stays: the row, if it is still
\* there, is running with nobody to end it.
LEMMA DropStep ==
  ASSUME IInv, TypeOK', NEW w \in Workers, NEW place, place \notin Holding,
         Leave(w, place), UNCHANGED <<jobs, nextId, history>>
  PROVE  IInv'
<1>1. TypeOK
  BY DEF IInv
<1>2. Ownership'
  BY <1>1, LeaveFacts DEF IInv, Ownership
<1>3. Unborn' /\ Accounting'
  BY DEF IInv, Unborn, Accounting, history
<1>4. Successes'
  BY <1>1, LeaveFacts DEF IInv, Successes, history, Holding
<1>5. Postponed'
  BY <1>1, LeaveFacts DEF IInv, Postponed, history
<1> QED
  BY <1>2, <1>3, <1>4, <1>5 DEF IInv

\* What a claim leaves in the table, its reply received or lost.
LEMMA ClaimedRow ==
  ASSUME IInv, NEW w \in Workers, NEW id \in JobIds, IsNext(w, id),
         jobs' = [jobs EXCEPT ![id] = RunningRow(id)]
  PROVE  /\ jobs[id].status \in Waiting
         /\ jobs[id].runAt <= seen[w]
         /\ jobs[id].attempts < MaxAttempts
         /\ starts[id] <= jobs[id].attempts
         /\ id < nextId
         /\ \A v \in Workers : job[v] # id
         /\ jobs'[id].status = "running"
         /\ jobs'[id].attempts = jobs[id].attempts + 1
         /\ \A other \in JobIds : other # id => jobs'[other] = jobs[other]
<1>1. id \in Claimable(w) /\ jobs[id] \in Row /\ nextId \in Nat
  BY DEF IsNext, IInv, TypeOK
<1>2. jobs[id].status \in Waiting /\ jobs[id].runAt <= seen[w]
  BY <1>1 DEF Claimable
<1>3. jobs[id].attempts < MaxAttempts /\ starts[id] <= jobs[id].attempts
  BY <1>2 DEF IInv, Accounting
<1>4. id < nextId
  BY <1>1, <1>2 DEF IInv, Unborn, Waiting, JobIds
<1>5. \A v \in Workers : job[v] # id
  BY <1>2 DEF IInv, Ownership, Waiting, NoJob, JobIds
<1>6. /\ jobs'[id] = RunningRow(id)
      /\ \A other \in JobIds : other # id => jobs'[other] = jobs[other]
  BY DEF IInv, TypeOK
<1>7. jobs'[id].status = "running" /\ jobs'[id].attempts = jobs[id].attempts + 1
  BY <1>1, <1>6 DEF RunningRow, Row
<1> QED
  BY <1>2, <1>3, <1>4, <1>5, <1>6, <1>7

\* Claiming keeps the invariant.
LEMMA ClaimStep ==
  ASSUME IInv, TypeOK', NEW w \in Workers, NEW id \in JobIds, Claim(w, id)
  PROVE  IInv'
<1>1. /\ IsNext(w, id)
      /\ jobs' = [jobs EXCEPT ![id] = RunningRow(id)]
      /\ nextId' = nextId /\ seen' = seen /\ succeeded' = succeeded
  BY DEF Claim
<1>2. /\ pc[w] = "claiming" /\ pc'[w] = "processing"
      /\ job[w] = NoJob /\ job'[w] = id
      /\ \A v \in Workers : v # w => pc'[v] = pc[v] /\ job'[v] = job[v]
  BY DEF Claim, Goto, IInv, TypeOK, Ownership, Holding
<1>3. /\ starts'[id] = starts[id] + 1
      /\ readAt'[id] = readAt[id] \cup {seen[w]}
      /\ \A other \in JobIds : other # id =>
            starts'[other] = starts[other] /\ readAt'[other] = readAt[other]
  BY DEF Claim, IInv, TypeOK
<1>0. /\ jobs[id].status \in Waiting
      /\ jobs[id].runAt <= seen[w]
      /\ jobs[id].attempts < MaxAttempts
      /\ starts[id] <= jobs[id].attempts
      /\ id < nextId
      /\ \A v \in Workers : job[v] # id
      /\ jobs'[id].status = "running"
      /\ jobs'[id].attempts = jobs[id].attempts + 1
      /\ \A other \in JobIds : other # id => jobs'[other] = jobs[other]
  BY <1>1, ClaimedRow
<1>4. nextId \in Nat /\ starts[id] \in Nat /\ jobs[id].attempts \in Nat
  <2>1. jobs[id] \in Row /\ starts[id] \in Nat /\ nextId \in Nat
    BY DEF IInv, TypeOK
  <2> QED
    BY <2>1 DEF Row
<1>5. Ownership'
  <2>1. id # NoJob
    BY JobQueueAssumption DEF JobIds, NoJob
  <2>2. \A v \in Workers : job'[v] # NoJob <=> pc'[v] \in Holding
    BY <1>2, <2>1 DEF IInv, Ownership, Holding
  <2>3. \A u, v \in Workers : u # v /\ job'[u] # NoJob => job'[u] # job'[v]
    BY <1>0, <1>2 DEF IInv, Ownership
  <2>4. ASSUME NEW v \in Workers, job'[v] # NoJob
        PROVE  jobs'[job'[v]].status \in {"running", "absent"} /\ job'[v] < nextId'
    <3>1. CASE v = w
      BY <3>1, <1>0, <1>1, <1>2
    <3>2. CASE v # w
      <4>1. job'[v] = job[v] /\ job[v] \in JobIds /\ job[v] # id
        BY <3>2, <2>4, <1>0, <1>2 DEF IInv, TypeOK
      <4> QED
        BY <4>1, <2>4, <1>0, <1>1 DEF IInv, Ownership
    <3> QED
      BY <3>1, <3>2
  <2> QED
    BY <2>2, <2>3, <2>4 DEF Ownership
<1>6. Unborn'
  BY <1>1, <1>3, <1>4, <1>0 DEF IInv, Unborn, JobIds
<1>7. Accounting'
  BY <1>1, <1>3, <1>4, <1>0, JobQueueAssumption DEF IInv, Accounting, Waiting
<1>8. Successes'
  BY <1>1, <1>2, <1>0 DEF IInv, Successes, Waiting
<1>9. Postponed'
  <2>1. \A t \in readAt[id] : t <= seen[w]
    <3> SUFFICES ASSUME NEW t \in readAt[id] PROVE t <= seen[w]
      OBVIOUS
    <3>1. t \in Nat /\ seen[w] \in Nat /\ jobs[id].runAt \in Nat
      BY DEF IInv, TypeOK, Row
    <3>2. t + Delay <= jobs[id].runAt /\ jobs[id].runAt <= seen[w]
      BY <1>1, <1>0 DEF IInv, Postponed
    <3> QED
      BY <3>1, <3>2, JobQueueAssumption
  <2>2. seen[w] <= seen[w]
    BY DEF IInv, TypeOK
  <2>3. \A other \in JobIds : jobs'[other].status \in Waiting =>
           \A t \in readAt'[other] : t + Delay <= jobs'[other].runAt
    BY <1>1, <1>3, <1>0 DEF IInv, Postponed, Waiting
  <2>4. \A v \in Workers : job'[v] # NoJob => \A t \in readAt'[job'[v]] : t <= seen'[v]
    <3>1. \A t \in readAt'[job'[w]] : t <= seen'[w]
      BY <1>1, <1>2, <1>3, <2>1, <2>2
    <3>2. ASSUME NEW v \in Workers, v # w, job'[v] # NoJob
          PROVE  \A t \in readAt'[job'[v]] : t <= seen'[v]
      <4>1. job[v] \in JobIds /\ job[v] # id /\ job'[v] = job[v]
        BY <1>1, <1>2, <3>2, <1>0 DEF IInv, TypeOK
      <4> QED
        BY <1>1, <1>3, <3>2, <4>1 DEF IInv, Postponed
    <3> QED
      BY <3>1, <3>2
  <2> QED
    BY <2>3, <2>4 DEF Postponed
<1> QED
  BY <1>5, <1>6, <1>7, <1>8, <1>9 DEF IInv

\* The holder ends its attempt with one UPDATE of the row it holds: done after
\* a success, retry or failed after an error, nothing when the row was deleted.
LEMMA EndStep ==
  ASSUME IInv, TypeOK', NEW w \in Workers, NEW place, place \notin Holding,
         NEW row \in Row, pc[w] \in Holding,
         Update(job[w], row), Leave(w, place), UNCHANGED <<nextId, history>>,
         row.attempts = jobs[job[w]].attempts,
         \/ row.status = "done" /\ job[w] \in succeeded
         \/ row.status = "failed" /\ job[w] \notin succeeded /\ row.attempts = MaxAttempts
         \/ /\ row.status = "retry" /\ job[w] \notin succeeded
            /\ row.attempts < MaxAttempts /\ row.runAt = seen[w] + Delay
  PROVE  IInv'
<1> DEFINE id == job[w]
<1>1. /\ job[w] # NoJob /\ id \in JobIds /\ id < nextId
      /\ \A v \in Workers : v # w => job[v] # id
  BY DEF IInv, TypeOK, Ownership
<1>2. /\ job'[w] = NoJob /\ pc'[w] = place
      /\ \A v \in Workers : v # w => /\ job'[v] = job[v]
                                    /\ pc'[v] = pc[v]
                                    /\ seen'[v] = seen[v]
  BY LeaveFacts DEF IInv
<1>3. /\ jobs'[id] = row \/ (jobs[id].status = "absent" /\ jobs'[id] = jobs[id])
      /\ \A other \in JobIds : other # id => jobs'[other] = jobs[other]
  BY <1>1 DEF Update, IInv, TypeOK
<1>4. nextId' = nextId /\ starts' = starts /\ succeeded' = succeeded /\ readAt' = readAt
  BY DEF history
<1> HIDE DEF id
<1>5. Ownership'
  <2>1. ASSUME NEW v \in Workers, job'[v] # NoJob
        PROVE  jobs'[job'[v]].status \in {"running", "absent"} /\ job'[v] < nextId'
    <3>1. v # w /\ job'[v] = job[v] /\ job[v] \in JobIds /\ job[v] # id
      BY <2>1, <1>1, <1>2 DEF IInv, TypeOK
    <3> QED
      BY <3>1, <2>1, <1>3, <1>4 DEF IInv, Ownership
  <2>2. /\ \A v \in Workers : job'[v] # NoJob <=> pc'[v] \in Holding
        /\ \A u, v \in Workers : u # v /\ job'[u] # NoJob => job'[u] # job'[v]
    BY <1>2 DEF IInv, Ownership
  <2> QED
    BY <2>1, <2>2 DEF Ownership
<1>6. Unborn'
  <2>1. nextId \in Nat /\ id \in Nat
    BY <1>1, JobQueueAssumption DEF IInv, TypeOK, JobIds
  <2> QED
    BY <1>1, <1>3, <1>4, <2>1 DEF IInv, Unborn, JobIds
<1>7. Accounting'
  <2>1. /\ starts[id] <= jobs[id].attempts /\ row.attempts = jobs[id].attempts
        /\ jobs[id].attempts <= MaxAttempts
    BY <1>1 DEF IInv, Accounting, id
  <2>2. /\ row.status = "failed" => row.attempts = MaxAttempts
        /\ row.status \in Waiting => row.attempts < MaxAttempts
    BY DEF Waiting
  <2> QED
    BY <1>1, <1>3, <1>4, <2>1, <2>2 DEF IInv, Accounting
<1>8. Successes'
  <2>1. /\ row.status = "done" => id \in succeeded
        /\ id \in succeeded => row.status \in {"running", "done", "absent"}
    BY DEF id
  <2>2. \A other \in JobIds :
          /\ jobs'[other].status = "done" => other \in succeeded'
          /\ other \in succeeded' => jobs'[other].status \in {"running", "done", "absent"}
    BY <1>3, <1>4, <2>1 DEF IInv, Successes
  <2>3. \A v \in Workers :
          /\ pc'[v] = "succeeded" => job'[v] \in succeeded'
          /\ pc'[v] \in {"processing", "errored"} => job'[v] \notin succeeded'
    BY <1>2, <1>4 DEF IInv, Successes, Holding
  <2> QED
    BY <2>2, <2>3 DEF Successes
<1>9. Postponed'
  <2>1. ASSUME row.status \in Waiting, NEW t \in readAt[id] PROVE t + Delay <= row.runAt
    <3>1. t <= seen[w] /\ row.runAt = seen[w] + Delay
      BY <1>1, <2>1 DEF IInv, Postponed, Waiting, id
    <3>2. t \in Nat /\ seen[w] \in Nat
      BY <1>1 DEF IInv, TypeOK
    <3> QED
      BY <3>1, <3>2, JobQueueAssumption
  <2>2. \A other \in JobIds : jobs'[other].status \in Waiting =>
           \A t \in readAt'[other] : t + Delay <= jobs'[other].runAt
    BY <1>3, <1>4, <2>1 DEF IInv, Postponed, Waiting
  <2>3. \A v \in Workers : job'[v] # NoJob => \A t \in readAt'[job'[v]] : t <= seen'[v]
    BY <1>2, <1>4 DEF IInv, Postponed
  <2> QED
    BY <2>2, <2>3 DEF Postponed
<1> QED
  BY <1>5, <1>6, <1>7, <1>8, <1>9 DEF IInv

\* The rows the two UPDATEs write are such rows.
LEMMA MarkedRow ==
  ASSUME IInv, NEW w \in Workers, pc[w] \in Holding
  PROVE  /\ job[w] \in JobIds
         /\ DoneRow(job[w]) \in Row
         /\ DoneRow(job[w]).status = "done"
         /\ DoneRow(job[w]).attempts = jobs[job[w]].attempts
         /\ RetryRow(job[w], seen[w] + Delay) \in Row
         /\ RetryRow(job[w], seen[w] + Delay).runAt = seen[w] + Delay
         /\ RetryRow(job[w], seen[w] + Delay).attempts = jobs[job[w]].attempts
         /\ \/ /\ RetryRow(job[w], seen[w] + Delay).status = "failed"
               /\ jobs[job[w]].attempts = MaxAttempts
            \/ /\ RetryRow(job[w], seen[w] + Delay).status = "retry"
               /\ jobs[job[w]].attempts < MaxAttempts
<1>1. job[w] \in JobIds
  BY DEF IInv, TypeOK, Ownership
<1>2. TypeOK /\ jobs[job[w]] \in Row /\ seen[w] + Delay \in Nat
  BY <1>1, JobQueueAssumption DEF IInv, TypeOK
<1>3. jobs[job[w]].attempts \in Nat /\ jobs[job[w]].attempts <= MaxAttempts
  BY <1>1, <1>2 DEF Row, IInv, Accounting
<1>4. DoneRow(job[w]).status = "done" /\ DoneRow(job[w]).attempts = jobs[job[w]].attempts
  BY <1>2 DEF DoneRow, Row
<1>5. /\ RetryRow(job[w], seen[w] + Delay).runAt = seen[w] + Delay
      /\ RetryRow(job[w], seen[w] + Delay).attempts = jobs[job[w]].attempts
      /\ RetryRow(job[w], seen[w] + Delay).status =
            IF jobs[job[w]].attempts >= MaxAttempts THEN "failed" ELSE "retry"
  BY <1>2 DEF RetryRow, Row
<1>6. \/ /\ RetryRow(job[w], seen[w] + Delay).status = "failed"
         /\ jobs[job[w]].attempts = MaxAttempts
      \/ /\ RetryRow(job[w], seen[w] + Delay).status = "retry"
         /\ jobs[job[w]].attempts < MaxAttempts
  BY <1>3, <1>5, JobQueueAssumption
<1> QED
  BY <1>1, <1>2, <1>4, <1>5, <1>6, RowTypes

-----------------------------------------------------------------------------

\* Every step of the queue keeps the invariant.
LEMMA NextIInv == IInv /\ [Next]_vars => IInv'
<1> SUFFICES ASSUME IInv, [Next]_vars PROVE IInv'
  OBVIOUS
<1>0. TypeOK /\ Ownership /\ TypeOK'
  BY NextTypeOK DEF IInv
<1>a. \A w \in Workers : Rest(w) \notin Holding
  BY DEF Rest, Holding
<1>b. \A w \in Workers : pc[w] \in Holding \/ job[w] = NoJob
  BY <1>0 DEF Ownership
<1>1. ASSUME NEW t \in Types, NEW k \in Keys \cup {NoKey}, NEW r \in 0..(now + Lead),
             Enqueue(t, k, r)
      PROVE  IInv'
  <2>1. /\ nextId \in JobIds /\ nextId' = nextId + 1 /\ nextId \in Nat
        /\ jobs'[nextId].status = "queued" /\ jobs'[nextId].attempts = 0
        /\ \A id \in JobIds : id # nextId => jobs'[id] = jobs[id]
        /\ UNCHANGED <<pc, seen, job, starts, succeeded, readAt>>
    BY <1>0, <1>1, JobQueueAssumption DEF Enqueue, TypeOK, JobIds, worker, history
  <2>2. \A w \in Workers : job[w] # NoJob => job[w] # nextId /\ job[w] < nextId + 1
    BY <1>0, <2>1 DEF Ownership, TypeOK, JobIds
  <2>3. starts[nextId] = 0 /\ readAt[nextId] = {} /\ nextId \notin succeeded
    BY <2>1 DEF IInv, Unborn
  <2>4. Ownership'
    <3>1. ASSUME NEW w \in Workers, job'[w] # NoJob
          PROVE  jobs'[job'[w]].status \in {"running", "absent"} /\ job'[w] < nextId'
      <4>1. job'[w] = job[w] /\ job[w] \in JobIds /\ job[w] # nextId
        BY <1>0, <2>1, <2>2, <3>1 DEF TypeOK
      <4> QED
        BY <1>0, <2>1, <2>2, <3>1, <4>1 DEF Ownership
    <3> QED
      BY <1>0, <2>1, <3>1 DEF Ownership
  <2>5. Unborn'
    BY <2>1 DEF IInv, Unborn, JobIds
  <2>6. Accounting'
    <3>1. 0 <= MaxAttempts /\ 0 < MaxAttempts
      BY JobQueueAssumption
    <3>2. \A id \in JobIds : \/ id = nextId
                             \/ jobs'[id] = jobs[id] /\ starts'[id] = starts[id]
      BY <2>1
    <3>3. /\ starts'[nextId] = 0 /\ jobs'[nextId].attempts = 0 /\ 0 <= 0
          /\ jobs'[nextId].status # "failed"
      BY <2>1, <2>3
    <3> QED
      BY <3>1, <3>2, <3>3 DEF IInv, Accounting
  <2>7. Successes'
    BY <2>1, <2>3 DEF IInv, Successes
  <2>8. Postponed'
    BY <2>1, <2>3 DEF IInv, Postponed
  <2> QED
    BY <1>0, <2>4, <2>5, <2>6, <2>7, <2>8 DEF IInv
<1>2. ASSUME NEW w \in Workers,
             StartRunDue(w) \/ ReadClock(w) \/ DrainLimitReached(w) \/ SettleReadClock(w)
      PROVE  IInv'
  <2>1. /\ UNCHANGED <<jobs, nextId, history>> /\ job' = job
        /\ pc[w] \notin Holding /\ pc'[w] \notin Holding
        /\ \A v \in Workers : v # w => pc'[v] = pc[v] /\ seen'[v] = seen[v]
    BY <1>0, <1>2 DEF TypeOK, StartRunDue, ReadClock, DrainLimitReached, SettleReadClock, Goto,
       Holding, Resting, table, history
  <2> QED
    BY <1>0, <1>b, <2>1, IdleStep
<1>3. ASSUME NEW w \in Workers, NEW id \in JobIds, Claim(w, id) PROVE IInv'
  BY <1>0, <1>3, ClaimStep
<1>4. ASSUME NEW w \in Workers,
             ClaimNothing(w) \/ MarkRetryFails(w) \/ Crash(w) \/ SettleOk(w)
                \/ SettleNotYet(w) \/ SettleTimeout(w)
      PROVE  IInv'
  <2>1. PICK place : Leave(w, place) /\ place \notin Holding
    BY <1>4, <1>a DEF ClaimNothing, MarkRetryFails, Crash, SettleOk, SettleNotYet,
       SettleTimeout, Holding
  <2>2. UNCHANGED <<jobs, nextId, history>>
    BY <1>4 DEF ClaimNothing, MarkRetryFails, Crash, SettleOk, SettleNotYet, SettleTimeout,
       table, history
  <2> QED
    BY <1>0, <2>1, <2>2, DropStep
<1>5. ASSUME NEW w \in Workers, ClaimFails(w) PROVE IInv'
  <2>1. Leave(w, Rest(w)) /\ UNCHANGED <<nextId, history>> /\ pc[w] = "claiming"
    BY <1>5 DEF ClaimFails
  <2>2. CASE UNCHANGED jobs
    BY <1>0, <1>a, <2>1, <2>2, DropStep
  <2>3. ASSUME NEW id \in JobIds, IsNext(w, id), jobs' = [jobs EXCEPT ![id] = RunningRow(id)]
        PROVE  IInv'
    <3>1. /\ jobs[id].status \in Waiting
          /\ jobs[id].attempts < MaxAttempts
          /\ starts[id] <= jobs[id].attempts
          /\ id < nextId
          /\ \A v \in Workers : job[v] # id
          /\ jobs'[id].status = "running"
          /\ jobs'[id].attempts = jobs[id].attempts + 1
          /\ \A other \in JobIds : other # id => jobs'[other] = jobs[other]
      BY <2>3, ClaimedRow
    <3>2. /\ job'[w] = NoJob /\ pc'[w] = Rest(w) /\ Rest(w) \notin Holding
          /\ \A v \in Workers : v # w => /\ job'[v] = job[v]
                                        /\ pc'[v] = pc[v]
                                        /\ seen'[v] = seen[v]
      BY <1>0, <1>a, <2>1, LeaveFacts
    <3>3. nextId' = nextId /\ starts' = starts /\ succeeded' = succeeded /\ readAt' = readAt
      BY <2>1 DEF history
    <3>4. Ownership'
      <4>1. ASSUME NEW v \in Workers, job'[v] # NoJob
            PROVE  jobs'[job'[v]].status \in {"running", "absent"} /\ job'[v] < nextId'
        <5>1. job'[v] = job[v] /\ job[v] \in JobIds /\ job[v] # id
          BY <1>0, <3>1, <3>2, <4>1 DEF TypeOK
        <5> QED
          BY <1>0, <3>1, <3>3, <4>1, <5>1 DEF Ownership
      <4> QED
        BY <1>0, <3>2, <4>1 DEF Ownership
    <3>5. Unborn'
      <4>1. nextId \in Nat /\ id \in Nat
        BY <1>0, JobQueueAssumption DEF TypeOK, JobIds
      <4> QED
        BY <3>1, <3>3, <4>1 DEF IInv, Unborn, JobIds
    <3>6. Accounting'
      <4>1. jobs[id] \in Row /\ starts[id] \in Nat
        BY <1>0 DEF TypeOK
      <4>2. jobs[id].attempts \in Nat
        BY <4>1 DEF Row
      <4> QED
        BY <3>1, <3>3, <4>1, <4>2, JobQueueAssumption DEF IInv, Accounting, Waiting
    <3>7. Successes'
      BY <3>1, <3>2, <3>3 DEF IInv, Successes, Waiting, Holding
    <3>8. Postponed'
      BY <3>1, <3>2, <3>3 DEF IInv, Postponed, Waiting
    <3> QED
      BY <1>0, <3>4, <3>5, <3>6, <3>7, <3>8 DEF IInv
  <2> QED
    BY <1>5, <2>2, <2>3 DEF ClaimFails
<1>6. ASSUME NEW w \in Workers, ProcessOk(w) \/ ProcessErr(w) PROVE IInv'
  <2>1. /\ pc[w] = "processing" /\ job' = job /\ seen' = seen
        /\ jobs' = jobs /\ nextId' = nextId /\ starts' = starts /\ readAt' = readAt
        /\ pc'[w] \in {"succeeded", "errored"}
        /\ pc'[w] = "succeeded" => succeeded' = succeeded \cup {job[w]}
        /\ pc'[w] = "errored" => succeeded' = succeeded
        /\ \A v \in Workers : v # w => pc'[v] = pc[v]
    BY <1>0, <1>6 DEF TypeOK, ProcessOk, ProcessErr, Goto, table, history
  <2>2. /\ job[w] # NoJob /\ job[w] \in JobIds /\ job[w] < nextId
        /\ jobs[job[w]].status \in {"running", "absent"}
        /\ \A v \in Workers : v # w => job[v] # job[w]
    BY <1>0, <2>1 DEF Ownership, TypeOK, Holding
  <2>3. Ownership'
    BY <1>0, <2>1 DEF Ownership, Holding
  <2>4. Unborn'
    <3>1. nextId \in Nat /\ job[w] \in Nat
      BY <1>0, <2>2, JobQueueAssumption DEF TypeOK, JobIds
    <3> QED
      BY <2>1, <2>2, <3>1 DEF IInv, Unborn, JobIds
  <2>5. Accounting'
    BY <2>1 DEF IInv, Accounting
  <2>6. Successes'
    BY <2>1, <2>2 DEF IInv, Successes
  <2>7. Postponed'
    BY <2>1 DEF IInv, Postponed
  <2> QED
    BY <1>0, <2>3, <2>4, <2>5, <2>6, <2>7 DEF IInv
<1>7. ASSUME NEW w \in Workers, MarkDone(w) \/ MarkDoneFails(w) PROVE IInv'
  <2>1. /\ pc[w] = "succeeded" /\ pc[w] \in Holding /\ job[w] \in succeeded
        /\ UNCHANGED <<nextId, history>>
    BY <1>7 DEF MarkDone, MarkDoneFails, Holding, IInv, Successes
  <2>2. PICK place : Leave(w, place) /\ place \notin Holding
    BY <1>7, <1>a DEF MarkDone, MarkDoneFails, Holding
  <2>3. CASE UNCHANGED jobs
    BY <1>0, <2>1, <2>2, <2>3, DropStep
  <2>4. CASE Update(job[w], DoneRow(job[w]))
    BY <1>0, <2>1, <2>2, <2>4, EndStep, MarkedRow
  <2> QED
    BY <1>7, <2>3, <2>4 DEF MarkDone, MarkDoneFails
<1>8. ASSUME NEW w \in Workers, MarkRetry(w) PROVE IInv'
  <2>1. /\ pc[w] \in Holding /\ job[w] \notin succeeded
        /\ UNCHANGED <<nextId, history>> /\ Leave(w, Rest(w)) /\ Rest(w) \notin Holding
        /\ Update(job[w], RetryRow(job[w], seen[w] + Delay))
    BY <1>8, <1>a DEF MarkRetry, Holding, IInv, Successes
  <2> QED
    BY <1>0, <2>1, EndStep, MarkedRow
<1>9. CASE Tick \/ \E t \in 0..Horizon : SetClock(t)
  BY <1>0, <1>9 DEF IInv, Ownership, Unborn, Accounting, Successes, Postponed, Tick, SetClock,
     table, worker, history
<1>10. ASSUME NEW S \in SUBSET JobIds, ResetUser(S) PROVE IInv'
  <2>1. /\ UNCHANGED <<nextId, pc, seen, job, starts, succeeded, readAt>>
        /\ \A id \in JobIds :
              \/ jobs'[id] = jobs[id]
              \/ jobs'[id].status = "absent" /\ jobs'[id].attempts = jobs[id].attempts
    <3>1. \A id \in JobIds : jobs[id] \in Row
      BY <1>0 DEF TypeOK
    <3> QED
      BY <1>10, <3>1 DEF ResetUser, Row, worker, history
  <2>2. Ownership'
    BY <1>0, <2>1 DEF Ownership, TypeOK
  <2>3. Unborn' /\ Accounting'
    BY <2>1 DEF IInv, Unborn, Accounting, Waiting
  <2>4. Successes' /\ Postponed'
    BY <2>1 DEF IInv, Successes, Postponed, Waiting
  <2> QED
    BY <1>0, <2>2, <2>3, <2>4 DEF IInv
<1>11. CASE UNCHANGED vars
  BY <1>0, <1>11 DEF IInv, Ownership, Unborn, Accounting, Successes, Postponed, vars,
     table, worker, history
<1> QED
  BY <1>1, <1>2, <1>3, <1>4, <1>5, <1>6, <1>7, <1>8, <1>9, <1>10, <1>11
  DEF Next, Producer, WorkerStep, FaultStep

\* The invariant holds throughout.
THEOREM Invariance == Spec => []IInv
BY InitIInv, NextIInv, PTL DEF Spec

\* No worker ever holds a row another holds, and a held row is running or was
\* deleted by a reset.
THEOREM SingleOwnerHolds == Spec => []SingleOwner
<1>1. IInv => SingleOwner
  BY DEF IInv, Ownership, SingleOwner
<1> QED
  BY <1>1, Invariance, PTL

\* The queue's variables keep their types.
THEOREM TypeCorrect == Spec => []TypeOK
<1>1. IInv => TypeOK
  BY DEF IInv
<1> QED
  BY <1>1, Invariance, PTL

\* No row is processed more than max_attempts times.
THEOREM AttemptsBoundedHolds == Spec => []AttemptsBounded
<1>1. IInv => AttemptsBounded
  <2> SUFFICES ASSUME IInv, NEW id \in JobIds PROVE starts[id] <= MaxAttempts
    BY DEF AttemptsBounded, IInv, Accounting
  <2>1. jobs[id] \in Row /\ starts[id] \in Nat
    BY DEF IInv, TypeOK
  <2>2. starts[id] <= jobs[id].attempts /\ jobs[id].attempts <= MaxAttempts
    BY DEF IInv, Accounting
  <2> QED
    BY <2>1, <2>2, JobQueueAssumption DEF Row
<1> QED
  BY <1>1, Invariance, PTL

\* A done row is one whose processor succeeded.
THEOREM DoneMeansSucceededHolds == Spec => []DoneMeansSucceeded
<1>1. IInv => DoneMeansSucceeded
  BY DEF IInv, Successes, DoneMeansSucceeded
<1> QED
  BY <1>1, Invariance, PTL

-----------------------------------------------------------------------------
(* What one step may do to the rows.                                       *)

Inserted(id) ==
    /\ id = nextId /\ nextId' = nextId + 1
    /\ jobs[id].status = "absent" /\ jobs'[id].status = "queued"
    /\ ~KeyTaken(jobs'[id].key)
    /\ \A other \in JobIds : other # id => jobs'[other] = jobs[other]

Moved(id) ==
    /\ jobs'[id].key = jobs[id].key /\ jobs'[id].type = jobs[id].type
    /\ \/ jobs[id].status \in Waiting /\ jobs'[id].status = "running"
       \/ jobs[id].status = "running" /\ jobs'[id].status \in {"done", "failed", "retry"}

Deleted(id) ==
    /\ DevControl /\ jobs'[id].status = "absent"
    /\ jobs'[id].key = jobs[id].key /\ jobs'[id].type = jobs[id].type
    /\ jobs'[id].attempts = jobs[id].attempts

\* A step inserts one row, or leaves the ids alone and moves rows along.
LEMMA RowSteps ==
  ASSUME IInv, [Next]_vars
  PROVE  \/ \E id \in JobIds : Inserted(id)
         \/ /\ nextId' = nextId
            /\ \A id \in JobIds : jobs'[id] = jobs[id] \/ Moved(id) \/ Deleted(id)
<1>0. TypeOK /\ Ownership
  BY DEF IInv
<1>1. ASSUME NEW t \in Types, NEW k \in Keys \cup {NoKey}, NEW r \in 0..(now + Lead),
             Enqueue(t, k, r)
      PROVE  Inserted(nextId) /\ nextId \in JobIds
  <2>1. nextId \in JobIds /\ nextId' = nextId + 1
    BY <1>0, <1>1, JobQueueAssumption DEF Enqueue, TypeOK, JobIds
  <2>2. jobs'[nextId] = [status |-> "queued", type |-> t, key |-> k, runAt |-> r, attempts |-> 0]
    BY <1>0, <1>1, <2>1 DEF Enqueue, TypeOK
  <2>3. \A other \in JobIds : other # nextId => jobs'[other] = jobs[other]
    BY <1>0, <1>1, <2>1 DEF Enqueue, TypeOK
  <2>4. jobs[nextId].status = "absent"
    BY <2>1 DEF IInv, Unborn, JobIds
  <2> QED
    BY <1>1, <2>1, <2>2, <2>3, <2>4 DEF Enqueue, Inserted
<1>2. ASSUME NEW w \in Workers, NEW id \in JobIds, IsNext(w, id),
             jobs' = [jobs EXCEPT ![id] = RunningRow(id)]
      PROVE  \A other \in JobIds : jobs'[other] = jobs[other] \/ Moved(other)
  <2>1. jobs[id] \in Row /\ jobs'[id] = RunningRow(id)
    BY <1>0, <1>2 DEF TypeOK
  <2>2. jobs'[id].key = jobs[id].key /\ jobs'[id].type = jobs[id].type
    BY <2>1 DEF Row, RunningRow
  <2>3. Moved(id)
    BY <1>2, <2>1, <2>2, ClaimedRow DEF Moved
  <2>4. \A other \in JobIds : other # id => jobs'[other] = jobs[other]
    BY <1>0, <1>2 DEF TypeOK
  <2> QED
    BY <2>3, <2>4
<1>3. ASSUME NEW w \in Workers, pc[w] \in Holding, NEW row \in Row,
             row \in {DoneRow(job[w]), RetryRow(job[w], seen[w] + Delay)}, Update(job[w], row)
      PROVE  \A other \in JobIds : jobs'[other] = jobs[other] \/ Moved(other)
  <2>1. job[w] \in JobIds /\ jobs[job[w]].status \in {"running", "absent"}
    BY <1>0, <1>3 DEF TypeOK, Ownership
  <2>2. row.status \in {"done", "failed", "retry"}
    BY <1>3, MarkedRow
  <2>3. jobs[job[w]] \in Row
    BY <1>0, <2>1 DEF TypeOK
  <2>4. row.key = jobs[job[w]].key /\ row.type = jobs[job[w]].type
    BY <1>3, <2>3 DEF Row, DoneRow, RetryRow
  <2> QED
    BY <1>0, <1>3, <2>1, <2>2, <2>4 DEF Update, Moved, TypeOK
<1>4. ASSUME NEW w \in Workers,
             MarkDone(w) \/ MarkDoneFails(w) \/ MarkRetry(w)
      PROVE  /\ nextId' = nextId
             /\ \A other \in JobIds : jobs'[other] = jobs[other] \/ Moved(other)
  <2>1. pc[w] \in Holding /\ nextId' = nextId
    BY <1>4 DEF MarkDone, MarkDoneFails, MarkRetry, Holding
  <2>2. DoneRow(job[w]) \in Row /\ RetryRow(job[w], seen[w] + Delay) \in Row
    BY <2>1, MarkedRow
  <2>3. \/ UNCHANGED jobs
        \/ Update(job[w], DoneRow(job[w]))
        \/ Update(job[w], RetryRow(job[w], seen[w] + Delay))
    BY <1>4 DEF MarkDone, MarkDoneFails, MarkRetry
  <2> QED
    BY <1>3, <2>1, <2>2, <2>3
<1>5. ASSUME NEW S \in SUBSET JobIds, ResetUser(S)
      PROVE  nextId' = nextId /\ \A id \in JobIds : jobs'[id] = jobs[id] \/ Deleted(id)
  <2>1. \A id \in JobIds : jobs[id] \in Row
    BY <1>0 DEF TypeOK
  <2> QED
    BY <1>5, <2>1 DEF ResetUser, Deleted, Row
<1>6. ASSUME NEW w \in Workers, ClaimFails(w)
      PROVE  /\ nextId' = nextId
             /\ \A other \in JobIds : jobs'[other] = jobs[other] \/ Moved(other)
  BY <1>2, <1>6 DEF ClaimFails
<1>7. ASSUME NEW w \in Workers, NEW id \in JobIds, Claim(w, id)
      PROVE  /\ nextId' = nextId
             /\ \A other \in JobIds : jobs'[other] = jobs[other] \/ Moved(other)
  BY <1>2, <1>7 DEF Claim
<1>8. CASE UNCHANGED <<jobs, nextId>>
  BY <1>8
<1> QED
  BY <1>1, <1>4, <1>5, <1>6, <1>7, <1>8
  DEF Next, Producer, WorkerStep, FaultStep, StartRunDue, ReadClock, DrainLimitReached,
      ClaimNothing, ProcessOk, ProcessErr, MarkRetryFails, Crash, SettleReadClock, SettleOk,
      SettleNotYet, SettleTimeout, Tick, SetClock, vars, table

\* Done and failed rows never move again.
THEOREM SettledFinalHolds == Spec => SettledFinal
<1>1. ASSUME IInv, [Next]_vars, NEW id \in JobIds, jobs[id].status \in Settled
      PROVE  jobs'[id].status \in {jobs[id].status, "absent"}
  BY <1>1, RowSteps DEF Inserted, Moved, Deleted, Settled, Waiting
<1>2. IInv /\ [Next]_vars =>
         [\A id \in JobIds : jobs[id].status \in Settled
                               => jobs'[id].status \in {jobs[id].status, "absent"}]_vars
  BY <1>1
<1> QED
  BY <1>2, Invariance, PTL DEF Spec, SettledFinal

\* A failed attempt is postponed by the delay.
THEOREM RetryPostponedHolds == Spec => RetryPostponed
<1>1. ASSUME IInv, [Next]_vars, NEW id \in JobIds, NEW w \in Workers,
             job[w] # id, job'[w] = id, NEW t \in readAt[id]
      PROVE  seen[w] >= t + Delay
  <2>1. IsNext(w, id)
    <3>1. id # NoJob
      BY JobQueueAssumption DEF JobIds, NoJob
    <3>2. \A v \in Workers : \A place :
             Leave(v, place) => \A u \in Workers : job'[u] \in {job[u], NoJob}
      BY <1>1 DEF Leave, IInv, TypeOK
    <3>3. ASSUME NEW v \in Workers, NEW other \in JobIds, Claim(v, other)
          PROVE  IsNext(w, id)
      BY <1>1, <3>3 DEF Claim, IInv, TypeOK
    <3> QED
      BY <1>1, <3>1, <3>2, <3>3
      DEF Next, Producer, Enqueue, WorkerStep, FaultStep, StartRunDue, ReadClock,
          DrainLimitReached, ClaimNothing, ClaimFails, ProcessOk, ProcessErr, MarkDone,
          MarkDoneFails, MarkRetry, MarkRetryFails, Crash, SettleReadClock, SettleOk,
          SettleNotYet, SettleTimeout, Tick, SetClock, ResetUser, vars, worker
  <2>2. jobs[id].status \in Waiting /\ jobs[id].runAt <= seen[w]
    BY <2>1 DEF IsNext, Claimable
  <2>3. t + Delay <= jobs[id].runAt
    BY <1>1, <2>2 DEF IInv, Postponed
  <2>4. t \in Nat /\ jobs[id] \in Row /\ seen[w] \in Nat
    BY <1>1 DEF IInv, TypeOK
  <2> QED
    BY <2>2, <2>3, <2>4, JobQueueAssumption DEF Row
<1>2. IInv /\ [Next]_vars =>
         [\A id \in JobIds, w \in Workers :
             job[w] # id /\ job'[w] = id => \A t \in readAt[id] : seen[w] >= t + Delay]_vars
  BY <1>1
<1> QED
  BY <1>2, Invariance, PTL DEF Spec, RetryPostponed

-----------------------------------------------------------------------------

\* No two rows that are in the table have the same key.
KeyInv ==
    \A a, b \in JobIds :
        (/\ jobs[a].status # "absent" /\ jobs[b].status # "absent"
         /\ jobs[a].key = jobs[b].key /\ jobs[a].key # NoKey) => a = b

\* The key invariant is kept by every step.
LEMMA NextKeyInv ==
  ASSUME IInv, KeyInv, [Next]_vars
  PROVE  KeyInv'
<1>1. ASSUME NEW id \in JobIds, Inserted(id) PROVE KeyInv'
  <2>1. \A other \in JobIds :
          jobs[other].status # "absent" /\ jobs[other].key = jobs'[id].key
             => jobs'[id].key = NoKey
    BY <1>1 DEF Inserted, KeyTaken
  <2> QED
    BY <1>1, <2>1 DEF Inserted, KeyInv
<1>2. CASE /\ nextId' = nextId
           /\ \A id \in JobIds : jobs'[id] = jobs[id] \/ Moved(id) \/ Deleted(id)
  <2>1. \A id \in JobIds : /\ jobs'[id].key = jobs[id].key
                           /\ jobs'[id].status # "absent" => jobs[id].status # "absent"
    BY <1>2 DEF Moved, Deleted, Waiting
  <2> QED
    BY <1>2, <2>1 DEF KeyInv
<1> QED
  BY <1>1, <1>2, RowSteps

\* The work of one idempotency key is never in the hands of two workers whose
\* rows a reset has left in the table.
THEOREM KeyOnceHolds == Spec => []KeyOnce
<1>1. Init => KeyInv
  BY DEF Init, KeyInv, JobIds
<1>2. IInv /\ KeyInv => KeyOnce
  <2> SUFFICES ASSUME IInv, KeyInv PROVE KeyOnce
    OBVIOUS
  <2>1. ASSUME NEW v \in Workers, NEW w \in Workers, job[v] # NoJob, job[w] # NoJob,
               jobs[job[v]].status # "absent", jobs[job[w]].status # "absent",
               jobs[job[v]].key = jobs[job[w]].key, jobs[job[v]].key # NoKey
        PROVE  v = w
    <3>1. job[v] \in JobIds /\ job[w] \in JobIds
      BY <2>1 DEF IInv, TypeOK
    <3>2. job[v] = job[w]
      BY <2>1, <3>1 DEF KeyInv
    <3> QED
      BY <2>1, <3>2 DEF IInv, Ownership
  <2> QED
    BY <2>1 DEF KeyInv, KeyOnce
<1>3. IInv /\ KeyInv /\ [Next]_vars => KeyInv'
  BY NextKeyInv
<1> QED
  BY <1>1, <1>2, <1>3, Invariance, PTL DEF Spec

\* No success is repeated, for a row or for a key whose row no reset deleted:
\* what a stopped worker or a failed statement leaves behind stays running.
THEOREM SucceedsOnceHolds == Spec => SucceedsOnce
<1>1. Init => KeyInv
  BY DEF Init, KeyInv, JobIds
<1>2. IInv /\ KeyInv /\ [Next]_vars => KeyInv'
  BY NextKeyInv
<1>3. ASSUME IInv, KeyInv, NEW w \in Workers, pc[w] = "processing", NEW id \in succeeded
      PROVE  /\ id # job[w]
             /\ (/\ jobs[id].status # "absent" /\ jobs[job[w]].status # "absent"
                 /\ jobs[id].key = jobs[job[w]].key) => jobs[id].key = NoKey
  <2>1. job[w] \in JobIds /\ job[w] \notin succeeded
    BY <1>3 DEF IInv, TypeOK, Ownership, Successes, Holding
  <2>2. id \in JobIds
    BY <1>3 DEF IInv, TypeOK
  <2> QED
    BY <1>3, <2>1, <2>2 DEF KeyInv
<1>4. IInv /\ KeyInv =>
        [\A w \in Workers :
            pc[w] = "processing" /\ pc'[w] = "succeeded" =>
               \A id \in succeeded :
                  /\ id # job[w]
                  /\ (/\ jobs[id].status # "absent" /\ jobs[job[w]].status # "absent"
                      /\ jobs[id].key = jobs[job[w]].key) => jobs[id].key = NoKey]_vars
  BY <1>3
<1> QED
  BY <1>1, <1>2, <1>4, Invariance, PTL DEF Spec, SucceedsOnce

-----------------------------------------------------------------------------
(* Requests to run what is due.                                            *)

\* What a request found when it began are rows of the types it waits for.
AskedRows ==
    \A w \in Workers : \A id \in asked[w] :
        id \in JobIds /\ id < nextId /\ jobs[id].type \in Waited

\* A step never changes the type of a row a request found, and a new request finds
\* rows of the types it waits for.
LEMMA NextAskedRows ==
  ASSUME IInv, AskedRows, [Next]_vars
  PROVE  AskedRows'
<1>1. ASSUME NEW w \in Workers
      PROVE  asked'[w] \subseteq asked[w] \/ asked'[w] = DueActive(Waited, now)
  <2>1. asked \in [Workers -> SUBSET JobIds]
    BY DEF IInv, TypeOK
  <2>2. \A v \in Workers : \A place : Leave(v, place) => asked'[w] \subseteq asked[w]
    BY <2>1 DEF Leave
  <2>3. \A v \in Workers : StartRunDue(v) =>
           asked'[w] \subseteq asked[w] \/ asked'[w] = DueActive(Waited, now)
    BY <2>1 DEF StartRunDue
  <2> QED
    BY <2>2, <2>3
    DEF Next, Producer, Enqueue, WorkerStep, FaultStep, ReadClock,
        DrainLimitReached, Claim, ClaimNothing, ClaimFails, ProcessOk, ProcessErr, MarkDone,
        MarkDoneFails, MarkRetry, MarkRetryFails, Crash, SettleReadClock, SettleOk,
        SettleNotYet, SettleTimeout, Tick, SetClock, ResetUser, vars, worker
<1>2. \A id \in DueActive(Waited, now) :
         id \in JobIds /\ id < nextId /\ jobs[id].type \in Waited
  <2>1. nextId \in Nat /\ \A id \in JobIds : id \in Nat
    BY DEF IInv, TypeOK, JobIds
  <2> QED
    BY <2>1 DEF DueActive, Active, Waiting, IInv, Unborn
<1>3. ASSUME NEW id \in JobIds, id < nextId, jobs[id].type \in Waited
      PROVE  id < nextId' /\ jobs'[id].type \in Waited
  <2>1. id \in Nat /\ nextId \in Nat
    BY DEF IInv, TypeOK, JobIds
  <2>2. CASE \E new \in JobIds : Inserted(new)
    BY <1>3, <2>1, <2>2 DEF Inserted
  <2>3. CASE /\ nextId' = nextId
             /\ \A other \in JobIds : jobs'[other] = jobs[other] \/ Moved(other) \/ Deleted(other)
    BY <1>3, <2>3 DEF Moved, Deleted
  <2> QED
    BY <2>2, <2>3, RowSteps
<1> QED
  BY <1>1, <1>2, <1>3 DEF AskedRows

\* When a request answers ok, every job it was asked for has ended, was postponed past
\* the clock or was deleted, whoever had it in hand (waitForSettledJobTypes).
THEOREM RunDueCompleteHolds == Spec => RunDueComplete
<1> DEFINE Complete ==
      \A w \in Drainers :
          pc[w] # "answered" /\ pc'[w] = "answered"
             => \A id \in asked[w] : \/ jobs[id].status \in Settled \cup {"absent"}
                                     \/ jobs[id].runAt > seen[w]
<1>1. Init => AskedRows
  BY DEF Init, AskedRows
<1>2. IInv /\ AskedRows /\ [Next]_vars => AskedRows'
  BY NextAskedRows
<1>3. IInv /\ AskedRows /\ [Next]_vars => [Complete]_vars
  <2> SUFFICES ASSUME IInv, AskedRows, [Next]_vars, NEW w \in Drainers,
                      pc[w] # "answered", pc'[w] = "answered", NEW id \in asked[w]
               PROVE  \/ jobs[id].status \in Settled \cup {"absent"}
                      \/ jobs[id].runAt > seen[w]
    OBVIOUS
  <2>1. w \in Workers /\ pc \in [Workers -> Places] /\ seen[w] \in Nat
    BY DEF IInv, TypeOK, Workers
  <2>2. \A v \in Workers : Rest(v) # "answered"
    BY DEF Rest
  <2>3. \A v \in Workers : \A place : Goto(v, place) => v = w /\ place = "answered"
    BY <2>1 DEF Goto
  <2>4. \A v \in Workers : \A place : Leave(v, place) => v = w /\ place = "answered"
    BY <2>3 DEF Leave
  <2>5. SettleOk(w)
    BY <2>1, <2>2, <2>3, <2>4
    DEF Next, Producer, Enqueue, WorkerStep, FaultStep, StartRunDue, ReadClock,
        DrainLimitReached, Claim, ClaimNothing, ClaimFails, ProcessOk, ProcessErr, MarkDone,
        MarkDoneFails, MarkRetry, MarkRetryFails, Crash, SettleReadClock, SettleOk,
        SettleNotYet, SettleTimeout, Tick, SetClock, ResetUser, vars, worker
  <2>6. /\ id \in JobIds /\ jobs[id].type \in Waited /\ jobs[id].status \in Statuses
        /\ jobs[id].runAt \in Nat
    BY <2>1 DEF AskedRows, IInv, TypeOK, Row
  <2>7. id \notin DueActive(Waited, seen[w])
    BY <2>5 DEF SettleOk
  <2>8. jobs[id].status \notin Active \/ ~(jobs[id].runAt <= seen[w])
    BY <2>6, <2>7 DEF DueActive
  <2> QED
    BY <2>1, <2>6, <2>8 DEF Statuses
<1> QED
  BY <1>1, <1>2, <1>3, Invariance, PTL DEF Spec, RunDueComplete

-----------------------------------------------------------------------------
(* The refinement.                                                         *)

\* The owner the lifecycle sees.
Owner(id) == IF jobs[id].status = "running" THEN Holder(id) ELSE "nobody"

\* A row that no step has reached yet has had no attempt.
Untried == \A id \in JobIds : id >= nextId => jobs[id].attempts = 0

\* A row the lifecycle sees unchanged.
Unmoved(id) ==
    Phase(id)' = Phase(id) /\ Owner(id)' = Owner(id) /\ jobs'[id].attempts = jobs[id].attempts

\* The owner of a running row is whoever has it in hand.
LEMMA OwnerFacts ==
  ASSUME IInv, NEW id \in JobIds
  PROVE  /\ \A w \in Workers : job[w] = id /\ jobs[id].status = "running" => Owner(id) = w
         /\ (\A w \in Workers : job[w] # id) => Owner(id) = "nobody"
         /\ jobs[id].status # "running" => Owner(id) = "nobody"
         /\ \A w \in Workers : Owner(id) = w => job[w] = id
<1>1. id # NoJob
  BY DEF JobIds, NoJob
<1>2. \A v, w \in Workers : job[v] = id /\ job[w] = id => v = w
  BY <1>1 DEF IInv, Ownership
<1>3. \A w \in Workers : job[w] = id => Holder(id) = w
  BY <1>2 DEF Holder
<1>4. (\A w \in Workers : job[w] # id) => Holder(id) = "nobody"
  BY DEF Holder
<1>5. "nobody" \notin Workers
  BY JobQueueAssumption
<1> QED
  BY <1>3, <1>4, <1>5 DEF Owner

\* The same after a step.
LEMMA OwnerFactsNext ==
  ASSUME IInv', NEW id \in JobIds
  PROVE  /\ \A w \in Workers : job'[w] = id /\ jobs'[id].status = "running" => Owner(id)' = w
         /\ (\A w \in Workers : job'[w] # id) => Owner(id)' = "nobody"
         /\ jobs'[id].status # "running" => Owner(id)' = "nobody"
<1>1. id # NoJob
  BY DEF JobIds, NoJob
<1>2. \A v, w \in Workers : job'[v] = id /\ job'[w] = id => v = w
  BY <1>1 DEF IInv, Ownership
<1>3. \A w \in Workers : job'[w] = id => Holder(id)' = w
  BY <1>2 DEF Holder
<1>4. (\A w \in Workers : job'[w] # id) => Holder(id)' = "nobody"
  BY DEF Holder
<1> QED
  BY <1>3, <1>4 DEF Owner

\* A row that keeps its place in the table and its holder is not moved.
LEMMA SameRow ==
  ASSUME IInv, IInv', NEW id \in JobIds, jobs'[id] = jobs[id],
         id < nextId' <=> id < nextId,
         jobs[id].status = "running" => \A w \in Workers : job'[w] = id <=> job[w] = id
  PROVE  Unmoved(id)
<1>1. Phase(id)' = Phase(id)
  BY DEF Phase
<1>2. CASE jobs[id].status # "running"
  BY <1>1, <1>2, OwnerFacts, OwnerFactsNext DEF Unmoved
<1>3. CASE \E w \in Workers : jobs[id].status = "running" /\ job[w] = id
  BY <1>1, <1>3, OwnerFacts, OwnerFactsNext DEF Unmoved
<1>4. CASE jobs[id].status = "running" /\ \A w \in Workers : job[w] # id
  BY <1>1, <1>4, OwnerFacts, OwnerFactsNext DEF Unmoved
<1> QED
  BY <1>2, <1>3, <1>4

\* When no row is moved the lifecycle sees nothing.
LEMMA NothingSeen ==
  ASSUME \A id \in JobIds : Unmoved(id)
  PROVE  UNCHANGED Lifecycle!lifeVars
BY DEF Unmoved, Owner, Lifecycle!lifeVars

\* When one row is moved the lifecycle sees the step of that row.
LEMMA LifeSteps ==
  ASSUME NEW id \in JobIds, \A other \in JobIds : other # id => Unmoved(other)
  PROVE  /\ (/\ Phase(id) = "unborn" /\ Phase(id)' = "waiting" /\ Owner(id)' = "nobody"
             /\ jobs'[id].attempts = jobs[id].attempts) => Lifecycle!Create(id)
         /\ \A o \in Workers \cup {"nobody"} :
               (/\ Phase(id) = "waiting" /\ Phase(id)' = "held" /\ Owner(id)' = o
                /\ o # "nobody" => \A other \in JobIds : Owner(other) # o
                /\ jobs[id].attempts < MaxAttempts
                /\ jobs'[id].attempts = jobs[id].attempts + 1) => Lifecycle!Take(id, o)
         /\ (/\ Owner(id) # "nobody" /\ Owner(id)' = "nobody"
             /\ jobs'[id].attempts = jobs[id].attempts)
               => /\ Phase(id)' = "completed" => Lifecycle!Complete(id)
                  /\ Phase(id)' = "waiting" /\ jobs[id].attempts < MaxAttempts
                        => Lifecycle!GiveBack(id)
                  /\ Phase(id)' = "abandoned" /\ jobs[id].attempts = MaxAttempts
                        => Lifecycle!GiveUp(id)
                  /\ Phase(id)' = "held" => Lifecycle!Orphan(id)
BY DEF Unmoved, Owner, Lifecycle!Create, Lifecycle!Take, Lifecycle!Complete, Lifecycle!GiveBack,
       Lifecycle!GiveUp, Lifecycle!Orphan, Lifecycle!Become

\* A claim, its reply received or lost: the row goes to a worker or to nobody.
ClaimedBy(w, id) ==
    /\ pc[w] = "claiming" /\ IsNext(w, id) /\ jobs' = [jobs EXCEPT ![id] = RunningRow(id)]
    /\ nextId' = nextId
    /\ job' \in {job, [job EXCEPT ![w] = id]}

\* A worker lets go of its row, which it has ended, given back or left as it was.
LetGo(w) ==
    /\ pc[w] \in Holding /\ nextId' = nextId /\ job' = [job EXCEPT ![w] = NoJob]
    /\ \/ jobs' = jobs
       \/ Update(job[w], DoneRow(job[w]))
       \/ Update(job[w], RetryRow(job[w], seen[w] + Delay))

\* What a step does to the table and to what the workers hold.
LEMMA LifeKinds ==
  ASSUME IInv, [Next]_vars
  PROVE  \/ UNCHANGED <<jobs, nextId, job>>
         \/ \E t \in Types, k \in Keys \cup {NoKey}, r \in 0..(now + Lead) : Enqueue(t, k, r)
         \/ \E w \in Workers, id \in JobIds : ClaimedBy(w, id)
         \/ \E w \in Workers : LetGo(w)
         \/ \E S \in SUBSET JobIds : ResetUser(S)
<1>1. ASSUME NEW w \in Workers, NEW place, Leave(w, place), pc[w] \notin Holding
      PROVE  job' = job
  <2>1. job[w] = NoJob /\ job \in [Workers -> JobIds \cup {NoJob}]
    BY <1>1 DEF IInv, TypeOK, Ownership
  <2> QED
    BY <1>1, <2>1 DEF Leave
<1>2. ASSUME NEW w \in Workers, ClaimFails(w)
      PROVE  UNCHANGED <<jobs, nextId, job>> \/ \E id \in JobIds : ClaimedBy(w, id)
  BY <1>1, <1>2 DEF ClaimFails, ClaimedBy, Holding
<1>3. ASSUME NEW w \in Workers, NEW id \in JobIds, Claim(w, id) PROVE ClaimedBy(w, id)
  BY <1>3 DEF Claim, ClaimedBy
<1>4. ASSUME NEW w \in Workers,
             MarkDone(w) \/ MarkDoneFails(w) \/ MarkRetry(w) \/ MarkRetryFails(w)
      PROVE  LetGo(w)
  BY <1>4 DEF MarkDone, MarkDoneFails, MarkRetry, MarkRetryFails, LetGo, Leave, Holding, table
<1>5. ASSUME NEW w \in Workers, Crash(w)
      PROVE  UNCHANGED <<jobs, nextId, job>> \/ LetGo(w)
  BY <1>1, <1>5 DEF Crash, LetGo, Leave, table
<1>6. ASSUME NEW w \in Workers,
             \/ StartRunDue(w) \/ ReadClock(w) \/ DrainLimitReached(w) \/ ClaimNothing(w)
             \/ ProcessOk(w) \/ ProcessErr(w) \/ SettleReadClock(w) \/ SettleOk(w)
             \/ SettleNotYet(w) \/ SettleTimeout(w)
      PROVE  UNCHANGED <<jobs, nextId, job>>
  BY <1>1, <1>6
  DEF StartRunDue, ReadClock, DrainLimitReached, ClaimNothing, ProcessOk, ProcessErr,
      SettleReadClock, SettleOk, SettleNotYet, SettleTimeout, table, Holding
<1>7. UNCHANGED vars \/ Tick \/ (\E t \in 0..Horizon : SetClock(t)) => UNCHANGED <<jobs, nextId, job>>
  BY DEF vars, Tick, SetClock, table, worker
<1> QED
  BY <1>2, <1>3, <1>4, <1>5, <1>6, <1>7 DEF Next, Producer, WorkerStep, FaultStep

\* Every step is one of the lifecycle for one row, the removal of some, or nothing.
LEMMA LifecycleStep ==
  ASSUME IInv, IInv', Untried, [Next]_vars
  PROVE  [Lifecycle!Next]_(Lifecycle!lifeVars)
<1>0. /\ jobs \in [JobIds -> Row] /\ job \in [Workers -> JobIds \cup {NoJob}] /\ nextId \in Nat
      /\ \A id \in JobIds : id \in Nat /\ id # NoJob
  BY DEF IInv, TypeOK, JobIds, NoJob
<1>1. CASE UNCHANGED <<jobs, nextId, job>>
  BY <1>1, SameRow, NothingSeen
<1>2. ASSUME NEW t \in Types, NEW k \in Keys \cup {NoKey}, NEW r \in 0..(now + Lead),
             Enqueue(t, k, r)
      PROVE  \E id \in JobIds : Lifecycle!Create(id)
  <2> DEFINE new == [status |-> "queued", type |-> t, key |-> k, runAt |-> r, attempts |-> 0]
  <2>1. nextId \in JobIds /\ nextId' = nextId + 1 /\ job' = job
    BY <1>0, <1>2, JobQueueAssumption DEF Enqueue, JobIds, worker, IInv, TypeOK
  <2>2. PICK id \in JobIds : id = nextId
    BY <2>1
  <2>3. /\ new.status = "queued" /\ new.attempts = 0 /\ jobs'[id] = new
        /\ \A other \in JobIds : other # id => jobs'[other] = jobs[other]
    BY <1>0, <1>2, <2>2 DEF Enqueue
  <2>4. jobs[id].status = "absent" /\ jobs[id].attempts = 0
    BY <1>0, <2>2 DEF IInv, Unborn, Untried
  <2>5. \A other \in JobIds : other # id => Unmoved(other)
    BY <1>0, <2>1, <2>2, <2>3, SameRow
  <2>6. Phase(id) = "unborn" /\ Phase(id)' = "waiting" /\ Owner(id)' = "nobody"
    BY <1>0, <2>2, <2>3, <2>4, OwnerFactsNext DEF Phase, Waiting
  <2> QED
    BY <2>3, <2>4, <2>5, <2>6, LifeSteps
<1>3. ASSUME NEW w \in Workers, NEW id \in JobIds, ClaimedBy(w, id)
      PROVE  \E o \in Workers \cup {"nobody"} : Lifecycle!Take(id, o)
  <2>1. /\ jobs[id].status \in Waiting /\ jobs'[id].status = "running"
        /\ jobs[id].attempts < MaxAttempts /\ jobs'[id].attempts = jobs[id].attempts + 1
        /\ \A v \in Workers : job[v] # id
        /\ \A other \in JobIds : other # id => jobs'[other] = jobs[other]
    BY <1>3, ClaimedRow DEF ClaimedBy
  <2>2. job[w] = NoJob
    BY <1>3 DEF ClaimedBy, IInv, Ownership, Holding
  <2>3. /\ \A v \in Workers : v # w => job'[v] = job[v]
        /\ job'[w] \in {NoJob, id}
    BY <1>0, <1>3, <2>2 DEF ClaimedBy
  <2>4. \A other \in JobIds : other # id => Unmoved(other)
    <3> SUFFICES ASSUME NEW other \in JobIds, other # id PROVE Unmoved(other)
      OBVIOUS
    <3>1. \A v \in Workers : job'[v] = other <=> job[v] = other
      BY <1>0, <2>2, <2>3
    <3> QED
      BY <1>3, <2>1, <3>1, SameRow DEF ClaimedBy
  <2>5. Phase(id) = "waiting" /\ Phase(id)' = "held"
    BY <2>1 DEF Phase, Waiting
  <2>6. CASE job'[w] = id
    <3>1. Owner(id)' = w
      BY <2>1, <2>6, OwnerFactsNext
    <3>2. \A other \in JobIds : Owner(other) # w
      BY <1>0, <2>2, OwnerFacts
    <3> QED
      BY <2>1, <2>4, <2>5, <3>1, <3>2, LifeSteps
  <2>7. CASE job'[w] = NoJob
    <3>1. Owner(id)' = "nobody"
      BY <1>0, <2>1, <2>3, <2>7, OwnerFactsNext
    <3> QED
      BY <2>1, <2>4, <2>5, <3>1, LifeSteps
  <2> QED
    BY <2>3, <2>6, <2>7
<1>4. ASSUME NEW w \in Workers, LetGo(w)
      PROVE  [Lifecycle!Next]_(Lifecycle!lifeVars)
  <2>1. PICK id \in JobIds : id = job[w]
    BY <1>4, MarkedRow DEF LetGo
  <2>2. /\ jobs[id].status \in {"running", "absent"}
        /\ nextId' = nextId /\ job'[w] = NoJob /\ \A v \in Workers : v # w => job'[v] = job[v]
        /\ \A v \in Workers : v # w => job[v] # id
    BY <1>0, <1>4, <2>1 DEF LetGo, IInv, Ownership
  <2>3. \/ jobs'[id] = jobs[id]
        \/ jobs[id].status = "running" /\ jobs'[id] = DoneRow(id)
        \/ jobs[id].status = "running" /\ jobs'[id] = RetryRow(id, seen[w] + Delay)
    BY <1>0, <1>4, <2>1, <2>2 DEF LetGo, Update
  <2>4. \A other \in JobIds : other # id => Unmoved(other)
    <3> SUFFICES ASSUME NEW other \in JobIds, other # id PROVE Unmoved(other)
      OBVIOUS
    <3>1. \A v \in Workers : job'[v] = other <=> job[v] = other
      BY <1>0, <2>1, <2>2
    <3>2. jobs'[other] = jobs[other]
      BY <1>0, <1>4, <2>1 DEF LetGo, Update
    <3> QED
      BY <2>2, <3>1, <3>2, SameRow
  <2>5. \A v \in Workers : job'[v] # id
    BY <1>0, <2>2
  <2>6. Owner(id)' = "nobody"
    BY <2>5, OwnerFactsNext
  <2>7. CASE jobs[id].status = "absent"
    <3>1. jobs'[id] = jobs[id]
      BY <2>3, <2>7
    <3>2. Unmoved(id)
      BY <2>2, <2>7, <3>1, SameRow
    <3> QED
      BY <2>4, <3>2, NothingSeen
  <2>8. CASE jobs[id].status = "running"
    <3>1. Owner(id) = w /\ w # "nobody"
      BY <2>1, <2>8, OwnerFacts, JobQueueAssumption
    <3>2. CASE jobs'[id] = jobs[id]
      <4>1. Phase(id)' = "held"
        BY <2>8, <3>2 DEF Phase, Waiting
      <4> QED
        BY <2>4, <2>6, <3>1, <3>2, <4>1, LifeSteps DEF Lifecycle!Next
    <3>3. CASE jobs'[id] = DoneRow(id)
      <4>1. jobs'[id].status = "done" /\ jobs'[id].attempts = jobs[id].attempts
        BY <1>4, <2>1, <3>3, MarkedRow DEF LetGo
      <4>2. Phase(id)' = "completed"
        BY <4>1 DEF Phase, Waiting
      <4> QED
        BY <2>4, <2>6, <3>1, <4>1, <4>2, LifeSteps DEF Lifecycle!Next
    <3>4. CASE jobs'[id] = RetryRow(id, seen[w] + Delay)
      <4>1. /\ jobs'[id].attempts = jobs[id].attempts
            /\ \/ jobs'[id].status = "failed" /\ jobs[id].attempts = MaxAttempts
               \/ jobs'[id].status = "retry" /\ jobs[id].attempts < MaxAttempts
        BY <1>4, <2>1, <3>4, MarkedRow DEF LetGo
      <4>2. \/ Phase(id)' = "abandoned" /\ jobs[id].attempts = MaxAttempts
            \/ Phase(id)' = "waiting" /\ jobs[id].attempts < MaxAttempts
        BY <4>1 DEF Phase, Waiting
      <4> QED
        BY <2>4, <2>6, <3>1, <4>1, <4>2, LifeSteps DEF Lifecycle!Next
    <3> QED
      BY <2>3, <3>2, <3>3, <3>4
  <2> QED
    BY <2>2, <2>7, <2>8
<1>5. ASSUME NEW S \in SUBSET JobIds, ResetUser(S)
      PROVE  \E T \in SUBSET JobIds : Lifecycle!Remove(T)
  <2>0. PICK T \in SUBSET JobIds : T = {id \in S : id < nextId}
    OBVIOUS
  <2>1. nextId' = nextId /\ job' = job
    BY <1>5 DEF ResetUser, worker
  <2>2. ASSUME NEW id \in JobIds
        PROVE  /\ id \in T => /\ Phase(id) # "unborn" /\ Phase(id)' = "gone"
                              /\ Owner(id)' = "nobody"
               /\ id \notin T => Phase(id)' = Phase(id) /\ Owner(id)' = Owner(id)
               /\ jobs'[id].attempts = jobs[id].attempts
    <3>1. jobs[id] \in Row /\ jobs'[id] = IF id \in S THEN [jobs[id] EXCEPT !.status = "absent"]
                                          ELSE jobs[id]
      BY <1>0, <1>5 DEF ResetUser
    <3>2. jobs'[id].attempts = jobs[id].attempts
          /\ jobs'[id].status = IF id \in S THEN "absent" ELSE jobs[id].status
      BY <3>1 DEF Row
    <3>3. CASE id \in T
      <4>1. Phase(id) # "unborn"
        BY <2>0, <3>1, <3>3 DEF Phase, Row, Statuses, Active, Waiting, Settled
      <4>2. Phase(id)' = "gone"
        BY <2>0, <2>1, <3>2, <3>3 DEF Phase, Waiting
      <4> QED
        BY <2>0, <3>2, <3>3, <4>1, <4>2, OwnerFactsNext
    <3>4. CASE id \notin S
      BY <2>0, <2>1, <3>1, <3>2, <3>4, SameRow DEF Unmoved
    <3>5. CASE id \in S /\ ~(id < nextId)
      <4>1. jobs[id].status = "absent" /\ jobs'[id].status = "absent"
        BY <1>0, <3>2, <3>5 DEF IInv, Unborn
      <4>2. Phase(id) = "unborn" /\ Phase(id)' = "unborn"
        BY <2>1, <3>5, <4>1 DEF Phase, Waiting
      <4> QED
        BY <2>0, <3>2, <3>5, <4>1, <4>2, OwnerFacts, OwnerFactsNext
    <3> QED
      BY <2>0, <3>3, <3>4, <3>5
  <2>3. Lifecycle!Remove(T)
    BY <2>2 DEF Lifecycle!Remove, Owner
  <2> QED
    BY <2>3
<1> QED
  BY <1>1, <1>2, <1>3, <1>4, <1>5, LifeKinds DEF Lifecycle!Next

\* Every run of the queue is a run of the lifecycle: a row is given to one owner at a
\* time and at most MaxAttempts times, only its owner ends it or gives it back, and a
\* row whose owner is lost stays held.
THEOREM QueueFollowsLifecycle == Spec => ImplementsLifecycle
<1>1. Init => Untried
  BY DEF Init, Untried
<1>2. IInv /\ Untried /\ [Next]_vars => Untried'
  <2> SUFFICES ASSUME IInv, Untried, [Next]_vars, NEW id \in JobIds, id >= nextId'
               PROVE  jobs'[id].attempts = 0
    BY DEF Untried
  <2>1. nextId \in Nat /\ id \in Nat
    BY DEF IInv, TypeOK, JobIds
  <2>2. CASE \E new \in JobIds : Inserted(new)
    BY <2>1, <2>2 DEF Inserted, Untried
  <2>3. CASE /\ nextId' = nextId
             /\ \A other \in JobIds : jobs'[other] = jobs[other] \/ Moved(other) \/ Deleted(other)
    <3>1. jobs[id].status = "absent" /\ jobs[id].attempts = 0
      BY <2>3 DEF IInv, Unborn, Untried
    <3> QED
      BY <2>3, <3>1 DEF Moved, Deleted, Waiting
  <2> QED
    BY <2>2, <2>3, RowSteps
<1>3. Init => Lifecycle!Init
  <2> SUFFICES ASSUME Init PROVE Lifecycle!Init
    OBVIOUS
  <2>1. \A id \in JobIds : jobs[id].status = "absent" /\ jobs[id].attempts = 0 /\ ~(id < nextId)
    BY DEF Init, JobIds
  <2>2. \A id \in JobIds : Phase(id) = "unborn"
    BY <2>1 DEF Phase, Waiting
  <2> QED
    BY <2>1, <2>2 DEF Lifecycle!Init
<1>4. IInv /\ IInv' /\ Untried /\ [Next]_vars => [Lifecycle!Next]_(Lifecycle!lifeVars)
  BY LifecycleStep
<1> QED
  BY <1>1, <1>2, <1>3, <1>4, Invariance, PTL DEF Spec, ImplementsLifecycle, Lifecycle!Spec

=============================================================================
