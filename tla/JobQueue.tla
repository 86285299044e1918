------------------------------ MODULE JobQueue ------------------------------
(***************************************************************************)
(* The PostgreSQL job queue of Shelfy and the worker loops over it.        *)
(*                                                                         *)
(* A row of table jobs is claimed with one UPDATE over a FOR UPDATE SKIP   *)
(* LOCKED subquery, run by the process that claimed it, and marked done or *)
(* retry by id.  Every statement commits on its own, so the steps of       *)
(* worker.Run, worker.DrainDue and processJob between two statements are   *)
(* actions of their own, and a worker may stop between any two of them.    *)
(***************************************************************************)
EXTENDS Naturals, FiniteSets

CONSTANTS
    Loops,      \* workers that run worker.Run (pipeline-worker, scheduler-worker)
    Drainers,   \* POST /control/jobs/run-due requests, each running DrainDue
    Types,      \* job types
    Allowed,    \* Allowed[w]: the types the worker's processor claims
    Waited,     \* types that a run-due request waits for before it answers
    Keys,       \* idempotency keys
    NoKey,      \* a NULL idempotency key
    MaxAttempts, \* jobs.max_attempts
    Delay,      \* postponement of a failed attempt
    Limit,      \* the limit of a run-due request
    Lead,       \* how far ahead of the clock a producer may schedule
    MaxJobs,    \* bound: rows ever inserted
    Horizon,    \* bound: the clock stops here
    Faults,     \* statements may fail, replies be lost and workers stop
    DevControl  \* the control API may set the clock and reset a user

Workers == Loops \cup Drainers
JobIds == 1..MaxJobs
NoJob == 0

ASSUME JobQueueAssumption ==
    /\ Loops \cap Drainers = {} /\ "nobody" \notin Workers
    /\ Types # {}
    /\ Allowed \in [Workers -> SUBSET Types]
    /\ Waited \subseteq Types
    /\ NoKey \notin Keys
    /\ MaxAttempts \in Nat \ {0}
    /\ Delay \in Nat \ {0}
    /\ Limit \in Nat \ {0}
    /\ Lead \in Nat
    /\ MaxJobs \in Nat
    /\ Horizon \in Nat
    /\ Faults \in BOOLEAN
    /\ DevControl \in BOOLEAN

VARIABLES
    jobs,       \* table jobs, by id; status "absent" is no row
    nextId,     \* the id sequence
    now,        \* what CurrentNow answers
    pc,         \* where each worker stands
    seen,       \* the clock value the worker read before its claim
    job,        \* id of the row the worker holds in memory, or NoJob
    processed,  \* jobs a run-due request has finished so far
    asked,      \* history: waited rows that were due when the request began
    starts,     \* history: times ProcessJob was handed each id
    succeeded,  \* history: ids whose ProcessJob returned nil
    readAt      \* history: clock values the claims of each id were made with

table == <<jobs, nextId>>
worker == <<pc, seen, job, processed, asked>>
history == <<starts, succeeded, readAt>>
vars == <<table, now, worker, history>>

Waiting == {"queued", "retry"}
Active == Waiting \cup {"running"}
Settled == {"done", "failed"}
Statuses == Active \cup Settled \cup {"absent"}

Row == [status : Statuses, type : Types, key : Keys \cup {NoKey},
        runAt : Nat, attempts : Nat]

Holding == {"processing", "succeeded", "errored"}
Resting == {"idle", "answered"}
Places == Holding \cup Resting \cup {"ready", "claiming", "settling", "counting"}

TypeOK ==
    /\ jobs \in [JobIds -> Row]
    /\ nextId \in 1..(MaxJobs + 1)
    /\ now \in Nat
    /\ pc \in [Workers -> Places]
    /\ seen \in [Workers -> Nat]
    /\ job \in [Workers -> JobIds \cup {NoJob}]
    /\ processed \in [Workers -> Nat]
    /\ asked \in [Workers -> SUBSET JobIds]
    /\ starts \in [JobIds -> Nat]
    /\ succeeded \subseteq JobIds
    /\ readAt \in [JobIds -> SUBSET Nat]

\* Where a worker goes when it has nothing in hand: the top of worker.Run, or
\* the end of a run-due request.
Rest(w) == IF w \in Loops THEN "ready" ELSE "idle"

Init ==
    /\ jobs = [id \in JobIds |-> [status |-> "absent", type |-> CHOOSE t \in Types : TRUE,
                                   key |-> NoKey, runAt |-> 0, attempts |-> 0]]
    /\ nextId = 1
    /\ now = 0
    /\ pc = [w \in Workers |-> Rest(w)]
    /\ seen = [w \in Workers |-> 0]
    /\ job = [w \in Workers |-> NoJob]
    /\ processed = [w \in Workers |-> 0]
    /\ asked = [w \in Workers |-> {}]
    /\ starts = [id \in JobIds |-> 0]
    /\ succeeded = {}
    /\ readAt = [id \in JobIds |-> {}]

-----------------------------------------------------------------------------
(* The statements of queries/jobs.sql.                                     *)

\* Faulty variants of a definition, each a plausible mistake in the code it
\* models, stand before it; the properties are tested against them.

\* Only unfinished rows conflict.
KeyTakenByActive(k) ==
    k # NoKey /\ \E id \in JobIds : jobs[id].status \in Active /\ jobs[id].key = k

KeyTaken(k) == k # NoKey /\ \E id \in JobIds : jobs[id].status # "absent" /\ jobs[id].key = k

\* EnqueueJob: the INSERT that finds its key taken does nothing.
Enqueue(t, k, r) ==
    /\ nextId <= MaxJobs
    /\ ~KeyTaken(k)
    /\ jobs' = [jobs EXCEPT ![nextId] = [status |-> "queued", type |-> t, key |-> k,
                                         runAt |-> r, attempts |-> 0]]
    /\ nextId' = nextId + 1
    /\ UNCHANGED <<now, worker, history>>

\* Running rows are claimed again.
ClaimableAgain(w) ==
    {id \in JobIds : /\ jobs[id].status \in Active
                     /\ jobs[id].runAt <= seen[w]
                     /\ jobs[id].type \in Allowed[w]}

Claimable(w) ==
    {id \in JobIds : /\ jobs[id].status \in Waiting
                     /\ jobs[id].runAt <= seen[w]
                     /\ jobs[id].type \in Allowed[w]}

\* ORDER BY run_at ASC, id ASC
Before(a, b) ==
    \/ jobs[a].runAt < jobs[b].runAt
    \/ jobs[a].runAt = jobs[b].runAt /\ a < b

IsNext(w, id) ==
    /\ id \in Claimable(w)
    /\ \A other \in Claimable(w) \ {id} : Before(id, other)

RunningRow(id) == [jobs[id] EXCEPT !.status = "running", !.attempts = @ + 1]

DoneRow(id) == [jobs[id] EXCEPT !.status = "done"]

\* One attempt more than allowed.
RetryRowOneMore(id, at) ==
    [jobs[id] EXCEPT
        !.status = IF jobs[id].attempts > MaxAttempts THEN "failed" ELSE "retry",
        !.runAt = at]

\* Retried without the delay.
RetryRowAtOnce(id, at) ==
    [jobs[id] EXCEPT !.status = IF jobs[id].attempts >= MaxAttempts THEN "failed" ELSE "retry"]

\* The last failure is booked as done.
RetryRowDone(id, at) ==
    [jobs[id] EXCEPT
        !.status = IF jobs[id].attempts >= MaxAttempts THEN "done" ELSE "retry",
        !.runAt = at]

\* The status is not set.
RetryRowRunning(id, at) == [jobs[id] EXCEPT !.runAt = at]

RetryRow(id, at) ==
    [jobs[id] EXCEPT
        !.status = IF jobs[id].attempts >= MaxAttempts THEN "failed" ELSE "retry",
        !.runAt = at]

\* A deleted row is inserted again.
Upsert(id, row) == jobs' = [jobs EXCEPT ![id] = row]

\* UPDATE ... WHERE id = $1: no effect when the row was deleted meanwhile.
Update(id, row) ==
    jobs' = IF jobs[id].status = "absent" THEN jobs ELSE [jobs EXCEPT ![id] = row]

\* Running jobs are not counted.
DueWaiting(types, t) ==
    {id \in JobIds : /\ jobs[id].status \in Waiting
                     /\ jobs[id].type \in types
                     /\ jobs[id].runAt <= t}

DueActive(types, t) ==
    {id \in JobIds : /\ jobs[id].status \in Active
                     /\ jobs[id].type \in types
                     /\ jobs[id].runAt <= t}

-----------------------------------------------------------------------------
(* worker.Run and worker.DrainDue, statement by statement.                 *)

Goto(w, place) == pc' = [pc EXCEPT ![w] = place]

\* The worker leaves an iteration, or a whole request, and its locals with it.
Leave(w, place) ==
    /\ Goto(w, place)
    /\ job' = [job EXCEPT ![w] = NoJob]
    /\ seen' = [seen EXCEPT ![w] = 0]
    /\ asked' = IF place \in Resting THEN [asked EXCEPT ![w] = {}] ELSE asked

\* handleRunDue decodes the request and enters DrainDue.
StartRunDue(w) ==
    /\ w \in Drainers
    /\ pc[w] \in Resting
    /\ Goto(w, "ready")
    /\ processed' = [processed EXCEPT ![w] = 0]
    /\ asked' = [asked EXCEPT ![w] = DueActive(Waited, now)]
    /\ UNCHANGED <<table, now, seen, job, history>>

\* The one test of DrainDue's loop; worker.Run has none.
BelowLimit(w) == w \in Drainers => processed[w] < Limit

ReadClock(w) ==
    /\ pc[w] = "ready"
    /\ BelowLimit(w)
    /\ Goto(w, "claiming")
    /\ seen' = [seen EXCEPT ![w] = now]
    /\ UNCHANGED <<table, now, job, processed, asked, history>>

DrainLimitReached(w) ==
    /\ pc[w] = "ready"
    /\ ~BelowLimit(w)
    /\ Goto(w, "settling")
    /\ UNCHANGED <<table, now, seen, job, processed, asked, history>>

Claim(w, id) ==
    /\ pc[w] = "claiming"
    /\ IsNext(w, id)
    /\ jobs' = [jobs EXCEPT ![id] = RunningRow(id)]
    /\ Goto(w, "processing")
    /\ job' = [job EXCEPT ![w] = id]
    /\ starts' = [starts EXCEPT ![id] = @ + 1]
    /\ readAt' = [readAt EXCEPT ![id] = @ \cup {seen[w]}]
    /\ UNCHANGED <<nextId, now, seen, processed, asked, succeeded>>

\* A mutant: DrainDue asks again after an empty claim, as worker.Run does.
ClaimNothingAgain(w) ==
    /\ pc[w] = "claiming"
    /\ Claimable(w) = {}
    /\ Leave(w, "ready")
    /\ UNCHANGED <<table, now, processed, history>>

ClaimNothing(w) ==
    /\ pc[w] = "claiming"
    /\ Claimable(w) = {}
    /\ Leave(w, IF w \in Loops THEN "ready" ELSE "settling")
    /\ UNCHANGED <<table, now, processed, history>>

\* The statement fails, or it commits and its reply is lost: then the row is
\* running and no worker knows it.
ClaimFails(w) ==
    /\ Faults
    /\ pc[w] = "claiming"
    /\ \/ UNCHANGED jobs
       \/ \E id \in JobIds : IsNext(w, id) /\ jobs' = [jobs EXCEPT ![id] = RunningRow(id)]
    /\ Leave(w, Rest(w))
    /\ UNCHANGED <<nextId, now, processed, history>>

ProcessOk(w) ==
    /\ pc[w] = "processing"
    /\ Goto(w, "succeeded")
    /\ succeeded' = succeeded \cup {job[w]}
    /\ UNCHANGED <<table, now, seen, job, processed, asked, starts, readAt>>

ProcessErr(w) ==
    /\ pc[w] = "processing"
    /\ Goto(w, "errored")
    /\ UNCHANGED <<table, now, seen, job, processed, asked, history>>

MarkDone(w) ==
    /\ pc[w] = "succeeded"
    /\ Update(job[w], DoneRow(job[w]))
    /\ Leave(w, "ready")
    /\ processed' = IF w \in Drainers THEN [processed EXCEPT ![w] = @ + 1] ELSE processed
    /\ UNCHANGED <<nextId, now, history>>

\* MarkJobDone returns an error, its UPDATE applied or not: worker.Run goes on
\* with the next job, DrainDue returns the error.
MarkDoneFails(w) ==
    /\ Faults
    /\ pc[w] = "succeeded"
    /\ UNCHANGED jobs \/ Update(job[w], DoneRow(job[w]))
    /\ Leave(w, Rest(w))
    /\ UNCHANGED <<nextId, now, processed, history>>

\* The job's error is returned after the UPDATE: worker.Run goes on, DrainDue
\* stops at the first failing job.
MarkRetry(w) ==
    /\ pc[w] = "errored"
    /\ Update(job[w], RetryRow(job[w], seen[w] + Delay))
    /\ Leave(w, Rest(w))
    /\ UNCHANGED <<nextId, now, processed, history>>

\* The failure of MarkJobRetry itself is only logged.
MarkRetryFails(w) ==
    /\ Faults
    /\ pc[w] = "errored"
    /\ Leave(w, Rest(w))
    /\ UNCHANGED <<table, now, processed, history>>

\* The process is killed and started again, or the context of the run-due
\* request is cancelled: the worker forgets what it held.
Crash(w) ==
    /\ Faults
    /\ pc[w] \notin Resting \cup {Rest(w)}
    /\ Leave(w, Rest(w))
    /\ UNCHANGED <<table, now, processed, history>>

\* waitForSettledJobTypes: read the clock, count, and poll again.
SettleReadClock(w) ==
    /\ pc[w] = "settling"
    /\ Goto(w, "counting")
    /\ seen' = [seen EXCEPT ![w] = now]
    /\ UNCHANGED <<table, now, job, processed, asked, history>>

SettleOk(w) ==
    /\ pc[w] = "counting"
    /\ DueActive(Waited, seen[w]) = {}
    /\ Leave(w, "answered")
    /\ UNCHANGED <<table, now, processed, history>>

SettleNotYet(w) ==
    /\ pc[w] = "counting"
    /\ DueActive(Waited, seen[w]) # {}
    /\ Leave(w, "settling")
    /\ UNCHANGED <<table, now, processed, history>>

\* Jobs are still active at the deadline: the request answers an error.
SettleTimeout(w) ==
    /\ pc[w] = "counting"
    /\ DueActive(Waited, seen[w]) # {}
    /\ Leave(w, "idle")
    /\ UNCHANGED <<table, now, processed, history>>

-----------------------------------------------------------------------------
(* The clock and the development control API.                              *)

Tick ==
    /\ now < Horizon
    /\ now' = now + 1
    /\ UNCHANGED <<table, worker, history>>

\* POST /control/time/set, advance and clear.
SetClock(t) ==
    /\ DevControl
    /\ now' = t
    /\ UNCHANGED <<table, worker, history>>

\* DeleteJobsForE2EUser: the rows S of the test user are deleted whatever
\* their status.
ResetUser(S) ==
    /\ DevControl
    /\ jobs' = [id \in JobIds |-> IF id \in S THEN [jobs[id] EXCEPT !.status = "absent"]
                                  ELSE jobs[id]]
    /\ UNCHANGED <<nextId, now, worker, history>>

-----------------------------------------------------------------------------

Producer ==
    \E t \in Types, k \in Keys \cup {NoKey}, r \in 0..(now + Lead) : Enqueue(t, k, r)

WorkerStep(w) ==
    \/ ReadClock(w)
    \/ DrainLimitReached(w)
    \/ \E id \in JobIds : Claim(w, id)
    \/ ClaimNothing(w)
    \/ ProcessOk(w)
    \/ ProcessErr(w)
    \/ MarkDone(w)
    \/ MarkRetry(w)
    \/ SettleReadClock(w)
    \/ SettleOk(w)
    \/ SettleNotYet(w)
    \/ SettleTimeout(w)

FaultStep(w) ==
    \/ ClaimFails(w)
    \/ MarkDoneFails(w)
    \/ MarkRetryFails(w)
    \/ Crash(w)

Next ==
    \/ Producer
    \/ \E w \in Workers : StartRunDue(w) \/ WorkerStep(w) \/ FaultStep(w)
    \/ Tick
    \/ \E t \in 0..Horizon : SetClock(t)
    \/ \E S \in SUBSET JobIds : ResetUser(S)

Spec == Init /\ [][Next]_vars

\* Each worker is one goroutine that keeps running, ProcessJob returns (its
\* HTTP and model calls have timeouts), and time passes.  Nothing is assumed of
\* producers, of run-due requests being made, of faults, or of the deadline of
\* a request that polls.
FairSpec ==
    /\ Spec
    /\ \A w \in Workers : WF_vars(WorkerStep(w))
    /\ WF_vars(Tick)

-----------------------------------------------------------------------------
(* What the queue promises.                                                *)

\* No two workers ever hold the same row, and a row somebody holds is running
\* (or was deleted by a reset): SKIP LOCKED and the status change claim it once.
SingleOwner ==
    /\ \A v, w \in Workers : v # w /\ job[v] # NoJob => job[v] # job[w]
    /\ \A w \in Workers : job[w] # NoJob => jobs[job[w]].status \in {"running", "absent"}

\* An idempotency key (a digest of one day, a cleanup of one draft) names at
\* most one row, so its work is never in the hands of two workers, unless a
\* reset deleted the row that one of them has.
KeyOnce ==
    /\ \A a, b \in JobIds :
          (/\ jobs[a].status # "absent" /\ jobs[b].status # "absent"
           /\ jobs[a].key = jobs[b].key /\ jobs[a].key # NoKey) => a = b
    /\ \A v, w \in Workers :
          (/\ job[v] # NoJob /\ job[w] # NoJob
           /\ jobs[job[v]].status # "absent" /\ jobs[job[w]].status # "absent"
           /\ jobs[job[v]].key = jobs[job[w]].key /\ jobs[job[v]].key # NoKey) => v = w

\* ProcessJob returns nil at most once for a row, and for an idempotency key:
\* whichever statement fails and whichever worker stops, no success is repeated.
\* A reset that deletes the first row of a key makes room for a second.
SucceedsOnce ==
    [][\A w \in Workers :
          pc[w] = "processing" /\ pc'[w] = "succeeded" =>
             \A id \in succeeded :
                /\ id # job[w]
                /\ (/\ jobs[id].status # "absent" /\ jobs[job[w]].status # "absent"
                    /\ jobs[id].key = jobs[job[w]].key) => jobs[id].key = NoKey]_vars

\* ProcessJob runs at most max_attempts times for one row; a row fails only
\* with every attempt used, and one that may still be claimed has one left.
AttemptsBounded ==
    \A id \in JobIds :
        /\ starts[id] <= MaxAttempts
        /\ jobs[id].status = "failed" => jobs[id].attempts = MaxAttempts
        /\ jobs[id].status \in Waiting => jobs[id].attempts < MaxAttempts

\* A row is done only after its processor returned nil for it.
DoneMeansSucceeded ==
    \A id \in JobIds : jobs[id].status = "done" => id \in succeeded

\* A failed attempt is postponed: the row is claimed again only with a clock
\* later, by the delay at least, than every clock it was claimed with before,
\* even when the control API sets the clock back in between.
RetryPostponed ==
    [][\A id \in JobIds, w \in Workers :
          job[w] # id /\ job'[w] = id => \A t \in readAt[id] : seen[w] >= t + Delay]_vars

\* Done and failed rows are final: no late MarkJobDone or MarkJobRetry, of
\* whichever worker, moves one, short of a reset deleting it.
SettledFinal ==
    [][\A id \in JobIds :
          jobs[id].status \in Settled => jobs'[id].status \in {jobs[id].status, "absent"}]_vars

\* When a run-due request answers ok, every waited job that was due when it
\* began has ended or was postponed past the clock, whichever worker had it in
\* hand; only a reset may have deleted it.
RunDueComplete ==
    [][\A w \in Drainers :
          pc[w] # "answered" /\ pc'[w] = "answered"
             => \A id \in asked[w] : \/ jobs[id].status \in Settled \cup {"absent"}
                                     \/ jobs[id].runAt > seen[w]]_vars

-----------------------------------------------------------------------------
(* The lifecycle every row follows: JobLifecycle, of which a waiting row is  *)
(* one that may be claimed and the owner of a held one the worker that has   *)
(* it in memory.                                                             *)

Holder(id) ==
    IF \E w \in Workers : job[w] = id
    THEN CHOOSE w \in Workers : job[w] = id
    ELSE "nobody"

Phase(id) ==
    CASE jobs[id].status = "absent" -> IF id < nextId THEN "gone" ELSE "unborn"
      [] jobs[id].status \in Waiting -> "waiting"
      [] jobs[id].status = "running" -> "held"
      [] jobs[id].status = "done" -> "completed"
      [] jobs[id].status = "failed" -> "abandoned"

Lifecycle ==
    INSTANCE JobLifecycle WITH
        Jobs <- JobIds,
        Nobody <- "nobody",
        phase <- [id \in JobIds |-> Phase(id)],
        owner <- [id \in JobIds |-> IF jobs[id].status = "running" THEN Holder(id)
                                     ELSE "nobody"],
        tries <- [id \in JobIds |-> jobs[id].attempts]

\* Every behaviour of the queue is one of the lifecycle: a claimed row goes to
\* one owner, only its owner ends it or gives it back, and a row whose owner
\* is lost stays held for ever.
ImplementsLifecycle == Lifecycle!Spec

-----------------------------------------------------------------------------

\* Without faults, every job of a type some loop claims ends done or failed,
\* unless its next attempt lies beyond the bounded clock.
EveryJobEnds ==
    \A id \in JobIds :
        jobs[id].status \in Active
            ~> (jobs[id].status \in Settled \/ jobs[id].runAt > Horizon)

\* A run-due request answers without the help of its deadline, as long as the
\* process that runs the other loop goes on: its drain ends, and each job it waits for
\* ends or is postponed, the ones in the hands of the loop included.
RunDueAnswers == \A w \in Drainers : (pc[w] \notin Resting) ~> (pc[w] \in Resting)

=============================================================================
