----------------------------- MODULE Dispatcher -----------------------------
(***************************************************************************)
(* internal/dispatcher: one mailbox and one goroutine per key, created on  *)
(* the first Submit and evicted when idle.                                 *)
(*                                                                         *)
(* A critical section of Dispatcher.mu never blocks, so it is one step.    *)
(* mailbox.mu is held by a Submit that waits for room in the channel, and  *)
(* by an eviction that waits for Dispatcher.mu: it is a lock with a holder. *)
(***************************************************************************)
EXTENDS Naturals, Sequences, FiniteSets

CONSTANTS
    Keys,       \* mailbox keys: users
    Submitters, \* goroutines that call Submit
    Buffer,     \* capacity of a mailbox
    MaxJobs,    \* bound: calls of Submit
    MaxBoxes,   \* bound: mailboxes ever made
    Cancels     \* the context of a Submit may be cancelled

Jobs == 1..MaxJobs
Boxes == 1..MaxBoxes
NoJob == 0
NoBox == 0

\* Holders of a mailbox's lock other than a submitter.
Free == "free"
Runner == "runner"

ASSUME DispatcherAssumption ==
    /\ Keys # {}
    /\ Buffer \in Nat \ {0}
    /\ MaxJobs \in Nat
    /\ MaxBoxes \in Nat
    /\ Cancels \in BOOLEAN
    /\ Submitters \cap {Free, Runner} = {}

VARIABLES
    mailboxes,  \* Dispatcher.mailboxes
    shut,       \* Dispatcher.closed
    key,        \* the key a mailbox was made for
    buf,        \* the channel's contents
    closed,     \* mailbox.closed, and the channel with it
    lock,       \* the holder of mailbox.mu
    runner,     \* where runMailbox stands: "none" before the mailbox is made
    running,    \* the job it runs
    nextBox,    \* mailboxes made so far, plus one
    sub,        \* what each submitter is doing
    nextJob,    \* the next job's number
    toClose,    \* mailboxes Shutdown still has to close
    closing,    \* where Shutdown stands
    panicked    \* a send on a closed channel, or a second close, happened

boxVars == <<key, buf, closed, lock, runner, running, nextBox>>
shutVars == <<shut, toClose, closing>>
vars == <<mailboxes, boxVars, sub, nextJob, shutVars, panicked>>

Call == [at : {"idle", "get", "lock", "send"}, key : Keys, job : Jobs \cup {NoJob},
         box : Boxes \cup {NoBox}]

TypeOK ==
    /\ mailboxes \in [Keys -> Boxes \cup {NoBox}]
    /\ shut \in BOOLEAN
    /\ key \in [Boxes -> Keys]
    /\ buf \in [Boxes -> Seq(Jobs)]
    /\ closed \in [Boxes -> BOOLEAN]
    /\ lock \in [Boxes -> Submitters \cup {Free, Runner}]
    /\ runner \in [Boxes -> {"none", "select", "run", "expired", "evict", "gone"}]
    /\ running \in [Boxes -> Jobs \cup {NoJob}]
    /\ nextBox \in 1..(MaxBoxes + 1)
    /\ sub \in [Submitters -> Call]
    /\ nextJob \in 1..(MaxJobs + 1)
    /\ toClose \subseteq Boxes
    /\ closing \in {"not called", "close", "wait", "drained", "gave up"}
    /\ panicked \in BOOLEAN

AnyKey == CHOOSE k \in Keys : TRUE
IdleCall == [at |-> "idle", key |-> AnyKey, job |-> NoJob, box |-> NoBox]

Init ==
    /\ mailboxes = [k \in Keys |-> NoBox]
    /\ shut = FALSE
    /\ key = [b \in Boxes |-> AnyKey]
    /\ buf = [b \in Boxes |-> <<>>]
    /\ closed = [b \in Boxes |-> FALSE]
    /\ lock = [b \in Boxes |-> Free]
    /\ runner = [b \in Boxes |-> "none"]
    /\ running = [b \in Boxes |-> NoJob]
    /\ nextBox = 1
    /\ sub = [s \in Submitters |-> IdleCall]
    /\ nextJob = 1
    /\ toClose = {}
    /\ closing = "not called"
    /\ panicked = FALSE

\* A call goes on to the next place with mailbox b in hand, or returns.
Calls(s, place, b) ==
    sub' = [sub EXCEPT ![s] = [at |-> place, key |-> sub[s].key, job |-> sub[s].job, box |-> b]]

Ends(s) == sub' = [sub EXCEPT ![s] = IdleCall]

Hold(b, holder) == lock[b] = Free /\ lock' = [lock EXCEPT ![b] = holder]
Release(b) == lock' = [lock EXCEPT ![b] = Free]

\* close(mb.jobs)
Close(b) ==
    /\ panicked' = (panicked \/ closed[b])
    /\ closed' = [closed EXCEPT ![b] = TRUE]

-----------------------------------------------------------------------------
(* Submit.                                                                 *)

Submit(s, k) ==
    /\ sub[s].at = "idle"
    /\ nextJob <= MaxJobs
    /\ sub' = [sub EXCEPT ![s] = [at |-> "get", key |-> k, job |-> nextJob, box |-> NoBox]]
    /\ nextJob' = nextJob + 1
    /\ UNCHANGED <<mailboxes, boxVars, shutVars, panicked>>

\* getOrCreateMailbox: ErrDispatcherClosed...
Refuse(s) ==
    /\ sub[s].at = "get"
    /\ shut
    /\ Ends(s)
    /\ UNCHANGED <<mailboxes, boxVars, nextJob, shutVars, panicked>>

\* ... the mailbox of the key...
GetMailbox(s) ==
    /\ sub[s].at = "get"
    /\ ~shut
    /\ mailboxes[sub[s].key] # NoBox
    /\ Calls(s, "lock", mailboxes[sub[s].key])
    /\ UNCHANGED <<mailboxes, boxVars, nextJob, shutVars, panicked>>

\* ... or a new one, with its goroutine.
CreateMailbox(s) ==
    LET k == sub[s].key
    IN  /\ sub[s].at = "get"
        /\ ~shut
        /\ mailboxes[k] = NoBox
        /\ nextBox <= MaxBoxes
        /\ mailboxes' = [mailboxes EXCEPT ![k] = nextBox]
        /\ key' = [key EXCEPT ![nextBox] = k]
        /\ runner' = [runner EXCEPT ![nextBox] = "select"]
        /\ nextBox' = nextBox + 1
        /\ Calls(s, "lock", nextBox)
        /\ UNCHANGED <<buf, closed, lock, running, nextJob, shutVars, panicked>>

\* Faulty variants of a definition, each a plausible mistake in the code it
\* models, stand before it; the properties are tested against them.

\* mb.closed is not tested.
LockUntested(s) ==
    LET b == sub[s].box
    IN  /\ sub[s].at = "lock"
        /\ Hold(b, s)
        /\ Calls(s, "send", b)
        /\ UNCHANGED <<mailboxes, key, buf, closed, runner, running, nextBox, nextJob,
                       shutVars, panicked>>

\* mb.mu.Lock(), and the test of mb.closed under it.
LockMailbox(s) ==
    LET b == sub[s].box
    IN  /\ sub[s].at = "lock"
        /\ ~closed[b]
        /\ Hold(b, s)
        /\ Calls(s, "send", b)
        /\ UNCHANGED <<mailboxes, key, buf, closed, runner, running, nextBox, nextJob,
                       shutVars, panicked>>

\* The mailbox was closed meanwhile: unlock and look it up again.
FindClosed(s) ==
    LET b == sub[s].box
    IN  /\ sub[s].at = "lock"
        /\ lock[b] = Free
        /\ closed[b]
        /\ Calls(s, "get", NoBox)
        /\ UNCHANGED <<mailboxes, boxVars, nextJob, shutVars, panicked>>

Send(s) ==
    LET b == sub[s].box
    IN  /\ sub[s].at = "send"
        /\ closed[b] \/ Len(buf[b]) < Buffer
        /\ buf' = [buf EXCEPT ![b] = Append(@, sub[s].job)]
        /\ panicked' = (panicked \/ closed[b])
        /\ Release(b)
        /\ Ends(s)
        /\ UNCHANGED <<mailboxes, key, closed, runner, running, nextBox, nextJob, shutVars>>

\* ctx.Done() is ready; when both cases are, select takes either.
Cancel(s) ==
    /\ Cancels
    /\ sub[s].at = "send"
    /\ Release(sub[s].box)
    /\ Ends(s)
    /\ UNCHANGED <<mailboxes, key, buf, closed, runner, running, nextBox, nextJob,
                   shutVars, panicked>>

-----------------------------------------------------------------------------
(* runMailbox and tryEvictMailbox.                                         *)

Become(b, place) == runner' = [runner EXCEPT ![b] = place]

Take(b) ==
    /\ runner[b] = "select"
    /\ buf[b] # <<>>
    /\ running' = [running EXCEPT ![b] = Head(buf[b])]
    /\ buf' = [buf EXCEPT ![b] = Tail(@)]
    /\ Become(b, "run")
    /\ UNCHANGED <<mailboxes, key, closed, lock, nextBox, sub, nextJob, shutVars, panicked>>

\* item.fn returns.
Return(b) ==
    /\ runner[b] = "run"
    /\ running' = [running EXCEPT ![b] = NoJob]
    /\ Become(b, "select")
    /\ UNCHANGED <<mailboxes, key, buf, closed, lock, nextBox, sub, nextJob, shutVars, panicked>>

\* A closed channel is left with jobs in it.
ExitEarly(b) ==
    /\ runner[b] = "select"
    /\ closed[b]
    /\ Become(b, "gone")
    /\ UNCHANGED <<mailboxes, key, buf, closed, lock, running, nextBox, sub, nextJob,
                   shutVars, panicked>>

\* The channel is closed and drained.
Exit(b) ==
    /\ runner[b] = "select"
    /\ closed[b] /\ buf[b] = <<>>
    /\ Become(b, "gone")
    /\ UNCHANGED <<mailboxes, key, buf, closed, lock, running, nextBox, sub, nextJob,
                   shutVars, panicked>>

\* The idle timer fires; select may take it even when a job has just arrived.
Expire(b) ==
    /\ runner[b] = "select"
    /\ Become(b, "expired")
    /\ UNCHANGED <<mailboxes, key, buf, closed, lock, running, nextBox, sub, nextJob,
                   shutVars, panicked>>

KeepBusy(b) ==
    /\ runner[b] = "expired"
    /\ lock[b] = Free
    /\ closed[b] \/ buf[b] # <<>>
    /\ Become(b, "select")
    /\ UNCHANGED <<mailboxes, key, buf, closed, lock, running, nextBox, sub, nextJob,
                   shutVars, panicked>>

\* len(mb.jobs) is not tested.
EvictNonempty(b) ==
    /\ runner[b] = "expired"
    /\ ~closed[b]
    /\ Hold(b, Runner)
    /\ Become(b, "evict")
    /\ UNCHANGED <<mailboxes, key, buf, closed, running, nextBox, sub, nextJob,
                   shutVars, panicked>>

EvictLock(b) ==
    /\ runner[b] = "expired"
    /\ ~closed[b] /\ buf[b] = <<>>
    /\ Hold(b, Runner)
    /\ Become(b, "evict")
    /\ UNCHANGED <<mailboxes, key, buf, closed, running, nextBox, sub, nextJob,
                   shutVars, panicked>>

\* Under d.mu as well: the mailbox leaves the map, unless Shutdown emptied it.
\* Where the map holds another mailbox for the key the eviction is dropped.
Evict(b) ==
    /\ runner[b] = "evict"
    /\ IF shut \/ mailboxes[key[b]] = b
       THEN /\ mailboxes' = IF shut THEN mailboxes ELSE [mailboxes EXCEPT ![key[b]] = NoBox]
            /\ Close(b)
            /\ Become(b, "gone")
       ELSE /\ Become(b, "select")
            /\ UNCHANGED <<mailboxes, closed, panicked>>
    /\ Release(b)
    /\ UNCHANGED <<key, buf, running, nextBox, sub, nextJob, shutVars>>

-----------------------------------------------------------------------------
(* Shutdown.  A second call returns at once.                               *)

\* The flag is not set.
ShutdownUnflagged ==
    /\ closing = "not called"
    /\ shut' = FALSE
    /\ toClose' = {mailboxes[k] : k \in Keys} \ {NoBox}
    /\ mailboxes' = [k \in Keys |-> NoBox]
    /\ closing' = "close"
    /\ UNCHANGED <<boxVars, sub, nextJob, panicked>>

Shutdown ==
    /\ closing = "not called"
    /\ shut' = TRUE
    /\ toClose' = {mailboxes[k] : k \in Keys} \ {NoBox}
    /\ mailboxes' = [k \in Keys |-> NoBox]
    /\ closing' = "close"
    /\ UNCHANGED <<boxVars, sub, nextJob, panicked>>

CloseMailbox(b) ==
    /\ closing = "close"
    /\ b \in toClose
    /\ lock[b] = Free
    /\ IF closed[b] THEN UNCHANGED <<closed, panicked>> ELSE Close(b)
    /\ toClose' = toClose \ {b}
    /\ UNCHANGED <<mailboxes, key, buf, lock, runner, running, nextBox, sub, nextJob,
                   shut, closing>>

AllClosed ==
    /\ closing = "close"
    /\ toClose = {}
    /\ closing' = "wait"
    /\ UNCHANGED <<mailboxes, boxVars, sub, nextJob, shut, toClose, panicked>>

\* wg.Wait() returned...
ShutdownReturns ==
    /\ closing = "wait"
    /\ \A b \in Boxes : runner[b] \in {"none", "gone"}
    /\ closing' = "drained"
    /\ UNCHANGED <<mailboxes, boxVars, sub, nextJob, shut, toClose, panicked>>

\* ... or the ten seconds of the caller are over.
ShutdownTimesOut ==
    /\ Cancels
    /\ closing = "wait"
    /\ closing' = "gave up"
    /\ UNCHANGED <<mailboxes, boxVars, sub, nextJob, shut, toClose, panicked>>

-----------------------------------------------------------------------------

SubmitStep(s) ==
    \/ Refuse(s) \/ GetMailbox(s) \/ CreateMailbox(s)
    \/ LockMailbox(s) \/ FindClosed(s)
    \/ Send(s)

\* The steps runMailbox takes of itself; the timer is apart.
RunnerStep(b) ==
    \/ Take(b) \/ Return(b) \/ Exit(b)
    \/ KeepBusy(b) \/ EvictLock(b) \/ Evict(b)

ShutdownStep ==
    \/ \E b \in Boxes : CloseMailbox(b)
    \/ AllClosed
    \/ ShutdownReturns

Next ==
    \/ \E s \in Submitters : SubmitStep(s) \/ Cancel(s) \/ \E k \in Keys : Submit(s, k)
    \/ \E b \in Boxes : RunnerStep(b) \/ Expire(b)
    \/ Shutdown
    \/ ShutdownStep
    \/ ShutdownTimesOut

Spec == Init /\ [][Next]_vars

\* Goroutines run, the jobs return, and a mutex is granted in the end.  A
\* select that keeps finding a job takes it, its timer having been reset.
\* Nothing is assumed of callers, timers, cancellations or Shutdown.
FairSpec ==
    /\ Spec
    /\ \A s \in Submitters : WF_vars(SubmitStep(s)) /\ SF_vars(LockMailbox(s))
    /\ \A b \in Boxes : WF_vars(RunnerStep(b)) /\ SF_vars(Take(b)) /\ SF_vars(KeepBusy(b))
    /\ WF_vars(ShutdownStep)

-----------------------------------------------------------------------------
(* What the dispatcher promises.                                           *)

\* No goroutine ever sends on a closed channel or closes one twice, whichever
\* of Submit, the eviction and Shutdown comes first.
NeverPanics == ~panicked

\* An accepted job is never left behind: a mailbox that holds jobs still has
\* the goroutine that will run them, also after an eviction or Shutdown.
NothingStranded == \A b \in Boxes : buf[b] # <<>> => runner[b] \notin {"none", "gone"}

\* An eviction that got as far as the map finds its own mailbox there: the map
\* never moved on to a second mailbox while the first was open.
EvictsItself ==
    \A b \in Boxes : runner[b] = "evict" /\ ~shut => mailboxes[key[b]] = b

\* When Shutdown returns without its context ending, everything accepted has
\* run and nothing is accepted any more.
ShutdownDrains ==
    closing = "drained" =>
        /\ \A b \in Boxes : buf[b] = <<>> /\ running[b] = NoJob
        /\ \A s \in Submitters : sub[s].at # "send"

-----------------------------------------------------------------------------
(* The dispatcher implements SerialPerKey: a key's queue and busy job are   *)
(* those of the one mailbox of it whose goroutine is alive.                *)

Alive(k) == {b \in Boxes : key[b] = k /\ runner[b] \notin {"none", "gone"}}
Box(k) == CHOOSE b \in Alive(k) : TRUE

Pending(k) == IF Alive(k) = {} THEN <<>> ELSE buf[Box(k)]
Busy(k) == IF Alive(k) = {} THEN NoJob ELSE running[Box(k)]

Serial ==
    INSTANCE SerialPerKey WITH
        queue <- [k \in Keys |-> Pending(k)],
        busy <- [k \in Keys |-> Busy(k)]

\* The updates of one user run one at a time, in the order they were accepted,
\* across evictions, new mailboxes and Shutdown.
ImplementsSerial == Serial!Spec

-----------------------------------------------------------------------------

Accepted(j) == \E b \in Boxes : j \in {buf[b][i] : i \in DOMAIN buf[b]}
Runs(j) == \E b \in Boxes : running[b] = j

\* Every accepted job is run (what Submit's nil answer says).
AcceptedRuns == \A j \in Jobs : Accepted(j) ~> Runs(j)

\* A Submit waits for room, its mutex held, and the runner that would make room has
\* seen its timer fire and waits for that mutex.
Wedged(j) ==
    \E b \in Boxes, s \in Submitters :
        /\ j \in {buf[b][i] : i \in DOMAIN buf[b]}
        /\ sub[s].at = "send" /\ sub[s].box = b /\ runner[b] = "expired"

\* That is the only thing that ever stops an accepted job: but for it every job is
\* run, through evictions, new mailboxes, cancelled calls and Shutdown.
RunsUnlessWedged == \A j \in Jobs : Accepted(j) ~> (Runs(j) \/ []Wedged(j))

=============================================================================
