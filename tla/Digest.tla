-------------------------------- MODULE Digest --------------------------------
(***************************************************************************)
(* The morning digests of one user.  A maintenance tick of scheduler-worker*)
(* enqueues a job when it meets the minute the user asked for, a job worker*)
(* reads the products, sends the digest and records it, and later ticks    *)
(* take away the digests whose products are all closed.  Ticks come from   *)
(* the timer and from the control API and may overlap; the user closes     *)
(* products and changes the settings between any two of their statements.  *)
(*                                                                         *)
(* Not modelled: the queue's own failures (module JobQueue).               *)
(***************************************************************************)
EXTENDS Products

CONSTANTS
    Shelf,      \* the products the user has at first
    DayLength,  \* minutes of a day, as few as tell "due" from "not due"
    Start, End, \* bound: the clock runs from Start to End
    Offsets,    \* offsets of the time zones from UTC
    Dues,       \* digest times
    Tickers,    \* "timer" and, in development, the control API's requests, "control"
    MaxTries,   \* max_attempts of a job
    MaxFaults   \* bound: calls that fail and processes that are killed

ASSUME DigestAssumption ==
    /\ Shelf \in Seq([expires : Int, status : {"active"}])
    /\ DayLength \in Nat \ {0} /\ Start \in Nat /\ End \in Nat /\ Start <= End
    /\ \A o \in Offsets : o \in Int /\ Start + o >= 0
    /\ "timer" \in Tickers
    /\ Dues \subseteq 0..(DayLength - 1) /\ MaxTries \in Nat \ {0} /\ MaxFaults \in Nat

VARIABLES
    clock,      \* UTC, in minutes
    settings,   \* [offset, due]: the user's time zone and digest time
    products,   \* table products
    jobs,       \* the send_morning_digest job of each local date
    worker,     \* the job the worker runs and what it has read
    tick,       \* where each maintenance tick is
    messages,   \* digests sent: the products they name, still in the chat or not
    digests,    \* table digest_messages
    faults      \* failures so far

vars == <<clock, settings, products, jobs, worker, tick, messages, digests, faults>>

UTCDay(t) == t \div DayLength
LocalDay(t, offset) == (t + offset) \div DayLength
LocalTime(t, offset) == (t + offset) % DayLength

Dates == {LocalDay(t, o) : t \in Start..End, o \in Offsets}
NoJob == [status |-> "none", tries |-> 0]
AtRest == [at |-> "idle", date |-> 0, now |-> 0, soon |-> <<>>, expired |-> <<>>, sent |-> 0]
NoTick == [at |-> "idle", now |-> 0, todo |-> {}, row |-> 0]

Init ==
    /\ clock = Start
    /\ settings \in [offset : Offsets, due : Dues]
    /\ products = Shelf
    /\ jobs = [d \in Dates |-> NoJob]
    /\ worker = AtRest
    /\ tick = [t \in Tickers |-> NoTick]
    /\ messages = <<>>
    /\ digests = <<>>
    /\ faults = 0

-----------------------------------------------------------------------------
(* The clock and the user.                                                 *)

Advance ==
    /\ clock < End
    /\ clock' = clock + 1
    /\ UNCHANGED <<settings, products, jobs, worker, tick, messages, digests, faults>>

UserCloses ==
    \E p \in Active(products), s \in Closings :
        /\ products' = [products EXCEPT ![p].status = s]
        /\ UNCHANGED <<clock, settings, jobs, worker, tick, messages, digests, faults>>

UserSets ==
    /\ settings' \in [offset : Offsets, due : Dues] \ {settings}
    /\ UNCHANGED <<clock, products, jobs, worker, tick, messages, digests, faults>>

-----------------------------------------------------------------------------
(* A maintenance tick.                                                     *)

Step(t, to) == tick' = [tick EXCEPT ![t] = to]

TickNow(t) ==
    /\ tick[t].at = "idle"
    /\ Step(t, [NoTick EXCEPT !.at = "users", !.now = clock])
    /\ UNCHANGED <<clock, settings, products, jobs, worker, messages, digests, faults>>

Due(now) == LocalTime(now, settings.offset) = settings.due

\* Faulty variant: the key names the minute and not the date.
EnqueueAgain(date) == [jobs EXCEPT ![date] = [NoJob EXCEPT !.status = "queued"]]

\* EnqueueJob under the key digest:<user>:<date> does nothing the second time.
Enqueue(date) ==
    IF jobs[date] = NoJob THEN [jobs EXCEPT ![date].status = "queued"] ELSE jobs

Enqueued(t) ==
    IF Due(tick[t].now) THEN Enqueue(LocalDay(tick[t].now, settings.offset)) ELSE jobs

TickUsers(t) ==
    /\ tick[t].at = "users"
    /\ jobs' = Enqueued(t)
    /\ Step(t, [NoTick EXCEPT !.at = "list"])
    /\ UNCHANGED <<clock, settings, products, worker, messages, digests, faults>>

\* /control/digests/reconcile only takes digests away.
Reconcile ==
    /\ "control" \in Tickers /\ tick["control"].at = "idle"
    /\ Step("control", [NoTick EXCEPT !.at = "list"])
    /\ UNCHANGED <<clock, settings, products, jobs, worker, messages, digests, faults>>

TickList(t) ==
    /\ tick[t].at = "list"
    /\ Step(t, [NoTick EXCEPT !.at = "check",
                              !.todo = {d \in DOMAIN digests : digests[d].state = "active"}])
    /\ UNCHANGED <<clock, settings, products, jobs, worker, messages, digests, faults>>

\* Faulty variant: a digest is kept only while all its products are active.
OpenAll(d) == \A i \in DOMAIN digests[d].items : products[digests[d].items[i]].status = "active"

Open(d) == \E i \in DOMAIN digests[d].items : products[digests[d].items[i]].status = "active"

TickCheck(t) ==
    /\ tick[t].at = "check"
    /\ \/ tick[t].todo = {} /\ Step(t, NoTick)
       \/ \E d \in tick[t].todo :
            Step(t, [tick[t] EXCEPT !.todo = @ \ {d}, !.row = IF Open(d) THEN 0 ELSE d,
                                    !.at = IF Open(d) THEN "check" ELSE "delete"])
    /\ UNCHANGED <<clock, settings, products, jobs, worker, messages, digests, faults>>

\* A message that is gone already counts as deleted.
TickDelete(t) ==
    /\ tick[t].at = "delete"
    /\ messages' = [messages EXCEPT ![digests[tick[t].row].message].here = FALSE]
    /\ Step(t, [tick[t] EXCEPT !.at = "mark"])
    /\ UNCHANGED <<clock, settings, products, jobs, worker, digests, faults>>

\* Faulty variant: a digest that was not deleted is marked all the same.
AfterDeleteFailsMarks(t) == [tick[t] EXCEPT !.at = "mark"]

AfterDeleteFails(t) == [tick[t] EXCEPT !.at = "check"]

TickDeleteFails(t) ==
    /\ tick[t].at = "delete" /\ faults < MaxFaults
    /\ Step(t, AfterDeleteFails(t))
    /\ messages' \in {messages, [messages EXCEPT ![digests[tick[t].row].message].here = FALSE]}
    /\ faults' = faults + 1
    /\ UNCHANGED <<clock, settings, products, jobs, worker, digests>>

Marked(t) == [digests EXCEPT ![tick[t].row].state = "deleted"]

TickMark(t) ==
    /\ tick[t].at = "mark"
    /\ digests' = Marked(t)
    /\ Step(t, [tick[t] EXCEPT !.at = "check"])
    /\ UNCHANGED <<clock, settings, products, jobs, worker, messages, faults>>

\* A statement fails, or takes effect without the tick knowing, and ends the tick.
TickFails(t) ==
    /\ tick[t].at \in {"users", "list", "check", "mark"} /\ faults < MaxFaults
    /\ jobs' \in {jobs} \cup (IF tick[t].at = "users" THEN {Enqueued(t)} ELSE {})
    /\ digests' \in {digests} \cup (IF tick[t].at = "mark" THEN {Marked(t)} ELSE {})
    /\ Step(t, NoTick)
    /\ faults' = faults + 1
    /\ UNCHANGED <<clock, settings, products, worker, messages>>

Tick(t) ==
    TickNow(t) \/ TickUsers(t) \/ TickList(t) \/ TickCheck(t) \/ TickDelete(t) \/ TickMark(t)

-----------------------------------------------------------------------------
(* The worker runs a job: sendMorningDigest.                               *)

Finish(status) ==
    /\ jobs' = [jobs EXCEPT ![worker.date].status = status]
    /\ worker' = AtRest

Claim ==
    \E d \in Dates :
        /\ worker = AtRest /\ jobs[d].status = "queued"
        /\ jobs' = [jobs EXCEPT ![d] = [status |-> "running", tries |-> @.tries + 1]]
        /\ worker' = [AtRest EXCEPT !.at = "soon", !.date = d]
        /\ UNCHANGED <<clock, settings, products, tick, messages, digests, faults>>

ReadSoon ==
    /\ worker.at = "soon"
    /\ worker' = [worker EXCEPT !.at = "expired", !.now = clock,
                                !.soon = ByExpiry(products, Soon(products, UTCDay(clock)))]
    /\ UNCHANGED <<clock, settings, products, jobs, tick, messages, digests, faults>>

ReadExpired ==
    /\ worker.at = "expired"
    /\ worker' = [worker EXCEPT !.at = "send",
                   !.expired = ByExpiry(products, Expired(products, UTCDay(worker.now)))]
    /\ UNCHANGED <<clock, settings, products, jobs, tick, messages, digests, faults>>

Items == worker.expired \o worker.soon

SendNothing ==
    /\ worker.at = "send" /\ Items = <<>>
    /\ Finish("done")
    /\ UNCHANGED <<clock, settings, products, tick, messages, digests, faults>>

Sent == Append(messages, [items |-> Items, here |-> TRUE, date |-> worker.date])

Send ==
    /\ worker.at = "send" /\ Items # <<>>
    /\ messages' = Sent
    /\ worker' = [worker EXCEPT !.at = "create", !.sent = Len(messages) + 1]
    /\ UNCHANGED <<clock, settings, products, jobs, tick, digests, faults>>

\* Faulty variant: a digest that names no product soon to expire is not recorded.
RecordIfSoon ==
    IF worker.soon = <<>> THEN digests
    ELSE Append(digests, [message |-> worker.sent, items |-> Items, state |-> "active"])

Record == Append(digests, [message |-> worker.sent, items |-> Items, state |-> "active"])

Create ==
    /\ worker.at = "create"
    /\ digests' = Record
    /\ Finish("done")
    /\ UNCHANGED <<clock, settings, products, tick, messages, faults>>

\* Faulty variant: one try too many.
AfterErrorOneMore == IF jobs[worker.date].tries <= MaxTries THEN "queued" ELSE "failed"

AfterError == IF jobs[worker.date].tries < MaxTries THEN "queued" ELSE "failed"

\* The step fails, or takes effect without the worker knowing; the queue tries the
\* job again as often as max_attempts allows.
WorkerFails ==
    /\ worker.at # "idle" /\ faults < MaxFaults
    /\ Finish(AfterError)
    /\ \/ UNCHANGED <<messages, digests>>
       \/ worker.at = "send" /\ Items # <<>> /\ messages' = Sent /\ UNCHANGED digests
       \/ worker.at = "create" /\ digests' = Record /\ UNCHANGED messages
    /\ faults' = faults + 1
    /\ UNCHANGED <<clock, settings, products, tick>>

Work == Claim \/ ReadSoon \/ ReadExpired \/ SendNothing \/ Send \/ Create

\* scheduler-worker is killed: a running job stays running.
Crash ==
    /\ faults < MaxFaults
    /\ worker' = AtRest
    /\ tick' = [t \in Tickers |-> NoTick]
    /\ faults' = faults + 1
    /\ UNCHANGED <<clock, settings, products, jobs, messages, digests>>

Next ==
    \/ Advance \/ UserCloses \/ UserSets \/ Work \/ WorkerFails \/ Crash \/ Reconcile
    \/ \E t \in Tickers : Tick(t) \/ TickDeleteFails(t) \/ TickFails(t)

Spec == Init /\ [][Next]_vars

\* The timer ticks for ever and every job that is due is claimed (module JobQueue).
FairSpec == Spec /\ WF_vars(Work) /\ WF_vars(Tick("timer"))

-----------------------------------------------------------------------------
(* Properties.                                                             *)

TypeOK ==
    /\ clock \in Start..End /\ faults \in 0..MaxFaults
    /\ settings \in [offset : Offsets, due : Dues]
    /\ DOMAIN products = DOMAIN Shelf
    /\ jobs \in [Dates -> [status : {"none", "queued", "running", "done", "failed"}, tries : 0..MaxTries]]
    /\ worker.at \in {"idle", "soon", "expired", "send", "create"}
    /\ worker.sent \in 0..Len(messages)
    /\ \A t \in Tickers : tick[t].todo \cup {tick[t].row} \subseteq 0..Len(digests)
    /\ \A d \in DOMAIN digests : digests[d].message \in DOMAIN messages

\* A digest in the chat that no active row of digest_messages knows, and that no
\* tick can therefore ever take away, is the trace of a failure: one for each
\* (sendMorningDigest, cleanupDigestMessages).
UntrackedAreFaults ==
    Cardinality({m \in DOMAIN messages :
        /\ messages[m].here /\ ~(worker.at = "create" /\ worker.sent = m)
        /\ \A d \in DOMAIN digests : digests[d].message = m => digests[d].state = "deleted"}) <= faults

\* However the ticks overlap, and with the job tried again, a local date sees one
\* digest and one more for each failure (enqueueDueDigests).
OneDigestADay ==
    \A date \in Dates : Cardinality({m \in DOMAIN messages : messages[m].date = date}) <= 1 + faults

\* A tick takes a digest out of the chat only when none of the products it names is
\* active any more, although it looked some statements earlier (ActiveProductsExist).
CleanerSparesOpen ==
    [][\A m \in DOMAIN messages : (messages[m].here /\ ~messages'[m].here) =>
           \A i \in DOMAIN messages[m].items : products[messages[m].items[i]].status # "active"]_vars

\* A recorded digest whose products are all closed leaves the chat in the end,
\* deletions that fail, ticks that end early and restarts included.  (Closed products
\* stay closed and a digest does not come back, so "again and again none is left" says
\* that each of them goes.)
DigestsCleaned ==
    []<>(\A d \in DOMAIN digests : Open(d) \/ ~messages[digests[d].message].here)
===============================================================================
