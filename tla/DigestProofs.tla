----------------------------- MODULE DigestProofs -----------------------------
(***************************************************************************)
(* Proofs about Digest, for any shelf of products, any clock and any       *)
(* number of tickers, tries and failures: how many digests a local date    *)
(* sees, which of them nobody will take away, and that no tick takes away  *)
(* a digest some of whose products are still active.                       *)
(***************************************************************************)
EXTENDS Digest, Ranks, TLAPS

(***************************************************************************)
(* The inductive invariant.                                                *)
(***************************************************************************)

Ids == DOMAIN Shelf

Product == [expires : Int, status : {"active"} \cup Closings]
JobRow == [status : {"none", "queued", "running", "done", "failed"}, tries : 0..MaxTries]
Hand == [at : {"idle", "soon", "expired", "send", "create"}, date : Dates \cup {0}, now : Int,
         soon : Seq(Ids), expired : Seq(Ids), sent : Nat]
TickHand == [at : {"idle", "users", "list", "check", "delete", "mark"}, now : Int,
             todo : SUBSET Nat, row : Nat]
Message == [items : Seq(Ids), here : BOOLEAN, date : Dates]
Digested == [message : Nat, items : Seq(Ids), state : {"active", "deleted"}]

\* Types, in the detail the steps need.
Shapes ==
    /\ clock \in Start..End /\ faults \in 0..MaxFaults
    /\ settings \in [offset : Offsets, due : Dues]
    /\ products \in [Ids -> Product]
    /\ jobs \in [Dates -> JobRow]
    /\ worker \in Hand
    /\ tick \in [Tickers -> TickHand]
    /\ messages \in Seq(Message)
    /\ digests \in Seq(Digested)

\* What the worker and the ticks have in hand is in the tables, a digest names the
\* products its message does, and a job that waits has a try left.
Linked ==
    /\ \A d \in Dates : jobs[d].status = "queued" => jobs[d].tries < MaxTries
    /\ worker.at = "idle" => worker = AtRest
    /\ worker.at # "idle" => worker.date \in Dates /\ jobs[worker.date].status = "running"
    /\ worker.sent \in 0..Len(messages)
    /\ worker.at = "create" =>
          worker.sent \in DOMAIN messages /\ messages[worker.sent].items = Items
    /\ \A t \in Tickers : tick[t].todo \subseteq DOMAIN digests
    /\ \A t \in Tickers : tick[t].row \in 0..Len(digests)
    /\ \A t \in Tickers : tick[t].at \in {"delete", "mark"} => tick[t].row \in DOMAIN digests
    /\ \A d \in DOMAIN digests : /\ digests[d].message \in DOMAIN messages
                                 /\ digests[d].items = messages[digests[d].message].items

\* A tick is about to delete only a digest whose products are all closed, and marks
\* one whose message is gone.
Spared ==
    \A t \in Tickers :
        /\ tick[t].at = "delete" => ~Open(tick[t].row)
        /\ tick[t].at = "mark" => ~messages[digests[tick[t].row].message].here

\* Whether a date is still to get the digest its job is for.
Owed(date) ==
    \/ jobs[date].status \in {"none", "queued"}
    \/ worker.date = date /\ worker.at \in {"soon", "expired", "send"}

SentOn(date) == {m \in DOMAIN messages : messages[m].date = date}

\* The digests of a date and the one it is still owed are one and the failures.
Budget ==
    \A date \in Dates :
        Cardinality(SentOn(date)) + (IF Owed(date) THEN 1 ELSE 0) <= 1 + faults

Untracked ==
    {m \in DOMAIN messages :
        /\ messages[m].here /\ ~(worker.at = "create" /\ worker.sent = m)
        /\ \A d \in DOMAIN digests : digests[d].message = m => digests[d].state = "deleted"}

IInv == Shapes /\ Linked /\ Spared /\ Budget /\ Cardinality(Untracked) <= faults

-----------------------------------------------------------------------------
(* Counting and sorting.                                                    *)

\* A set that gains at most one element has at most one more.
LEMMA GainsOne ==
  ASSUME NEW S, IsFiniteSet(S), NEW x, NEW T, T \subseteq S \cup {x}
  PROVE  /\ IsFiniteSet(T) /\ Cardinality(T) \in Nat /\ Cardinality(S) \in Nat
         /\ Cardinality(T) <= Cardinality(S) + 1
<1>1. IsFiniteSet(S \cup {x}) /\ Cardinality(S \cup {x}) <= Cardinality(S) + 1
      /\ Cardinality(S) \in Nat
  BY FS_AddElement, FS_CardinalityType
<1>2. IsFiniteSet(T) /\ Cardinality(T) <= Cardinality(S \cup {x}) /\ Cardinality(T) \in Nat
      /\ Cardinality(S \cup {x}) \in Nat
  BY <1>1, FS_Subset, FS_CardinalityType
<1> QED
  BY <1>1, <1>2

\* A set that gains nothing does not grow.
LEMMA GainsNothing ==
  ASSUME NEW S, IsFiniteSet(S), NEW T, T \subseteq S
  PROVE  /\ IsFiniteSet(T) /\ Cardinality(T) \in Nat /\ Cardinality(S) \in Nat
         /\ Cardinality(T) <= Cardinality(S)
  BY FS_Subset, FS_CardinalityType

\* The ids of the products are those of the shelf.
LEMMA IdsFacts == IsFiniteSet(Ids) /\ Ids \subseteq Nat
<1>1. Shelf \in Seq([expires : Int, status : {"active"}])
  BY DigestAssumption
<1>2. Ids = 1..Len(Shelf) /\ Len(Shelf) \in Nat
  BY <1>1 DEF Ids
<1> QED
  BY <1>2, FS_Interval

\* A list in the order of the expiry dates has the ids it is made of.
LEMMA ByExpiryTypes ==
  ASSUME products \in [Ids -> Product], NEW ids \in SUBSET Ids
  PROVE  ByExpiry(products, ids) \in Seq(Ids)
<1> DEFINE Upto == [p \in ids |-> {q \in ids : q = p \/ Before(products, q, p)}]
<1>1. IsFiniteSet(ids) /\ \A p \in ids : p \in Nat /\ products[p].expires \in Int
  BY IdsFacts, FS_Subset DEF Product
<1>2. Chain(ids, Upto)
  <2>1. \A p \in ids : p \in Upto[p] /\ Upto[p] \in SUBSET ids
    OBVIOUS
  <2>2. \A p, q \in ids : p = q \/ Before(products, p, q) \/ Before(products, q, p)
    BY <1>1 DEF Before
  <2>3. \A p, q \in ids : ~(Before(products, p, q) /\ Before(products, q, p))
    BY <1>1 DEF Before
  <2>4. \A p, q, r \in ids : Before(products, p, q) /\ Before(products, q, r)
                                => Before(products, p, r)
    BY <1>1 DEF Before
  <2>5. \A p, q \in ids : Before(products, p, q) => Upto[p] \subseteq Upto[q]
    BY <2>4
  <2>6. \A p, q \in ids : Upto[p] = Upto[q] => p = q
    BY <2>1, <2>3
  <2> QED
    BY <1>1, <2>1, <2>2, <2>5, <2>6 DEF Chain
<1>3. Ranked(ids, Upto)
  BY <1>2, EveryRankIsTaken
<1>4. ASSUME NEW i \in 1..Cardinality(ids) PROVE ByExpiry(products, ids)[i] \in ids
  <2>1. ByExpiry(products, ids)[i] = CHOOSE p \in ids : Cardinality(Upto[p]) = i
    BY DEF ByExpiry
  <2> HIDE DEF Upto
  <2> QED
    BY <1>3, <2>1 DEF Ranked
<1>5. ByExpiry(products, ids) \in [1..Cardinality(ids) -> Ids]
  BY <1>4 DEF ByExpiry
<1> QED
  BY <1>3, <1>5 DEF Ranked

-----------------------------------------------------------------------------
(* What the steps change.                                                   *)

\* The message of the digest a tick deletes leaves the chat.
Gone(t) == [messages EXCEPT ![digests[tick[t].row].message].here = FALSE]

\* The steps of a tick and what they leave alone.
TickStep(t) == Tick(t) \/ TickDeleteFails(t) \/ TickFails(t) \/ (t = "control" /\ Reconcile)
UserStep == Advance \/ UserCloses \/ UserSets
WorkerStep == Work \/ WorkerFails

\* A step is one of the user, of the worker, of a process that is killed or of a tick.
LEMMA Steps ==
  ASSUME IInv, [Next]_vars
  PROVE  \/ UNCHANGED vars \/ UserStep \/ WorkerStep \/ Crash
         \/ \E t \in Tickers : TickStep(t)
  BY DEF Next, UserStep, WorkerStep, TickStep, Reconcile

\* A tick changes its own state; it may enqueue the job of a date, take the message
\* of its digest out of the chat or mark the digest.
LEMMA TickEffects ==
  ASSUME IInv, NEW t \in Tickers, TickStep(t)
  PROVE  /\ UNCHANGED <<clock, settings, products, worker>>
         /\ jobs' = jobs \/ jobs' = Enqueued(t)
         /\ \/ messages' = messages
            \/ tick[t].at = "delete" /\ messages' = Gone(t)
         /\ \/ digests' = digests
            \/ tick[t].at = "mark" /\ digests' = Marked(t)
         /\ faults' = faults \/ (faults < MaxFaults /\ faults' = faults + 1)
         /\ \A u \in Tickers : u # t => tick'[u] = tick[u]
<1> USE DEF Step
<1>1. tick \in [Tickers -> TickHand]
  BY DEF IInv, Shapes
<1>2. CASE Tick(t)
  BY <1>1, <1>2 DEF Tick, TickNow, TickUsers, TickList, TickCheck, TickDelete, TickMark, Gone
<1>3. CASE TickDeleteFails(t)
  BY <1>1, <1>3 DEF TickDeleteFails, Gone
<1>4. CASE TickFails(t)
  BY <1>1, <1>4 DEF TickFails
<1>5. CASE t = "control" /\ Reconcile
  BY <1>1, <1>5 DEF Reconcile
<1> QED
  BY <1>2, <1>3, <1>4, <1>5 DEF TickStep

\* Where the tick that moves stands afterward.
LEMMA TickMoves ==
  ASSUME IInv, NEW t \in Tickers, TickStep(t)
  PROVE  LET h == tick'[t]
         IN  /\ h \in TickHand
             /\ h.todo \subseteq tick[t].todo \/ h.todo \subseteq DOMAIN digests
             /\ h.row \in {0, tick[t].row} \cup DOMAIN digests
             /\ h.at = "delete" => h.row \in DOMAIN digests /\ ~Open(h.row)
             /\ h.at = "mark" => /\ tick[t].at = "delete" /\ h.row = tick[t].row
                                 /\ messages' = Gone(t)
<1> USE DEF Step
<1>1. tick \in [Tickers -> TickHand] /\ tick[t] \in TickHand /\ tick[t].todo \subseteq DOMAIN digests
      /\ clock \in Int /\ DOMAIN digests \subseteq Nat
  BY DigestAssumption DEF IInv, Shapes, Linked
<1>2. CASE TickNow(t) \/ TickUsers(t)
  <2>1. \/ tick'[t] = [at |-> "users", now |-> clock, todo |-> {}, row |-> 0]
        \/ tick'[t] = [at |-> "list", now |-> 0, todo |-> {}, row |-> 0]
    BY <1>1, <1>2 DEF TickNow, TickUsers, NoTick
  <2> QED
    BY <1>1, <2>1 DEF TickHand
<1>3. CASE TickList(t)
  <2>1. \E todo \in SUBSET DOMAIN digests :
           tick'[t] = [at |-> "check", now |-> 0, todo |-> todo, row |-> 0]
    BY <1>1, <1>3 DEF TickList, NoTick
  <2> QED
    BY <1>1, <2>1 DEF TickHand
<1>4. CASE TickCheck(t)
  <2>1. CASE tick'[t] = NoTick
    BY <2>1 DEF NoTick, TickHand
  <2>2. ASSUME NEW d \in tick[t].todo,
               tick'[t] = [tick[t] EXCEPT !.todo = @ \ {d}, !.row = IF Open(d) THEN 0 ELSE d,
                                          !.at = IF Open(d) THEN "check" ELSE "delete"]
        PROVE  /\ tick'[t] \in TickHand /\ tick'[t].todo \subseteq tick[t].todo
               /\ tick'[t].row \in {0, d} /\ tick'[t].at \in {"check", "delete"}
               /\ tick'[t].at = "delete" => tick'[t].row = d /\ ~Open(d)
    <3>1. d \in DOMAIN digests /\ d \in Nat
      BY <1>1
    <3>2. CASE Open(d)
      <4>1. tick'[t] = [tick[t] EXCEPT !.todo = @ \ {d}, !.row = 0, !.at = "check"]
        BY <2>2, <3>2
      <4>2. /\ tick'[t].todo = tick[t].todo \ {d} /\ tick'[t].row = 0
            /\ tick'[t].at = "check" /\ tick'[t].now = tick[t].now
        BY <1>1, <4>1 DEF TickHand
      <4>3. tick'[t] \in TickHand
        <5>1. [tick[t] EXCEPT !.at = "check"] \in TickHand /\ tick[t].todo \ {d} \in SUBSET Nat
          BY <1>1 DEF TickHand
        <5>2. tick'[t] = [at |-> "check", now |-> tick[t].now, todo |-> tick[t].todo \ {d},
                          row |-> 0]
          BY <1>1, <4>1 DEF TickHand
        <5> QED
          BY <5>1, <5>2 DEF TickHand
      <4> QED
        BY <4>2, <4>3
    <3>3. CASE ~Open(d)
      <4>1. tick'[t] = [tick[t] EXCEPT !.todo = @ \ {d}, !.row = d, !.at = "delete"]
        BY <2>2, <3>3
      <4>2. /\ tick'[t].todo = tick[t].todo \ {d} /\ tick'[t].row = d
            /\ tick'[t].at = "delete" /\ tick'[t].now = tick[t].now
        BY <1>1, <4>1 DEF TickHand
      <4>3. tick'[t] \in TickHand
        <5>1. [tick[t] EXCEPT !.at = "delete"] \in TickHand /\ tick[t].todo \ {d} \in SUBSET Nat
          BY <1>1 DEF TickHand
        <5>2. tick'[t] = [at |-> "delete", now |-> tick[t].now, todo |-> tick[t].todo \ {d},
                          row |-> d]
          BY <1>1, <4>1 DEF TickHand
        <5> QED
          BY <3>1, <5>1, <5>2 DEF TickHand
      <4> QED
        BY <3>3, <4>2, <4>3
    <3> QED
      BY <3>2, <3>3
  <2> QED
    BY <1>1, <1>4, <2>1, <2>2 DEF TickCheck
<1>5. CASE TickDelete(t)
  BY <1>1, <1>5 DEF TickDelete, TickHand, Gone
<1>6. CASE TickDeleteFails(t)
  BY <1>1, <1>6 DEF TickDeleteFails, AfterDeleteFails, TickHand
<1>7. CASE TickMark(t)
  BY <1>1, <1>7 DEF TickMark, TickHand
<1>8. CASE TickFails(t) \/ (t = "control" /\ Reconcile)
  BY <1>1, <1>8 DEF TickFails, Reconcile, NoTick, TickHand
<1> QED
  BY <1>2, <1>3, <1>4, <1>5, <1>6, <1>7, <1>8 DEF TickStep, Tick

\* What becomes of a job, a digest sent and its record in the worker's hands.
LEMMA WorkerEffects ==
  ASSUME IInv, WorkerStep
  PROVE  /\ UNCHANGED <<clock, settings, products, tick>>
         /\ \/ messages' = messages
            \/ worker.at = "send" /\ messages' = Sent
         /\ \/ digests' = digests
            \/ worker.at = "create" /\ digests' = Record
         /\ \/ WorkerFails /\ faults < MaxFaults /\ faults' = faults + 1
            \/ Work /\ faults' = faults
  BY DEF WorkerStep, Work, Claim, ReadSoon, ReadExpired, SendNothing, Send, Create, WorkerFails

\* The messages of the table stay, but for what ticks take out of the chat.
LEMMA MessagesStay ==
  ASSUME IInv, [Next]_vars
  PROVE  /\ messages' \in Seq(Message)
         /\ DOMAIN messages \subseteq DOMAIN messages' /\ Len(messages) <= Len(messages')
         /\ \A m \in DOMAIN messages : /\ messages'[m].items = messages[m].items
                                       /\ messages'[m].date = messages[m].date
                                       /\ messages'[m].here => messages[m].here
         /\ \/ DOMAIN messages' = DOMAIN messages
            \/ /\ WorkerStep /\ worker.at = "send" /\ Len(messages') = Len(messages) + 1
               /\ messages' = Sent /\ messages'[Len(messages) + 1].date = worker.date
               /\ messages'[Len(messages) + 1].items = Items
               /\ DOMAIN messages' = DOMAIN messages \cup {Len(messages) + 1}
               /\ Len(messages) + 1 \notin DOMAIN messages
<1>1. messages \in Seq(Message) /\ worker \in Hand /\ (worker.at # "idle" => worker.date \in Dates)
  BY DEF IInv, Shapes, Linked
<1>2. CASE messages' = messages
  BY <1>1, <1>2
<1>3. CASE \E t \in Tickers : tick[t].at = "delete" /\ messages' = Gone(t)
  <2>1. PICK t \in Tickers : tick[t].at = "delete" /\ messages' = Gone(t)
    BY <1>3
  <2> DEFINE k == digests[tick[t].row].message
  <2>2. k \in DOMAIN messages
    BY <2>1 DEF IInv, Linked
  <2>3. messages' = [messages EXCEPT ![k] = [messages[k] EXCEPT !.here = FALSE]]
    BY <1>1, <2>1, <2>2 DEF Gone
  <2>4. messages[k] \in Message
    BY <1>1, <2>2
  <2>5. [messages[k] EXCEPT !.here = FALSE] \in Message
    BY <2>4 DEF Message
  <2>6. /\ [messages[k] EXCEPT !.here = FALSE].items = messages[k].items
        /\ [messages[k] EXCEPT !.here = FALSE].date = messages[k].date
        /\ [messages[k] EXCEPT !.here = FALSE].here = FALSE
    BY <2>4 DEF Message
  <2> DEFINE gone == [messages[k] EXCEPT !.here = FALSE]
  <2>7. messages' = [messages EXCEPT ![k] = gone] /\ gone \in Message
    BY <2>3, <2>5
  <2>8. /\ gone.items = messages[k].items /\ gone.date = messages[k].date
        /\ gone.here = FALSE
    BY <2>6
  <2> HIDE DEF gone, k
  <2> QED
    BY <1>1, <2>2, <2>7, <2>8
<1>4. CASE WorkerStep /\ worker.at = "send" /\ messages' = Sent
  <2> DEFINE new == [items |-> Items, here |-> TRUE, date |-> worker.date]
  <2>1. new \in Message /\ new.items = Items /\ new.date = worker.date
    BY <1>1, <1>4 DEF Items, Hand, Message
  <2> HIDE DEF new
  <2>2. messages' = Append(messages, new)
    BY <1>4 DEF Sent, new
  <2>3. /\ messages' \in Seq(Message) /\ Len(messages') = Len(messages) + 1
        /\ Len(messages) \in Nat
        /\ DOMAIN messages = 1..Len(messages) /\ DOMAIN messages' = 1..(Len(messages) + 1)
        /\ \A m \in DOMAIN messages : messages'[m] = messages[m]
        /\ messages'[Len(messages) + 1] = new
    BY <1>1, <2>1, <2>2
  <2>4. /\ 1..(Len(messages) + 1) = 1..Len(messages) \cup {Len(messages) + 1}
        /\ Len(messages) + 1 \notin 1..Len(messages) /\ Len(messages) <= Len(messages) + 1
    BY <2>3
  <2> QED
    BY <1>4, <2>1, <2>3, <2>4
<1>5. UNCHANGED vars \/ UserStep \/ Crash => messages' = messages
  BY DEF vars, UserStep, Advance, UserCloses, UserSets, Crash
<1> QED
  BY <1>2, <1>3, <1>4, <1>5, Steps, WorkerEffects, TickEffects

\* The digests of the table stay, and only marking changes one.
LEMMA DigestsStay ==
  ASSUME IInv, [Next]_vars
  PROVE  /\ digests' \in Seq(Digested)
         /\ DOMAIN digests \subseteq DOMAIN digests' /\ Len(digests) <= Len(digests')
         /\ \A d \in DOMAIN digests : /\ digests'[d].items = digests[d].items
                                      /\ digests'[d].message = digests[d].message
         /\ \/ digests' = digests
            \/ \E t \in Tickers :
                  /\ TickStep(t) /\ tick[t].at = "mark" /\ DOMAIN digests' = DOMAIN digests
                  /\ \A d \in DOMAIN digests : d # tick[t].row => digests'[d] = digests[d]
            \/ /\ WorkerStep /\ worker.at = "create"
               /\ DOMAIN digests' = DOMAIN digests \cup {Len(digests) + 1}
               /\ \A d \in DOMAIN digests : digests'[d] = digests[d]
               /\ digests'[Len(digests) + 1].message = worker.sent
               /\ digests'[Len(digests) + 1].items = Items
               /\ digests'[Len(digests) + 1].state = "active"
<1>1. digests \in Seq(Digested) /\ worker \in Hand
  BY DEF IInv, Shapes
<1>2. CASE digests' = digests
  BY <1>1, <1>2
<1>3. CASE \E t \in Tickers : TickStep(t) /\ tick[t].at = "mark" /\ digests' = Marked(t)
  <2>1. PICK t \in Tickers : TickStep(t) /\ tick[t].at = "mark" /\ digests' = Marked(t)
    BY <1>3
  <2> DEFINE k == tick[t].row
  <2>2. k \in DOMAIN digests
    BY <2>1 DEF IInv, Linked
  <2>3. digests' = [digests EXCEPT ![k] = [digests[k] EXCEPT !.state = "deleted"]]
    BY <1>1, <2>1, <2>2 DEF Marked
  <2>4. digests[k] \in Digested
    BY <1>1, <2>2
  <2>5. [digests[k] EXCEPT !.state = "deleted"] \in Digested
    BY <2>4 DEF Digested
  <2>6. /\ [digests[k] EXCEPT !.state = "deleted"].items = digests[k].items
        /\ [digests[k] EXCEPT !.state = "deleted"].message = digests[k].message
    BY <2>4 DEF Digested
  <2> QED
    BY <1>1, <2>1, <2>2, <2>3, <2>5, <2>6
<1>4. CASE WorkerStep /\ worker.at = "create" /\ digests' = Record
  <2> DEFINE new == [message |-> worker.sent, items |-> Items, state |-> "active"]
  <2>1. /\ new \in Digested /\ new.items = Items /\ new.message = worker.sent
        /\ new.state = "active"
    BY <1>1, <1>4 DEF Items, Hand, Digested
  <2> HIDE DEF new
  <2>2. digests' = Append(digests, new)
    BY <1>4 DEF Record, new
  <2>3. /\ digests' \in Seq(Digested) /\ Len(digests') = Len(digests) + 1
        /\ Len(digests) \in Nat
        /\ DOMAIN digests = 1..Len(digests) /\ DOMAIN digests' = 1..(Len(digests) + 1)
        /\ \A d \in DOMAIN digests : digests'[d] = digests[d]
        /\ digests'[Len(digests) + 1] = new
    BY <1>1, <2>1, <2>2
  <2>4. /\ 1..(Len(digests) + 1) = 1..Len(digests) \cup {Len(digests) + 1}
        /\ Len(digests) <= Len(digests) + 1
    BY <2>3
  <2> QED
    BY <1>4, <2>1, <2>3, <2>4
<1>5. UNCHANGED vars \/ UserStep \/ Crash => digests' = digests
  BY DEF vars, UserStep, Advance, UserCloses, UserSets, Crash
<1> QED
  BY <1>2, <1>3, <1>4, <1>5, Steps, WorkerEffects, TickEffects

\* What the worker does with its job: it goes on with it or is done with it.
GoesOn ==
    /\ worker'.at \in {"expired", "send"} /\ worker.at \in {"soon", "expired"}
    /\ worker'.date = worker.date /\ worker'.sent = worker.sent
    /\ UNCHANGED <<jobs, messages, digests, faults>>

Posts ==
    /\ worker.at = "send" /\ worker'.at = "create" /\ worker'.date = worker.date
    /\ worker'.sent = Len(messages) + 1 /\ worker'.soon = worker.soon
    /\ worker'.expired = worker.expired /\ messages' = Sent
    /\ UNCHANGED <<jobs, digests, faults>>

IsDone(status) ==
    /\ worker.at # "idle" /\ status \in {"done", "queued", "failed"} /\ Finish(status)
    /\ status = "queued" => WorkerFails /\ jobs[worker.date].tries < MaxTries
    /\ messages' = messages \/ WorkerFails
    /\ worker.at = "create" => WorkerFails \/ digests' = Record

\* Where the worker stands after a step, and which of its steps it was.
LEMMA WorkerMoves ==
  ASSUME IInv, WorkerStep
  PROVE  worker' \in Hand /\ (Claim \/ GoesOn \/ Posts \/ \E status : IsDone(status))
<1>1. /\ worker \in Hand /\ products \in [Ids -> Product] /\ clock \in Int
      /\ messages \in Seq(Message) /\ Len(messages) + 1 \in Nat
  BY DigestAssumption DEF IInv, Shapes
<1>2. AtRest \in Hand
  BY DEF AtRest, Hand
<1>3. ASSUME NEW status, Finish(status) PROVE worker' \in Hand
  BY <1>2, <1>3 DEF Finish
<1>4. CASE Claim
  <2>1. \E d \in Dates : worker' = [at |-> "soon", date |-> d, now |-> 0, soon |-> <<>>,
                                    expired |-> <<>>, sent |-> 0]
    BY <1>4 DEF Claim, AtRest
  <2> QED
    BY <1>4, <2>1 DEF Hand
<1>5. CASE ReadSoon
  <2> DEFINE list == ByExpiry(products, Soon(products, UTCDay(clock)))
  <2>1. list \in Seq(Ids)
    <3>1. Soon(products, UTCDay(clock)) \in SUBSET Ids
      BY <1>1 DEF Soon, Active
    <3> QED
      BY <1>1, <3>1, ByExpiryTypes
  <2> HIDE DEF list
  <2>2. worker' = [worker EXCEPT !.at = "expired", !.now = clock, !.soon = list]
        /\ worker.at = "soon" /\ UNCHANGED <<jobs, messages, digests, faults>>
    BY <1>5 DEF ReadSoon, list
  <2>3. worker' \in Hand
    BY <1>1, <2>1, <2>2 DEF Hand
  <2> QED
    BY <1>1, <2>2, <2>3 DEF GoesOn, Hand
<1>6. CASE ReadExpired
  <2> DEFINE list == ByExpiry(products, Expired(products, UTCDay(worker.now)))
  <2>1. list \in Seq(Ids)
    <3>1. Expired(products, UTCDay(worker.now)) \in SUBSET Ids
      BY <1>1 DEF Expired, Active
    <3> QED
      BY <1>1, <3>1, ByExpiryTypes
  <2> HIDE DEF list
  <2>2. worker' = [worker EXCEPT !.at = "send", !.expired = list]
        /\ worker.at = "expired" /\ UNCHANGED <<jobs, messages, digests, faults>>
    BY <1>6 DEF ReadExpired, list
  <2>3. worker' \in Hand
    BY <1>1, <2>1, <2>2 DEF Hand
  <2> QED
    BY <1>1, <2>2, <2>3 DEF GoesOn, Hand
<1>7. CASE Send
  <2>1. worker' = [worker EXCEPT !.at = "create", !.sent = Len(messages) + 1]
        /\ worker.at = "send" /\ messages' = Sent /\ UNCHANGED <<jobs, digests, faults>>
    BY <1>7 DEF Send
  <2>2. worker' \in Hand
    BY <1>1, <2>1 DEF Hand
  <2> QED
    BY <1>1, <2>1, <2>2 DEF Posts, Hand
<1>8. CASE SendNothing \/ Create
  <2>1. IsDone("done")
    BY <1>8 DEF SendNothing, Create, IsDone
  <2> QED
    BY <1>3, <2>1 DEF IsDone
<1>9. CASE WorkerFails
  <2>1. IsDone(AfterError)
    BY <1>9 DEF WorkerFails, AfterError, IsDone
  <2> QED
    BY <1>3, <2>1 DEF IsDone
<1> QED
  BY <1>4, <1>5, <1>6, <1>7, <1>8, <1>9 DEF WorkerStep, Work

\* What becomes of the job of a date.
LEMMA JobsStay ==
  ASSUME IInv, [Next]_vars
  PROVE  /\ jobs' \in [Dates -> JobRow]
         /\ \A d \in Dates :
               \/ jobs'[d] = jobs[d]
               \/ /\ jobs[d].status = "none" /\ jobs'[d].status = "queued"
                  /\ jobs'[d].tries < MaxTries /\ worker' = worker
               \/ /\ jobs[d].status = "queued" /\ jobs'[d].status = "running"
                  /\ WorkerStep /\ Claim /\ worker'.date = d /\ worker'.at = "soon"
               \/ /\ worker.at # "idle" /\ d = worker.date /\ WorkerStep
                  /\ \E status : IsDone(status) /\ jobs'[d].status = status
                                 /\ jobs'[d].tries = jobs[d].tries
         /\ worker.at # "idle" /\ worker'.at # "idle" =>
               jobs'[worker.date].status = jobs[worker.date].status
<1>1. /\ jobs \in [Dates -> JobRow] /\ MaxTries \in Nat \ {0}
      /\ \A d \in Dates : jobs[d] \in JobRow /\ jobs[d].tries \in 0..MaxTries
      /\ worker.at # "idle" => worker.date \in Dates /\ jobs[worker.date].status = "running"
      /\ worker.at = "idle" => worker = AtRest
  BY DigestAssumption DEF IInv, Shapes, Linked, JobRow
<1>2. CASE UNCHANGED <<jobs, worker>>
  BY <1>1, <1>2
<1>3. CASE \E t \in Tickers : TickStep(t)
  <2>1. PICK date : (jobs' = jobs \/ jobs' = Enqueue(date)) /\ worker' = worker
    BY <1>3, TickEffects DEF Enqueued
  <2>2. CASE jobs[date] = NoJob /\ jobs' = [jobs EXCEPT ![date].status = "queued"]
    <3>1. jobs' = [d \in Dates |-> IF d = date THEN [jobs[date] EXCEPT !.status = "queued"]
                                   ELSE jobs[d]]
      BY <1>1, <2>2
    <3>2. [NoJob EXCEPT !.status = "queued"] = [status |-> "queued", tries |-> 0]
          /\ NoJob.status = "none"
      BY DEF NoJob
    <3>3. [status |-> "queued", tries |-> 0] \in JobRow /\ 0 < MaxTries
      BY <1>1 DEF JobRow
    <3>4. \A d \in Dates : jobs'[d] = jobs[d] \/ (jobs[d].status = "none"
             /\ jobs'[d] = [status |-> "queued", tries |-> 0])
      BY <2>2, <3>1, <3>2
    <3>5. jobs' \in [Dates -> JobRow]
      BY <1>1, <3>1, <3>2, <3>3, <3>4
    <3>6. worker'.at # "idle" => jobs[worker.date].status # "none"
      BY <1>1, <2>1
    <3> QED
      BY <1>1, <2>1, <3>3, <3>4, <3>5, <3>6
  <2> QED
    BY <1>1, <2>1, <2>2 DEF Enqueue
<1>4. CASE WorkerStep /\ Claim
  <2>1. PICK d \in Dates :
             /\ worker = AtRest /\ jobs[d].status = "queued"
             /\ jobs' = [jobs EXCEPT ![d] = [status |-> "running", tries |-> @.tries + 1]]
             /\ worker' = [AtRest EXCEPT !.at = "soon", !.date = d]
    BY <1>4 DEF Claim
  <2>2. jobs[d].tries < MaxTries /\ worker.at = "idle"
    BY <2>1 DEF IInv, Linked, AtRest
  <2>3. [status |-> "running", tries |-> jobs[d].tries + 1] \in JobRow
    BY <1>1, <2>2 DEF JobRow
  <2>4. worker'.at = "soon" /\ worker'.date = d
    BY <2>1 DEF AtRest
  <2> QED
    BY <1>1, <1>4, <2>1, <2>2, <2>3, <2>4
<1>5. CASE WorkerStep /\ \E status : IsDone(status)
  <2>1. PICK status : IsDone(status)
    BY <1>5
  <2>2. worker.date \in Dates /\ jobs' = [jobs EXCEPT ![worker.date].status = status]
        /\ worker' = AtRest /\ status \in {"done", "queued", "failed"} /\ worker.at # "idle"
    BY <1>1, <2>1 DEF IsDone, Finish
  <2>3. /\ jobs'[worker.date] = [jobs[worker.date] EXCEPT !.status = status]
        /\ \A d \in Dates : d # worker.date => jobs'[d] = jobs[d]
        /\ jobs' = [d \in Dates |-> jobs'[d]]
    BY <1>1, <2>2
  <2>4. /\ [jobs[worker.date] EXCEPT !.status = status] \in JobRow
        /\ [jobs[worker.date] EXCEPT !.status = status].status = status
        /\ [jobs[worker.date] EXCEPT !.status = status].tries = jobs[worker.date].tries
    BY <1>1, <2>2 DEF JobRow
  <2>5. worker'.at = "idle"
    BY <2>2 DEF AtRest
  <2> QED
    BY <1>1, <1>5, <2>1, <2>2, <2>3, <2>4, <2>5
<1>6. CASE GoesOn \/ Posts
  BY <1>1, <1>6 DEF GoesOn, Posts
<1>7. CASE Crash
  <2>1. worker' = AtRest /\ jobs' = jobs
    BY <1>7 DEF Crash
  <2> QED
    BY <1>1, <2>1
<1>8. UNCHANGED vars \/ UserStep => UNCHANGED <<jobs, worker>>
  BY DEF vars, UserStep, Advance, UserCloses, UserSets
<1> QED
  BY <1>2, <1>3, <1>4, <1>5, <1>6, <1>7, <1>8, Steps, WorkerMoves

-----------------------------------------------------------------------------
(* The parts of the invariant.                                              *)

\* Every step keeps the shapes.
LEMMA NextShapes ==
  ASSUME IInv, [Next]_vars
  PROVE  Shapes'
<1>1. Shapes /\ clock \in Start..End /\ Start \in Nat /\ End \in Nat
      /\ faults \in 0..MaxFaults /\ MaxFaults \in Nat
  BY DigestAssumption DEF IInv, Shapes
<1>2. clock' \in Start..End
  <2>1. clock' = clock \/ (clock < End /\ clock' = clock + 1)
    BY Steps, TickEffects, WorkerEffects
    DEF vars, UserStep, Advance, UserCloses, UserSets, Crash
  <2> QED
    BY <1>1, <2>1
<1>3. faults' \in 0..MaxFaults
  <2>1. faults' = faults \/ (faults < MaxFaults /\ faults' = faults + 1)
    BY Steps, TickEffects, WorkerEffects
    DEF vars, UserStep, Advance, UserCloses, UserSets, Crash
  <2> QED
    BY <1>1, <2>1
<1>4. settings' \in [offset : Offsets, due : Dues]
  BY <1>1, Steps, TickEffects, WorkerEffects
  DEF Shapes, vars, UserStep, Advance, UserCloses, UserSets, Crash
<1>5. products' \in [Ids -> Product]
  <2>1. products' = products \/ UserCloses
    BY Steps, TickEffects, WorkerEffects DEF vars, UserStep, Advance, UserSets, Crash
  <2>2. CASE UserCloses
    <3>1. PICK p \in Active(products), s \in Closings :
               products' = [products EXCEPT ![p].status = s]
      BY <2>2 DEF UserCloses
    <3>2. products \in [Ids -> Product] /\ p \in Ids /\ products[p] \in Product
      BY <1>1, <3>1 DEF Shapes, Active
    <3>3. [products[p] EXCEPT !.status = s] \in Product
      BY <3>1, <3>2 DEF Product
    <3>4. products' = [products EXCEPT ![p] = [products[p] EXCEPT !.status = s]]
      BY <3>1, <3>2
    <3> QED
      BY <3>2, <3>3, <3>4
  <2> QED
    BY <1>1, <2>1, <2>2 DEF Shapes
<1>6. worker' \in Hand
  <2>1. AtRest \in Hand
    BY DEF AtRest, Hand
  <2>2. WorkerStep \/ worker' \in {worker, AtRest}
    BY Steps, TickEffects DEF vars, UserStep, Advance, UserCloses, UserSets, Crash
  <2> QED
    BY <1>1, <2>1, <2>2, WorkerMoves DEF Shapes
<1>7. tick' \in [Tickers -> TickHand]
  <2>1. NoTick \in TickHand
    BY DEF NoTick, TickHand
  <2>2. CASE \E t \in Tickers : TickStep(t)
    <3>1. PICK t \in Tickers : TickStep(t)
      BY <2>2
    <3>2. tick'[t] \in TickHand /\ \A u \in Tickers : u # t => tick'[u] = tick[u]
      BY <3>1, TickMoves, TickEffects
    <3>3. \E h : tick' = [tick EXCEPT ![t] = h]
      BY <3>1 DEF TickStep, Tick, TickNow, TickUsers, TickList, TickCheck, TickDelete, TickMark,
                  TickDeleteFails, TickFails, Reconcile, Step
    <3> QED
      BY <1>1, <3>2, <3>3 DEF Shapes
  <2>3. CASE Crash
    BY <2>1, <2>3 DEF Crash
  <2>4. UNCHANGED vars \/ UserStep => tick' = tick
    BY DEF vars, UserStep, Advance, UserCloses, UserSets
  <2> QED
    BY <1>1, <2>2, <2>3, <2>4, Steps, WorkerEffects DEF Shapes
<1> QED
  BY <1>2, <1>3, <1>4, <1>5, <1>6, <1>7, JobsStay, MessagesStay, DigestsStay DEF Shapes

\* A tick that does not move keeps what it has; one that moves has what TickMoves
\* says; after a crash none has anything.
LEMMA TicksStay ==
  ASSUME IInv, [Next]_vars, NEW t \in Tickers
  PROVE  tick'[t] = tick[t] \/ tick'[t] = NoTick \/ TickStep(t)
<1>1. CASE \E u \in Tickers : TickStep(u)
  BY <1>1, TickEffects
<1>2. CASE Crash
  BY <1>2 DEF Crash
<1>3. UNCHANGED vars \/ UserStep => tick' = tick
  BY DEF vars, UserStep, Advance, UserCloses, UserSets
<1> QED
  BY <1>1, <1>2, <1>3, Steps, WorkerEffects

\* Every step keeps digests and messages linked.
LEMMA NextLinked ==
  ASSUME IInv, [Next]_vars
  PROVE  Linked'
<1>1. Shapes /\ Linked /\ Len(messages) \in Nat /\ Len(digests) \in Nat
      /\ DOMAIN messages = 1..Len(messages) /\ DOMAIN digests = 1..Len(digests)
  BY DEF IInv, Shapes
<1>2. Shapes' /\ Len(messages') \in Nat /\ Len(digests') \in Nat
      /\ DOMAIN messages' = 1..Len(messages') /\ DOMAIN digests' = 1..Len(digests')
  BY NextShapes DEF Shapes
<1>3. \A d \in Dates : jobs'[d].status = "queued" => jobs'[d].tries < MaxTries
  BY <1>1, JobsStay DEF Linked, IsDone
<1>4. WorkerStep \/ worker' = worker \/ worker' = AtRest
  BY Steps, TickEffects DEF vars, UserStep, Advance, UserCloses, UserSets, Crash
<1>5. \A status : IsDone(status) => worker' = AtRest
  BY DEF IsDone, Finish
<1>6. AtRest.at = "idle" /\ AtRest.sent = 0
  BY DEF AtRest
<1>7. worker'.at = "idle" => worker' = AtRest
  <2>1. Claim => worker'.at = "soon"
    BY DEF Claim, AtRest
  <2> QED
    BY <1>1, <1>4, <1>5, <2>1, WorkerMoves DEF Linked, GoesOn, Posts
<1>8. worker'.at # "idle" => worker'.date \in Dates /\ jobs'[worker'.date].status = "running"
  <2>1. CASE Claim
    <3>1. PICK d \in Dates :
               /\ jobs' = [jobs EXCEPT ![d] = [status |-> "running", tries |-> @.tries + 1]]
               /\ worker' = [AtRest EXCEPT !.at = "soon", !.date = d]
      BY <2>1 DEF Claim
    <3> QED
      BY <1>1, <3>1 DEF Shapes, AtRest
  <2>2. CASE GoesOn \/ Posts
    BY <1>1, <2>2 DEF Linked, GoesOn, Posts
  <2>3. CASE worker' = worker
    BY <1>1, <2>3, JobsStay DEF Linked
  <2> QED
    BY <1>4, <1>5, <1>6, <2>1, <2>2, <2>3, WorkerMoves
<1>9. worker'.sent \in 0..Len(messages')
  <2>1. Claim => worker'.sent = 0
    BY DEF Claim, AtRest
  <2>2. Posts => worker'.sent = Len(messages) + 1 /\ Len(messages') = Len(messages) + 1
    BY <1>1 DEF Posts, Sent, Shapes
  <2>3. worker.sent \in Nat /\ worker.sent <= Len(messages) /\ Len(messages) <= Len(messages')
    BY <1>1, MessagesStay DEF Linked
  <2>4. worker'.sent = 0 \/ worker'.sent = worker.sent \/ worker'.sent = Len(messages')
    BY <1>4, <1>5, <1>6, <2>1, <2>2, WorkerMoves DEF GoesOn
  <2> QED
    BY <1>1, <1>2, <2>3, <2>4
<1>10. worker'.at = "create" => worker'.sent \in DOMAIN messages' /\ messages'[worker'.sent].items = Items'
  <2>1. CASE Posts
    <3>1. Items' = Items
      BY <2>1 DEF Posts, Items
    <3>2. /\ Len(messages') = Len(messages) + 1
          /\ messages' = Append(messages, [items |-> Items, here |-> TRUE, date |-> worker.date])
      BY <1>1, <2>1 DEF Posts, Sent, Shapes
    <3>3. messages'[Len(messages) + 1].items = Items
      BY <1>1, <3>2 DEF Shapes
    <3> QED
      BY <1>1, <1>2, <2>1, <3>1, <3>2, <3>3 DEF Posts
  <2>2. CASE worker' = worker
    <3>1. Items' = Items
      BY <2>2 DEF Items
    <3> QED
      BY <1>1, <2>2, <3>1, MessagesStay DEF Linked
  <2>3. Claim => worker'.at = "soon"
    BY DEF Claim, AtRest
  <2> QED
    BY <1>4, <1>5, <1>6, <2>1, <2>2, <2>3, WorkerMoves DEF GoesOn
<1>11. ASSUME NEW t \in Tickers
       PROVE  /\ tick'[t].todo \subseteq DOMAIN digests' /\ tick'[t].row \in 0..Len(digests')
              /\ tick'[t].at \in {"delete", "mark"} => tick'[t].row \in DOMAIN digests'
  <2>1. DOMAIN digests \subseteq DOMAIN digests' /\ Len(digests) <= Len(digests')
    BY DigestsStay
  <2>2. /\ tick[t].todo \subseteq DOMAIN digests /\ tick[t].row \in 0..Len(digests)
        /\ tick[t].at \in {"delete", "mark"} => tick[t].row \in DOMAIN digests
    BY <1>1 DEF Linked
  <2>3. 0..Len(digests) \subseteq 0..Len(digests') /\ DOMAIN digests \subseteq 0..Len(digests')
        /\ 0 \in 0..Len(digests')
    BY <1>1, <1>2, <2>1
  <2>4. NoTick.todo = {} /\ NoTick.row = 0 /\ NoTick.at = "idle"
    BY DEF NoTick
  <2>5. CASE TickStep(t)
    BY <2>1, <2>2, <2>3, <2>5, TickMoves
  <2> QED
    BY <2>1, <2>2, <2>3, <2>4, <2>5, TicksStay
<1>12. ASSUME NEW d \in DOMAIN digests'
       PROVE  /\ digests'[d].message \in DOMAIN messages'
              /\ digests'[d].items = messages'[digests'[d].message].items
  <2>3. /\ DOMAIN messages \subseteq DOMAIN messages'
        /\ \A m \in DOMAIN messages : messages'[m].items = messages[m].items
    BY MessagesStay
  <2>1. CASE d \in DOMAIN digests
    <3>1. digests'[d].message = digests[d].message /\ digests'[d].items = digests[d].items
      BY <2>1, DigestsStay
    <3>2. /\ digests[d].message \in DOMAIN messages
          /\ digests[d].items = messages[digests[d].message].items
      BY <1>1, <2>1 DEF Linked
    <3> QED
      BY <2>3, <3>1, <3>2
  <2>2. CASE worker.at = "create" /\ digests'[d].message = worker.sent /\ digests'[d].items = Items
    <3>1. worker.sent \in DOMAIN messages /\ messages[worker.sent].items = Items
      BY <1>1, <2>2 DEF Linked
    <3> QED
      BY <2>2, <2>3, <3>1
  <2> QED
    BY <1>12, <2>1, <2>2, DigestsStay
<1> QED
  BY <1>3, <1>7, <1>8, <1>9, <1>10, <1>11, <1>12 DEF Linked

\* Closed products stay closed, so a digest that can go can still go later.
LEMMA ClosedStays ==
  ASSUME IInv, [Next]_vars, NEW d \in DOMAIN digests, ~Open(d)
  PROVE  \A i \in DOMAIN digests'[d].items :
            products'[digests'[d].items[i]].status # "active"
<1>1. /\ products \in [Ids -> Product] /\ digests \in Seq(Digested)
      /\ digests[d] \in Digested
  BY DEF IInv, Shapes
<1>2. digests'[d].items = digests[d].items /\ digests[d].items \in Seq(Ids)
  BY <1>1, DigestsStay DEF Digested
<1>3. \A i \in DOMAIN digests[d].items : digests[d].items[i] \in Ids
  BY <1>2
<1>4. \A p \in Ids : products[p].status # "active" => products'[p].status # "active"
  <2>1. CASE products' = products
    BY <2>1
  <2>2. CASE UserCloses
    <3>1. PICK p \in Active(products), s \in Closings :
               products' = [products EXCEPT ![p].status = s]
      BY <2>2 DEF UserCloses
    <3>2. \A q \in Ids : q # p => products'[q] = products[q]
      BY <1>1, <3>1
    <3>3. products[p].status = "active"
      BY <3>1 DEF Active
    <3> QED
      BY <3>2, <3>3
  <2> QED
    BY <2>1, <2>2, Steps, TickEffects, WorkerEffects
    DEF vars, UserStep, Advance, UserSets, Crash
<1> QED
  BY <1>2, <1>3, <1>4 DEF Open

\* A tick that goes on to delete or to mark has looked at products that stay closed or
\* has taken the message away.
LEMMA NextSpared ==
  ASSUME IInv, [Next]_vars
  PROVE  Spared'
<1>1. Shapes /\ Linked /\ Spared
  BY DEF IInv
<1>2. ASSUME NEW t \in Tickers, tick'[t].at = "delete"
      PROVE  \A i \in DOMAIN digests'[tick'[t].row].items :
                products'[digests'[tick'[t].row].items[i]].status # "active"
  <2>1. tick'[t].row \in DOMAIN digests /\ ~Open(tick'[t].row)
    <3>1. CASE tick'[t] = tick[t]
      BY <1>1, <1>2, <3>1 DEF Linked, Spared
    <3>2. tick'[t] # NoTick
      BY <1>2 DEF NoTick
    <3> QED
      BY <1>2, <3>1, <3>2, TicksStay, TickMoves
  <2> QED
    BY <2>1, ClosedStays
<1>3. ASSUME NEW t \in Tickers, tick'[t].at = "mark"
      PROVE  ~messages'[digests'[tick'[t].row].message].here
  <2>1. tick[t].row \in DOMAIN digests /\ tick'[t].row = tick[t].row
        /\ (tick'[t] = tick[t] \/ messages' = Gone(t))
    <3>1. CASE tick'[t] = tick[t]
      BY <1>1, <1>3, <3>1 DEF Linked
    <3>2. CASE TickStep(t)
      BY <1>1, <1>3, <3>2, TickMoves DEF Linked
    <3>3. tick'[t] # NoTick
      BY <1>3 DEF NoTick
    <3> QED
      BY <3>1, <3>2, <3>3, TicksStay
  <2> DEFINE m == digests[tick[t].row].message
  <2>2. m \in DOMAIN messages /\ digests'[tick'[t].row].message = m
    BY <1>1, <2>1, DigestsStay DEF Linked
  <2>3. CASE messages' = Gone(t)
    <3>1. messages[m] \in Message /\ messages' = [messages EXCEPT ![m] = [@ EXCEPT !.here = FALSE]]
      BY <1>1, <2>2, <2>3 DEF Gone, Shapes
    <3>2. messages'[m].here = FALSE
      BY <1>1, <2>2, <3>1 DEF Message
    <3> QED
      BY <2>2, <3>2
  <2>4. CASE tick'[t] = tick[t]
    <3>1. messages[m].here = FALSE \/ ~messages[m].here
      BY <1>1, <1>3, <2>4 DEF Spared
    <3> QED
      BY <2>2, <3>1, MessagesStay
  <2> QED
    BY <2>1, <2>3, <2>4
<1> QED
  BY <1>2, <1>3 DEF Spared, Open

\* The count of the failures only grows, and by one at a time.
LEMMA FaultsGrow ==
  ASSUME IInv, [Next]_vars
  PROVE  faults \in Nat /\ faults' \in Nat /\ (faults' = faults \/ faults' = faults + 1)
<1>1. faults \in 0..MaxFaults /\ MaxFaults \in Nat
  BY DigestAssumption DEF IInv, Shapes
<1>2. faults' = faults \/ faults' = faults + 1
  BY Steps, TickEffects, WorkerEffects
  DEF vars, UserStep, Advance, UserCloses, UserSets, Crash
<1> QED
  BY <1>1, <1>2

\* The worker moves by its own steps, or loses what it has in hand.
LEMMA WorkerStays ==
  ASSUME IInv, [Next]_vars
  PROVE  /\ WorkerStep \/ worker' = worker \/ (worker' = AtRest /\ faults' = faults + 1)
         /\ \A status : IsDone(status) => worker' = AtRest
         /\ AtRest.at = "idle"
  BY Steps, TickEffects
  DEF vars, UserStep, Advance, UserCloses, UserSets, Crash, AtRest, IsDone, Finish

\* Only a failure makes a date be owed a digest once more.
LEMMA OwedStays ==
  ASSUME IInv, [Next]_vars, NEW date \in Dates, Owed(date)'
  PROVE  Owed(date) \/ faults' = faults + 1
<1>1. CASE jobs'[date] = jobs[date]
  <2>1. CASE jobs[date].status \in {"none", "queued"}
    BY <2>1 DEF Owed
  <2>2. CASE worker'.date = date /\ worker'.at \in {"soon", "expired", "send"}
    <3>1. CASE worker' = worker
      BY <2>2, <3>1 DEF Owed
    <3>2. CASE WorkerStep
      <4>1. CASE Claim
        <5>1. PICK d \in Dates : jobs[d].status = "queued"
                                 /\ worker' = [AtRest EXCEPT !.at = "soon", !.date = d]
          BY <4>1 DEF Claim
        <5>2. d = date
          BY <2>2, <5>1 DEF AtRest
        <5> QED
          BY <5>1, <5>2 DEF Owed
      <4>2. CASE GoesOn
        BY <2>2, <4>2 DEF GoesOn, Owed
      <4> QED
        BY <2>2, <3>2, <4>1, <4>2, WorkerMoves, WorkerStays DEF Posts
    <3> QED
      BY <2>2, <3>1, <3>2, WorkerStays
  <2> QED
    BY <1>1, <2>1, <2>2 DEF Owed
<1>2. CASE jobs[date].status \in {"none", "queued"}
  BY <1>2 DEF Owed
<1>3. ASSUME NEW status, IsDone(status), WorkerStep, jobs'[date].status = status
      PROVE  faults' = faults + 1
  <2>1. worker'.at = "idle"
    BY <1>3, WorkerStays
  <2>2. status \in {"none", "queued"} /\ status \in {"done", "queued", "failed"}
    BY <1>3, <2>1 DEF Owed, IsDone
  <2>3. WorkerFails
    BY <1>3, <2>2 DEF IsDone
  <2> QED
    BY <2>3 DEF WorkerFails
<1> QED
  BY <1>1, <1>2, <1>3, JobsStay

\* The digest a date is owed is no longer owed when it has been sent, if nothing failed.
LEMMA PostedIsPaid ==
  ASSUME IInv, [Next]_vars, DOMAIN messages' # DOMAIN messages, NEW date, date = worker.date
  PROVE  /\ date \in Dates /\ Owed(date)
         /\ faults' = faults + 1 \/ (Posts /\ ~Owed(date)')
<1>1. WorkerStep /\ worker.at = "send"
  BY MessagesStay
<1>2. worker.date \in Dates /\ jobs[worker.date].status = "running"
  BY <1>1 DEF IInv, Linked
<1>3. CASE Posts
  BY <1>1, <1>2, <1>3 DEF Posts, Owed
<1>4. CASE WorkerFails
  BY <1>1, <1>2, <1>4 DEF WorkerFails, Owed
<1>5. ~GoesOn /\ (\A status : IsDone(status) => WorkerFails)
  BY DEF GoesOn, IsDone
<1>6. ~Claim
  BY <1>1 DEF Claim, AtRest
<1> QED
  BY <1>1, <1>2, <1>3, <1>4, <1>5, <1>6, WorkerMoves DEF Owed

\* A digest takes the place of what its date is owed, and a failure pays for the rest.
LEMMA NextBudget ==
  ASSUME IInv, [Next]_vars
  PROVE  Budget'
<1> SUFFICES ASSUME NEW date \in Dates
             PROVE  (Cardinality(SentOn(date)) + (IF Owed(date) THEN 1 ELSE 0) <= 1 + faults)'
  BY DEF Budget
<1>1. Cardinality(SentOn(date)) + (IF Owed(date) THEN 1 ELSE 0) <= 1 + faults
  BY DEF IInv, Budget
<1>2. IsFiniteSet(SentOn(date))
  <2>1. Len(messages) \in Nat /\ DOMAIN messages = 1..Len(messages)
    BY DEF IInv, Shapes
  <2>2. IsFiniteSet(1..Len(messages)) /\ SentOn(date) \subseteq 1..Len(messages)
    BY <2>1, FS_Interval DEF SentOn
  <2> QED
    BY <2>2, FS_Subset
<1>3. CASE DOMAIN messages' = DOMAIN messages \/ worker.date # date
  <2>1. SentOn(date)' \subseteq SentOn(date)
    BY <1>3, MessagesStay DEF SentOn
  <2>2. /\ Cardinality(SentOn(date)') \in Nat /\ Cardinality(SentOn(date)) \in Nat
        /\ Cardinality(SentOn(date)') <= Cardinality(SentOn(date))
    BY <1>2, <2>1, GainsNothing
  <2> QED
    BY <1>1, <2>2, FaultsGrow, OwedStays
<1>4. CASE DOMAIN messages' # DOMAIN messages /\ worker.date = date
  <2>1. SentOn(date)' \subseteq SentOn(date) \cup {Len(messages) + 1}
    BY <1>4, MessagesStay DEF SentOn
  <2>2. /\ Cardinality(SentOn(date)') \in Nat /\ Cardinality(SentOn(date)) \in Nat
        /\ Cardinality(SentOn(date)') <= Cardinality(SentOn(date)) + 1
    BY <1>2, <2>1, GainsOne
  <2>3. Owed(date) /\ (faults' = faults + 1 \/ ~Owed(date)')
    BY <1>4, PostedIsPaid DEF Owed
  <2> QED
    BY <1>1, <2>2, <2>3, FaultsGrow
<1> QED
  BY <1>3, <1>4

\* Where a digest is lost sight of, something fails, and it is the digest the worker
\* has in hand.
LEMMA NextUntracked ==
  ASSUME IInv, [Next]_vars
  PROVE  (Cardinality(Untracked) <= faults)'
<1> DEFINE x == IF worker.at = "create" THEN worker.sent ELSE Len(messages) + 1
<1>1. Shapes /\ Linked /\ Spared /\ Cardinality(Untracked) <= faults
  BY DEF IInv
<1>2. IsFiniteSet(Untracked)
  <2>1. Len(messages) \in Nat /\ DOMAIN messages = 1..Len(messages)
    BY <1>1 DEF Shapes
  <2>2. IsFiniteSet(1..Len(messages)) /\ Untracked \subseteq 1..Len(messages)
    BY <2>1, FS_Interval DEF Untracked
  <2> QED
    BY <2>2, FS_Subset
<1>3. ASSUME NEW m \in Untracked', m \notin Untracked
      PROVE  m = x /\ faults' = faults + 1
  <2>1. /\ m \in DOMAIN messages' /\ messages'[m].here
        /\ ~(worker'.at = "create" /\ worker'.sent = m)
        /\ \A d \in DOMAIN digests' : digests'[d].message = m => digests'[d].state = "deleted"
    BY <1>3 DEF Untracked
  <2>2. CASE m \notin DOMAIN messages
    <3>1. m = Len(messages) + 1 /\ DOMAIN messages' # DOMAIN messages
      BY <2>1, <2>2, MessagesStay
    <3>2. ~Posts
      BY <2>1, <3>1 DEF Posts
    <3>3. faults' = faults + 1 /\ worker.at = "send"
      BY <3>1, <3>2, PostedIsPaid, MessagesStay
    <3> QED
      BY <3>1, <3>3
  <2>3. CASE m \in DOMAIN messages
    <3>1. messages[m].here
      BY <2>1, <2>3, MessagesStay
    <3>2. \A d \in DOMAIN digests : digests[d].message = m => digests[d].state = "deleted"
      <4> SUFFICES ASSUME NEW d \in DOMAIN digests, digests[d].message = m,
                          digests[d].state # "deleted"
                   PROVE  FALSE
        OBVIOUS
      <4>1. d \in DOMAIN digests' /\ digests'[d].state = "deleted"
        BY <2>1, DigestsStay
      <4>2. PICK t \in Tickers : tick[t].at = "mark" /\ d = tick[t].row
        BY <4>1, DigestsStay
      <4> QED
        BY <1>1, <3>1, <4>2 DEF Spared
    <3>3. worker.at = "create" /\ worker.sent = m
      BY <1>3, <2>3, <3>1, <3>2 DEF Untracked
    <3>4. worker' # worker
      BY <2>1, <3>3
    <3>5. CASE WorkerStep
      <4>1. ~Claim /\ ~GoesOn /\ ~Posts
        <5>1. worker # AtRest
          BY <3>3, WorkerStays
        <5> QED
          BY <3>3, <5>1 DEF Claim, GoesOn, Posts
      <4>2. PICK status : IsDone(status)
        BY <3>5, <4>1, WorkerMoves
      <4>3. CASE digests' = Record
        <5>1. /\ Len(digests) + 1 \in DOMAIN digests'
              /\ digests'[Len(digests) + 1].message = m
              /\ digests'[Len(digests) + 1].state = "active"
          <6>1. digests \in Seq(Digested)
            BY <1>1 DEF Shapes
          <6> DEFINE new == [message |-> worker.sent, items |-> Items, state |-> "active"]
          <6>2. new.message = m /\ new.state = "active" /\ digests' = Append(digests, new)
            BY <3>3, <4>3 DEF Record
          <6> HIDE DEF new
          <6> QED
            BY <6>1, <6>2
        <5> QED
          BY <2>1, <5>1
      <4>4. CASE WorkerFails
        BY <3>3, <4>4 DEF WorkerFails
      <4> QED
        BY <3>3, <4>2, <4>3, <4>4 DEF IsDone
    <3> QED
      BY <3>3, <3>4, <3>5, WorkerStays
  <2> QED
    BY <2>2, <2>3
<1> HIDE DEF x
<1>4. CASE faults' = faults + 1
  <2>1. Untracked' \subseteq Untracked \cup {x}
    BY <1>3
  <2>2. /\ Cardinality(Untracked') \in Nat /\ Cardinality(Untracked) \in Nat
        /\ Cardinality(Untracked') <= Cardinality(Untracked) + 1
    BY <1>2, <2>1, GainsOne
  <2> QED
    BY <1>1, <1>4, <2>2, FaultsGrow
<1>5. CASE faults' = faults
  <2>1. Untracked' \subseteq Untracked
    BY <1>3, <1>5, FaultsGrow
  <2>2. /\ Cardinality(Untracked') \in Nat /\ Cardinality(Untracked) \in Nat
        /\ Cardinality(Untracked') <= Cardinality(Untracked)
    BY <1>2, <2>1, GainsNothing
  <2> QED
    BY <1>1, <1>5, <2>2, FaultsGrow
<1> QED
  BY <1>4, <1>5, FaultsGrow

\* The invariant holds at first.
LEMMA InitIInv == Init => IInv
<1> SUFFICES ASSUME Init PROVE IInv
  OBVIOUS
<1>1. /\ Shelf \in Seq([expires : Int, status : {"active"}])
      /\ Start \in Nat /\ End \in Nat /\ Start <= End /\ MaxFaults \in Nat /\ MaxTries \in Nat \ {0}
  BY DigestAssumption
<1>2. AtRest \in Hand /\ NoTick \in TickHand /\ NoJob \in JobRow
  BY <1>1 DEF AtRest, Hand, NoTick, TickHand, NoJob, JobRow
<1>3. AtRest.at = "idle" /\ AtRest.sent = 0 /\ NoTick.at = "idle" /\ NoTick.todo = {}
      /\ NoTick.row = 0 /\ NoJob.status = "none"
  BY DEF AtRest, NoTick, NoJob
<1>4. Shelf \in [Ids -> Product]
  <2> DEFINE Fresh == [expires : Int, status : {"active"}]
  <2>1. Fresh \subseteq Product /\ Shelf \in Seq(Fresh)
    BY <1>1 DEF Product
  <2> HIDE DEF Fresh
  <2>2. \A i \in DOMAIN Shelf : Shelf[i] \in Fresh
    BY <2>1
  <2>3. Shelf = [i \in DOMAIN Shelf |-> Shelf[i]]
    BY <2>1
  <2> QED
    BY <2>1, <2>2, <2>3 DEF Ids
<1>5. messages = <<>> /\ digests = <<>> /\ DOMAIN messages = {} /\ DOMAIN digests = {}
      /\ Len(messages) = 0 /\ Len(digests) = 0 /\ faults = 0
  BY DEF Init
<1>6. Shapes
  BY <1>1, <1>2, <1>4, <1>5 DEF Init, Shapes
<1>7. Linked
  BY <1>3, <1>5 DEF Init, Linked
<1>8. Spared
  BY <1>3 DEF Init, Spared
<1>9. Budget
  <2> SUFFICES ASSUME NEW date \in Dates
               PROVE  Cardinality(SentOn(date)) + (IF Owed(date) THEN 1 ELSE 0) <= 1 + faults
    BY DEF Budget
  <2>1. SentOn(date) = {}
    BY <1>5 DEF SentOn
  <2> QED
    BY <1>5, <2>1, FS_EmptySet
<1>10. Cardinality(Untracked) <= faults
  <2>1. Untracked = {}
    BY <1>5 DEF Untracked
  <2> QED
    BY <1>5, <2>1, FS_EmptySet
<1> QED
  BY <1>6, <1>7, <1>8, <1>9, <1>10 DEF IInv

\* Every step keeps the invariant.
LEMMA NextIInv == IInv /\ [Next]_vars => IInv'
  BY NextShapes, NextLinked, NextSpared, NextBudget, NextUntracked DEF IInv

-----------------------------------------------------------------------------
(* The theorems.                                                            *)

\* The invariant holds in every state of every run.
THEOREM Invariance == Spec => []IInv
  BY InitIInv, NextIInv, PTL DEF Spec

\* Every variable has its type, and what the worker and the ticks have in hand refers
\* to rows and messages that exist.
THEOREM DigestTypes == Spec => []TypeOK
<1>1. IInv => TypeOK
  <2> SUFFICES ASSUME IInv PROVE TypeOK
    OBVIOUS
  <2>1. /\ Shapes /\ Linked /\ Len(digests) \in Nat /\ DOMAIN digests = 1..Len(digests)
    BY DEF IInv, Shapes
  <2>2. DOMAIN products = DOMAIN Shelf /\ worker.at \in {"idle", "soon", "expired", "send", "create"}
    BY <2>1 DEF Shapes, Ids, Hand
  <2>3. \A t \in Tickers : tick[t].todo \cup {tick[t].row} \subseteq 0..Len(digests)
    BY <2>1 DEF Linked
  <2> QED
    BY <2>1, <2>2, <2>3 DEF Shapes, Linked, JobRow, TypeOK
<1> QED
  BY <1>1, Invariance, PTL

\* However the ticks overlap and however often the job is tried again, a local date
\* sees one digest and one more for each failure (enqueueDueDigests, sendMorningDigest).
THEOREM OneDigestADayHolds == Spec => []OneDigestADay
<1>1. IInv => OneDigestADay
  <2> SUFFICES ASSUME IInv, NEW date \in Dates
               PROVE  Cardinality(SentOn(date)) <= 1 + faults
    BY DEF OneDigestADay, SentOn
  <2>1. Cardinality(SentOn(date)) + (IF Owed(date) THEN 1 ELSE 0) <= 1 + faults
    BY DEF IInv, Budget
  <2>2. Cardinality(SentOn(date)) \in Nat
    <3>1. Len(messages) \in Nat /\ DOMAIN messages = 1..Len(messages)
      BY DEF IInv, Shapes
    <3>2. IsFiniteSet(1..Len(messages)) /\ SentOn(date) \subseteq 1..Len(messages)
      BY <3>1, FS_Interval DEF SentOn
    <3> QED
      BY <3>2, FS_Subset, FS_CardinalityType
  <2>3. faults \in Nat
    BY DigestAssumption DEF IInv, Shapes
  <2> QED
    BY <2>1, <2>2, <2>3
<1> QED
  BY <1>1, Invariance, PTL

\* A digest that stays in the chat for ever because no active row knows it is the trace
\* of a failure, and each failure leaves at most one (cleanupDigestMessages).
THEOREM UntrackedAreFaultsHolds == Spec => []UntrackedAreFaults
<1>1. IInv => UntrackedAreFaults
  BY DEF IInv, UntrackedAreFaults, Untracked
<1> QED
  BY <1>1, Invariance, PTL

\* A tick takes a digest out of the chat only when none of its products is active,
\* although it looked some statements earlier (ActiveProductsExist).
THEOREM CleanerSparesOpenHolds == Spec => CleanerSparesOpen
<1> DEFINE Spares ==
      \A m \in DOMAIN messages : (messages[m].here /\ ~messages'[m].here) =>
          \A i \in DOMAIN messages[m].items : products[messages[m].items[i]].status # "active"
<1>1. IInv /\ [Next]_vars => [Spares]_vars
  <2> SUFFICES ASSUME IInv, [Next]_vars, NEW m \in DOMAIN messages,
                      messages[m].here, ~messages'[m].here
               PROVE  \A i \in DOMAIN messages[m].items :
                         products[messages[m].items[i]].status # "active"
    OBVIOUS
  <2>1. messages' # messages /\ messages \in Seq(Message)
    BY DEF IInv, Shapes
  <2>2. messages' # Sent
    BY <2>1 DEF Sent
  <2>3. PICK t \in Tickers : tick[t].at = "delete" /\ messages' = Gone(t)
    BY <2>1, <2>2, Steps, TickEffects, WorkerEffects
    DEF vars, UserStep, Advance, UserCloses, UserSets, Crash
  <2>4. m = digests[tick[t].row].message
    BY <2>1, <2>3 DEF Gone
  <2>5. /\ tick[t].row \in DOMAIN digests /\ ~Open(tick[t].row)
        /\ digests[tick[t].row].items = messages[m].items
    BY <2>3, <2>4 DEF IInv, Linked, Spared
  <2> QED
    BY <2>5 DEF Open
<1> QED
  BY <1>1, Invariance, PTL DEF Spec, CleanerSparesOpen

=============================================================================
