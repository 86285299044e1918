---------------------------- MODULE DeliveryProofs ----------------------------
(***************************************************************************)
(* Proofs about Delivery, for any number of updates, messages, attempts    *)
(* and failures: that an update is lost by a restart only, the order in    *)
(* which updates are begun, and what a deletion job that is done says of   *)
(* the chat.                                                               *)
(***************************************************************************)
EXTENDS Delivery, Ranks, SequenceTheorems, TLAPS

(***************************************************************************)
(* The inductive invariant.                                                *)
(***************************************************************************)

Has(s, u) == \E i \in DOMAIN s : s[i] = u
InMailbox(u) == Has(mailbox, u)
Increasing(s) == \A i, k \in DOMAIN s : i < k => s[i] < s[k]

\* What TypeOK leaves open about the poll loop, the jobs and the handler.
Shapes ==
    /\ TypeOK
    /\ poll \in [at : {"call", "submit"}, offset : Nat, batch : Seq(Updates)]
    /\ begun \in [Updates -> Nat]
    /\ deleter["handler"].at = "idle" => deleter["handler"].for = 0
    /\ \A d \in Deleters : deleter[d].at # "idle" => deleter[d].for \in Updates
    /\ \A j \in DOMAIN jobs : jobs[j].status = "queued" => jobs[j].tries < MaxTries

\* The mailbox, the offset and the batch follow each other in the order of the
\* updates, and the batch leaves nothing out that Telegram still keeps.
Lined ==
    /\ pending \subseteq 1..arrived /\ poll.offset <= arrived + 1
    /\ Increasing(mailbox) /\ Increasing(poll.batch)
    /\ \A i \in DOMAIN mailbox : mailbox[i] < poll.offset
    /\ \A i \in DOMAIN poll.batch : poll.offset <= poll.batch[i] /\ poll.batch[i] <= arrived
    /\ poll.at = "submit" =>
          /\ poll.batch # <<>>
          /\ \A u \in pending : poll.offset <= u =>
                Has(poll.batch, u) \/ \A i \in DOMAIN poll.batch : poll.batch[i] < u

\* An update that this run of telegram-api has still to begin was begun at most
\* once by each earlier run.
Counted ==
    \A u \in Updates :
        /\ begun[u] <= restarts + 1
        /\ InMailbox(u) \/ poll.offset <= u => begun[u] <= restarts

\* An update below the offset that is known anywhere was begun or is about to be.
Seen ==
    /\ \A u \in Updates : u \in handled \/ deleter["handler"].for = u => begun[u] > 0
    /\ \A u \in pending : u < poll.offset => InMailbox(u) \/ begun[u] > 0

\* Before the first restart an update is with Telegram until the offset passes it,
\* and from then on in the mailbox, in hand or handled.
NoneLost ==
    restarts = 0 => \A u \in 1..arrived :
        IF u < poll.offset THEN InMailbox(u) \/ u \in handled \/ deleter["handler"].for = u
        ELSE u \in pending

\* The worker runs the one job that is running, and while nothing failed for good
\* what is left of its messages is what it has still to delete.
Deleting ==
    LET w == deleter["worker"]
    IN  /\ \A j \in DOMAIN jobs : jobs[j].status = "running" =>
              w.at # "idle" /\ jobs[j].for = w.for
        /\ w.at # "idle" /\ ~w.failed => present \cap Group(w.for) \subseteq w.left
        /\ w.at = "end" /\ ~w.failed => w.left = {}

IInv == Shapes /\ Lined /\ Counted /\ Seen /\ NoneLost /\ Deleting /\ DoneMeansGone

-----------------------------------------------------------------------------
(* The operators the steps are built from.                                  *)

\* The messages of an update are messages.
LEMMA GroupFacts == \A u \in Updates : Group(u) \subseteq Messages
<1> SUFFICES ASSUME NEW u \in Updates, NEW m \in Group(u) PROVE m \in Messages
  OBVIOUS
<1>1. /\ MaxUpdates \in Nat /\ GroupSize \in Nat /\ u \in Nat /\ 1 <= u /\ u <= MaxUpdates
      /\ m \in Int /\ (u - 1) * GroupSize + 1 <= m /\ m <= u * GroupSize
  BY DeliveryAssumption DEF Updates, Group
<1>2. 0 <= (u - 1) * GroupSize /\ u * GroupSize <= MaxUpdates * GroupSize
  BY <1>1
<1> QED
  BY <1>1, <1>2 DEF Messages

\* A batch has the updates Telegram still keeps, each once and in order.
LEMMA BatchFacts ==
  ASSUME pending \subseteq Updates, poll.offset \in Nat
  PROVE  /\ Batch \in Seq(Updates) /\ \A i \in DOMAIN Batch : Batch[i] \in Kept
         /\ Increasing(Batch)
         /\ \A u \in Kept : \E i \in DOMAIN Batch : Batch[i] = u
<1> DEFINE n == Cardinality(Kept)
           Upto == [u \in Kept |-> {v \in Kept : v <= u}]
<1>1. Kept \subseteq Updates /\ Updates \subseteq Nat /\ IsFiniteSet(Kept)
  <2>1. IsFiniteSet(Updates)
    BY FS_Interval, DeliveryAssumption DEF Updates
  <2>2. Kept \in SUBSET Updates
    BY DEF Kept
  <2>3. IsFiniteSet(Kept)
    BY <2>1, <2>2, FS_Subset
  <2> QED
    BY <2>2, <2>3 DEF Updates
<1>2. Chain(Kept, Upto)
  <2>1. \A u \in Kept : u \in Upto[u] /\ Upto[u] \in SUBSET Kept
    BY <1>1
  <2>2. ASSUME NEW u \in Kept, NEW v \in Kept, u <= v PROVE Upto[u] \subseteq Upto[v]
    <3> SUFFICES ASSUME NEW w \in Kept, w <= u PROVE w <= v
      OBVIOUS
    <3>1. u \in Nat /\ v \in Nat /\ w \in Nat
      BY <1>1
    <3> QED
      BY <2>2, <3>1
  <2>3. \A u, v \in Kept : u <= v \/ v <= u
    BY <1>1
  <2>4. \A u, v \in Kept : Upto[u] = Upto[v] => u <= v /\ v <= u
    BY <2>1
  <2>5. \A u, v \in Kept : u \in Upto[v] => u <= v
    OBVIOUS
  <2> QED
    BY <1>1, <2>1, <2>2, <2>3, <2>4 DEF Chain
<1>3. Ranked(Kept, Upto)
  BY <1>2, EveryRankIsTaken
<1>4. \A i \in 1..n : Batch[i] = CHOOSE u \in Kept : Cardinality(Upto[u]) = i
  BY DEF Batch
<1>5. DOMAIN Batch = 1..n
  BY DEF Batch
<1>6. \A u, v \in Kept : u \in Upto[u] /\ (u \in Upto[v] => u <= v)
  BY <1>1
<1> HIDE DEF n, Upto
<1>7. \A i \in 1..n : Batch[i] \in Kept /\ Cardinality(Upto[Batch[i]]) = i
  BY <1>3, <1>4 DEF Ranked, n
<1>8. ASSUME NEW i \in 1..n, NEW k \in 1..n, i < k PROVE Batch[i] < Batch[k]
  <2> DEFINE u == Batch[i]
             v == Batch[k]
  <2>1. u \in Kept /\ v \in Kept /\ Cardinality(Upto[u]) < Cardinality(Upto[v])
    BY <1>7, <1>8
  <2>2. Upto[u] \subseteq Upto[v]
    BY <1>3, <2>1 DEF Ranked
  <2>3. u <= v /\ u # v
    BY <1>6, <1>7, <1>8, <2>1, <2>2
  <2>4. u \in Nat /\ v \in Nat
    BY <1>1, <2>1
  <2> QED
    BY <2>3, <2>4
<1>9. Batch \in Seq(Updates)
  <2>1. Batch \in [1..n -> Updates]
    BY <1>1, <1>5, <1>7 DEF Batch, n
  <2> QED
    BY <1>3, <2>1 DEF Ranked, n
<1>10. ASSUME NEW u \in Kept PROVE \E i \in 1..n : Batch[i] = u
  BY <1>3, <1>7, <1>10 DEF Ranked, n
<1> QED
  BY <1>5, <1>7, <1>8, <1>9, <1>10 DEF Increasing

\* What the calls of a deletion make of its state.
LEMMA DeleterFacts ==
  ASSUME Shapes, NEW d \in Deleters
  PROVE  LET States == [at : {"batch", "single", "end"}, for : Updates,
                        left : SUBSET Messages, failed : BOOLEAN]
         IN  /\ \A u \in Updates : Deletion(u) \in States /\ Deletion(u).for = u
             /\ deleter[d].at # "idle" => deleter[d] \in States
             /\ Calling(d) => /\ AfterReply(d) \in States /\ AfterReply(d).for = deleter[d].for
                              /\ AfterError(d) \in States /\ AfterError(d).for = deleter[d].for
<1> DEFINE Any == [at : {"idle", "batch", "single", "end"}, for : Updates \cup {0},
                   left : SUBSET Messages, failed : BOOLEAN]
           States == [at : {"batch", "single", "end"}, for : Updates,
                      left : SUBSET Messages, failed : BOOLEAN]
<1>1. deleter[d] \in Any /\ \A u \in Updates : Group(u) \subseteq Messages
  BY GroupFacts DEF Shapes, TypeOK
<1>2. \A u \in Updates : Deletion(u) \in States /\ Deletion(u).for = u
  BY <1>1 DEF Deletion
<1>3. deleter[d].at # "idle" => deleter[d] \in States
  BY <1>1 DEF Shapes
<1>4. ASSUME Calling(d)
      PROVE  /\ AfterReply(d) \in States /\ AfterReply(d).for = deleter[d].for
             /\ AfterError(d) \in States /\ AfterError(d).for = deleter[d].for
  <2>1. deleter[d] \in States
    BY <1>3, <1>4 DEF Calling
  <2>2. AfterReply(d) \in States /\ AfterReply(d).for = deleter[d].for
    BY <2>1 DEF AfterReply
  <2> QED
    BY <1>1, <2>1, <2>2 DEF AfterError
<1> QED
  BY <1>2, <1>3, <1>4

\* The attempts of a caller stay within the client's limit.
LEMMA AttemptFacts ==
  ASSUME TypeOK, NEW c \in Callers
  PROVE  NextAttempt(c) \in 1..ClientAttempts /\ 1 \in 1..ClientAttempts
  BY DeliveryAssumption DEF TypeOK, NextAttempt, Again

\* Taking the first of a sequence that increases.
LEMMA TailFacts ==
  ASSUME NEW s \in Seq(Updates), s # <<>>, Increasing(s)
  PROVE  /\ Head(s) \in Updates /\ Tail(s) \in Seq(Updates) /\ Increasing(Tail(s))
         /\ \A i \in DOMAIN Tail(s) : Head(s) < Tail(s)[i] /\ Has(s, Tail(s)[i])
         /\ \A u : Has(s, u) <=> u = Head(s) \/ Has(Tail(s), u)
<1>1. /\ Head(s) = s[1] /\ Head(s) \in Updates /\ Tail(s) \in Seq(Updates)
      /\ DOMAIN s = 1..Len(s) /\ Len(s) \in Nat \ {0}
      /\ DOMAIN Tail(s) = 1..(Len(s) - 1)
      /\ \A i \in 1..(Len(s) - 1) : Tail(s)[i] = s[i + 1]
  OBVIOUS
<1>2. \A i \in DOMAIN Tail(s) : i + 1 \in DOMAIN s /\ 1 < i + 1
  BY <1>1
<1>3. Increasing(Tail(s))
  BY <1>1, <1>2 DEF Increasing
<1>4. ASSUME NEW u, Has(s, u), u # Head(s) PROVE Has(Tail(s), u)
  <2>1. PICK i \in DOMAIN s : s[i] = u
    BY <1>4 DEF Has
  <2>2. i - 1 \in DOMAIN Tail(s) /\ Tail(s)[i - 1] = u
    BY <1>1, <1>4, <2>1
  <2> QED
    BY <2>2 DEF Has
<1>5. 1 \in DOMAIN s
  BY <1>1
<1> QED
  BY <1>1, <1>2, <1>3, <1>4, <1>5 DEF Increasing, Has

\* Appending something larger to a sequence that increases.
LEMMA AppendFacts ==
  ASSUME NEW s \in Seq(Updates), Increasing(s), NEW x \in Updates,
         \A i \in DOMAIN s : s[i] < x
  PROVE  /\ Append(s, x) \in Seq(Updates) /\ Increasing(Append(s, x))
         /\ \A u : Has(Append(s, x), u) <=> u = x \/ Has(s, u)
<1>1. /\ DOMAIN s = 1..Len(s) /\ Len(s) \in Nat /\ Append(s, x) \in Seq(Updates)
      /\ DOMAIN Append(s, x) = 1..(Len(s) + 1) /\ Append(s, x)[Len(s) + 1] = x
      /\ \A i \in 1..Len(s) : Append(s, x)[i] = s[i]
  OBVIOUS
<1>2. Len(s) + 1 \in 1..(Len(s) + 1) /\ \A i \in 1..(Len(s) + 1) : i = Len(s) + 1 \/ i \in 1..Len(s)
  BY <1>1
<1>3. 1..Len(s) \subseteq 1..(Len(s) + 1) /\ \A i, k \in 1..(Len(s) + 1) : i < k => i \in 1..Len(s)
  BY <1>1
<1> QED
  BY <1>1, <1>2, <1>3 DEF Increasing, Has

-----------------------------------------------------------------------------
(* Types.                                                                   *)

\* The steps of the poll loop keep the types.
LEMMA PollTypes ==
  ASSUME IInv, Arrive \/ PollReplies \/ PollFails \/ Submit
  PROVE  Shapes'
<1> USE DEF Shapes, TypeOK, IInv
<1>1. /\ arrived \in Nat /\ MaxUpdates \in Nat /\ faults \in Nat /\ restarts \in Nat
      /\ MaxFaults \in Nat /\ Updates = 1..MaxUpdates
  BY DeliveryAssumption DEF Updates
<1>2. CASE Arrive
  <2>1. arrived + 1 \in Updates /\ arrived' \in 0..MaxUpdates
    BY <1>1, <1>2 DEF Arrive
  <2> QED
    BY <1>2, <2>1 DEF Arrive, chat
<1>3. CASE PollReplies
  <2>1. Batch \in Seq(Updates) /\ Kept \subseteq Updates
    BY BatchFacts DEF Kept
  <2>2. poll' \in [at : {"call", "submit"}, offset : Nat, batch : Seq(Updates)]
        /\ poll'.offset = poll.offset
    BY <1>3, <2>1 DEF PollReplies
  <2>3. attempt' \in [Callers -> 1..ClientAttempts]
    BY <1>3, AttemptFacts DEF PollReplies, Callers
  <2> QED
    BY <1>3, <2>1, <2>2, <2>3 DEF PollReplies, chat
<1>4. CASE PollFails
  <2>1. attempt' \in [Callers -> 1..ClientAttempts]
    BY <1>4, AttemptFacts DEF PollFails, Callers
  <2>2. faults' \in 0..MaxFaults /\ restarts \in 0..faults'
    BY <1>1, <1>4 DEF PollFails
  <2>3. pending' \subseteq Updates
    BY <1>4 DEF PollFails, Kept
  <2> QED
    BY <1>4, <2>1, <2>2, <2>3 DEF PollFails, chat
<1>5. CASE Submit
  <2>1. poll.batch \in Seq(Updates) /\ poll.batch # <<>> /\ Increasing(poll.batch)
    BY <1>5 DEF Submit, Lined
  <2>2. Head(poll.batch) \in Updates /\ Tail(poll.batch) \in Seq(Updates)
    BY <2>1, TailFacts
  <2>3. Head(poll.batch) + 1 \in 0..(MaxUpdates + 1)
    <3>1. \A h \in 1..MaxUpdates : h + 1 \in 0..(MaxUpdates + 1)
      BY <1>1
    <3> QED
      BY <1>1, <2>2, <3>1
  <2>4. poll' \in [at : {"call", "submit"}, offset : Nat, batch : Seq(Updates)]
        /\ poll'.offset \in 0..(MaxUpdates + 1)
    <3>1. PICK at \in {"call", "submit"} :
             poll' = [at |-> at, offset |-> Head(poll.batch) + 1, batch |-> Tail(poll.batch)]
      BY <1>5 DEF Submit, AfterSubmit
    <3>2. Head(poll.batch) + 1 \in Nat
      BY <1>1, <2>3
    <3> QED
      BY <2>2, <2>3, <3>1, <3>2
  <2>5. mailbox' \in Seq(Updates)
    BY <1>5, <2>2 DEF Submit
  <2> QED
    BY <1>5, <2>4, <2>5 DEF Submit, chat
<1> QED
  BY <1>2, <1>3, <1>4, <1>5

\* So do the calls of a deletion, whoever makes them.
LEMMA CallTypes ==
  ASSUME IInv, NEW d \in Deleters, Replies(d) \/ NoReply(d) \/ Refuses(d)
  PROVE  Shapes' /\ deleter'[d].for = deleter[d].for /\ deleter'[d].at # "idle"
<1> DEFINE States == [at : {"batch", "single", "end"}, for : Updates,
                      left : SUBSET Messages, failed : BOOLEAN]
<1>1. /\ deleter'[d] \in States /\ deleter'[d].for = deleter[d].for
      /\ deleter' = [deleter EXCEPT ![d] = deleter'[d]]
  <2>1. deleter = [e \in Deleters |-> deleter[e]] /\ deleter[d] \in States /\ Calling(d)
    BY DeleterFacts DEF IInv, Shapes, TypeOK, Replies, NoReply, Refuses, Calling
  <2>2. \E state \in {deleter[d], AfterReply(d), AfterError(d)} : To(d, state)
    BY DEF Replies, NoReply, Refuses
  <2> QED
    BY <2>1, <2>2, DeleterFacts DEF To, IInv
<1>2. faults' \in 0..MaxFaults /\ restarts \in 0..faults'
  <2>1. faults \in Nat /\ restarts \in Nat /\ MaxFaults \in Nat /\ restarts <= faults
        /\ faults <= MaxFaults
    BY DeliveryAssumption DEF IInv, Shapes, TypeOK
  <2> QED
    BY <2>1 DEF Replies, NoReply, Refuses
<1>3. attempt' \in [Callers -> 1..ClientAttempts]
  <2>1. /\ attempt \in [Callers -> 1..ClientAttempts] /\ d \in Callers
        /\ NextAttempt(d) \in 1..ClientAttempts /\ 1 \in 1..ClientAttempts
    BY AttemptFacts DEF IInv, Shapes, TypeOK, Callers
  <2>2. attempt' \in {[attempt EXCEPT ![d] = 1], [attempt EXCEPT ![d] = NextAttempt(d)]}
    BY DEF Replies, NoReply, Refuses
  <2> QED
    BY <2>1, <2>2
<1>4. present' \subseteq Messages
  BY DEF IInv, Shapes, TypeOK, Replies, NoReply, Refuses
<1>5. UNCHANGED <<updates, jobs, restarts>>
  BY DEF Replies, NoReply, Refuses
<1>6. /\ deleter' \in [Deleters -> [at : {"idle", "batch", "single", "end"}, for : Updates \cup {0},
                                    left : SUBSET Messages, failed : BOOLEAN]]
      /\ \A e \in Deleters : e # d => deleter'[e] = deleter[e]
      /\ deleter'[d].at # "idle" /\ deleter'[d].for \in Updates
  <2> DEFINE Hands == [at : {"idle", "batch", "single", "end"}, for : Updates \cup {0},
                       left : SUBSET Messages, failed : BOOLEAN]
  <2>1. deleter \in [Deleters -> Hands] /\ States \subseteq Hands
    BY DEF IInv, Shapes, TypeOK
  <2>2. PICK state \in States : deleter' = [deleter EXCEPT ![d] = state]
    BY <1>1
  <2>3. state.at # "idle" /\ state.for \in Updates /\ state \in Hands
    BY <2>1
  <2> HIDE DEF Hands, States
  <2>4. /\ deleter' \in [Deleters -> Hands] /\ deleter'[d] = state
        /\ \A e \in Deleters : e # d => deleter'[e] = deleter[e]
    BY <2>1, <2>2, <2>3
  <2> QED
    BY <2>3, <2>4 DEF Hands
<1>7. "handler" \in Deleters
  BY DEF Deleters
<1> QED
  BY <1>1, <1>2, <1>3, <1>4, <1>5, <1>6, <1>7 DEF IInv, Shapes, TypeOK, updates

\* So do the other steps of the handler and a restart.
LEMMA HandlerTypes ==
  ASSUME IInv, Begin \/ Enqueue \/ EnqueueFails \/ Restart
  PROVE  Shapes'
<1> USE DEF IInv
<1>1. /\ MaxUpdates \in Nat /\ MaxTries \in Nat \ {0}
      /\ "handler" \in Deleters /\ "handler" \in Callers /\ "poll" \in Callers
  BY DeliveryAssumption DEF Deleters, Callers
<1>2. /\ MaxFaults \in Nat /\ faults \in Nat /\ restarts \in Nat
      /\ restarts <= faults /\ faults <= MaxFaults
  BY DeliveryAssumption DEF Shapes, TypeOK
<1>3. Shapes /\ TypeOK
  BY DEF Shapes
<1>4. CASE Begin
  <2> DEFINE u == Head(mailbox)
  <2>1. mailbox # <<>> /\ mailbox \in Seq(Updates) /\ Increasing(mailbox)
    BY <1>3, <1>4 DEF Begin, Lined, TypeOK
  <2>2. u \in Updates /\ Tail(mailbox) \in Seq(Updates) /\ InMailbox(u)
    BY <2>1, TailFacts DEF InMailbox
  <2>3. begun[u] \in Nat /\ begun[u] <= restarts
    BY <1>3, <2>2 DEF Counted, Shapes
  <2>4. begun' \in [Updates -> 0..(restarts + 1)] /\ begun' \in [Updates -> Nat]
    <3>1. begun \in [Updates -> 0..(restarts + 1)] /\ begun' = [begun EXCEPT ![u] = @ + 1]
      BY <1>3, <1>4 DEF Begin, TypeOK
    <3>2. begun[u] + 1 \in 0..(restarts + 1)
      BY <1>2, <2>3
    <3>3. begun' \in [Updates -> 0..(restarts + 1)]
      BY <3>1, <3>2
    <3> QED
      BY <1>2, <3>3
  <2>5. Deletion(u) \in [at : {"batch", "single", "end"}, for : Updates,
                         left : SUBSET Messages, failed : BOOLEAN]
    BY <1>1, <1>3, <2>2, DeleterFacts
  <2>6. /\ deleter' \in [Deleters -> [at : {"idle", "batch", "single", "end"}, for : Updates \cup {0},
                                      left : SUBSET Messages, failed : BOOLEAN]]
        /\ deleter'["handler"].at # "idle"
        /\ \A d \in Deleters : deleter'[d].at # "idle" => deleter'[d].for \in Updates
    BY <1>1, <1>3, <1>4, <2>5 DEF Begin, To, Shapes, TypeOK
  <2> QED
    BY <1>3, <1>4, <2>2, <2>4, <2>6 DEF Begin, Shapes, TypeOK
<1>5. Rest \in [at : {"idle", "batch", "single", "end"}, for : Updates \cup {0},
                left : SUBSET Messages, failed : BOOLEAN]
  BY DEF Rest
<1>6. ASSUME To("handler", Rest)
      PROVE  /\ deleter' \in [Deleters -> [at : {"idle", "batch", "single", "end"},
                                           for : Updates \cup {0}, left : SUBSET Messages,
                                           failed : BOOLEAN]]
             /\ deleter'["handler"].for = 0
             /\ \A d \in Deleters : deleter'[d].at # "idle" => deleter'[d].for \in Updates
  BY <1>1, <1>3, <1>5, <1>6 DEF To, Rest, Shapes, TypeOK
<1>7. CASE Enqueue \/ EnqueueFails
  <2>1. deleter["handler"].for \in Updates /\ To("handler", Rest)
    BY <1>1, <1>3, <1>7 DEF Enqueue, EnqueueFails, Shapes
  <2>2. JobFor(deleter["handler"].for) \in [for : Updates, tries : 0..MaxTries,
                                            status : {"queued", "running", "done", "failed"}]
        /\ JobFor(deleter["handler"].for).tries < MaxTries
    BY <1>1, <2>1 DEF JobFor
  <2>3. jobs' = jobs \/ jobs' = Append(jobs, JobFor(deleter["handler"].for))
    BY <1>7 DEF Enqueue, EnqueueFails
  <2>4. /\ jobs' \in Seq([for : Updates, tries : 0..MaxTries,
                          status : {"queued", "running", "done", "failed"}])
        /\ \A j \in DOMAIN jobs' : jobs'[j].status = "queued" => jobs'[j].tries < MaxTries
    <3> DEFINE Jobs == [for : Updates, tries : 0..MaxTries,
                        status : {"queued", "running", "done", "failed"}]
               new == JobFor(deleter["handler"].for)
    <3> HIDE DEF Jobs, new
    <3>1. jobs \in Seq(Jobs) /\ new \in Jobs /\ (jobs' = jobs \/ jobs' = Append(jobs, new))
          /\ \A j \in DOMAIN jobs : jobs[j].status = "queued" => jobs[j].tries < MaxTries
      BY <1>3, <2>2, <2>3 DEF Jobs, new, Shapes, TypeOK
    <3>2. new.tries < MaxTries
      BY <2>2 DEF new
    <3>3. jobs' \in Seq(Jobs)
          /\ \A j \in DOMAIN jobs' : jobs'[j] = new \/ (j \in DOMAIN jobs /\ jobs'[j] = jobs[j])
      BY <3>1
    <3> QED
      BY <3>1, <3>2, <3>3 DEF Jobs
  <2>5. faults' \in 0..MaxFaults /\ restarts \in 0..faults'
    BY <1>2, <1>7 DEF Enqueue, EnqueueFails
  <2>6. handled' \subseteq Updates
    BY <1>3, <1>7, <2>1 DEF Enqueue, EnqueueFails, TypeOK
  <2> QED
    BY <1>3, <1>6, <1>7, <2>1, <2>4, <2>5, <2>6 DEF Enqueue, EnqueueFails, Shapes, TypeOK
<1>8. CASE Restart
  <2>1. faults' \in 0..MaxFaults /\ restarts' \in 0..faults' /\ restarts' = restarts + 1
    BY <1>2, <1>8 DEF Restart
  <2>2. begun' \in [Updates -> 0..(restarts' + 1)]
    <3>1. begun \in [Updates -> 0..(restarts + 1)] /\ begun' = begun
      BY <1>3, <1>8 DEF Restart, TypeOK
    <3>2. 0..(restarts + 1) \subseteq 0..(restarts' + 1)
      BY <1>2, <2>1
    <3> QED
      BY <3>1, <3>2
  <2>3. attempt' \in [Callers -> 1..ClientAttempts]
    BY <1>1, <1>3, <1>8, AttemptFacts DEF Restart, TypeOK
  <2>4. poll' \in [at : {"call", "submit"}, offset : Nat, batch : Seq(Updates)]
        /\ poll'.offset \in 0..(MaxUpdates + 1) /\ mailbox' \in Seq(Updates)
    BY <1>1, <1>8 DEF Restart
  <2> QED
    BY <1>3, <1>6, <1>8, <2>1, <2>2, <2>3, <2>4 DEF Restart, Shapes, TypeOK
<1> QED
  BY <1>4, <1>7, <1>8

\* So do the worker's.
LEMMA WorkerTypes ==
  ASSUME IInv, Claim \/ End
  PROVE  Shapes'
<1> DEFINE Jobs == [for : Updates, tries : 0..MaxTries,
                    status : {"queued", "running", "done", "failed"}]
<1>1. /\ MaxTries \in Nat \ {0} /\ "handler" \in Deleters /\ "worker" \in Deleters
      /\ Shapes /\ TypeOK
  BY DeliveryAssumption DEF Deleters, IInv, Shapes
<1>2. /\ jobs \in Seq(Jobs) /\ Len(jobs) \in Nat /\ DOMAIN jobs = 1..Len(jobs)
      /\ \A j \in DOMAIN jobs : jobs[j] \in Jobs /\ jobs[j].for \in Updates
                                /\ jobs[j].tries \in 0..MaxTries
      /\ \A j \in DOMAIN jobs : jobs[j].status = "queued" => jobs[j].tries < MaxTries
  <2>1. jobs \in Seq(Jobs)
    BY <1>1 DEF TypeOK
  <2>2. \A j \in DOMAIN jobs : jobs[j] \in Jobs
    <3> HIDE DEF Jobs
    <3> QED
      BY <2>1
  <2>3. Len(jobs) \in Nat /\ DOMAIN jobs = 1..Len(jobs)
    <3> HIDE DEF Jobs
    <3> QED
      BY <2>1
  <2> QED
    BY <1>1, <2>1, <2>2, <2>3 DEF Shapes
<1>3. ASSUME NEW state \in [at : {"idle", "batch", "single", "end"}, for : Updates \cup {0},
                            left : SUBSET Messages, failed : BOOLEAN],
             state.at # "idle" => state.for \in Updates, To("worker", state)
      PROVE  /\ deleter' \in [Deleters -> [at : {"idle", "batch", "single", "end"},
                                           for : Updates \cup {0}, left : SUBSET Messages,
                                           failed : BOOLEAN]]
             /\ deleter'["handler"] = deleter["handler"]
             /\ \A d \in Deleters : deleter'[d].at # "idle" => deleter'[d].for \in Updates
  BY <1>1, <1>3 DEF To, Shapes, TypeOK
<1>4. CASE Claim
  <2>1. PICK j \in DOMAIN jobs :
             /\ jobs[j].status = "queued"
             /\ jobs' = [jobs EXCEPT ![j].status = "running", ![j].tries = @ + 1]
             /\ To("worker", Deletion(jobs[j].for))
             /\ UNCHANGED <<updates, present, attempt, restarts, faults>>
    BY <1>4 DEF Claim
  <2>2. jobs[j] \in Jobs /\ jobs[j].tries + 1 \in 0..MaxTries
    BY <1>1, <1>2, <2>1
  <2>3. /\ jobs' \in Seq(Jobs) /\ DOMAIN jobs' = DOMAIN jobs
        /\ \A k \in DOMAIN jobs : k # j => jobs'[k] = jobs[k]
        /\ jobs'[j].status = "running"
    <3>1. [jobs[j] EXCEPT !.status = "running", !.tries = @ + 1] \in Jobs
      BY <2>2
    <3>2. jobs' = [jobs EXCEPT ![j] = [jobs[j] EXCEPT !.status = "running", !.tries = @ + 1]]
      BY <1>2, <2>1
    <3> QED
      BY <1>2, <2>1, <2>2, <3>1, <3>2
  <2>4. Deletion(jobs[j].for) \in [at : {"batch", "single", "end"}, for : Updates,
                                   left : SUBSET Messages, failed : BOOLEAN]
    BY <1>1, <1>2, DeleterFacts
  <2> QED
    BY <1>1, <1>2, <1>3, <2>1, <2>3, <2>4 DEF updates, Shapes, TypeOK
<1>5. CASE End
  <2>1. ASSUME NEW j \in DOMAIN jobs
        PROVE  /\ jobs'[j] \in Jobs
               /\ jobs'[j].status = "queued" => jobs'[j].tries < MaxTries
    <3>1. jobs'[j] = IF jobs[j].status = "running"
                     THEN [jobs[j] EXCEPT !.status = Outcome(jobs[j].tries)] ELSE jobs[j]
      BY <1>5 DEF End
    <3>2. /\ Outcome(jobs[j].tries) \in {"done", "queued", "failed"}
          /\ Outcome(jobs[j].tries) = "queued" => jobs[j].tries < MaxTries
      BY DEF Outcome
    <3> QED
      BY <1>2, <3>1, <3>2
  <2>2. jobs' \in Seq(Jobs) /\ DOMAIN jobs' = DOMAIN jobs
    <3>1. jobs' \in [1..Len(jobs) -> Jobs]
      BY <1>2, <1>5, <2>1 DEF End
    <3>2. PICK n \in Nat : n = Len(jobs) /\ DOMAIN jobs = 1..n
      BY <1>2
    <3>3. jobs' \in [1..n -> Jobs]
      BY <3>1, <3>2
    <3>4. jobs' \in Seq(Jobs)
      <4> HIDE DEF Jobs
      <4> QED
        BY <3>2, <3>3
    <3>5. DOMAIN jobs' = DOMAIN jobs
      BY <3>2, <3>3
    <3> QED
      BY <3>4, <3>5
  <2>3. Rest \in [at : {"idle", "batch", "single", "end"}, for : Updates \cup {0},
                  left : SUBSET Messages, failed : BOOLEAN] /\ Rest.at = "idle"
    BY DEF Rest
  <2> QED
    BY <1>1, <1>3, <1>5, <2>1, <2>2, <2>3 DEF End, updates, Shapes, TypeOK
<1> QED
  BY <1>4, <1>5

\* Every step keeps the types.
LEMMA NextTypes ==
  ASSUME IInv, [Next]_vars
  PROVE  Shapes'
<1>1. CASE UNCHANGED vars
  BY <1>1 DEF IInv, Shapes, TypeOK, vars, updates, chat
<1>2. ASSUME NEW d \in Deleters, Replies(d) \/ NoReply(d) \/ Refuses(d) PROVE Shapes'
  BY <1>2, CallTypes
<1>3. "handler" \in Deleters /\ "worker" \in Deleters
  BY DEF Deleters
<1> QED
  BY <1>1, <1>2, <1>3, PollTypes, HandlerTypes, WorkerTypes DEF Next, Poll, Handler, Worker

-----------------------------------------------------------------------------
(* Updates.                                                                 *)

Queued == Lined /\ Counted /\ Seen /\ NoneLost

\* What the proofs below need of the types.
LEMMA Numbers ==
  ASSUME IInv
  PROVE  /\ Updates \subseteq Nat /\ 0 \notin Updates /\ pending \subseteq Updates
         /\ handled \subseteq Updates
         /\ arrived \in Nat /\ poll.offset \in Nat /\ restarts \in Nat
         /\ begun \in [Updates -> Nat]
         /\ mailbox \in Seq(Updates) /\ poll.batch \in Seq(Updates)
         /\ \A i \in DOMAIN mailbox : mailbox[i] \in Nat
         /\ \A i \in DOMAIN poll.batch : poll.batch[i] \in Nat
         /\ deleter["handler"].for \in Updates \cup {0}
         /\ deleter["handler"].at # "idle" => deleter["handler"].for \in Updates
         /\ deleter["handler"].at = "idle" => deleter["handler"].for = 0
<1>1. Shapes /\ TypeOK /\ "handler" \in Deleters /\ MaxUpdates \in Nat
  BY DeliveryAssumption DEF IInv, Shapes, Deleters
<1>2. Updates \subseteq Nat /\ 0 \notin Updates
  BY <1>1 DEF Updates
<1>3. mailbox \in Seq(Updates) /\ poll.batch \in Seq(Updates) /\ poll.offset \in Nat
  BY <1>1 DEF Shapes, TypeOK
<1>4. /\ \A i \in DOMAIN mailbox : mailbox[i] \in Updates
      /\ \A i \in DOMAIN poll.batch : poll.batch[i] \in Updates
  BY <1>3
<1>5. arrived \in Nat /\ restarts \in Nat
  BY <1>1, DeliveryAssumption DEF TypeOK
<1>6. pending \subseteq Updates /\ handled \subseteq Updates /\ begun \in [Updates -> Nat]
  BY <1>1 DEF Shapes, TypeOK
<1>7. /\ deleter["handler"].for \in Updates \cup {0}
      /\ deleter["handler"].at # "idle" => deleter["handler"].for \in Updates
      /\ deleter["handler"].at = "idle" => deleter["handler"].for = 0
  BY <1>1 DEF Shapes, TypeOK
<1> QED
  BY <1>2, <1>3, <1>4, <1>5, <1>6, <1>7

\* A new update takes the next number, and is pending.
LEMMA ArriveQueued == IInv /\ Arrive => Queued'
<1> SUFFICES ASSUME IInv, Arrive PROVE Queued'
  OBVIOUS
<1>1. /\ pending' = pending \cup {arrived + 1} /\ arrived' = arrived + 1
      /\ UNCHANGED <<poll, mailbox, begun, handled, deleter, restarts>>
  BY DEF Arrive, chat
<1>2. arrived \in Nat /\ poll.offset \in Nat /\ poll.offset <= arrived + 1 /\ pending \subseteq 1..arrived
      /\ 1..(arrived + 1) = (1..arrived) \cup {arrived + 1} /\ arrived + 1 \notin 1..arrived
  BY Numbers DEF IInv, Lined
<1>3. Lined'
  <2>1. pending' \subseteq 1..arrived' /\ poll.offset <= arrived' + 1
    BY <1>1, <1>2
  <2>2. \A i \in DOMAIN poll.batch : poll.batch[i] <= arrived /\ poll.batch[i] <= arrived'
                                     /\ poll.batch[i] < arrived + 1
    BY <1>1, <1>2, Numbers DEF IInv, Lined
  <2> QED
    BY <1>1, <2>1, <2>2 DEF IInv, Lined
<1>4. Counted'
  BY <1>1 DEF IInv, Counted, InMailbox
<1>5. Seen'
  BY <1>1, <1>2 DEF IInv, Seen, InMailbox
<1>6. NoneLost'
  BY <1>1, <1>2 DEF IInv, NoneLost, InMailbox
<1> QED
  BY <1>3, <1>4, <1>5, <1>6 DEF Queued

\* A poll forgets what lies below the offset and returns the rest.
LEMMA PollQueued == IInv /\ (PollReplies \/ PollFails) => Queued'
<1> SUFFICES ASSUME IInv, PollReplies \/ PollFails PROVE Queued'
  OBVIOUS
<1>1. /\ pending' \in {pending, Kept} /\ poll'.offset = poll.offset
      /\ UNCHANGED <<arrived, mailbox, begun, handled, deleter, restarts>>
  BY DEF PollReplies, PollFails, chat, IInv, Shapes
<1>2. Kept \subseteq pending /\ \A u \in pending : poll.offset <= u => u \in Kept
  BY Numbers DEF Kept
<1>3. Lined'
  <2>1. CASE PollReplies
    <3>1. \A u \in Kept : poll.offset <= u /\ u <= arrived
      <4>1. pending \subseteq 1..arrived /\ arrived \in Nat /\ poll.offset \in Nat
        BY Numbers DEF IInv, Lined
      <4> QED
        BY <4>1 DEF Kept
    <3>2. /\ Increasing(Batch)
          /\ \A i \in DOMAIN Batch : Batch[i] \in Kept
          /\ \A u \in Kept : Has(Batch, u)
      BY BatchFacts, Numbers DEF Has
    <3>3. \A i \in DOMAIN Batch : poll.offset <= Batch[i] /\ Batch[i] <= arrived
      BY <3>1, <3>2
    <3>4. pending' = Kept /\ poll'.batch = Batch /\ (poll'.at = "submit" => Batch # <<>>)
      BY <2>1 DEF PollReplies, IInv, Shapes
    <3> QED
      BY <1>1, <1>2, <3>2, <3>3, <3>4 DEF IInv, Lined, Increasing, Has
  <2>2. CASE PollFails
    <3>1. poll' = poll
      BY <2>2 DEF PollFails
    <3> QED
      BY <1>1, <1>2, <3>1 DEF IInv, Lined, Increasing, Has
  <2> QED
    BY <2>1, <2>2
<1>4. Counted'
  BY <1>1 DEF IInv, Counted, InMailbox, Has
<1>5. Seen' /\ NoneLost'
  BY <1>1, <1>2, Numbers DEF IInv, Lined, Seen, NoneLost, InMailbox, Has
<1> QED
  BY <1>3, <1>4, <1>5 DEF Queued

\* The first update of the batch becomes the last of the mailbox.
LEMMA SubmitQueued == IInv /\ Submit => Queued'
<1> DEFINE h == Head(poll.batch)
<1> SUFFICES ASSUME IInv, Submit PROVE Queued'
  OBVIOUS
<1>1. /\ poll'.offset = h + 1 /\ poll'.batch = Tail(poll.batch) /\ mailbox' = Append(mailbox, h)
      /\ poll'.at = "submit" => Tail(poll.batch) # <<>>
      /\ UNCHANGED <<pending, arrived, begun, handled, deleter, restarts>>
      /\ poll.at = "submit" /\ poll.batch # <<>>
  BY DEF Submit, AfterSubmit, chat, IInv, Lined
<1>2. /\ h \in Updates /\ h \in Nat /\ poll.offset <= h /\ h <= arrived
      /\ Increasing(Tail(poll.batch))
      /\ \A i \in DOMAIN Tail(poll.batch) : /\ h < Tail(poll.batch)[i]
                                            /\ Tail(poll.batch)[i] <= arrived
                                            /\ Tail(poll.batch)[i] \in Nat
                                            /\ Has(poll.batch, Tail(poll.batch)[i])
      /\ \A u : Has(poll.batch, u) <=> u = h \/ Has(Tail(poll.batch), u)
  <2>1. poll.batch \in Seq(Updates) /\ Increasing(poll.batch)
    BY Numbers DEF IInv, Lined
  <2>2. \A u : Has(poll.batch, u) => u \in Nat /\ poll.offset <= u /\ u <= arrived
    BY Numbers DEF IInv, Lined, Has
  <2>3. /\ Increasing(Tail(poll.batch)) /\ h \in Updates
        /\ \A i \in DOMAIN Tail(poll.batch) : h < Tail(poll.batch)[i]
                                              /\ Has(poll.batch, Tail(poll.batch)[i])
        /\ \A u : Has(poll.batch, u) <=> u = h \/ Has(Tail(poll.batch), u)
    BY <1>1, <2>1, TailFacts
  <2> QED
    BY <2>2, <2>3
<1>3. /\ Increasing(mailbox')
      /\ \A u : Has(mailbox', u) <=> u = h \/ Has(mailbox, u)
      /\ mailbox' \in Seq(Updates)
  <2>1. \A i \in DOMAIN mailbox : mailbox[i] < h
    <3>1. \A i \in DOMAIN mailbox : mailbox[i] \in Nat /\ mailbox[i] < poll.offset
      BY Numbers DEF IInv, Lined
    <3>2. poll.offset \in Nat
      BY Numbers
    <3> QED
      BY <1>2, <3>1, <3>2
  <2>2. mailbox \in Seq(Updates) /\ Increasing(mailbox)
    BY Numbers DEF IInv, Lined
  <2> QED
    BY <1>1, <1>2, <2>1, <2>2, AppendFacts
<1>4. \A u \in pending : poll.offset <= u /\ u < h + 1 => u = h
  <2> SUFFICES ASSUME NEW u \in pending, poll.offset <= u, u < h + 1 PROVE u = h
    OBVIOUS
  <2>1. u \in Nat
    BY Numbers
  <2>2. Has(poll.batch, h)
    BY <1>2
  <2>3. CASE Has(poll.batch, u)
    <3>1. Has(Tail(poll.batch), u) => h < u
      BY <1>2 DEF Has
    <3> QED
      BY <1>2, <2>1, <2>3, <3>1
  <2>4. CASE \A i \in DOMAIN poll.batch : poll.batch[i] < u
    BY <1>2, <2>1, <2>2, <2>4 DEF Has
  <2> QED
    BY <1>1, <2>3, <2>4 DEF IInv, Lined
<1>5. Lined'
  <2>1. \A i \in DOMAIN mailbox' : mailbox'[i] < h + 1
    <3>1. \A i \in DOMAIN mailbox' : mailbox'[i] = h \/ Has(mailbox, mailbox'[i])
      BY <1>3 DEF Has
    <3>2. \A u : Has(mailbox, u) => u \in Nat /\ u < poll.offset
      BY Numbers DEF IInv, Lined, Has
    <3>3. poll.offset \in Nat
      BY Numbers
    <3> QED
      BY <1>2, <3>1, <3>2, <3>3
  <2>2. \A u \in pending : h + 1 <= u =>
           Has(Tail(poll.batch), u) \/ \A i \in DOMAIN Tail(poll.batch) : Tail(poll.batch)[i] < u
    <3> SUFFICES ASSUME NEW u \in pending, h + 1 <= u, ~Has(Tail(poll.batch), u)
                 PROVE  \A i \in DOMAIN Tail(poll.batch) : Tail(poll.batch)[i] < u
      OBVIOUS
    <3>1. u \in Nat /\ poll.offset <= u /\ ~Has(poll.batch, u)
      <4>1. u \in Nat /\ poll.offset \in Nat
        BY Numbers
      <4> QED
        BY <1>2, <4>1
    <3>2. \A i \in DOMAIN poll.batch : poll.batch[i] < u
      BY <1>1, <3>1 DEF IInv, Lined
    <3> QED
      BY <1>2, <3>2 DEF Has
  <2>3. \A i \in DOMAIN Tail(poll.batch) :
           h + 1 <= Tail(poll.batch)[i] /\ Tail(poll.batch)[i] <= arrived
    BY <1>2
  <2>4. poll'.offset <= arrived' + 1 /\ pending' \subseteq 1..arrived'
    <3>1. arrived \in Nat /\ pending \subseteq 1..arrived
      BY Numbers DEF IInv, Lined
    <3> QED
      BY <1>1, <1>2, <3>1
  <2> QED
    BY <1>1, <1>2, <1>3, <2>1, <2>2, <2>3, <2>4 DEF Lined
<1>6. Counted'
  <2>1. \A u \in Updates : InMailbox(u)' \/ poll'.offset <= u => InMailbox(u) \/ poll.offset <= u
    <3>1. poll.offset \in Nat /\ Updates \subseteq Nat
      BY Numbers
    <3>2. \A u \in Updates : h + 1 <= u => poll.offset <= u
      BY <1>2, <3>1
    <3> QED
      BY <1>1, <1>2, <1>3, <3>2 DEF InMailbox
  <2> QED
    BY <1>1, <2>1 DEF IInv, Counted
<1>7. Seen'
  <2>1. \A u \in pending : u < poll'.offset => InMailbox(u)' \/ begun[u] > 0
    BY <1>1, <1>2, <1>3, <1>4, Numbers DEF IInv, Seen, InMailbox
  <2> QED
    BY <1>1, <2>1 DEF IInv, Seen
<1>8. NoneLost'
  <2> SUFFICES ASSUME restarts = 0, NEW u \in 1..arrived
               PROVE  IF u < h + 1 THEN InMailbox(u)' \/ u \in handled \/ deleter["handler"].for = u
                      ELSE u \in pending
    BY <1>1 DEF NoneLost
  <2>1. u \in Nat
    OBVIOUS
  <2>2. CASE u < poll.offset
    BY <1>2, <1>3, <2>1, <2>2, Numbers DEF IInv, NoneLost, InMailbox
  <2>3. CASE ~(u < poll.offset)
    BY <1>2, <1>3, <1>4, <2>1, <2>3, Numbers DEF IInv, NoneLost, InMailbox
  <2> QED
    BY <2>2, <2>3
<1> QED
  BY <1>5, <1>6, <1>7, <1>8 DEF Queued

\* The handler takes the first update of the mailbox.
LEMMA BeginQueued == IInv /\ Begin => Queued'
<1> DEFINE h == Head(mailbox)
<1> SUFFICES ASSUME IInv, Begin PROVE Queued'
  OBVIOUS
<1>1. /\ begun' = [begun EXCEPT ![h] = @ + 1] /\ mailbox' = Tail(mailbox) /\ mailbox # <<>>
      /\ UNCHANGED <<pending, arrived, poll, handled, restarts>>
      /\ deleter["handler"].at = "idle"
  BY DEF Begin
<1>2. /\ h \in Updates /\ h < poll.offset /\ Increasing(Tail(mailbox))
      /\ \A u : Has(mailbox, u) <=> u = h \/ Has(mailbox', u)
      /\ ~Has(mailbox', h)
      /\ \A i \in DOMAIN mailbox' : mailbox'[i] < poll.offset
  <2>1. mailbox \in Seq(Updates) /\ Increasing(mailbox)
    BY Numbers DEF IInv, Lined
  <2>2. /\ Increasing(Tail(mailbox)) /\ h \in Updates
        /\ \A i \in DOMAIN Tail(mailbox) : h < Tail(mailbox)[i] /\ Has(mailbox, Tail(mailbox)[i])
        /\ \A u : Has(mailbox, u) <=> u = h \/ Has(Tail(mailbox), u)
    BY <1>1, <2>1, TailFacts
  <2>3. \A u : Has(mailbox, u) => u < poll.offset
    BY DEF IInv, Lined, Has
  <2>4. h \in Nat
    BY <2>2, Numbers
  <2>5. Has(mailbox, h) /\ h < poll.offset
    BY <2>2, <2>3
  <2>6. ~Has(Tail(mailbox), h)
    BY <2>2, <2>4 DEF Has
  <2> QED
    BY <1>1, <2>2, <2>3, <2>5, <2>6
<1>3. deleter'["handler"].for = h
  <2>1. deleter' = [deleter EXCEPT !["handler"] = Deletion(h)] /\ "handler" \in DOMAIN deleter
    BY DEF Begin, To, IInv, Shapes, TypeOK, Deleters
  <2> QED
    BY <2>1 DEF Deletion
<1>4. /\ begun' \in [Updates -> Nat] /\ begun'[h] = begun[h] + 1
      /\ \A u \in Updates : u # h => begun'[u] = begun[u]
  BY <1>1, <1>2, Numbers
<1>5. Lined'
  BY <1>1, <1>2 DEF IInv, Lined
<1>6. Counted'
  <2> SUFFICES ASSUME NEW u \in Updates
               PROVE  /\ begun'[u] <= restarts + 1
                      /\ Has(mailbox', u) \/ poll.offset <= u => begun'[u] <= restarts
    BY <1>1 DEF Counted, InMailbox
  <2>3. /\ begun[u] \in Nat /\ restarts \in Nat /\ poll.offset \in Nat /\ u \in Nat
        /\ begun[u] <= restarts + 1
        /\ Has(mailbox, u) \/ poll.offset <= u => begun[u] <= restarts
    BY Numbers DEF IInv, Counted, InMailbox
  <2>1. CASE u = h
    <3>1. Has(mailbox, u) /\ ~Has(mailbox', u) /\ u < poll.offset /\ begun'[u] = begun[u] + 1
      BY <1>2, <1>4, <2>1
    <3> QED
      BY <2>3, <3>1
  <2>2. CASE u # h
    <3>1. begun'[u] = begun[u] /\ (Has(mailbox', u) => Has(mailbox, u))
      BY <1>2, <1>4, <2>2
    <3> QED
      BY <2>3, <3>1
  <2> QED
    BY <2>1, <2>2
<1>7. Seen'
  <2>1. ASSUME NEW u \in Updates, u \in handled' \/ deleter'["handler"].for = u
        PROVE  begun'[u] > 0
    <3>1. begun[u] \in Nat /\ begun[h] \in Nat
      BY <1>2, Numbers
    <3>2. CASE u = h
      BY <1>4, <3>1, <3>2
    <3>3. CASE u # h
      <4>1. u \in handled /\ begun'[u] = begun[u]
        BY <1>1, <1>3, <1>4, <2>1, <3>3
      <4> QED
        BY <4>1 DEF IInv, Seen
    <3> QED
      BY <3>2, <3>3
  <2>2. ASSUME NEW u \in pending, u < poll.offset
        PROVE  Has(mailbox', u) \/ begun'[u] > 0
    <3>1. u \in Updates /\ begun[u] \in Nat /\ begun[h] \in Nat
      BY <1>2, Numbers
    <3>2. Has(mailbox, u) \/ begun[u] > 0
      BY <2>2 DEF IInv, Seen, InMailbox
    <3>3. CASE u = h
      BY <1>4, <3>1, <3>3
    <3>4. CASE u # h
      BY <1>2, <1>4, <3>1, <3>2, <3>4
    <3> QED
      BY <3>3, <3>4
  <2> QED
    BY <1>1, <2>1, <2>2 DEF Seen, InMailbox
<1>8. NoneLost'
  BY <1>1, <1>2, <1>3, Numbers DEF IInv, NoneLost, InMailbox
<1> QED
  BY <1>5, <1>6, <1>7, <1>8 DEF Queued

\* The handler ends with its update handled.
LEMMA EnqueueQueued == IInv /\ (Enqueue \/ EnqueueFails) => Queued'
<1> SUFFICES ASSUME IInv, Enqueue \/ EnqueueFails PROVE Queued'
  OBVIOUS
<1>1. /\ UNCHANGED <<pending, arrived, poll, mailbox, begun, restarts>>
      /\ handled' = handled \cup {deleter["handler"].for}
      /\ deleter["handler"].at = "end" /\ To("handler", Rest)
  BY DEF Enqueue, EnqueueFails
<1>2. deleter'["handler"].for = 0
  BY <1>1 DEF To, Rest, IInv, Shapes, TypeOK, Deleters
<1>3. deleter["handler"].for \in Updates /\ 0 \notin Updates
  BY <1>1, Numbers
<1>4. Lined' /\ Counted'
  BY <1>1 DEF IInv, Lined, Counted, InMailbox
<1>5. Seen' /\ NoneLost'
  BY <1>1, <1>2, <1>3 DEF IInv, Seen, NoneLost, InMailbox
<1> QED
  BY <1>4, <1>5 DEF Queued

\* A restart loses the mailbox, and the next poll starts from what is pending.
LEMMA RestartQueued == IInv /\ Restart => Queued'
<1> SUFFICES ASSUME IInv, Restart PROVE Queued'
  OBVIOUS
<1>1. /\ UNCHANGED <<pending, arrived, begun, handled>>
      /\ poll' = [at |-> "call", offset |-> 0, batch |-> <<>>] /\ mailbox' = <<>>
      /\ restarts' = restarts + 1 /\ To("handler", Rest)
  BY DEF Restart
<1>2. deleter'["handler"].for = 0
  BY <1>1 DEF To, Rest, IInv, Shapes, TypeOK, Deleters
<1>3. /\ restarts \in Nat /\ arrived \in Nat /\ 0 \notin Updates /\ Updates \subseteq Nat
      /\ pending \subseteq Updates /\ begun \in [Updates -> Nat]
  BY Numbers
<1>4. Lined'
  BY <1>1, <1>3 DEF IInv, Lined, Increasing
<1>5. Counted'
  BY <1>1, <1>3 DEF IInv, Counted, InMailbox
<1>6. Seen' /\ NoneLost'
  BY <1>1, <1>2, <1>3 DEF IInv, Seen, NoneLost
<1> QED
  BY <1>4, <1>5, <1>6 DEF Queued

\* No other step touches the updates.
LEMMA OthersQueued ==
  ASSUME IInv, UNCHANGED <<updates, restarts>>,
         deleter'["handler"].for = deleter["handler"].for
  PROVE  Queued'
  BY DEF IInv, Queued, Lined, Counted, Seen, NoneLost, InMailbox, updates

\* Every step keeps what is known of the updates.
LEMMA NextQueued ==
  ASSUME IInv, [Next]_vars
  PROVE  Queued'
<1>1. CASE UNCHANGED vars
  BY <1>1, OthersQueued DEF vars, chat
<1>2. ASSUME NEW d \in Deleters, Replies(d) \/ NoReply(d) \/ Refuses(d) PROVE Queued'
  <2>1. deleter'[d].for = deleter[d].for
    BY <1>2, CallTypes
  <2>2. \A e \in Deleters : e # d => deleter'[e] = deleter[e]
    BY <1>2 DEF Replies, NoReply, Refuses, To, IInv, Shapes, TypeOK
  <2>3. UNCHANGED <<updates, restarts>>
    BY <1>2 DEF Replies, NoReply, Refuses
  <2> QED
    BY <2>1, <2>2, <2>3, OthersQueued DEF Deleters
<1>3. CASE Claim \/ End
  <2>1. deleter'["handler"] = deleter["handler"]
    BY <1>3 DEF Claim, End, To, IInv, Shapes, TypeOK, Deleters
  <2> QED
    BY <1>3, <2>1, OthersQueued DEF Claim, End
<1>4. "handler" \in Deleters /\ "worker" \in Deleters
  BY DEF Deleters
<1> QED
  BY <1>1, <1>2, <1>3, <1>4, ArriveQueued, PollQueued, SubmitQueued, BeginQueued,
     EnqueueQueued, RestartQueued
  DEF Next, Poll, Handler, Worker

-----------------------------------------------------------------------------
(* Deletions.                                                               *)

Deletes == Deleting /\ DoneMeansGone

\* A reply or an error leaves to be deleted what was not, or is remembered.
LEMMA CallDeletes ==
  ASSUME IInv, NEW d \in Deleters, Replies(d) \/ NoReply(d) \/ Refuses(d)
  PROVE  Deletes'
<1> DEFINE w == deleter["worker"]
           G == Group(w.for)
<1>1. jobs' = jobs /\ present' \subseteq present
  BY DEF Replies, NoReply, Refuses
<1>2. "worker" \in Deleters /\ deleter \in [Deleters -> [at : {"idle", "batch", "single", "end"},
         for : Updates \cup {0}, left : SUBSET Messages, failed : BOOLEAN]]
  BY DEF Deleters, IInv, Shapes, TypeOK
<1>3. DoneMeansGone'
  BY <1>1 DEF IInv, DoneMeansGone
<1>4. CASE d = "handler"
  <2>1. deleter'["worker"] = w
    BY <1>2, <1>4 DEF Replies, NoReply, Refuses, To
  <2> QED
    BY <1>1, <1>3, <2>1 DEF IInv, Deleting, Deletes
<1>5. CASE d = "worker"
  <2>1. Calling("worker") /\ deleter'["worker"].for = w.for /\ deleter'["worker"].at # "idle"
    BY <1>5, CallTypes DEF Replies, NoReply, Refuses
  <2>2. w.at \in {"batch", "single"} /\ (~w.failed => present \cap G \subseteq w.left)
    BY <2>1 DEF Calling, IInv, Deleting
  <2>3. CASE Replies("worker")
    <3>1. deleter'["worker"] = AfterReply("worker") /\ present' = present \ Named("worker")
      BY <1>2, <2>3 DEF Replies, To
    <3>2. /\ AfterReply("worker").left = w.left \ Named("worker")
          /\ AfterReply("worker").failed = w.failed
          /\ AfterReply("worker").at = "end" => AfterReply("worker").left = {}
      BY <1>2, <2>2 DEF AfterReply
    <3> QED
      BY <1>1, <1>3, <2>1, <2>2, <3>1, <3>2 DEF IInv, Deleting, Deletes
  <2>4. CASE deleter'["worker"] = AfterError("worker")
    <3>1. CASE w.at = "batch"
      <4>1. AfterError("worker").left = G /\ AfterError("worker").at = "single"
        BY <1>2, <3>1 DEF AfterError
      <4> QED
        BY <1>1, <1>3, <2>1, <2>4, <4>1 DEF IInv, Deleting, Deletes
    <3>2. CASE w.at # "batch"
      <4>1. AfterReply("worker") \in [at : {"batch", "single", "end"}, for : Updates,
                                      left : SUBSET Messages, failed : BOOLEAN]
        BY <1>2, <2>1, DeleterFacts DEF IInv
      <4>2. AfterError("worker").failed = TRUE
        BY <3>2, <4>1 DEF AfterError
      <4> QED
        BY <1>1, <1>3, <2>1, <2>4, <4>2 DEF IInv, Deleting, Deletes
    <3> QED
      BY <3>1, <3>2
  <2>5. CASE deleter'["worker"] = w
    BY <1>1, <1>3, <2>1, <2>2, <2>5 DEF IInv, Deleting, Deletes
  <2> QED
    BY <1>2, <1>5, <2>3, <2>4, <2>5 DEF NoReply, Refuses, To
<1> QED
  BY <1>4, <1>5 DEF Deleters

\* The worker starts with all the messages of a job, and a job is done when none
\* of them is left and none of its calls failed for good.
LEMMA WorkerDeletes ==
  ASSUME IInv, Claim \/ End
  PROVE  Deletes'
<1> DEFINE w == deleter["worker"]
           Jobs == [for : Updates, tries : 0..MaxTries,
                    status : {"queued", "running", "done", "failed"}]
<1>1. /\ "worker" \in Deleters
      /\ deleter \in [Deleters -> [at : {"idle", "batch", "single", "end"},
            for : Updates \cup {0}, left : SUBSET Messages, failed : BOOLEAN]]
      /\ \A j \in DOMAIN jobs : jobs[j] \in Jobs
  <2>1. jobs \in Seq(Jobs)
    BY DEF IInv, Shapes, TypeOK
  <2>2. \A j \in DOMAIN jobs : jobs[j] \in Jobs
    <3> HIDE DEF Jobs
    <3> QED
      BY <2>1
  <2> QED
    BY <2>2 DEF Deleters, IInv, Shapes, TypeOK
<1>2. CASE Claim
  <2>1. PICK j \in DOMAIN jobs :
             /\ w.at = "idle"
             /\ jobs' = [jobs EXCEPT ![j].status = "running", ![j].tries = @ + 1]
             /\ To("worker", Deletion(jobs[j].for))
             /\ present' = present
    BY <1>2 DEF Claim
  <2>2. /\ DOMAIN jobs' = DOMAIN jobs
        /\ jobs'[j].status = "running" /\ jobs'[j].for = jobs[j].for
        /\ \A k \in DOMAIN jobs : k # j => jobs'[k] = jobs[k]
    BY <1>1, <2>1
  <2>3. /\ deleter'["worker"].for = jobs[j].for /\ deleter'["worker"].left = Group(jobs[j].for)
        /\ deleter'["worker"].at \in {"batch", "single"}
    BY <1>1, <2>1 DEF To, Deletion
  <2>4. \A k \in DOMAIN jobs : jobs[k].status # "running"
    BY <2>1 DEF IInv, Deleting
  <2>5. Deleting'
    BY <2>1, <2>2, <2>3, <2>4 DEF Deleting
  <2>6. DoneMeansGone'
    BY <2>1, <2>2 DEF IInv, DoneMeansGone
  <2> QED
    BY <2>5, <2>6 DEF Deletes
<1>3. CASE End
  <2>1. /\ DOMAIN jobs' = DOMAIN jobs /\ present' = present /\ w.at = "end"
        /\ deleter'["worker"] = Rest
    BY <1>1, <1>3 DEF End, To
  <2>2. ASSUME NEW j \in DOMAIN jobs
        PROVE  /\ jobs'[j].for = jobs[j].for /\ jobs'[j].status # "running"
               /\ jobs'[j].status = "done" =>
                     jobs[j].status = "done" \/ (jobs[j].status = "running" /\ ~w.failed)
    <3>1. jobs'[j] = IF jobs[j].status = "running"
                     THEN [jobs[j] EXCEPT !.status = Outcome(jobs[j].tries)] ELSE jobs[j]
      BY <1>3 DEF End
    <3>2. /\ Outcome(jobs[j].tries) \in {"done", "queued", "failed"}
          /\ Outcome(jobs[j].tries) = "done" => ~w.failed
      BY DEF Outcome
    <3> QED
      BY <1>1, <3>1, <3>2
  <2>3. \A j \in DOMAIN jobs : jobs[j].status = "running" /\ ~w.failed =>
           present \cap Group(jobs[j].for) = {}
    BY <2>1 DEF IInv, Deleting
  <2>4. DoneMeansGone'
    BY <2>1, <2>2, <2>3 DEF IInv, DoneMeansGone
  <2>5. Deleting'
    BY <2>1, <2>2 DEF Deleting, Rest
  <2> QED
    BY <2>4, <2>5 DEF Deletes
<1> QED
  BY <1>2, <1>3

\* Every step keeps what is known of the deletions.
LEMMA NextDeletes ==
  ASSUME IInv, [Next]_vars
  PROVE  Deletes'
<1>1. "handler" \in Deleters /\ "worker" \in Deleters
  BY DEF Deleters
<1>2. CASE UNCHANGED vars \/ Arrive \/ PollReplies \/ PollFails \/ Submit
  BY <1>2 DEF vars, chat, Arrive, PollReplies, PollFails, Submit, IInv, Deletes, Deleting,
              DoneMeansGone
<1>3. CASE Begin \/ Enqueue \/ EnqueueFails \/ Restart
  <2>1. present' = present /\ deleter'["worker"] = deleter["worker"]
    BY <1>1, <1>3 DEF Begin, Enqueue, EnqueueFails, Restart, To, IInv, Shapes, TypeOK
  <2>2. jobs' = jobs \/ jobs' = Append(jobs, JobFor(deleter["handler"].for))
    BY <1>3 DEF Begin, Enqueue, EnqueueFails, Restart
  <2>3. JobFor(deleter["handler"].for).status = "queued"
    BY DEF JobFor
  <2>4. \A j \in DOMAIN jobs' : \/ j \in DOMAIN jobs /\ jobs'[j] = jobs[j]
                                \/ jobs'[j].status = "queued"
    <3> DEFINE Jobs == [for : Updates, tries : 0..MaxTries,
                        status : {"queued", "running", "done", "failed"}]
    <3>1. jobs \in Seq(Jobs)
      BY DEF IInv, Shapes, TypeOK
    <3> HIDE DEF Jobs
    <3> QED
      BY <2>2, <2>3, <3>1
  <2> QED
    BY <2>1, <2>4 DEF IInv, Deletes, Deleting, DoneMeansGone
<1>4. ASSUME NEW d \in Deleters, Replies(d) \/ NoReply(d) \/ Refuses(d) PROVE Deletes'
  BY <1>4, CallDeletes
<1> QED
  BY <1>1, <1>2, <1>3, <1>4, WorkerDeletes DEF Next, Poll, Handler, Worker

-----------------------------------------------------------------------------
(* The theorems.                                                            *)

\* The invariant holds at the start.
LEMMA InitIInv == Init => IInv
<1> SUFFICES ASSUME Init PROVE IInv
  OBVIOUS
<1>1. /\ MaxUpdates \in Nat /\ MaxFaults \in Nat /\ ClientAttempts \in Nat \ {0}
      /\ Updates \subseteq Nat /\ 0 \notin Updates
  BY DeliveryAssumption DEF Updates
<1>2. Shapes
  <2>1. TypeOK
    BY <1>1 DEF Init, TypeOK, Rest
  <2>2. poll \in [at : {"call", "submit"}, offset : Nat, batch : Seq(Updates)]
        /\ begun \in [Updates -> Nat]
    BY DEF Init
  <2>3. /\ \A d \in Deleters : deleter[d].at = "idle" /\ deleter[d].for = 0
        /\ "handler" \in Deleters /\ DOMAIN jobs = {}
    BY DEF Init, Rest, Deleters
  <2> QED
    BY <2>1, <2>2, <2>3 DEF Shapes
<1>3. Lined /\ Counted /\ Seen /\ NoneLost
  BY <1>1 DEF Init, Lined, Increasing, Has, Counted, InMailbox, Seen, NoneLost, Rest, Deleters
<1>4. Deleting /\ DoneMeansGone
  BY DEF Init, Deleting, DoneMeansGone, Rest, Deleters
<1> QED
  BY <1>2, <1>3, <1>4 DEF IInv

\* Every step keeps the invariant.
LEMMA NextIInv == IInv /\ [Next]_vars => IInv'
  BY NextTypes, NextQueued, NextDeletes DEF IInv, Queued, Deletes

\* The invariant holds in every state.
THEOREM Invariance == Spec => []IInv
  BY InitIInv, NextIInv, PTL DEF Spec

\* The state keeps its types: no update is begun more often than once per run of
\* telegram-api, and no job or call is tried more often than allowed.
THEOREM DeliveryTypes == Spec => []TypeOK
<1>1. IInv => TypeOK
  BY DEF IInv, Shapes
<1> QED
  BY <1>1, Invariance, PTL

\* Before the first restart of telegram-api no update is lost, and in all it is
\* handled at most once more than there were restarts.
THEOREM LostByRestartOnlyHolds == Spec => []LostByRestartOnly
<1>1. IInv => LostByRestartOnly
  <2> SUFFICES ASSUME IInv PROVE LostByRestartOnly
    OBVIOUS
  <2>1. \A u \in Updates : begun[u] <= 1 + restarts
    BY Numbers DEF IInv, Counted
  <2>2. restarts = 0 => \A u \in 1..arrived : Waiting(u)
    BY DEF IInv, NoneLost, Waiting, InMailbox, Has
  <2> QED
    BY <2>1, <2>2 DEF LostByRestartOnly
<1> QED
  BY <1>1, Invariance, PTL

\* A deletion job that is done has left none of its messages in the chat.
THEOREM DoneMeansGoneHolds == Spec => []DoneMeansGone
<1>1. IInv => DoneMeansGone
  BY DEF IInv
<1> QED
  BY <1>1, Invariance, PTL

\* No update of the user is begun before an earlier one that is known anywhere and
\* was never begun.
THEOREM BegunInOrderHolds == Spec => BegunInOrder
<1> DEFINE InOrder == \A u \in Updates : begun'[u] > begun[u] =>
              \A v \in 1..(u - 1) : Waiting(v) => begun[v] > 0
<1>1. IInv /\ [Next]_vars => [InOrder]_vars
  <2> SUFFICES ASSUME IInv, [Next]_vars, NEW u \in Updates, begun'[u] > begun[u],
                      NEW v \in 1..(u - 1), Waiting(v)
               PROVE  begun[v] > 0
    OBVIOUS
  <2>1. /\ begun \in [Updates -> Nat] /\ v \in Updates /\ v < u /\ u \in Nat /\ v \in Nat
        /\ mailbox \in Seq(Updates)
    <3>1. MaxUpdates \in Nat
      BY DeliveryAssumption
    <3> QED
      BY <3>1, Numbers DEF Updates
  <2>2. begun' = begun \/ Begin
    BY DEF Next, Poll, Handler, Worker, Arrive, PollReplies, PollFails, Submit, Enqueue,
           EnqueueFails, Restart, Replies, NoReply, Refuses, Claim, End, updates, vars
  <2>3. Begin
    BY <2>1, <2>2
  <2>4. Head(mailbox) = u /\ mailbox # <<>>
    BY <2>1, <2>3 DEF Begin
  <2>5. Increasing(mailbox)
    BY DEF IInv, Lined
  <2>6. ~InMailbox(v) /\ u < poll.offset
    <3>1. /\ \A i \in DOMAIN Tail(mailbox) : u < Tail(mailbox)[i]
          /\ \A x : Has(mailbox, x) <=> x = u \/ Has(Tail(mailbox), x)
      BY <2>1, <2>4, <2>5, TailFacts
    <3>2. Has(mailbox, u) /\ (Has(mailbox, v) => v = u \/ u < v)
      BY <3>1 DEF Has
    <3> QED
      BY <2>1, <3>2 DEF InMailbox, IInv, Lined, Has
  <2>7. v < poll.offset
    BY <2>1, <2>6, Numbers
  <2> QED
    BY <2>1, <2>6, <2>7 DEF Waiting, IInv, Seen, InMailbox, Has
<1> QED
  BY <1>1, Invariance, PTL DEF Spec, BegunInOrder

=============================================================================
