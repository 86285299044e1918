------------------------------- MODULE Delivery -------------------------------
(***************************************************************************)
(* What passes between the bot and Telegram: updates one way, through the  *)
(* poll loop of telegram-api and the user's mailbox, and deletions the     *)
(* other way, at once by the handler and again by the delete_messages job  *)
(* it leaves to scheduler-worker.  All of it goes through the client,      *)
(* which repeats a call whose reply it does not get.                       *)
(*                                                                         *)
(*   poll      getUpdates, then each update into the mailbox               *)
(*   handler   one update of one user: retires the messages it is about    *)
(*   worker    the delete_messages jobs                                    *)
(*                                                                         *)
(* Not modelled: a mailbox that is full (module Dispatcher); what else the *)
(* handlers do (DraftSession, Dashboard); a worker that is killed          *)
(* (JobQueue).                                                             *)
(***************************************************************************)
EXTENDS Integers, Sequences, FiniteSets

CONSTANTS
    MaxUpdates,     \* bound: updates of the user
    GroupSize,      \* messages an update retires
    ChunkSize,      \* ids in one deleteMessages call
    ClientAttempts, \* attempts of getUpdates, deleteMessage and deleteMessages
    MaxTries,       \* max_attempts of a job
    MaxFaults       \* bound: attempts without a reply, refusals, restarts

ASSUME DeliveryAssumption ==
    /\ MaxUpdates \in Nat /\ MaxFaults \in Nat
    /\ {GroupSize, ChunkSize, ClientAttempts, MaxTries} \subseteq Nat \ {0}

VARIABLES
    pending,    \* updates Telegram keeps: not acknowledged
    arrived,    \* the last update id
    poll,       \* the poll loop: its offset, the batch it submits
    mailbox,    \* updates submitted and not begun
    begun,      \* how often the handler of an update was begun
    handled,    \* updates whose handler came to its end
    present,    \* messages in the chat
    deleter,    \* the deletion the handler and the worker are at
    jobs,       \* delete_messages jobs
    attempt,    \* the attempt each process is at
    restarts,   \* of telegram-api
    faults      \* failures so far

chat == <<present, deleter, jobs>>
updates == <<pending, arrived, poll, mailbox, begun, handled>>
vars == <<updates, chat, attempt, restarts, faults>>

Updates == 1..MaxUpdates
Messages == 1..(MaxUpdates * GroupSize)
Group(u) == ((u - 1) * GroupSize + 1)..(u * GroupSize)
Deleters == {"handler", "worker"}
Callers == {"poll"} \cup Deleters
Rest == [at |-> "idle", for |-> 0, left |-> {}, failed |-> FALSE]

Init ==
    /\ pending = {} /\ arrived = 0
    /\ poll = [at |-> "call", offset |-> 0, batch |-> <<>>]
    /\ mailbox = <<>> /\ handled = {}
    /\ begun = [u \in Updates |-> 0]
    /\ present = Messages
    /\ deleter = [d \in Deleters |-> Rest]
    /\ jobs = <<>>
    /\ attempt = [c \in Callers |-> 1]
    /\ restarts = 0 /\ faults = 0

-----------------------------------------------------------------------------
(* The poll loop.                                                          *)

Arrive ==
    /\ arrived < MaxUpdates
    /\ arrived' = arrived + 1
    /\ pending' = pending \cup {arrived + 1}
    /\ UNCHANGED <<poll, mailbox, begun, handled, chat, attempt, restarts, faults>>

\* Telegram forgets what lies below the offset and returns the rest in order.
Kept == {u \in pending : u >= poll.offset}

\* Faulty variant: the newest update comes first.
BatchNewest == [i \in 1..Cardinality(Kept) |->
                  CHOOSE u \in Kept : Cardinality({v \in Kept : v >= u}) = i]

Batch == [i \in 1..Cardinality(Kept) |->
            CHOOSE u \in Kept : Cardinality({v \in Kept : v <= u}) = i]

PollReplies ==
    /\ poll.at = "call"
    /\ pending' = Kept
    /\ poll' = [poll EXCEPT !.batch = Batch, !.at = IF Batch = <<>> THEN "call" ELSE "submit"]
    /\ attempt' = [attempt EXCEPT !["poll"] = 1]
    /\ UNCHANGED <<arrived, mailbox, begun, handled, chat, restarts, faults>>

\* Faulty variant: one attempt too many.
AgainMore(c) == attempt[c] <= ClientAttempts

\* Among the methods that the client may send again are getUpdates, deleteMessage
\* and deleteMessages.
Again(c) == attempt[c] < ClientAttempts

NextAttempt(c) == IF Again(c) THEN attempt[c] + 1 ELSE 1

\* No reply: the call is made again, by the client or, after a delay, by the loop.
PollFails ==
    /\ poll.at = "call" /\ faults < MaxFaults
    /\ pending' \in {pending, Kept}
    /\ attempt' = [attempt EXCEPT !["poll"] = NextAttempt("poll")]
    /\ faults' = faults + 1
    /\ UNCHANGED <<arrived, poll, mailbox, begun, handled, chat, restarts>>

\* Faulty variant: the whole batch counts as seen after its first update.
AfterSubmitLast ==
    [poll EXCEPT !.offset = poll.batch[Len(poll.batch)] + 1, !.batch = <<>>, !.at = "call"]

AfterSubmit ==
    LET rest == Tail(poll.batch)
    IN  [at |-> IF rest = <<>> THEN "call" ELSE "submit",
         offset |-> Head(poll.batch) + 1, batch |-> rest]

Submit ==
    /\ poll.at = "submit"
    /\ poll' = AfterSubmit
    /\ mailbox' = Append(mailbox, Head(poll.batch))
    /\ UNCHANGED <<pending, arrived, begun, handled, chat, attempt, restarts, faults>>

-----------------------------------------------------------------------------
(* Deletions.  A deletion of several messages is tried as a batch, chunk by *)
(* chunk, and message by message when a chunk fails.                       *)

Deletion(u) ==
    [at |-> IF GroupSize > 1 THEN "batch" ELSE "single", for |-> u, left |-> Group(u), failed |-> FALSE]

To(d, state) == deleter' = [deleter EXCEPT ![d] = state]

\* The messages the next call names, in the order of the list.
Named(d) ==
    LET n == IF deleter[d].at = "batch" THEN ChunkSize ELSE 1
    IN  {m \in deleter[d].left : Cardinality({k \in deleter[d].left : k <= m}) <= n}

Calling(d) == deleter[d].at \in {"batch", "single"}

\* Faulty variant: the first chunk stands for the batch.
AfterReplyChunk(d) ==
    [deleter[d] EXCEPT !.left = @ \ Named(d), !.at = IF deleter[d].at = "batch" THEN "end" ELSE @]

AfterReply(d) ==
    LET left == deleter[d].left \ Named(d)
    IN  [deleter[d] EXCEPT !.left = left, !.at = IF left = {} THEN "end" ELSE @]

\* A message that is gone already counts as deleted.
Replies(d) ==
    /\ Calling(d)
    /\ present' = present \ Named(d)
    /\ To(d, AfterReply(d))
    /\ attempt' = [attempt EXCEPT ![d] = 1]
    /\ UNCHANGED <<updates, jobs, restarts, faults>>

\* Faulty variant: only the chunk that failed is tried one by one.
AfterErrorNamed(d) ==
    IF deleter[d].at = "batch"
    THEN [deleter[d] EXCEPT !.at = "single", !.left = Named(d)]
    ELSE [AfterReply(d) EXCEPT !.failed = TRUE]

\* The error of a batch leads to single deletions, that of a single one is kept.
AfterError(d) ==
    IF deleter[d].at = "batch"
    THEN [deleter[d] EXCEPT !.at = "single", !.left = Group(deleter[d].for)]
    ELSE [AfterReply(d) EXCEPT !.failed = TRUE]

\* No reply: the client tries again, up to its limit.
NoReply(d) ==
    /\ Calling(d) /\ faults < MaxFaults
    /\ present' \in {present, present \ Named(d)}
    /\ attempt' = [attempt EXCEPT ![d] = NextAttempt(d)]
    /\ To(d, IF Again(d) THEN deleter[d] ELSE AfterError(d))
    /\ faults' = faults + 1
    /\ UNCHANGED <<updates, jobs, restarts>>

\* Telegram refuses: an error that is not repeated.
Refuses(d) ==
    /\ Calling(d) /\ faults < MaxFaults
    /\ To(d, AfterError(d))
    /\ attempt' = [attempt EXCEPT ![d] = 1]
    /\ faults' = faults + 1
    /\ UNCHANGED <<updates, present, jobs, restarts>>

-----------------------------------------------------------------------------
(* The handler: deleteMessagesReliably deletes now and enqueues the job.   *)

Begin ==
    /\ deleter["handler"].at = "idle" /\ mailbox # <<>>
    /\ begun' = [begun EXCEPT ![Head(mailbox)] = @ + 1]
    /\ mailbox' = Tail(mailbox)
    /\ To("handler", Deletion(Head(mailbox)))
    /\ UNCHANGED <<pending, arrived, poll, handled, present, jobs, attempt, restarts, faults>>

JobFor(u) == [for |-> u, status |-> "queued", tries |-> 0]

Enqueue ==
    /\ deleter["handler"].at = "end"
    /\ jobs' = Append(jobs, JobFor(deleter["handler"].for))
    /\ handled' = handled \cup {deleter["handler"].for}
    /\ To("handler", Rest)
    /\ UNCHANGED <<pending, arrived, poll, mailbox, begun, present, attempt, restarts, faults>>

EnqueueFails ==
    /\ deleter["handler"].at = "end" /\ faults < MaxFaults
    /\ jobs' \in {jobs, Append(jobs, JobFor(deleter["handler"].for))}
    /\ handled' = handled \cup {deleter["handler"].for}
    /\ To("handler", Rest)
    /\ faults' = faults + 1
    /\ UNCHANGED <<pending, arrived, poll, mailbox, begun, present, attempt, restarts>>

-----------------------------------------------------------------------------
(* The worker: ProcessJob.                                                 *)

Claim ==
    \E j \in DOMAIN jobs :
        /\ deleter["worker"].at = "idle" /\ jobs[j].status = "queued"
        /\ jobs' = [jobs EXCEPT ![j].status = "running", ![j].tries = @ + 1]
        /\ To("worker", Deletion(jobs[j].for))
        /\ UNCHANGED <<updates, present, attempt, restarts, faults>>

Outcome(tries) ==
    IF ~deleter["worker"].failed THEN "done" ELSE IF tries < MaxTries THEN "queued" ELSE "failed"

End ==
    /\ deleter["worker"].at = "end"
    /\ jobs' = [j \in DOMAIN jobs |->
                  IF jobs[j].status = "running"
                  THEN [jobs[j] EXCEPT !.status = Outcome(jobs[j].tries)] ELSE jobs[j]]
    /\ To("worker", Rest)
    /\ UNCHANGED <<updates, present, attempt, restarts, faults>>

-----------------------------------------------------------------------------
\* telegram-api stops or is killed, and starts again: what waits in the mailbox is
\* run with a cancelled context, or not at all, and the offset begins anew.
Restart ==
    /\ faults < MaxFaults
    /\ poll' = [at |-> "call", offset |-> 0, batch |-> <<>>]
    /\ mailbox' = <<>>
    /\ To("handler", Rest)
    /\ attempt' = [attempt EXCEPT !["poll"] = 1, !["handler"] = 1]
    /\ restarts' = restarts + 1
    /\ faults' = faults + 1
    /\ UNCHANGED <<pending, arrived, begun, handled, present, jobs>>

Poll == PollReplies \/ Submit
Handler == Begin \/ Replies("handler") \/ Enqueue
Worker == Claim \/ Replies("worker") \/ End

Next ==
    \/ Arrive \/ Poll \/ Handler \/ Worker \/ PollFails \/ EnqueueFails \/ Restart
    \/ \E d \in Deleters : NoReply(d) \/ Refuses(d)

Spec == Init /\ [][Next]_vars
FairSpec == Spec /\ WF_vars(Poll) /\ WF_vars(Handler) /\ WF_vars(Worker)

-----------------------------------------------------------------------------
(* Properties.                                                             *)

TypeOK ==
    /\ pending \subseteq Updates /\ handled \subseteq Updates /\ arrived \in 0..MaxUpdates
    /\ poll.at \in {"call", "submit"} /\ poll.offset \in 0..(MaxUpdates + 1)
    /\ poll.batch \in Seq(Updates) /\ mailbox \in Seq(Updates)
    /\ begun \in [Updates -> 0..(restarts + 1)]
    /\ present \subseteq Messages
    /\ deleter \in [Deleters -> [at : {"idle", "batch", "single", "end"}, for : Updates \cup {0},
                                 left : SUBSET Messages, failed : BOOLEAN]]
    /\ jobs \in Seq([for : Updates, tries : 0..MaxTries,
                     status : {"queued", "running", "done", "failed"}])
    /\ attempt \in [Callers -> 1..ClientAttempts]
    /\ restarts \in 0..faults /\ faults \in 0..MaxFaults

Waiting(u) ==
    \/ u \in pending \cup handled \/ deleter["handler"].for = u
    \/ \E i \in DOMAIN mailbox : mailbox[i] = u

\* As long as telegram-api has not been restarted, no update is lost, whatever became
\* of the polls, and none is handled twice; each restart repeats an update at most once
\* (offset is advanced per update and acknowledged by the next getUpdates only).
LostByRestartOnly ==
    /\ restarts = 0 => \A u \in 1..arrived : Waiting(u)
    /\ \A u \in Updates : begun[u] <= 1 + restarts

\* A later update of the user is not begun before an earlier one that is still to be
\* handled, redelivery included, unless that one is already lost.
BegunInOrder ==
    [][\A u \in Updates : begun'[u] > begun[u] =>
           \A v \in 1..(u - 1) : Waiting(v) => begun[v] > 0]_vars

\* A delete_messages job is done only when none of its messages is left in the chat:
\* a batch that failed part-way is not taken for a success (ProcessJob, DeleteMessages).
DoneMeansGone ==
    \A j \in DOMAIN jobs : jobs[j].status = "done" => present \cap Group(jobs[j].for) = {}

\* Every message whose deletion was enqueued leaves the chat in the end, as long as
\* the failures are fewer than use up the attempts of its job.
RetiredGo ==
    \A u \in Updates : (\E j \in DOMAIN jobs : jobs[j].for = u) ~> (present \cap Group(u) = {})
===============================================================================
