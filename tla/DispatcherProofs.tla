-------------------------- MODULE DispatcherProofs --------------------------
(***************************************************************************)
(* That the dispatcher never panics, strands no accepted job, evicts only  *)
(* its own mailbox, drains at Shutdown and implements SerialPerKey, for    *)
(* all keys, submitters, buffer sizes and numbers of jobs and mailboxes.   *)
(***************************************************************************)
EXTENDS Dispatcher, TLAPS

Made(b) == b < nextBox

\* A mailbox's mutex is held by a Submit that is about to send...
Senders ==
    \A b \in Boxes, s \in Submitters :
        lock[b] = s <=> (sub[s].at = "send" /\ sub[s].box = b)

\* ... or by a runner that is about to evict...
Evictors == \A b \in Boxes : lock[b] = Runner <=> runner[b] = "evict"

\* ... and by neither once the mailbox is closed.
HeldOpen == \A b \in Boxes : lock[b] # Free => ~closed[b]

\* A call has a job, and works on a mailbox that was made.
Lookups ==
    \A s \in Submitters :
        /\ sub[s].at # "idle" => sub[s].job \in Jobs
        /\ sub[s].at \in {"lock", "send"} => sub[s].box \in Boxes /\ Made(sub[s].box)

\* Mailboxes are made with their goroutine, which ends with them closed.
Lives ==
    \A b \in Boxes : /\ runner[b] = "none" <=> ~Made(b)
                     /\ runner[b] = "none" => ~closed[b]
                     /\ runner[b] = "gone" => closed[b]

\* A goroutine that evicts or has ended leaves nothing in the channel.
Emptied == \A b \in Boxes : runner[b] \in {"none", "evict", "gone"} => buf[b] = <<>>

RunsOnly == \A b \in Boxes : running[b] # NoJob => runner[b] = "run"

\* Until Shutdown the map has the open mailboxes...
OpenMapped ==
    ~shut => \A b \in Boxes : Made(b) /\ ~closed[b] => mailboxes[key[b]] = b

\* ... and no other.
MappedOpen ==
    ~shut => \A k \in Keys : mailboxes[k] # NoBox =>
                key[mailboxes[k]] = k /\ Made(mailboxes[k]) /\ ~closed[mailboxes[k]]

Shutting ==
    /\ shut <=> closing # "not called"
    /\ \A b \in toClose : Made(b)
    /\ closing = "drained" => \A b \in Boxes : runner[b] \in {"none", "gone"}

\* Until Shutdown a mailbox closes as its goroutine ends...
ClosedGone == ~shut => \A b \in Boxes : closed[b] => runner[b] = "gone"

\* ... so that at any time a key has at most one goroutine.
OneAlive == \A k \in Keys : \A b, c \in Alive(k) : b = c

\* The inductive invariant.
IInv ==
    /\ TypeOK /\ Senders /\ Evictors /\ HeldOpen /\ Lookups /\ Lives /\ Emptied
    /\ RunsOnly /\ OpenMapped /\ MappedOpen /\ Shutting /\ NeverPanics
    /\ ClosedGone /\ OneAlive

-----------------------------------------------------------------------------
(* Facts about the constants, and what the parts of actions do.            *)

\* The holders of a mutex are told apart.
LEMMA Holders ==
  /\ Free # Runner
  /\ \A s \in Submitters : s # Free /\ s # Runner
BY DispatcherAssumption DEF Free, Runner

\* A submitter that calls nothing is a well-formed call.
LEMMA IdleIsCall == IdleCall \in Call /\ IdleCall.at = "idle"
<1>1. AnyKey \in Keys
  BY DispatcherAssumption DEF AnyKey
<1> QED
  BY <1>1 DEF IdleCall, Call

\* A Submit that moves on changes its own place and mailbox, and keeps its job.
LEMMA CallsFacts ==
  ASSUME TypeOK, NEW s \in Submitters, NEW place \in {"get", "lock", "send"},
         NEW b \in Boxes \cup {NoBox}, Calls(s, place, b)
  PROVE  /\ sub' \in [Submitters -> Call]
         /\ sub'[s].at = place /\ sub'[s].box = b /\ sub'[s].job = sub[s].job
         /\ \A u \in Submitters : u # s => sub'[u] = sub[u]
BY DEF TypeOK, Calls, Call

\* A Submit that returns leaves the other calls alone.
LEMMA EndsFacts ==
  ASSUME TypeOK, NEW s \in Submitters, Ends(s)
  PROVE  /\ sub' \in [Submitters -> Call]
         /\ sub'[s].at = "idle"
         /\ \A u \in Submitters : u # s => sub'[u] = sub[u]
BY IdleIsCall DEF TypeOK, Ends

\* A new call has the next job, and no other call changes.
LEMMA SubmitFacts ==
  ASSUME TypeOK, NEW s \in Submitters, NEW k \in Keys, Submit(s, k)
  PROVE  /\ sub' \in [Submitters -> Call]
         /\ sub'[s].at = "get" /\ sub'[s].job \in Jobs
         /\ \A u \in Submitters : u # s => sub'[u] = sub[u]
<1>1. nextJob \in Jobs
  <2>1. nextJob \in 1..(MaxJobs + 1) /\ nextJob <= MaxJobs
    BY DEF TypeOK, Submit
  <2> QED
    BY <2>1, DispatcherAssumption DEF Jobs
<1>2. [at |-> "get", key |-> k, job |-> nextJob, box |-> NoBox] \in Call
  BY <1>1 DEF Call
<1> QED
  BY <1>1, <1>2 DEF Submit, TypeOK

\* A lookup that finds a mailbox goes on to its lock.
LEMMA GetFacts ==
  ASSUME TypeOK, NEW s \in Submitters, GetMailbox(s)
  PROVE  /\ mailboxes[sub[s].key] \in Boxes
         /\ sub' \in [Submitters -> Call]
         /\ sub'[s].at = "lock" /\ sub'[s].box = mailboxes[sub[s].key]
         /\ sub'[s].job = sub[s].job
         /\ \A u \in Submitters : u # s => sub'[u] = sub[u]
<1>1. sub[s].key \in Keys
  BY DEF TypeOK, Call
<1>2. mailboxes[sub[s].key] \in Boxes
  BY <1>1 DEF TypeOK, GetMailbox
<1> QED
  BY <1>2, CallsFacts DEF GetMailbox

\* A lookup that finds none makes the next mailbox and goes on to its lock.
LEMMA CreateFacts ==
  ASSUME TypeOK, NEW s \in Submitters, CreateMailbox(s)
  PROVE  /\ nextBox \in Boxes /\ nextBox # NoBox /\ sub[s].key \in Keys
         /\ sub' \in [Submitters -> Call]
         /\ sub'[s].at = "lock" /\ sub'[s].box = nextBox /\ sub'[s].job = sub[s].job
         /\ \A u \in Submitters : u # s => sub'[u] = sub[u]
<1>1. nextBox \in Boxes /\ nextBox # NoBox
  <2>1. nextBox \in 1..(MaxBoxes + 1) /\ nextBox <= MaxBoxes
    BY DEF TypeOK, CreateMailbox
  <2> QED
    BY <2>1, DispatcherAssumption DEF Boxes, NoBox
<1>2. sub[s].key \in Keys
  BY DEF TypeOK, Call
<1>3. Calls(s, "lock", nextBox)
  BY DEF CreateMailbox
<1> QED
  BY <1>1, <1>2, <1>3, CallsFacts

\* Taking or releasing a mutex concerns one mailbox.
LEMMA LockFacts ==
  ASSUME TypeOK, NEW b \in Boxes, NEW h \in Submitters \cup {Free, Runner},
         lock' = [lock EXCEPT ![b] = h]
  PROVE  /\ lock' \in [Boxes -> Submitters \cup {Free, Runner}]
         /\ lock'[b] = h
         /\ \A c \in Boxes : c # b => lock'[c] = lock[c]
BY DEF TypeOK

\* A step of a goroutine moves that goroutine only.
LEMMA RunnerFacts ==
  ASSUME TypeOK, NEW b \in Boxes,
         NEW place \in {"none", "select", "run", "expired", "evict", "gone"},
         Become(b, place)
  PROVE  /\ runner' \in [Boxes -> {"none", "select", "run", "expired", "evict", "gone"}]
         /\ runner'[b] = place
         /\ \A c \in Boxes : c # b => runner'[c] = runner[c]
BY DEF TypeOK, Become

\* Closing concerns one mailbox.
LEMMA CloseFacts ==
  ASSUME TypeOK, NEW b \in Boxes, Close(b)
  PROVE  /\ closed' \in [Boxes -> BOOLEAN]
         /\ closed'[b]
         /\ \A c \in Boxes : c # b => closed'[c] = closed[c]
         /\ panicked' \in BOOLEAN
BY DEF TypeOK, Close

-----------------------------------------------------------------------------
(* Each part of the invariant is kept by every step.                       *)

\* Variables keep their types: in particular a call only ever sends to a mailbox it found.
LEMMA TypeStep ==
  ASSUME TypeOK, Lookups, [Next]_vars
  PROVE  TypeOK'
<1>1. ASSUME NEW s \in Submitters, NEW k \in Keys, Submit(s, k) PROVE TypeOK'
  <2>1. nextJob' \in 1..(MaxJobs + 1)
    <3>1. nextJob \in 1..(MaxJobs + 1) /\ nextJob <= MaxJobs /\ nextJob' = nextJob + 1
      BY <1>1 DEF TypeOK, Submit
    <3> QED
      BY <3>1, DispatcherAssumption
  <2> QED
    BY <1>1, <2>1, SubmitFacts DEF TypeOK, Submit, boxVars, shutVars
<1>2. ASSUME NEW s \in Submitters, Refuse(s) PROVE TypeOK'
  BY <1>2, EndsFacts DEF TypeOK, Refuse, boxVars, shutVars
<1>3. ASSUME NEW s \in Submitters, GetMailbox(s) PROVE TypeOK'
  BY <1>3, GetFacts DEF TypeOK, GetMailbox, boxVars, shutVars
<1>4. ASSUME NEW s \in Submitters, CreateMailbox(s) PROVE TypeOK'
  <2>1. nextBox' \in 1..(MaxBoxes + 1)
    <3>1. nextBox \in 1..(MaxBoxes + 1) /\ nextBox <= MaxBoxes /\ nextBox' = nextBox + 1
      BY <1>4 DEF TypeOK, CreateMailbox
    <3> QED
      BY <3>1, DispatcherAssumption
  <2>2. /\ mailboxes' \in [Keys -> Boxes \cup {NoBox}]
        /\ key' \in [Boxes -> Keys]
        /\ runner' \in [Boxes -> {"none", "select", "run", "expired", "evict", "gone"}]
    BY <1>4, CreateFacts DEF TypeOK, CreateMailbox
  <2> QED
    BY <1>4, <2>1, <2>2, CreateFacts DEF TypeOK, CreateMailbox, shutVars
<1>5. ASSUME NEW s \in Submitters, LockMailbox(s) PROVE TypeOK'
  <2>1. sub[s].box \in Boxes
    BY <1>5 DEF Lookups, LockMailbox
  <2>2. /\ sub' \in [Submitters -> Call]
        /\ lock' \in [Boxes -> Submitters \cup {Free, Runner}]
    BY <1>5, <2>1, CallsFacts, LockFacts DEF LockMailbox, Hold
  <2> QED
    BY <1>5, <2>2 DEF TypeOK, LockMailbox, shutVars
<1>6. ASSUME NEW s \in Submitters, FindClosed(s) PROVE TypeOK'
  <2>1. sub' \in [Submitters -> Call]
    BY <1>6, CallsFacts DEF FindClosed
  <2> QED
    BY <1>6, <2>1 DEF TypeOK, FindClosed, boxVars, shutVars
<1>7. ASSUME NEW s \in Submitters, Send(s) PROVE TypeOK'
  <2>1. sub[s].box \in Boxes /\ sub[s].job \in Jobs
    BY <1>7 DEF Lookups, Send
  <2>2. /\ sub' \in [Submitters -> Call]
        /\ lock' \in [Boxes -> Submitters \cup {Free, Runner}]
    BY <1>7, <2>1, EndsFacts, LockFacts DEF Send, Release
  <2>3. buf' \in [Boxes -> Seq(Jobs)]
    <3>1. buf \in [Boxes -> Seq(Jobs)]
      BY DEF TypeOK
    <3>2. Append(buf[sub[s].box], sub[s].job) \in Seq(Jobs)
      BY <2>1, <3>1
    <3> QED
      BY <1>7, <2>1, <3>1, <3>2 DEF Send
  <2>4. panicked' \in BOOLEAN
    BY <1>7 DEF Send
  <2> QED
    BY <1>7, <2>2, <2>3, <2>4 DEF TypeOK, Send, shutVars
<1>8. ASSUME NEW s \in Submitters, Cancel(s) PROVE TypeOK'
  <2>1. sub[s].box \in Boxes
    BY <1>8 DEF Lookups, Cancel
  <2>2. /\ sub' \in [Submitters -> Call]
        /\ lock' \in [Boxes -> Submitters \cup {Free, Runner}]
    BY <1>8, <2>1, EndsFacts, LockFacts DEF Cancel, Release
  <2> QED
    BY <1>8, <2>2 DEF TypeOK, Cancel, shutVars
<1>9. ASSUME NEW b \in Boxes, Take(b) PROVE TypeOK'
  <2>1. buf[b] \in Seq(Jobs) /\ buf[b] # <<>>
    BY <1>9 DEF TypeOK, Take
  <2>2. Head(buf[b]) \in Jobs /\ Tail(buf[b]) \in Seq(Jobs)
    BY <2>1
  <2>3. /\ buf' \in [Boxes -> Seq(Jobs)]
        /\ running' \in [Boxes -> Jobs \cup {NoJob}]
    BY <1>9, <2>2 DEF TypeOK, Take
  <2>4. runner' \in [Boxes -> {"none", "select", "run", "expired", "evict", "gone"}]
    BY <1>9, RunnerFacts DEF Take
  <2> QED
    BY <1>9, <2>3, <2>4 DEF TypeOK, Take, shutVars
<1>10. ASSUME NEW b \in Boxes, Return(b) PROVE TypeOK'
  <2>1. runner' \in [Boxes -> {"none", "select", "run", "expired", "evict", "gone"}]
    BY <1>10, RunnerFacts DEF Return
  <2>2. running' \in [Boxes -> Jobs \cup {NoJob}]
    BY <1>10 DEF TypeOK, Return
  <2> QED
    BY <1>10, <2>1, <2>2 DEF TypeOK, Return, shutVars
<1>11. ASSUME NEW b \in Boxes, Exit(b) \/ Expire(b) \/ KeepBusy(b) PROVE TypeOK'
  <2>1. runner' \in [Boxes -> {"none", "select", "run", "expired", "evict", "gone"}]
    BY <1>11, RunnerFacts DEF Exit, Expire, KeepBusy
  <2> QED
    BY <1>11, <2>1 DEF TypeOK, Exit, Expire, KeepBusy, shutVars
<1>12. ASSUME NEW b \in Boxes, EvictLock(b) PROVE TypeOK'
  <2>1. /\ runner' \in [Boxes -> {"none", "select", "run", "expired", "evict", "gone"}]
        /\ lock' \in [Boxes -> Submitters \cup {Free, Runner}]
    BY <1>12, RunnerFacts, LockFacts DEF EvictLock, Hold
  <2> QED
    BY <1>12, <2>1 DEF TypeOK, EvictLock, shutVars
<1>13. ASSUME NEW b \in Boxes, Evict(b) PROVE TypeOK'
  <2>1. /\ runner' \in [Boxes -> {"none", "select", "run", "expired", "evict", "gone"}]
        /\ lock' \in [Boxes -> Submitters \cup {Free, Runner}]
    BY <1>13, RunnerFacts, LockFacts DEF Evict, Release
  <2>2. closed' \in [Boxes -> BOOLEAN] /\ panicked' \in BOOLEAN
    BY <1>13, CloseFacts DEF Evict, TypeOK
  <2>3. mailboxes' \in [Keys -> Boxes \cup {NoBox}]
    BY <1>13 DEF Evict, TypeOK
  <2> QED
    BY <1>13, <2>1, <2>2, <2>3 DEF TypeOK, Evict, shutVars
<1>14. ASSUME NEW b \in Boxes, CloseMailbox(b) PROVE TypeOK'
  <2>1. closed' \in [Boxes -> BOOLEAN] /\ panicked' \in BOOLEAN
    BY <1>14, CloseFacts DEF CloseMailbox, TypeOK
  <2>2. toClose' \subseteq Boxes
    BY <1>14 DEF TypeOK, CloseMailbox
  <2> QED
    BY <1>14, <2>1, <2>2 DEF TypeOK, CloseMailbox
<1>15. CASE Shutdown
  <2>1. \A k \in Keys : mailboxes[k] \in Boxes \cup {NoBox}
    BY DEF TypeOK
  <2>2. toClose' \subseteq Boxes
    BY <1>15, <2>1 DEF Shutdown
  <2>3. mailboxes' \in [Keys -> Boxes \cup {NoBox}]
    BY <1>15 DEF Shutdown
  <2> QED
    BY <1>15, <2>2, <2>3 DEF TypeOK, Shutdown, boxVars
<1>16. CASE AllClosed \/ ShutdownReturns \/ ShutdownTimesOut
  BY <1>16 DEF TypeOK, AllClosed, ShutdownReturns, ShutdownTimesOut, boxVars
<1>17. CASE UNCHANGED vars
  BY <1>17 DEF TypeOK, vars, boxVars, shutVars
<1> QED
  BY <1>1, <1>2, <1>3, <1>4, <1>5, <1>6, <1>7, <1>8, <1>9, <1>10, <1>11, <1>12, <1>13,
     <1>14, <1>15, <1>16, <1>17
  DEF Next, SubmitStep, RunnerStep, ShutdownStep

\* The mutex of a mailbox is held by a Submit exactly while it waits to send there.
LEMMA SendersStep ==
  ASSUME TypeOK, Senders, Evictors, Lookups, [Next]_vars
  PROVE  Senders'
<1>1. ASSUME NEW s \in Submitters, NEW k \in Keys, Submit(s, k) PROVE Senders'
  <2>1. lock' = lock /\ sub[s].at # "send"
    BY <1>1 DEF Submit, boxVars
  <2> QED
    BY <1>1, <2>1, SubmitFacts DEF Senders
<1>2. ASSUME NEW s \in Submitters, Refuse(s) PROVE Senders'
  <2>1. lock' = lock /\ sub[s].at # "send"
    BY <1>2 DEF Refuse, boxVars
  <2>2. Ends(s)
    BY <1>2 DEF Refuse
  <2> QED
    BY <2>1, <2>2, EndsFacts DEF Senders
<1>3. ASSUME NEW s \in Submitters, GetMailbox(s) PROVE Senders'
  <2>1. lock' = lock /\ sub[s].at # "send"
    BY <1>3 DEF GetMailbox, boxVars
  <2> QED
    BY <1>3, <2>1, GetFacts DEF Senders
<1>4. ASSUME NEW s \in Submitters, CreateMailbox(s) PROVE Senders'
  <2>1. lock' = lock /\ sub[s].at # "send"
    BY <1>4 DEF CreateMailbox
  <2> QED
    BY <1>4, <2>1, CreateFacts DEF Senders
<1>5. ASSUME NEW s \in Submitters, LockMailbox(s) PROVE Senders'
  <2>1. sub[s].box \in Boxes /\ sub[s].at = "lock"
    BY <1>5 DEF Lookups, LockMailbox
  <2>2. Calls(s, "send", sub[s].box) /\ Hold(sub[s].box, s)
    BY <1>5 DEF LockMailbox
  <2>3. /\ sub'[s].at = "send" /\ sub'[s].box = sub[s].box
        /\ \A u \in Submitters : u # s => sub'[u] = sub[u]
    BY <2>1, <2>2, CallsFacts
  <2>4. /\ lock[sub[s].box] = Free /\ lock'[sub[s].box] = s
        /\ \A c \in Boxes : c # sub[s].box => lock'[c] = lock[c]
    BY <2>1, <2>2, LockFacts DEF Hold
  <2> QED
    BY <2>1, <2>3, <2>4, Holders DEF Senders
<1>6. ASSUME NEW s \in Submitters, FindClosed(s) PROVE Senders'
  <2>1. lock' = lock /\ sub[s].at # "send" /\ Calls(s, "get", NoBox)
    BY <1>6 DEF FindClosed, boxVars
  <2> QED
    BY <2>1, CallsFacts DEF Senders
<1>7. ASSUME NEW s \in Submitters, Send(s) \/ Cancel(s) PROVE Senders'
  <2>1. sub[s].box \in Boxes /\ sub[s].at = "send"
    BY <1>7 DEF Lookups, Send, Cancel
  <2>2. Ends(s) /\ Release(sub[s].box)
    BY <1>7 DEF Send, Cancel
  <2>3. /\ sub'[s].at = "idle"
        /\ \A u \in Submitters : u # s => sub'[u] = sub[u]
    BY <2>2, EndsFacts
  <2>4. /\ lock[sub[s].box] = s /\ lock'[sub[s].box] = Free
        /\ \A c \in Boxes : c # sub[s].box => lock'[c] = lock[c]
    BY <2>1, <2>2, LockFacts DEF Release, Senders
  <2> QED
    BY <2>1, <2>3, <2>4, Holders DEF Senders
<1>8. ASSUME NEW b \in Boxes, EvictLock(b) PROVE Senders'
  <2>1. sub' = sub /\ Hold(b, Runner)
    BY <1>8 DEF EvictLock
  <2> QED
    BY <2>1, LockFacts, Holders DEF Senders, Hold
<1>9. ASSUME NEW b \in Boxes, Evict(b) PROVE Senders'
  <2>1. sub' = sub /\ Release(b) /\ lock[b] = Runner
    BY <1>9 DEF Evict, Evictors
  <2> QED
    BY <2>1, LockFacts, Holders DEF Senders, Release
<1>10. CASE UNCHANGED <<lock, sub>>
  BY <1>10 DEF Senders
<1>11. ASSUME NEW b \in Boxes, Take(b) \/ Return(b) \/ Exit(b) \/ Expire(b) \/ KeepBusy(b)
       PROVE  UNCHANGED <<lock, sub>>
  BY <1>11 DEF Take, Return, Exit, Expire, KeepBusy
<1>12. ASSUME \/ \E b \in Boxes : CloseMailbox(b)
              \/ Shutdown \/ AllClosed \/ ShutdownReturns \/ ShutdownTimesOut
              \/ UNCHANGED vars
       PROVE  UNCHANGED <<lock, sub>>
  BY <1>12 DEF CloseMailbox, Shutdown, AllClosed, ShutdownReturns, ShutdownTimesOut, vars, boxVars
<1> QED
  BY <1>1, <1>2, <1>3, <1>4, <1>5, <1>6, <1>7, <1>8, <1>9, <1>10, <1>11, <1>12
  DEF Next, SubmitStep, RunnerStep, ShutdownStep

\* The mutex of a mailbox is held by its goroutine exactly while it evicts.
LEMMA EvictorsStep ==
  ASSUME TypeOK, Senders, Evictors, Lookups, Lives, [Next]_vars
  PROVE  Evictors'
<1>1. ASSUME NEW s \in Submitters, CreateMailbox(s) PROVE Evictors'
  <2>1. lock' = lock /\ runner' = [runner EXCEPT ![nextBox] = "select"]
    BY <1>1 DEF CreateMailbox
  <2>2. nextBox \in Boxes /\ runner[nextBox] = "none"
    BY <1>1, CreateFacts DEF Lives, Made, Boxes
  <2> QED
    BY <2>1, <2>2 DEF Evictors, TypeOK
<1>2. ASSUME NEW s \in Submitters, LockMailbox(s) PROVE Evictors'
  <2>1. sub[s].box \in Boxes
    BY <1>2 DEF Lookups, LockMailbox
  <2>2. runner' = runner /\ lock[sub[s].box] = Free /\ lock' = [lock EXCEPT ![sub[s].box] = s]
    BY <1>2 DEF LockMailbox, Hold
  <2> QED
    BY <2>1, <2>2, LockFacts, Holders DEF Evictors
<1>3. ASSUME NEW s \in Submitters, Send(s) \/ Cancel(s) PROVE Evictors'
  <2>1. sub[s].box \in Boxes
    BY <1>3 DEF Lookups, Send, Cancel
  <2>2. runner' = runner /\ lock[sub[s].box] = s /\ lock' = [lock EXCEPT ![sub[s].box] = Free]
    BY <1>3, <2>1 DEF Send, Cancel, Release, Senders
  <2> QED
    BY <2>1, <2>2, LockFacts, Holders DEF Evictors
<1>4. ASSUME NEW b \in Boxes, Take(b) \/ Return(b) \/ Exit(b) \/ Expire(b) \/ KeepBusy(b)
      PROVE  Evictors'
  <2>1. /\ lock' = lock /\ runner[b] # "evict"
        /\ Become(b, "run") \/ Become(b, "select") \/ Become(b, "gone") \/ Become(b, "expired")
    BY <1>4 DEF Take, Return, Exit, Expire, KeepBusy
  <2> QED
    BY <2>1, RunnerFacts DEF Evictors
<1>5. ASSUME NEW b \in Boxes, EvictLock(b) PROVE Evictors'
  <2>1. Become(b, "evict") /\ lock' = [lock EXCEPT ![b] = Runner]
    BY <1>5 DEF EvictLock, Hold
  <2>2. runner'[b] = "evict" /\ \A c \in Boxes : c # b => runner'[c] = runner[c]
    BY <2>1, RunnerFacts
  <2>3. lock'[b] = Runner /\ \A c \in Boxes : c # b => lock'[c] = lock[c]
    BY <2>1, LockFacts
  <2> QED
    BY <2>2, <2>3 DEF Evictors
<1>6. ASSUME NEW b \in Boxes, Evict(b) PROVE Evictors'
  <2>1. Become(b, "gone") \/ Become(b, "select")
    BY <1>6 DEF Evict
  <2>2. lock' = [lock EXCEPT ![b] = Free]
    BY <1>6 DEF Evict, Release
  <2>3. runner'[b] # "evict" /\ \A c \in Boxes : c # b => runner'[c] = runner[c]
    BY <2>1, RunnerFacts
  <2>4. lock'[b] # Runner /\ \A c \in Boxes : c # b => lock'[c] = lock[c]
    BY <2>2, LockFacts, Holders
  <2> QED
    BY <2>3, <2>4 DEF Evictors
<1>7. CASE UNCHANGED <<lock, runner>>
  BY <1>7 DEF Evictors
<1>8. ASSUME NEW s \in Submitters,
             (\E k \in Keys : Submit(s, k)) \/ Refuse(s) \/ GetMailbox(s) \/ FindClosed(s)
      PROVE  UNCHANGED <<lock, runner>>
  BY <1>8 DEF Submit, Refuse, GetMailbox, FindClosed, boxVars
<1>9. ASSUME \/ \E b \in Boxes : CloseMailbox(b)
             \/ Shutdown \/ AllClosed \/ ShutdownReturns \/ ShutdownTimesOut
             \/ UNCHANGED vars
      PROVE  UNCHANGED <<lock, runner>>
  BY <1>9 DEF CloseMailbox, Shutdown, AllClosed, ShutdownReturns, ShutdownTimesOut, vars, boxVars
<1> QED
  BY <1>1, <1>2, <1>3, <1>4, <1>5, <1>6, <1>7, <1>8, <1>9
  DEF Next, SubmitStep, RunnerStep, ShutdownStep

\* Nothing closes a mailbox whose mutex another holds.
LEMMA HeldOpenStep ==
  ASSUME TypeOK, Senders, Evictors, HeldOpen, Lookups, [Next]_vars
  PROVE  HeldOpen'
<1>1. ASSUME NEW s \in Submitters, LockMailbox(s) PROVE HeldOpen'
  <2>1. sub[s].box \in Boxes
    BY <1>1 DEF Lookups, LockMailbox
  <2>2. closed' = closed /\ ~closed[sub[s].box] /\ lock' = [lock EXCEPT ![sub[s].box] = s]
    BY <1>1 DEF LockMailbox, Hold
  <2> QED
    BY <2>1, <2>2, LockFacts DEF HeldOpen
<1>2. ASSUME NEW s \in Submitters, Send(s) \/ Cancel(s) PROVE HeldOpen'
  <2>1. sub[s].box \in Boxes
    BY <1>2 DEF Lookups, Send, Cancel
  <2>2. closed' = closed /\ lock' = [lock EXCEPT ![sub[s].box] = Free]
    BY <1>2 DEF Send, Cancel, Release
  <2> QED
    BY <2>1, <2>2, LockFacts DEF HeldOpen
<1>3. ASSUME NEW b \in Boxes, EvictLock(b) PROVE HeldOpen'
  <2>1. closed' = closed /\ ~closed[b] /\ lock' = [lock EXCEPT ![b] = Runner]
    BY <1>3 DEF EvictLock, Hold
  <2> QED
    BY <2>1, LockFacts DEF HeldOpen
<1>4. ASSUME NEW b \in Boxes, Evict(b) PROVE HeldOpen'
  <2>1. lock' = [lock EXCEPT ![b] = Free]
    BY <1>4 DEF Evict, Release
  <2>2. \A c \in Boxes : c # b /\ closed'[c] => closed[c]
    BY <1>4, CloseFacts DEF Evict
  <2>3. lock'[b] = Free /\ \A c \in Boxes : c # b => lock'[c] = lock[c]
    BY <2>1, LockFacts
  <2> QED
    BY <2>2, <2>3 DEF HeldOpen
<1>5. ASSUME NEW b \in Boxes, CloseMailbox(b) PROVE HeldOpen'
  <2>1. lock' = lock /\ lock[b] = Free /\ (closed' = closed \/ Close(b))
    BY <1>5 DEF CloseMailbox
  <2> QED
    BY <2>1, CloseFacts DEF HeldOpen
<1>6. CASE UNCHANGED <<lock, closed>>
  BY <1>6 DEF HeldOpen
<1>7. ASSUME NEW s \in Submitters,
             \/ \E k \in Keys : Submit(s, k)
             \/ Refuse(s) \/ GetMailbox(s) \/ CreateMailbox(s) \/ FindClosed(s)
      PROVE  UNCHANGED <<lock, closed>>
  BY <1>7 DEF Submit, Refuse, GetMailbox, CreateMailbox, FindClosed, boxVars
<1>8. ASSUME NEW b \in Boxes, Take(b) \/ Return(b) \/ Exit(b) \/ Expire(b) \/ KeepBusy(b)
      PROVE  UNCHANGED <<lock, closed>>
  BY <1>8 DEF Take, Return, Exit, Expire, KeepBusy
<1>9. ASSUME Shutdown \/ AllClosed \/ ShutdownReturns \/ ShutdownTimesOut \/ UNCHANGED vars
      PROVE  UNCHANGED <<lock, closed>>
  BY <1>9 DEF Shutdown, AllClosed, ShutdownReturns, ShutdownTimesOut, vars, boxVars
<1> QED
  BY <1>1, <1>2, <1>3, <1>4, <1>5, <1>6, <1>7, <1>8, <1>9
  DEF Next, SubmitStep, RunnerStep, ShutdownStep

\* What a Submit has in hand was made before.
LEMMA LookupsStep ==
  ASSUME TypeOK, Lookups, MappedOpen, [Next]_vars
  PROVE  Lookups'
<1>1. ASSUME NEW s \in Submitters, NEW k \in Keys, Submit(s, k) PROVE Lookups'
  <2>1. nextBox' = nextBox
    BY <1>1 DEF Submit, boxVars
  <2> QED
    BY <1>1, <2>1, SubmitFacts DEF Lookups, Made
<1>2. ASSUME NEW s \in Submitters, Ends(s), nextBox' = nextBox PROVE Lookups'
  BY <1>2, EndsFacts DEF Lookups, Made
<1>3. ASSUME NEW s \in Submitters, Refuse(s) \/ Send(s) \/ Cancel(s)
      PROVE  Ends(s) /\ nextBox' = nextBox
  BY <1>3 DEF Refuse, Send, Cancel, boxVars
<1>4. ASSUME NEW s \in Submitters, GetMailbox(s) PROVE Lookups'
  <2>1. nextBox' = nextBox /\ ~shut /\ mailboxes[sub[s].key] # NoBox /\ sub[s].at = "get"
    BY <1>4 DEF GetMailbox, boxVars
  <2>2. sub[s].key \in Keys
    BY DEF TypeOK, Call
  <2>3. Made(mailboxes[sub[s].key])
    BY <2>1, <2>2 DEF MappedOpen
  <2> QED
    BY <1>4, <2>1, <2>3, GetFacts DEF Lookups, Made
<1>5. ASSUME NEW s \in Submitters, CreateMailbox(s) PROVE Lookups'
  <2>1. nextBox' = nextBox + 1 /\ sub[s].at = "get"
    BY <1>5 DEF CreateMailbox
  <2>2. /\ nextBox < nextBox'
        /\ \A b \in Boxes : b < nextBox => b < nextBox'
    <3>1. nextBox \in 1..(MaxBoxes + 1)
      BY DEF TypeOK
    <3> QED
      BY <2>1, <3>1, DispatcherAssumption DEF Boxes
  <2> QED
    BY <1>5, <2>1, <2>2, CreateFacts DEF Lookups, Made
<1>6. ASSUME NEW s \in Submitters, LockMailbox(s) PROVE Lookups'
  <2>1. nextBox' = nextBox /\ Calls(s, "send", sub[s].box) /\ sub[s].at = "lock"
    BY <1>6 DEF LockMailbox
  <2>2. sub[s].box \in Boxes /\ Made(sub[s].box)
    BY <2>1 DEF Lookups
  <2> QED
    BY <2>1, <2>2, CallsFacts DEF Lookups, Made
<1>7. ASSUME NEW s \in Submitters, FindClosed(s) PROVE Lookups'
  <2>1. nextBox' = nextBox /\ Calls(s, "get", NoBox) /\ sub[s].at = "lock"
    BY <1>7 DEF FindClosed, boxVars
  <2> QED
    BY <2>1, CallsFacts DEF Lookups, Made
<1>8. CASE UNCHANGED <<sub, nextBox>>
  BY <1>8 DEF Lookups, Made
<1>9. ASSUME NEW b \in Boxes,
             \/ Take(b) \/ Return(b) \/ Exit(b) \/ Expire(b) \/ KeepBusy(b)
             \/ EvictLock(b) \/ Evict(b) \/ CloseMailbox(b)
      PROVE  UNCHANGED <<sub, nextBox>>
  BY <1>9 DEF Take, Return, Exit, Expire, KeepBusy, EvictLock, Evict, CloseMailbox
<1>10. ASSUME Shutdown \/ AllClosed \/ ShutdownReturns \/ ShutdownTimesOut \/ UNCHANGED vars
       PROVE  UNCHANGED <<sub, nextBox>>
  BY <1>10 DEF Shutdown, AllClosed, ShutdownReturns, ShutdownTimesOut, vars, boxVars
<1> QED
  BY <1>1, <1>2, <1>3, <1>4, <1>5, <1>6, <1>7, <1>8, <1>9, <1>10
  DEF Next, SubmitStep, RunnerStep, ShutdownStep

\* A goroutine starts with its mailbox and ends with the mailbox closed.
LEMMA LivesStep ==
  ASSUME TypeOK, Evictors, Lives, Shutting, [Next]_vars
  PROVE  Lives'
<1>1. ASSUME NEW s \in Submitters, CreateMailbox(s) PROVE Lives'
  <2>1. /\ closed' = closed /\ nextBox' = nextBox + 1
        /\ runner' = [runner EXCEPT ![nextBox] = "select"]
    BY <1>1 DEF CreateMailbox
  <2>2. \A b \in Boxes : b < nextBox' <=> b < nextBox \/ b = nextBox
    <3>1. nextBox \in 1..(MaxBoxes + 1)
      BY DEF TypeOK
    <3> QED
      BY <2>1, <3>1, DispatcherAssumption DEF Boxes
  <2>3. /\ runner'[nextBox] = "select"
        /\ \A b \in Boxes : b # nextBox => runner'[b] = runner[b]
    BY <1>1, <2>1, CreateFacts DEF TypeOK
  <2> QED
    BY <2>1, <2>2, <2>3 DEF Lives, Made
<1>2. ASSUME NEW b \in Boxes, Take(b) \/ Return(b) \/ Expire(b) \/ KeepBusy(b) \/ EvictLock(b)
      PROVE  Lives'
  <2>1. /\ UNCHANGED <<closed, nextBox>> /\ runner[b] \notin {"none", "gone"}
        /\ Become(b, "run") \/ Become(b, "select") \/ Become(b, "expired") \/ Become(b, "evict")
    BY <1>2 DEF Take, Return, Expire, KeepBusy, EvictLock
  <2> QED
    BY <2>1, RunnerFacts DEF Lives, Made
<1>3. ASSUME NEW b \in Boxes, Exit(b) PROVE Lives'
  <2>1. /\ UNCHANGED <<closed, nextBox>> /\ runner[b] = "select" /\ closed[b]
        /\ Become(b, "gone")
    BY <1>3 DEF Exit
  <2> QED
    BY <2>1, RunnerFacts DEF Lives, Made
<1>4. ASSUME NEW b \in Boxes, Evict(b) PROVE Lives'
  <2>1. nextBox' = nextBox /\ runner[b] = "evict"
    BY <1>4 DEF Evict
  <2>2. \/ Become(b, "gone") /\ Close(b)
        \/ Become(b, "select") /\ closed' = closed
    BY <1>4 DEF Evict
  <2> QED
    BY <2>1, <2>2, RunnerFacts, CloseFacts DEF Lives, Made
<1>5. ASSUME NEW b \in Boxes, CloseMailbox(b) PROVE Lives'
  <2>1. UNCHANGED <<runner, nextBox>> /\ (closed' = closed \/ Close(b)) /\ Made(b)
    BY <1>5 DEF CloseMailbox, Shutting
  <2> QED
    BY <2>1, CloseFacts DEF Lives, Made
<1>6. CASE UNCHANGED <<runner, closed, nextBox>>
  BY <1>6 DEF Lives, Made
<1>7. ASSUME NEW s \in Submitters,
             \/ \E k \in Keys : Submit(s, k)
             \/ Refuse(s) \/ GetMailbox(s) \/ LockMailbox(s) \/ FindClosed(s)
             \/ Send(s) \/ Cancel(s)
      PROVE  UNCHANGED <<runner, closed, nextBox>>
  BY <1>7 DEF Submit, Refuse, GetMailbox, LockMailbox, FindClosed, Send, Cancel, boxVars
<1>8. ASSUME Shutdown \/ AllClosed \/ ShutdownReturns \/ ShutdownTimesOut \/ UNCHANGED vars
      PROVE  UNCHANGED <<runner, closed, nextBox>>
  BY <1>8 DEF Shutdown, AllClosed, ShutdownReturns, ShutdownTimesOut, vars, boxVars
<1> QED
  BY <1>1, <1>2, <1>3, <1>4, <1>5, <1>6, <1>7, <1>8
  DEF Next, SubmitStep, RunnerStep, ShutdownStep

\* A goroutine leaves for the eviction, or for good, with its channel empty, and
\* no Submit fills it afterwards: it would have to hold the mutex of an open mailbox.
LEMMA EmptiedStep ==
  ASSUME TypeOK, Senders, HeldOpen, Evictors, Lookups, Lives, Emptied, [Next]_vars
  PROVE  Emptied'
<1>1. ASSUME NEW s \in Submitters, CreateMailbox(s) PROVE Emptied'
  <2>1. buf' = buf /\ runner' = [runner EXCEPT ![nextBox] = "select"]
    BY <1>1 DEF CreateMailbox
  <2> QED
    BY <1>1, <2>1, CreateFacts DEF Emptied, TypeOK
<1>2. ASSUME NEW s \in Submitters, Send(s) PROVE Emptied'
  <2>1. sub[s].box \in Boxes /\ Made(sub[s].box) /\ sub[s].at = "send"
    BY <1>2 DEF Lookups, Send
  <2>2. lock[sub[s].box] = s
    BY <2>1 DEF Senders
  <2>3. runner[sub[s].box] \notin {"none", "evict", "gone"}
    BY <2>1, <2>2, Holders DEF HeldOpen, Evictors, Lives
  <2>4. /\ runner' = runner
        /\ \A b \in Boxes : b # sub[s].box => buf'[b] = buf[b]
    BY <1>2, <2>1 DEF Send, TypeOK
  <2> QED
    BY <2>3, <2>4 DEF Emptied
<1>3. ASSUME NEW b \in Boxes, Take(b) PROVE Emptied'
  <2>1. Become(b, "run") /\ \A c \in Boxes : c # b => buf'[c] = buf[c]
    BY <1>3 DEF Take, TypeOK
  <2> QED
    BY <2>1, RunnerFacts DEF Emptied
<1>4. ASSUME NEW b \in Boxes, Return(b) \/ Expire(b) \/ KeepBusy(b) PROVE Emptied'
  <2>1. buf' = buf /\ (Become(b, "select") \/ Become(b, "expired"))
    BY <1>4 DEF Return, Expire, KeepBusy
  <2> QED
    BY <2>1, RunnerFacts DEF Emptied
<1>5. ASSUME NEW b \in Boxes, Exit(b) \/ EvictLock(b) PROVE Emptied'
  <2>1. buf' = buf /\ buf[b] = <<>> /\ (Become(b, "gone") \/ Become(b, "evict"))
    BY <1>5 DEF Exit, EvictLock
  <2> QED
    BY <2>1, RunnerFacts DEF Emptied
<1>6. ASSUME NEW b \in Boxes, Evict(b) PROVE Emptied'
  <2>1. /\ buf' = buf /\ runner[b] = "evict"
        /\ Become(b, "gone") \/ Become(b, "select")
    BY <1>6 DEF Evict
  <2> QED
    BY <2>1, RunnerFacts DEF Emptied
<1>7. CASE UNCHANGED <<runner, buf>>
  BY <1>7 DEF Emptied
<1>8. ASSUME NEW s \in Submitters,
             \/ \E k \in Keys : Submit(s, k)
             \/ Refuse(s) \/ GetMailbox(s) \/ LockMailbox(s) \/ FindClosed(s) \/ Cancel(s)
      PROVE  UNCHANGED <<runner, buf>>
  BY <1>8 DEF Submit, Refuse, GetMailbox, LockMailbox, FindClosed, Cancel, boxVars
<1>9. ASSUME \/ \E b \in Boxes : CloseMailbox(b)
             \/ Shutdown \/ AllClosed \/ ShutdownReturns \/ ShutdownTimesOut
             \/ UNCHANGED vars
      PROVE  UNCHANGED <<runner, buf>>
  BY <1>9 DEF CloseMailbox, Shutdown, AllClosed, ShutdownReturns, ShutdownTimesOut, vars, boxVars
<1> QED
  BY <1>1, <1>2, <1>3, <1>4, <1>5, <1>6, <1>7, <1>8, <1>9
  DEF Next, SubmitStep, RunnerStep, ShutdownStep

\* Only a goroutine in item.fn has a job.
LEMMA RunsOnlyStep ==
  ASSUME TypeOK, Lives, RunsOnly, [Next]_vars
  PROVE  RunsOnly'
<1>1. ASSUME NEW s \in Submitters, CreateMailbox(s) PROVE RunsOnly'
  <2>1. running' = running /\ runner' = [runner EXCEPT ![nextBox] = "select"]
    BY <1>1 DEF CreateMailbox
  <2>2. nextBox \in Boxes /\ runner[nextBox] = "none"
    BY <1>1, CreateFacts DEF Lives, Made, Boxes
  <2> QED
    BY <2>1, <2>2 DEF RunsOnly, TypeOK
<1>2. ASSUME NEW b \in Boxes, Take(b) PROVE RunsOnly'
  <2>1. Become(b, "run") /\ \A c \in Boxes : c # b => running'[c] = running[c]
    BY <1>2 DEF Take, TypeOK
  <2> QED
    BY <2>1, RunnerFacts DEF RunsOnly
<1>3. ASSUME NEW b \in Boxes, Return(b) PROVE RunsOnly'
  <2>1. /\ Become(b, "select") /\ running'[b] = NoJob
        /\ \A c \in Boxes : c # b => running'[c] = running[c]
    BY <1>3 DEF Return, TypeOK
  <2> QED
    BY <2>1, RunnerFacts DEF RunsOnly
<1>4. ASSUME NEW b \in Boxes,
             Exit(b) \/ Expire(b) \/ KeepBusy(b) \/ EvictLock(b) \/ Evict(b)
      PROVE  RunsOnly'
  <2>1. /\ running' = running /\ runner[b] # "run"
        /\ \/ Become(b, "gone") \/ Become(b, "expired")
           \/ Become(b, "select") \/ Become(b, "evict")
    BY <1>4 DEF Exit, Expire, KeepBusy, EvictLock, Evict
  <2> QED
    BY <2>1, RunnerFacts DEF RunsOnly
<1>5. CASE UNCHANGED <<runner, running>>
  BY <1>5 DEF RunsOnly
<1>6. ASSUME NEW s \in Submitters,
             \/ \E k \in Keys : Submit(s, k)
             \/ Refuse(s) \/ GetMailbox(s) \/ LockMailbox(s) \/ FindClosed(s)
             \/ Send(s) \/ Cancel(s)
      PROVE  UNCHANGED <<runner, running>>
  BY <1>6 DEF Submit, Refuse, GetMailbox, LockMailbox, FindClosed, Send, Cancel, boxVars
<1>7. ASSUME \/ \E b \in Boxes : CloseMailbox(b)
             \/ Shutdown \/ AllClosed \/ ShutdownReturns \/ ShutdownTimesOut
             \/ UNCHANGED vars
      PROVE  UNCHANGED <<runner, running>>
  BY <1>7 DEF CloseMailbox, Shutdown, AllClosed, ShutdownReturns, ShutdownTimesOut, vars, boxVars
<1> QED
  BY <1>1, <1>2, <1>3, <1>4, <1>5, <1>6, <1>7
  DEF Next, SubmitStep, RunnerStep, ShutdownStep

\* The mailbox that is made next was not made before.
LEMMA CreateNextBox ==
  ASSUME TypeOK, NEW s \in Submitters, CreateMailbox(s)
  PROVE  /\ ~Made(nextBox)
         /\ \A b \in Boxes : b < nextBox' <=> b < nextBox \/ b = nextBox
<1>1. nextBox \in 1..(MaxBoxes + 1) /\ nextBox' = nextBox + 1
  BY DEF TypeOK, CreateMailbox
<1> QED
  BY <1>1, DispatcherAssumption DEF Boxes, Made

\* The map does not lose an open mailbox before Shutdown.
LEMMA OpenMappedStep ==
  ASSUME TypeOK, OpenMapped, Shutting, [Next]_vars
  PROVE  OpenMapped'
<1> USE DEF Made
<1>1. ASSUME NEW s \in Submitters, CreateMailbox(s) PROVE OpenMapped'
  <2> DEFINE k == sub[s].key
  <2>1. /\ shut' = shut /\ closed' = closed /\ ~shut /\ mailboxes[k] = NoBox
        /\ mailboxes' = [mailboxes EXCEPT ![k] = nextBox]
        /\ key' = [key EXCEPT ![nextBox] = k]
    BY <1>1 DEF CreateMailbox, shutVars
  <2>2. nextBox \in Boxes /\ k \in Keys
    BY <1>1, CreateFacts
  <2>3. /\ mailboxes'[k] = nextBox /\ \A l \in Keys : l # k => mailboxes'[l] = mailboxes[l]
        /\ key'[nextBox] = k /\ \A b \in Boxes : b # nextBox => key'[b] = key[b]
    BY <2>1, <2>2 DEF TypeOK
  <2>4. \A b \in Boxes : b # NoBox /\ key[b] \in Keys
    <3>1. \A b \in 1..MaxBoxes : b # 0
      BY DispatcherAssumption
    <3> QED
      BY <3>1 DEF TypeOK, Boxes, NoBox
  <2>5. \A b \in Boxes : b < nextBox' <=> b < nextBox \/ b = nextBox
    BY <1>1, CreateNextBox
  <2> HIDE DEF k
  <2> QED
    BY <2>1, <2>2, <2>3, <2>4, <2>5 DEF OpenMapped
<1>2. ASSUME NEW b \in Boxes, Evict(b) PROVE OpenMapped'
  <2>1. SUFFICES ASSUME ~shut PROVE OpenMapped'
    BY <1>2 DEF Evict, shutVars, OpenMapped
  <2>2. UNCHANGED <<key, nextBox, shut>>
    BY <1>2 DEF Evict, shutVars
  <2>3. CASE mailboxes[key[b]] = b
    <3>1. Close(b) /\ mailboxes' = [mailboxes EXCEPT ![key[b]] = NoBox]
      BY <1>2, <2>1, <2>3 DEF Evict
    <3>2. /\ closed'[b] /\ \A c \in Boxes : c # b => closed'[c] = closed[c]
          /\ \A l \in Keys : l # key[b] => mailboxes'[l] = mailboxes[l]
          /\ \A c \in Boxes : key[c] \in Keys
      BY <3>1, CloseFacts DEF TypeOK
    <3> QED
      BY <2>1, <2>2, <2>3, <3>2 DEF OpenMapped
  <2>4. CASE mailboxes[key[b]] # b
    <3>1. UNCHANGED <<mailboxes, closed>>
      BY <1>2, <2>1, <2>4 DEF Evict
    <3> QED
      BY <2>2, <3>1 DEF OpenMapped
  <2> QED
    BY <2>3, <2>4
<1>3. CASE Shutdown
  BY <1>3 DEF Shutdown, OpenMapped
<1>4. ASSUME NEW b \in Boxes, CloseMailbox(b) PROVE OpenMapped'
  BY <1>4 DEF CloseMailbox, OpenMapped, Shutting
<1>5. CASE UNCHANGED <<mailboxes, key, closed, nextBox, shut>>
  BY <1>5 DEF OpenMapped
<1>6. ASSUME NEW s \in Submitters,
             \/ \E k \in Keys : Submit(s, k)
             \/ Refuse(s) \/ GetMailbox(s) \/ LockMailbox(s) \/ FindClosed(s)
             \/ Send(s) \/ Cancel(s)
      PROVE  UNCHANGED <<mailboxes, key, closed, nextBox, shut>>
  BY <1>6 DEF Submit, Refuse, GetMailbox, LockMailbox, FindClosed, Send, Cancel, boxVars, shutVars
<1>7. ASSUME NEW b \in Boxes,
             Take(b) \/ Return(b) \/ Exit(b) \/ Expire(b) \/ KeepBusy(b) \/ EvictLock(b)
      PROVE  UNCHANGED <<mailboxes, key, closed, nextBox, shut>>
  BY <1>7 DEF Take, Return, Exit, Expire, KeepBusy, EvictLock, shutVars
<1>8. ASSUME AllClosed \/ ShutdownReturns \/ ShutdownTimesOut \/ UNCHANGED vars
      PROVE  UNCHANGED <<mailboxes, key, closed, nextBox, shut>>
  BY <1>8 DEF AllClosed, ShutdownReturns, ShutdownTimesOut, vars, boxVars, shutVars
<1> QED
  BY <1>1, <1>2, <1>3, <1>4, <1>5, <1>6, <1>7, <1>8
  DEF Next, SubmitStep, RunnerStep, ShutdownStep

\* The map does not keep a closed mailbox before Shutdown.
LEMMA MappedOpenStep ==
  ASSUME TypeOK, Lives, MappedOpen, Shutting, [Next]_vars
  PROVE  MappedOpen'
<1> USE DEF Made
<1>1. ASSUME NEW s \in Submitters, CreateMailbox(s) PROVE MappedOpen'
  <2> DEFINE k == sub[s].key
  <2>1. /\ shut' = shut /\ closed' = closed /\ ~shut
        /\ mailboxes' = [mailboxes EXCEPT ![k] = nextBox]
        /\ key' = [key EXCEPT ![nextBox] = k]
    BY <1>1 DEF CreateMailbox, shutVars
  <2>2. nextBox \in Boxes /\ k \in Keys
    BY <1>1, CreateFacts
  <2>3. /\ mailboxes'[k] = nextBox /\ \A l \in Keys : l # k => mailboxes'[l] = mailboxes[l]
        /\ key'[nextBox] = k /\ \A b \in Boxes : b # nextBox => key'[b] = key[b]
    BY <2>1, <2>2 DEF TypeOK
  <2>4. ~(nextBox < nextBox) /\ \A b \in Boxes : b < nextBox' <=> b < nextBox \/ b = nextBox
    BY <1>1, CreateNextBox
  <2>5. ~closed[nextBox]
    BY <2>2, <2>4 DEF Lives
  <2>6. \A l \in Keys : mailboxes[l] # NoBox => mailboxes[l] \in Boxes
    BY DEF TypeOK
  <2> HIDE DEF k
  <2> QED
    BY <2>1, <2>2, <2>3, <2>4, <2>5, <2>6 DEF MappedOpen
<1>2. ASSUME NEW b \in Boxes, Evict(b) PROVE MappedOpen'
  <2>1. SUFFICES ASSUME ~shut PROVE MappedOpen'
    BY <1>2 DEF Evict, shutVars, MappedOpen
  <2>2. UNCHANGED <<key, nextBox, shut>>
    BY <1>2 DEF Evict, shutVars
  <2>3. CASE mailboxes[key[b]] = b
    <3>1. Close(b) /\ mailboxes' = [mailboxes EXCEPT ![key[b]] = NoBox]
      BY <1>2, <2>1, <2>3 DEF Evict
    <3>2. /\ \A c \in Boxes : c # b => closed'[c] = closed[c]
          /\ key[b] \in Keys /\ mailboxes'[key[b]] = NoBox
          /\ \A l \in Keys : l # key[b] => mailboxes'[l] = mailboxes[l]
      BY <3>1, CloseFacts DEF TypeOK
    <3>3. \A l \in Keys : mailboxes[l] # NoBox => mailboxes[l] \in Boxes
      BY DEF TypeOK
    <3> QED
      BY <2>1, <2>2, <3>2, <3>3 DEF MappedOpen
  <2>4. CASE mailboxes[key[b]] # b
    <3>1. UNCHANGED <<mailboxes, closed>>
      BY <1>2, <2>1, <2>4 DEF Evict
    <3> QED
      BY <2>2, <3>1 DEF MappedOpen
  <2> QED
    BY <2>3, <2>4
<1>3. CASE Shutdown
  BY <1>3 DEF Shutdown, MappedOpen
<1>4. ASSUME NEW b \in Boxes, CloseMailbox(b) PROVE MappedOpen'
  BY <1>4 DEF CloseMailbox, MappedOpen, Shutting
<1>5. CASE UNCHANGED <<mailboxes, key, closed, nextBox, shut>>
  BY <1>5 DEF MappedOpen
<1>6. ASSUME NEW s \in Submitters,
             \/ \E k \in Keys : Submit(s, k)
             \/ Refuse(s) \/ GetMailbox(s) \/ LockMailbox(s) \/ FindClosed(s)
             \/ Send(s) \/ Cancel(s)
      PROVE  UNCHANGED <<mailboxes, key, closed, nextBox, shut>>
  BY <1>6 DEF Submit, Refuse, GetMailbox, LockMailbox, FindClosed, Send, Cancel, boxVars, shutVars
<1>7. ASSUME NEW b \in Boxes,
             Take(b) \/ Return(b) \/ Exit(b) \/ Expire(b) \/ KeepBusy(b) \/ EvictLock(b)
      PROVE  UNCHANGED <<mailboxes, key, closed, nextBox, shut>>
  BY <1>7 DEF Take, Return, Exit, Expire, KeepBusy, EvictLock, shutVars
<1>8. ASSUME AllClosed \/ ShutdownReturns \/ ShutdownTimesOut \/ UNCHANGED vars
      PROVE  UNCHANGED <<mailboxes, key, closed, nextBox, shut>>
  BY <1>8 DEF AllClosed, ShutdownReturns, ShutdownTimesOut, vars, boxVars, shutVars
<1> QED
  BY <1>1, <1>2, <1>3, <1>4, <1>5, <1>6, <1>7, <1>8
  DEF Next, SubmitStep, RunnerStep, ShutdownStep

\* Shutdown closes mailboxes that were made, and returns after all goroutines.
LEMMA ShuttingStep ==
  ASSUME TypeOK, Evictors, MappedOpen, Shutting, [Next]_vars
  PROVE  Shutting'
<1> USE DEF Made
<1>1. ASSUME NEW s \in Submitters, CreateMailbox(s) PROVE Shutting'
  <2>1. UNCHANGED <<shut, closing, toClose>> /\ closing # "drained"
    BY <1>1 DEF CreateMailbox, shutVars, Shutting
  <2>2. \A b \in toClose : b < nextBox'
    BY <1>1, CreateNextBox DEF Shutting, TypeOK
  <2> QED
    BY <2>1, <2>2 DEF Shutting
<1>2. ASSUME NEW b \in Boxes, Take(b) \/ Return(b) \/ Exit(b) \/ Expire(b) \/ KeepBusy(b)
                              \/ EvictLock(b) \/ Evict(b)
      PROVE  Shutting'
  <2>1. UNCHANGED <<shut, closing, toClose, nextBox>> /\ runner[b] \notin {"none", "gone"}
    BY <1>2 DEF Take, Return, Exit, Expire, KeepBusy, EvictLock, Evict, shutVars
  <2> QED
    BY <2>1 DEF Shutting
<1>3. CASE Shutdown
  <2>1. shut' = TRUE /\ closing' = "close" /\ nextBox' = nextBox
    BY <1>3 DEF Shutdown, boxVars
  <2>2. \A b \in toClose' : b < nextBox
    <3>1. closing = "not called" /\ toClose' = {mailboxes[k] : k \in Keys} \ {NoBox}
      BY <1>3 DEF Shutdown
    <3> QED
      BY <3>1 DEF Shutting, MappedOpen
  <2> QED
    BY <2>1, <2>2 DEF Shutting
<1>4. ASSUME NEW b \in Boxes, CloseMailbox(b) PROVE Shutting'
  BY <1>4 DEF CloseMailbox, Shutting
<1>5. CASE AllClosed \/ ShutdownReturns \/ ShutdownTimesOut
  BY <1>5 DEF AllClosed, ShutdownReturns, ShutdownTimesOut, Shutting, boxVars
<1>6. CASE UNCHANGED <<runner, nextBox, shut, closing, toClose>>
  BY <1>6 DEF Shutting
<1>7. ASSUME NEW s \in Submitters,
             \/ \E k \in Keys : Submit(s, k)
             \/ Refuse(s) \/ GetMailbox(s) \/ LockMailbox(s) \/ FindClosed(s)
             \/ Send(s) \/ Cancel(s)
      PROVE  UNCHANGED <<runner, nextBox, shut, closing, toClose>>
  BY <1>7 DEF Submit, Refuse, GetMailbox, LockMailbox, FindClosed, Send, Cancel, boxVars, shutVars
<1>8. ASSUME UNCHANGED vars PROVE UNCHANGED <<runner, nextBox, shut, closing, toClose>>
  BY <1>8 DEF vars, boxVars, shutVars
<1> QED
  BY <1>1, <1>2, <1>3, <1>4, <1>5, <1>6, <1>7, <1>8
  DEF Next, SubmitStep, RunnerStep, ShutdownStep

\* No step sends on a closed channel or closes one twice.
LEMMA NeverPanicsStep ==
  ASSUME TypeOK, Senders, Evictors, HeldOpen, Lookups, NeverPanics, [Next]_vars
  PROVE  NeverPanics'
<1>1. ASSUME NEW s \in Submitters, Send(s) PROVE NeverPanics'
  <2>1. sub[s].box \in Boxes /\ sub[s].at = "send"
    BY <1>1 DEF Lookups, Send
  <2>2. ~closed[sub[s].box]
    BY <2>1, Holders DEF Senders, HeldOpen
  <2> QED
    BY <1>1, <2>2 DEF Send, NeverPanics
<1>2. ASSUME NEW b \in Boxes, Evict(b) PROVE NeverPanics'
  <2>1. ~closed[b]
    BY <1>2, Holders DEF Evict, Evictors, HeldOpen
  <2>2. panicked' = panicked \/ panicked' = (panicked \/ closed[b])
    BY <1>2 DEF Evict, Close
  <2> QED
    BY <2>1, <2>2 DEF NeverPanics
<1>3. ASSUME NEW b \in Boxes, CloseMailbox(b) PROVE NeverPanics'
  BY <1>3 DEF CloseMailbox, Close, NeverPanics
<1>4. CASE UNCHANGED panicked
  BY <1>4 DEF NeverPanics
<1>5. ASSUME NEW s \in Submitters,
             \/ \E k \in Keys : Submit(s, k)
             \/ Refuse(s) \/ GetMailbox(s) \/ CreateMailbox(s) \/ LockMailbox(s)
             \/ FindClosed(s) \/ Cancel(s)
      PROVE  UNCHANGED panicked
  BY <1>5 DEF Submit, Refuse, GetMailbox, CreateMailbox, LockMailbox, FindClosed, Cancel
<1>6. ASSUME NEW b \in Boxes,
             Take(b) \/ Return(b) \/ Exit(b) \/ Expire(b) \/ KeepBusy(b) \/ EvictLock(b)
      PROVE  UNCHANGED panicked
  BY <1>6 DEF Take, Return, Exit, Expire, KeepBusy, EvictLock
<1>7. ASSUME Shutdown \/ AllClosed \/ ShutdownReturns \/ ShutdownTimesOut \/ UNCHANGED vars
      PROVE  UNCHANGED panicked
  BY <1>7 DEF Shutdown, AllClosed, ShutdownReturns, ShutdownTimesOut, vars
<1> QED
  BY <1>1, <1>2, <1>3, <1>4, <1>5, <1>6, <1>7
  DEF Next, SubmitStep, RunnerStep, ShutdownStep

\* Before Shutdown it is the goroutine itself that closes its mailbox, and then ends.
LEMMA ClosedGoneStep ==
  ASSUME TypeOK, Lives, Shutting, ClosedGone, [Next]_vars
  PROVE  ClosedGone'
<1>1. ASSUME NEW s \in Submitters, CreateMailbox(s) PROVE ClosedGone'
  <2>1. /\ UNCHANGED <<closed, shut>>
        /\ runner' = [runner EXCEPT ![nextBox] = "select"]
    BY <1>1 DEF CreateMailbox, shutVars
  <2>2. nextBox \in Boxes /\ ~closed[nextBox]
    BY <1>1, CreateFacts, CreateNextBox DEF Lives
  <2> QED
    BY <2>1, <2>2 DEF ClosedGone, TypeOK
<1>2. ASSUME NEW b \in Boxes, Evict(b) PROVE ClosedGone'
  <2>1. shut' = shut /\ runner[b] = "evict"
    BY <1>2 DEF Evict, shutVars
  <2>2. \/ Become(b, "gone") /\ Close(b)
        \/ Become(b, "select") /\ closed' = closed
    BY <1>2 DEF Evict
  <2> QED
    BY <2>1, <2>2, RunnerFacts, CloseFacts DEF ClosedGone
<1>3. ASSUME NEW b \in Boxes, Take(b) \/ Return(b) \/ Exit(b) \/ Expire(b) \/ KeepBusy(b)
                              \/ EvictLock(b)
      PROVE  ClosedGone'
  <2>1. UNCHANGED <<closed, shut>> /\ runner[b] # "gone"
    BY <1>3 DEF Take, Return, Exit, Expire, KeepBusy, EvictLock, shutVars
  <2>2. \A c \in Boxes : c # b => runner'[c] = runner[c]
    BY <1>3, RunnerFacts DEF Take, Return, Exit, Expire, KeepBusy, EvictLock
  <2> QED
    BY <2>1, <2>2 DEF ClosedGone
<1>4. CASE Shutdown \/ \E b \in Boxes : CloseMailbox(b)
  BY <1>4 DEF Shutdown, CloseMailbox, ClosedGone, Shutting
<1>5. CASE UNCHANGED <<runner, closed, shut>>
  BY <1>5 DEF ClosedGone
<1>6. ASSUME NEW s \in Submitters,
             \/ \E k \in Keys : Submit(s, k)
             \/ Refuse(s) \/ GetMailbox(s) \/ LockMailbox(s) \/ FindClosed(s)
             \/ Send(s) \/ Cancel(s)
      PROVE  UNCHANGED <<runner, closed, shut>>
  BY <1>6 DEF Submit, Refuse, GetMailbox, LockMailbox, FindClosed, Send, Cancel, boxVars, shutVars
<1>7. ASSUME AllClosed \/ ShutdownReturns \/ ShutdownTimesOut \/ UNCHANGED vars
      PROVE  UNCHANGED <<runner, closed, shut>>
  BY <1>7 DEF AllClosed, ShutdownReturns, ShutdownTimesOut, vars, boxVars, shutVars
<1> QED
  BY <1>1, <1>2, <1>3, <1>4, <1>5, <1>6, <1>7
  DEF Next, SubmitStep, RunnerStep, ShutdownStep

\* A mailbox is made for a key that has no goroutine.
LEMMA CreateAlone ==
  ASSUME IInv, NEW s \in Submitters, CreateMailbox(s), NEW k \in Keys, k = sub[s].key
  PROVE  /\ Alive(k) = {}
         /\ Alive(k)' = {nextBox}
         /\ \A l \in Keys : l # k => Alive(l)' = Alive(l)
<1> USE DEF IInv
<1>1. /\ ~shut /\ mailboxes[k] = NoBox
      /\ key' = [key EXCEPT ![nextBox] = k]
      /\ runner' = [runner EXCEPT ![nextBox] = "select"]
  BY DEF CreateMailbox
<1>2. nextBox \in Boxes /\ nextBox # NoBox /\ runner[nextBox] = "none"
  BY CreateFacts, CreateNextBox DEF Lives
<1>3. /\ key'[nextBox] = k /\ runner'[nextBox] = "select"
      /\ \A b \in Boxes : b # nextBox => key'[b] = key[b] /\ runner'[b] = runner[b]
  BY <1>1, <1>2 DEF TypeOK
<1>4. Alive(k) = {}
  <2>1. SUFFICES ASSUME NEW b \in Alive(k) PROVE FALSE
    OBVIOUS
  <2>2. b \in Boxes /\ key[b] = k /\ runner[b] \notin {"none", "gone"}
    BY DEF Alive
  <2>3. Made(b) /\ ~closed[b]
    BY <1>1, <2>2 DEF Lives, ClosedGone
  <2>4. mailboxes[k] = b
    BY <1>1, <2>2, <2>3 DEF OpenMapped
  <2>5. \A c \in Boxes : c # NoBox
    <3>1. \A c \in 1..MaxBoxes : c # 0
      BY DispatcherAssumption
    <3> QED
      BY <3>1 DEF Boxes, NoBox
  <2> QED
    BY <1>1, <2>2, <2>4, <2>5
<1>5. Alive(k)' = {nextBox}
  <2>1. \A b \in Boxes : b # nextBox => ~(key[b] = k /\ runner[b] \notin {"none", "gone"})
    BY <1>4 DEF Alive
  <2> QED
    BY <1>2, <1>3, <2>1 DEF Alive
<1>6. ASSUME NEW l \in Keys, l # k PROVE Alive(l)' = Alive(l)
  BY <1>2, <1>3, <1>6 DEF Alive
<1> QED
  BY <1>4, <1>5, <1>6

\* Any other step keeps a mailbox's key and starts no goroutine.
LEMMA AliveShrinks ==
  ASSUME TypeOK, [Next]_vars, ~\E s \in Submitters : CreateMailbox(s)
  PROVE  /\ key' = key
         /\ \A b \in Boxes : runner'[b] \notin {"none", "gone"} => runner[b] \notin {"none", "gone"}
<1>1. ASSUME NEW b \in Boxes, RunnerStep(b) \/ Expire(b)
      PROVE  /\ key' = key /\ runner[b] \notin {"none", "gone"}
             /\ \A c \in Boxes : c # b => runner'[c] = runner[c]
  <2>1. key' = key /\ runner[b] \notin {"none", "gone"}
    BY <1>1 DEF RunnerStep, Take, Return, Exit, Expire, KeepBusy, EvictLock, Evict
  <2>2. \/ Become(b, "run") \/ Become(b, "select") \/ Become(b, "gone")
        \/ Become(b, "expired") \/ Become(b, "evict")
    BY <1>1 DEF RunnerStep, Take, Return, Exit, Expire, KeepBusy, EvictLock, Evict
  <2> QED
    BY <2>1, <2>2, RunnerFacts
<1>2. ASSUME NEW s \in Submitters,
             \/ \E k \in Keys : Submit(s, k)
             \/ Refuse(s) \/ GetMailbox(s) \/ LockMailbox(s) \/ FindClosed(s)
             \/ Send(s) \/ Cancel(s)
      PROVE  UNCHANGED <<key, runner>>
  BY <1>2 DEF Submit, Refuse, GetMailbox, LockMailbox, FindClosed, Send, Cancel, boxVars
<1>3. ASSUME \/ \E b \in Boxes : CloseMailbox(b)
             \/ Shutdown \/ AllClosed \/ ShutdownReturns \/ ShutdownTimesOut
             \/ UNCHANGED vars
      PROVE  UNCHANGED <<key, runner>>
  BY <1>3 DEF CloseMailbox, Shutdown, AllClosed, ShutdownReturns, ShutdownTimesOut, vars, boxVars
<1>4. CASE \E b \in Boxes : RunnerStep(b) \/ Expire(b)
  BY <1>1, <1>4
<1>5. CASE UNCHANGED <<key, runner>>
  BY <1>5
<1> QED
  BY <1>2, <1>3, <1>4, <1>5 DEF Next, SubmitStep, ShutdownStep

\* A key never has two goroutines.
LEMMA OneAliveStep ==
  ASSUME IInv, [Next]_vars
  PROVE  OneAlive'
<1>1. ASSUME NEW s \in Submitters, CreateMailbox(s) PROVE OneAlive'
  <2>1. sub[s].key \in Keys
    BY <1>1, CreateFacts DEF IInv
  <2>2. PICK k \in Keys : k = sub[s].key
    BY <2>1
  <2>3. /\ Alive(k)' = {nextBox}
        /\ \A l \in Keys : l # k => Alive(l)' = Alive(l)
    BY <1>1, <2>2, CreateAlone
  <2> QED
    BY <2>3 DEF IInv, OneAlive
<1>2. CASE ~\E s \in Submitters : CreateMailbox(s)
  <2>1. \A k \in Keys : Alive(k)' \subseteq Alive(k)
    BY <1>2, AliveShrinks DEF Alive, IInv
  <2> QED
    BY <2>1 DEF IInv, OneAlive
<1> QED
  BY <1>1, <1>2

-----------------------------------------------------------------------------
(* The invariant, and what follows from it.                                *)

\* The invariant holds at first.
LEMMA InitIInv ==
  ASSUME Init
  PROVE  IInv
<1>1. TypeOK
  <2>1. 1 \in 1..(MaxBoxes + 1) /\ 1 \in 1..(MaxJobs + 1)
    BY DispatcherAssumption
  <2>2. AnyKey \in Keys
    BY DispatcherAssumption DEF AnyKey
  <2>3. /\ mailboxes \in [Keys -> Boxes \cup {NoBox}]
        /\ key \in [Boxes -> Keys]
        /\ running \in [Boxes -> Jobs \cup {NoJob}]
    BY <2>2 DEF Init
  <2>4. buf \in [Boxes -> Seq(Jobs)]
    <3>1. <<>> \in Seq(Jobs)
      OBVIOUS
    <3>2. buf = [b \in Boxes |-> <<>>]
      BY DEF Init
    <3> QED
      BY <3>1, <3>2
  <2>5. /\ lock \in [Boxes -> Submitters \cup {Free, Runner}]
        /\ closed \in [Boxes -> BOOLEAN]
        /\ runner \in [Boxes -> {"none", "select", "run", "expired", "evict", "gone"}]
    BY DEF Init
  <2>6. sub \in [Submitters -> Call]
    BY IdleIsCall DEF Init
  <2> QED
    BY <2>1, <2>3, <2>4, <2>5, <2>6 DEF Init, TypeOK
<1>2. \A b \in Boxes : ~Made(b)
  <2>1. \A b \in 1..MaxBoxes : ~(b < 1)
    BY DispatcherAssumption
  <2>2. nextBox = 1
    BY DEF Init
  <2> QED
    BY <2>1, <2>2 DEF Boxes, Made
<1>3. Senders /\ Evictors /\ HeldOpen /\ Lookups
  BY Holders, IdleIsCall DEF Init, Senders, Evictors, HeldOpen, Lookups
<1>4. Lives
  BY <1>2 DEF Init, Lives
<1>5. OpenMapped
  BY <1>2 DEF Init, OpenMapped
<1>6. Emptied /\ RunsOnly /\ MappedOpen /\ Shutting /\ NeverPanics
  BY DEF Init, Emptied, RunsOnly, MappedOpen, Shutting, NeverPanics
<1>7. ClosedGone /\ OneAlive
  BY DEF Init, ClosedGone, OneAlive, Alive
<1> QED
  BY <1>1, <1>3, <1>4, <1>5, <1>6, <1>7 DEF IInv

\* Every step keeps the invariant.
LEMMA NextIInv ==
  ASSUME IInv, [Next]_vars
  PROVE  IInv'
<1>1. /\ TypeOK /\ Senders /\ Evictors /\ HeldOpen /\ Lookups /\ Lives /\ Emptied
      /\ RunsOnly /\ OpenMapped /\ MappedOpen /\ Shutting /\ NeverPanics /\ ClosedGone
  BY DEF IInv
<1>2. TypeOK' /\ Senders' /\ Evictors' /\ HeldOpen' /\ Lookups' /\ Lives'
  BY <1>1, TypeStep, SendersStep, EvictorsStep, HeldOpenStep, LookupsStep, LivesStep
<1>3. /\ Emptied' /\ RunsOnly' /\ OpenMapped' /\ MappedOpen' /\ Shutting' /\ NeverPanics'
  BY <1>1, EmptiedStep, RunsOnlyStep, OpenMappedStep, MappedOpenStep, ShuttingStep,
     NeverPanicsStep
<1>4. ClosedGone' /\ OneAlive'
  BY <1>1, ClosedGoneStep, OneAliveStep
<1> QED
  BY <1>2, <1>3, <1>4 DEF IInv

\* The invariant holds throughout.
THEOREM Invariance == Spec => []IInv
<1>1. Init => IInv
  BY InitIInv
<1>2. IInv /\ [Next]_vars => IInv'
  BY NextIInv
<1> QED
  BY <1>1, <1>2, PTL DEF Spec

\* Type correctness.
THEOREM DispatcherTypes == Spec => []TypeOK
<1>1. IInv => TypeOK
  BY DEF IInv
<1> QED
  BY <1>1, Invariance, PTL

\* No send on a closed channel and no second close, whatever Submit, the evictions
\* and Shutdown do at the same time.
THEOREM DispatcherNeverPanics == Spec => []NeverPanics
<1>1. IInv => NeverPanics
  BY DEF IInv
<1> QED
  BY <1>1, Invariance, PTL

\* A mailbox with jobs has a goroutine.
THEOREM NothingIsStranded == Spec => []NothingStranded
<1>1. IInv => NothingStranded
  BY DEF IInv, Emptied, NothingStranded
<1> QED
  BY <1>1, Invariance, PTL

\* An eviction before Shutdown finds its own mailbox in the map: the branch of
\* tryEvictMailbox that finds another is never taken.
THEOREM EvictionFindsItself == Spec => []EvictsItself
<1>1. ASSUME IInv PROVE EvictsItself
  <2>1. SUFFICES ASSUME NEW b \in Boxes, runner[b] = "evict", ~shut
                 PROVE  mailboxes[key[b]] = b
    BY DEF EvictsItself
  <2>2. Made(b)
    BY <1>1, <2>1 DEF IInv, Lives
  <2>3. ~closed[b]
    BY <1>1, <2>1, Holders DEF IInv, Evictors, HeldOpen
  <2> QED
    BY <1>1, <2>1, <2>2, <2>3 DEF IInv, OpenMapped
<1> QED
  BY <1>1, Invariance, PTL

\* A Shutdown that returns without an error has drained every mailbox.
THEOREM ShutdownDrainsAll == Spec => []ShutdownDrains
<1>1. ASSUME IInv PROVE ShutdownDrains
  <2>1. SUFFICES ASSUME closing = "drained"
                 PROVE  /\ \A b \in Boxes : buf[b] = <<>> /\ running[b] = NoJob
                        /\ \A s \in Submitters : sub[s].at # "send"
    BY DEF ShutdownDrains
  <2>2. \A b \in Boxes : runner[b] \in {"none", "gone"}
    BY <1>1, <2>1 DEF IInv, Shutting
  <2>3. \A b \in Boxes : buf[b] = <<>> /\ running[b] = NoJob
    BY <1>1, <2>2 DEF IInv, Emptied, RunsOnly
  <2>4. ASSUME NEW s \in Submitters, sub[s].at = "send" PROVE FALSE
    <3>1. sub[s].box \in Boxes /\ Made(sub[s].box)
      BY <1>1, <2>4 DEF IInv, Lookups
    <3>2. lock[sub[s].box] = s
      BY <1>1, <2>4, <3>1 DEF IInv, Senders
    <3>3. ~closed[sub[s].box]
      BY <1>1, <3>1, <3>2, Holders DEF IInv, HeldOpen
    <3>4. runner[sub[s].box] = "gone"
      BY <1>1, <2>2, <3>1 DEF IInv, Lives
    <3> QED
      BY <1>1, <3>1, <3>3, <3>4 DEF IInv, Lives
  <2> QED
    BY <2>3, <2>4
<1> QED
  BY <1>1, Invariance, PTL

-----------------------------------------------------------------------------
(* The refinement.                                                         *)

\* The queue and the busy job of a key are those of its live mailbox...
LEMMA LiveBox ==
  ASSUME OneAlive, NEW b \in Boxes, NEW k \in Keys, key[b] = k,
         runner[b] \notin {"none", "gone"}
  PROVE  Pending(k) = buf[b] /\ Busy(k) = running[b]
<1>1. b \in Alive(k)
  BY DEF Alive
<1>2. Box(k) = b
  BY <1>1 DEF Box, OneAlive
<1> QED
  BY <1>1, <1>2 DEF Pending, Busy

\* The same after a step.
LEMMA LiveBoxNext ==
  ASSUME OneAlive', NEW b \in Boxes, NEW k \in Keys, key'[b] = k,
         runner'[b] \notin {"none", "gone"}
  PROVE  Pending(k)' = buf'[b] /\ Busy(k)' = running'[b]
<1>1. b \in Alive(k)'
  BY DEF Alive
<1>2. Box(k)' = b
  BY <1>1 DEF Box, OneAlive
<1> QED
  BY <1>1, <1>2 DEF Pending, Busy

\* ... so that a step of one mailbox leaves the other keys alone.
LEMMA OtherKeys ==
  ASSUME NEW b \in Boxes, key' = key,
         \A c \in Boxes : c # b => /\ runner'[c] = runner[c]
                                   /\ buf'[c] = buf[c]
                                   /\ running'[c] = running[c],
         NEW k \in Keys, key[b] # k
  PROVE  Pending(k)' = Pending(k) /\ Busy(k)' = Busy(k)
<1>1. Alive(k)' = Alive(k)
  BY DEF Alive
<1>2. Alive(k) # {} => Box(k) \in Boxes /\ Box(k) # b
  BY DEF Box, Alive
<1>3. Box(k)' = Box(k)
  BY <1>1 DEF Box
<1> QED
  BY <1>1, <1>2, <1>3 DEF Pending, Busy

\* A key whose mailbox does nothing that its callers can see.
Quiet(k) == Pending(k)' = Pending(k) /\ Busy(k)' = Busy(k)

\* When every key is quiet the callers see nothing.
LEMMA AllQuiet ==
  ASSUME \A k \in Keys : Quiet(k)
  PROVE  UNCHANGED Serial!serialVars
BY DEF Quiet, Serial!serialVars

\* A step of the live mailbox of a key, as the key's callers see it.
LEMMA SerialSteps ==
  ASSUME NEW k \in Keys, \A l \in Keys : l # k => Quiet(l)
  PROVE  /\ \A j \in Jobs :
               Pending(k)' = Append(Pending(k), j) /\ Busy(k)' = Busy(k) => Serial!Accept(k, j)
         /\ (/\ Busy(k) = NoJob /\ Pending(k) # <<>>
             /\ Busy(k)' = Head(Pending(k)) /\ Pending(k)' = Tail(Pending(k))) => Serial!Start(k)
         /\ Busy(k) # NoJob /\ Busy(k)' = NoJob /\ Pending(k)' = Pending(k) => Serial!End(k)
BY DEF Quiet, Serial!Accept, Serial!Start, Serial!End

\* Steps that move no job leave every key quiet: a goroutine that ends leaves
\* nothing behind, and a new one finds nothing.
LEMMA QuietStep ==
  ASSUME IInv, IInv', [Next]_vars, UNCHANGED <<buf, running>>
  PROVE  \A k \in Keys : Quiet(k)
<1> USE DEF IInv
<1>1. ASSUME NEW k \in Keys, Alive(k) = {} PROVE Pending(k) = <<>> /\ Busy(k) = NoJob
  BY <1>1 DEF Pending, Busy
<1>2. ASSUME NEW k \in Keys, Alive(k)' = {} PROVE Pending(k)' = <<>> /\ Busy(k)' = NoJob
  BY <1>2 DEF Pending, Busy
<1>3. ASSUME NEW k \in Keys, NEW b \in Boxes, Alive(k)' = {b} PROVE
             Pending(k)' = buf[b] /\ Busy(k)' = running[b]
  BY <1>3 DEF Pending, Busy, Box
<1>4. \A b \in Boxes : runner[b] \in {"none", "gone"} => buf[b] = <<>> /\ running[b] = NoJob
  BY DEF Emptied, RunsOnly
<1>5. \A b \in Boxes : runner'[b] \in {"none", "gone"} => buf[b] = <<>> /\ running[b] = NoJob
  BY DEF Emptied, RunsOnly
<1>6. ASSUME NEW s \in Submitters, CreateMailbox(s), NEW l \in Keys PROVE Quiet(l)
  <2>1. sub[s].key \in Keys /\ nextBox \in Boxes /\ runner[nextBox] = "none"
    BY <1>6, CreateFacts, CreateNextBox DEF Lives
  <2>2. PICK k \in Keys : k = sub[s].key
    BY <2>1
  <2>3. /\ Alive(k) = {}
        /\ Alive(k)' = {nextBox}
        /\ \A m \in Keys : m # k => Alive(m)' = Alive(m)
    BY <1>6, <2>2, CreateAlone
  <2>4. CASE l = k
    <3>1. Pending(k)' = buf[nextBox] /\ Busy(k)' = running[nextBox]
      BY <1>3, <2>1, <2>3
    <3> QED
      BY <1>1, <1>4, <2>1, <2>3, <2>4, <3>1 DEF Quiet
  <2>5. CASE l # k
    <3>1. Alive(l)' = Alive(l)
      BY <2>3, <2>5
    <3>2. Box(l)' = Box(l)
      BY <3>1 DEF Box
    <3> QED
      BY <3>1, <3>2 DEF Quiet, Pending, Busy
  <2> QED
    BY <2>4, <2>5
<1>7. ASSUME ~\E s \in Submitters : CreateMailbox(s), NEW k \in Keys PROVE Quiet(k)
  <2>1. /\ key' = key
        /\ \A b \in Boxes :
              runner'[b] \notin {"none", "gone"} => runner[b] \notin {"none", "gone"}
    BY <1>7, AliveShrinks
  <2>2. CASE Alive(k)' # {}
    <3>1. PICK b \in Boxes : b \in Alive(k)'
      BY <2>2 DEF Alive
    <3>2. key[b] = k /\ runner'[b] \notin {"none", "gone"}
      BY <2>1, <3>1 DEF Alive
    <3> QED
      BY <2>1, <3>2, LiveBox, LiveBoxNext DEF Quiet
  <2>3. CASE Alive(k)' = {} /\ Alive(k) # {}
    <3>1. PICK b \in Boxes : b \in Alive(k)
      BY <2>3 DEF Alive
    <3>2. key[b] = k /\ runner[b] \notin {"none", "gone"} /\ runner'[b] \in {"none", "gone"}
      BY <2>1, <2>3, <3>1 DEF Alive
    <3> QED
      BY <1>2, <1>5, <2>3, <3>2, LiveBox DEF Quiet
  <2>4. CASE Alive(k)' = {} /\ Alive(k) = {}
    BY <1>1, <1>2, <2>4 DEF Quiet
  <2> QED
    BY <2>2, <2>3, <2>4
<1> QED
  BY <1>6, <1>7

\* Every step is one of SerialPerKey for one key, or none for any: Send accepts,
\* Take starts, Return ends.
LEMMA SerialStep ==
  ASSUME IInv, IInv', [Next]_vars
  PROVE  [Serial!Next]_(Serial!serialVars)
<1> USE DEF IInv
<1>1. ASSUME NEW b \in Boxes, runner[b] \notin {"none", "gone"},
             runner'[b] \notin {"none", "gone"}, key' = key,
             \A c \in Boxes : c # b => /\ runner'[c] = runner[c]
                                       /\ buf'[c] = buf[c]
                                       /\ running'[c] = running[c]
      PROVE  \E k \in Keys : /\ Pending(k) = buf[b] /\ Busy(k) = running[b]
                             /\ Pending(k)' = buf'[b] /\ Busy(k)' = running'[b]
                             /\ \A l \in Keys : l # k => Quiet(l)
  <2>1. PICK k \in Keys : k = key[b]
    BY DEF TypeOK
  <2>2. /\ Pending(k) = buf[b] /\ Busy(k) = running[b]
        /\ Pending(k)' = buf'[b] /\ Busy(k)' = running'[b]
    BY <1>1, <2>1, LiveBox, LiveBoxNext
  <2>3. ASSUME NEW l \in Keys, l # k PROVE Quiet(l)
    BY <1>1, <2>1, <2>3, OtherKeys DEF Quiet
  <2> QED
    BY <2>2, <2>3
<1>2. ASSUME NEW s \in Submitters, Send(s) PROVE \E k \in Keys, j \in Jobs : Serial!Accept(k, j)
  <2>1. PICK b \in Boxes : b = sub[s].box /\ Made(b) /\ sub[s].at = "send"
    BY <1>2 DEF Lookups, Send
  <2>2. PICK j \in Jobs : j = sub[s].job
    BY <2>1 DEF Lookups
  <2>3. runner[b] \notin {"none", "gone"}
    BY <2>1, Holders DEF Senders, HeldOpen, Lives
  <2>4. /\ UNCHANGED <<key, runner, running>> /\ buf'[b] = Append(buf[b], j)
        /\ \A c \in Boxes : c # b => buf'[c] = buf[c]
    BY <1>2, <2>1, <2>2 DEF Send, TypeOK
  <2>5. PICK k \in Keys : /\ Pending(k) = buf[b] /\ Busy(k) = running[b]
                          /\ Pending(k)' = buf'[b] /\ Busy(k)' = running'[b]
                          /\ \A l \in Keys : l # k => Quiet(l)
    BY <1>1, <2>3, <2>4
  <2> QED
    BY <2>4, <2>5, SerialSteps
<1>3. ASSUME NEW b \in Boxes, Take(b) PROVE \E k \in Keys : Serial!Start(k)
  <2>1. /\ key' = key /\ runner[b] = "select" /\ buf[b] # <<>>
        /\ running'[b] = Head(buf[b]) /\ buf'[b] = Tail(buf[b])
        /\ \A c \in Boxes : c # b => running'[c] = running[c] /\ buf'[c] = buf[c]
    BY <1>3 DEF Take, TypeOK
  <2>2. runner'[b] = "run" /\ \A c \in Boxes : c # b => runner'[c] = runner[c]
    BY <1>3, RunnerFacts DEF Take
  <2>3. running[b] = NoJob
    BY <2>1 DEF RunsOnly
  <2>4. PICK k \in Keys : /\ Pending(k) = buf[b] /\ Busy(k) = running[b]
                          /\ Pending(k)' = buf'[b] /\ Busy(k)' = running'[b]
                          /\ \A l \in Keys : l # k => Quiet(l)
    BY <1>1, <2>1, <2>2
  <2> QED
    BY <2>1, <2>3, <2>4, SerialSteps
<1>4. ASSUME NEW b \in Boxes, Return(b)
      PROVE  (\E k \in Keys : Serial!End(k)) \/ UNCHANGED Serial!serialVars
  <2>1. /\ UNCHANGED <<key, buf>> /\ runner[b] = "run" /\ running'[b] = NoJob
        /\ \A c \in Boxes : c # b => running'[c] = running[c]
    BY <1>4 DEF Return, TypeOK
  <2>2. runner'[b] = "select" /\ \A c \in Boxes : c # b => runner'[c] = runner[c]
    BY <1>4, RunnerFacts DEF Return
  <2>3. PICK k \in Keys : /\ Pending(k) = buf[b] /\ Busy(k) = running[b]
                          /\ Pending(k)' = buf'[b] /\ Busy(k)' = running'[b]
                          /\ \A l \in Keys : l # k => Quiet(l)
    BY <1>1, <2>1, <2>2
  <2>4. CASE running[b] # NoJob
    BY <2>1, <2>3, <2>4, SerialSteps
  <2>5. CASE running[b] = NoJob
    <3>1. Quiet(k)
      BY <2>1, <2>3, <2>5 DEF Quiet
    <3> QED
      BY <2>3, <3>1, AllQuiet
  <2> QED
    BY <2>4, <2>5
<1>5. CASE UNCHANGED <<buf, running>>
  BY <1>5, QuietStep, AllQuiet
<1>6. ASSUME NEW s \in Submitters,
             \/ \E k \in Keys : Submit(s, k)
             \/ Refuse(s) \/ GetMailbox(s) \/ CreateMailbox(s) \/ LockMailbox(s)
             \/ FindClosed(s) \/ Cancel(s)
      PROVE  UNCHANGED <<buf, running>>
  BY <1>6
  DEF Submit, Refuse, GetMailbox, CreateMailbox, LockMailbox, FindClosed, Cancel, boxVars
<1>7. ASSUME NEW b \in Boxes,
             \/ Exit(b) \/ Expire(b) \/ KeepBusy(b) \/ EvictLock(b) \/ Evict(b)
             \/ CloseMailbox(b)
      PROVE  UNCHANGED <<buf, running>>
  BY <1>7 DEF Exit, Expire, KeepBusy, EvictLock, Evict, CloseMailbox
<1>8. ASSUME Shutdown \/ AllClosed \/ ShutdownReturns \/ ShutdownTimesOut \/ UNCHANGED vars
      PROVE  UNCHANGED <<buf, running>>
  BY <1>8 DEF Shutdown, AllClosed, ShutdownReturns, ShutdownTimesOut, vars, boxVars
<1>9. \/ UNCHANGED <<buf, running>>
      \/ \E s \in Submitters : Send(s)
      \/ \E b \in Boxes : Take(b) \/ Return(b)
  BY <1>6, <1>7, <1>8 DEF Next, SubmitStep, RunnerStep, ShutdownStep
<1> QED
  BY <1>2, <1>3, <1>4, <1>5, <1>9 DEF Serial!Next

\* The updates of one user run one at a time and in the order in which they
\* were accepted.
THEOREM DispatcherIsSerial == Spec => ImplementsSerial
<1>1. ASSUME Init PROVE Serial!Init
  <2>1. \A b \in Boxes : runner[b] = "none"
    BY <1>1 DEF Init
  <2>2. \A k \in Keys : Alive(k) = {}
    BY <2>1 DEF Alive
  <2>3. \A k \in Keys : Pending(k) = <<>> /\ Busy(k) = NoJob
    BY <2>2 DEF Pending, Busy
  <2> QED
    BY <2>3 DEF Serial!Init
<1>2. IInv /\ IInv' /\ [Next]_vars => [Serial!Next]_(Serial!serialVars)
  BY SerialStep
<1> QED
  BY <1>1, <1>2, Invariance, PTL DEF Spec, ImplementsSerial, Serial!Spec

=============================================================================
