---------------------------- MODULE DraftSession ----------------------------
(***************************************************************************)
(* The draft sessions of one user: the rows of table draft_sessions, the   *)
(* products made from them, the draft cards in the chat, and the three     *)
(* processes that write them without a common lock.                        *)
(*                                                                         *)
(*   bot       telegram-api: the user's taps and texts, one at a time      *)
(*   pipeline  pipeline-worker: voice messages and the background cleaner  *)
(*   sweeper   scheduler-worker: fails drafts that nobody finished         *)
(*                                                                         *)
(* A handler reads a draft into memory and later writes by id, so a step   *)
(* is one statement, one transaction or one Telegram call, and a process   *)
(* acts on the snapshot it read (proc[p].snap) whatever happened since.    *)
(***************************************************************************)
EXTENDS Naturals, Sequences, FiniteSets

CONSTANTS
    MaxDrafts,  \* bound: messages that become drafts (each with its own trace)
    MaxCards,   \* bound: draft cards ever sent
    MaxInbox,   \* bound: updates waiting in the user's mailbox
    Missing,    \* no name, no date
    Names,      \* draft names
    Dates,      \* expiry dates
    Shorter,    \* pairs of names of which the cleaner prefers the second
    Texts,      \* texts the user may send, by what each reading makes of them
    Voices,     \* what transcribed voice messages parse to
    Attempts,   \* Attempts[kind]: max_attempts of the "ingest" and "clean" jobs
    MaxFaults,  \* bound: calls that fail and processes that are killed
    Sweeps      \* drafts grow stale and the scheduler fails them

Drafts == 1..MaxDrafts
Cards == 1..MaxCards
NoCard == 0
NoDraft == 0
Fields == [name : Names \cup {Missing}, date : Dates \cup {Missing}]
Text == [asName : Names \cup {Missing}, asDate : Dates \cup {Missing}, parsed : Fields]
NoFields == [name |-> Missing, date |-> Missing]

ASSUME DraftSessionAssumption ==
    /\ MaxDrafts \in Nat /\ MaxCards \in Nat /\ MaxInbox \in Nat
    /\ Missing \notin Names \cup Dates
    /\ Shorter \subseteq Names \X Names
    /\ Texts \subseteq Text
    /\ Voices \subseteq Fields \ {NoFields}
    /\ Attempts \in [{"ingest", "clean"} -> Nat \ {0}]
    /\ MaxFaults \in Nat /\ Sweeps \in BOOLEAN

VARIABLES
    drafts,     \* table draft_sessions; status "absent" is no row
    rank,       \* the order of updated_at: the row of the highest rank is newest
    products,   \* table products
    chat,       \* the draft each card in the chat is about, or NoDraft
    nextCard,   \* the next message id
    deletions,  \* cards that queued delete_messages jobs name
    inbox,      \* the user's mailbox in the dispatcher
    work,       \* ingest and clean_draft jobs waiting for the pipeline
    traces,     \* messages accepted for ingestion so far
    cleanerKeys, \* idempotency keys <trace>:cleaner in use
    proc,       \* what the bot and the pipeline have in hand
    sweep,      \* the rest of the list a maintenance tick works through
    swept,      \* idempotency keys draft-cleanup:<id> in use
    old,        \* drafts created more than twelve hours ago
    faults      \* failures so far

table == <<drafts, rank, products>>
telegram == <<chat, nextCard, deletions>>
queue == <<work, traces, cleanerKeys>>
scheduler == <<sweep, swept, old>>
vars == <<table, telegram, inbox, queue, proc, scheduler, faults>>

Procs == {"bot", "pipeline"}
Editing == {"editing_name", "editing_date"}
Live == {"ready"} \cup Editing
Terminal == {"confirmed", "canceled", "failed"}

\* The prompt on record, by the status that it was sent for.
NoPrompt == "none"

Row == [status : Live \cup Terminal \cup {"absent"}, name : Names \cup {Missing},
        date : Dates \cup {Missing}, prompt : Editing \cup {NoPrompt}, card : Cards \cup {NoCard},
        product : Nat]
NoRow == [status |-> "absent", name |-> Missing, date |-> Missing, prompt |-> NoPrompt,
          card |-> NoCard, product |-> 0]

Acts == {"confirm", "cancel", "edit_name", "edit_date"}
Input == [kind : {"tap"}, act : Acts, draft : Drafts]
           \cup [kind : {"text"}, text : Texts] \cup [kind : {"voice"}, parsed : Voices]
Job == [kind : {"ingest"}, draft : Drafts, parsed : Fields, tries : Nat]
         \cup [kind : {"clean"}, draft : Drafts, tries : Nat]
Nothing == [kind |-> "nothing"]

Places == {"idle", "dismiss", "confirm", "close", "enter", "prompt", "setprompt",
           "finish", "settle", "edit", "redraw", "upsert", "payload",
           "publish", "show", "setcard", "reread", "enqueue", "read", "ask", "apply", "keep"}
InHand == [at : Places, draft : Drafts \cup {0}, snap : Row, fields : Fields,
           card : Cards \cup {NoCard}, todo : Input \cup Job \cup {Nothing}]
Idle == [at |-> "idle", draft |-> 0, snap |-> NoRow, fields |-> NoFields,
         card |-> NoCard, todo |-> Nothing]

TypeOK ==
    /\ drafts \in [Drafts -> Row]
    /\ rank \in [Drafts -> Drafts]
    /\ products \in Seq([draft : Drafts, name : Names \cup {Missing}, date : Dates \cup {Missing}])
    /\ chat \in [Cards -> Drafts \cup {NoDraft}]
    /\ nextCard \in 1..(MaxCards + 1)
    /\ deletions \subseteq Cards
    /\ inbox \in Seq(Input)
    /\ work \subseteq Job
    /\ traces \in 0..MaxDrafts
    /\ cleanerKeys \subseteq Drafts
    /\ proc \in [Procs -> InHand]
    /\ sweep \in Seq([draft : Drafts, card : Cards \cup {NoCard}, marked : BOOLEAN])
    /\ swept \subseteq Drafts
    /\ old \subseteq Drafts
    /\ faults \in 0..MaxFaults

Init ==
    /\ drafts = [d \in Drafts |-> NoRow]
    /\ rank = [d \in Drafts |-> d]
    /\ products = <<>>
    /\ chat = [m \in Cards |-> NoDraft]
    /\ nextCard = 1
    /\ deletions = {}
    /\ inbox = <<>>
    /\ work = {}
    /\ traces = 0
    /\ cleanerKeys = {}
    /\ proc = [p \in Procs |-> Idle]
    /\ sweep = <<>>
    /\ swept = {}
    /\ old = {}
    /\ faults = 0

FieldsOf(row) == [name |-> row.name, date |-> row.date]
Complete(row) == row.name # Missing /\ row.date # Missing

\* What a process uses of a row it has read: its status, its fields or its card.
StatusOf(row) == [NoRow EXCEPT !.status = row.status]
ContentOf(row) == [NoRow EXCEPT !.name = row.name, !.date = row.date]
CardOf(row) == [NoRow EXCEPT !.card = row.card]

-----------------------------------------------------------------------------
(* The statements of queries/drafts.sql.                                   *)

\* updated_at = NOW(): row d becomes the newest, the others keep their order.
Newest(d) ==
    rank' = [e \in Drafts |-> IF e = d THEN MaxDrafts
                              ELSE IF rank[e] > rank[d] THEN rank[e] - 1 ELSE rank[e]]

Write(d, row) ==
    /\ drafts' = [drafts EXCEPT ![d] = row]
    /\ Newest(d)

StatusRow(d, s) ==
    [drafts[d] EXCEPT !.status = s, !.prompt = IF s \in Editing THEN @ ELSE NoPrompt]

\* Faulty variants of a definition, each a plausible mistake in the code it
\* models, stand before it; the properties are tested against them.

\* The prompt stays on record.
FieldsRowWithPrompt(d, f) ==
    [drafts[d] EXCEPT !.name = f.name, !.date = f.date, !.status = "ready"]

\* Every caller of UpdateDraftFields passes the status ready.
FieldsRow(d, f) ==
    [drafts[d] EXCEPT !.name = f.name, !.date = f.date, !.status = "ready", !.prompt = NoPrompt]

\* The payload is saved with the status it was computed for.
PayloadRowReady(d) == [drafts[d] EXCEPT !.status = "ready"]

\* The payload itself, the cleaner's trace, is not modelled.
PayloadRow(d) == drafts[d]

CreatedRow(f) ==
    [NoRow EXCEPT !.status = "ready", !.name = f.name, !.date = f.date]

CleanedRow(d, f) ==
    [drafts[d] EXCEPT !.name = f.name, !.date = f.date]

Editable == {d \in Drafts : drafts[d].status \in Editing}
Latest(S) == CHOOSE d \in S : \A e \in S : rank[e] <= rank[d]

-----------------------------------------------------------------------------
(* The user.  Updates wait in the mailbox until the bot is idle.           *)

Arrives(u) ==
    /\ Len(inbox) < MaxInbox
    /\ inbox' = Append(inbox, u)
    /\ UNCHANGED <<table, telegram, queue, proc, scheduler, faults>>

Tap(m, act) ==
    /\ chat[m] # NoDraft
    /\ Arrives([kind |-> "tap", act |-> act, draft |-> chat[m]])

Say(text) == Arrives([kind |-> "text", text |-> text])

Speak(parsed) == Arrives([kind |-> "voice", parsed |-> parsed])

-----------------------------------------------------------------------------
(* Steps common to the processes.                                          *)

Goto(p, place) == proc' = [proc EXCEPT ![p].at = place]

\* The same, when what the process has read so far is not used again.
Forget(p, place) ==
    proc' = [proc EXCEPT ![p] = [@ EXCEPT !.at = place, !.snap = NoRow, !.fields = NoFields,
                                          !.card = NoCard]]

Done(p) == proc' = [proc EXCEPT ![p] = Idle]
At(p, place) == proc[p].at = place

Fails == faults < MaxFaults /\ faults' = faults + 1

-----------------------------------------------------------------------------
(* handleDraftCallback and what it calls.                                  *)

\* shouldReuseDraftEditPrompt and the transition functions of draft_state.go,
\* on the row as it was read.
Route(act, row) ==
    CASE row.status \in Terminal -> "dismiss"
      [] row.status \in Live /\ act = "confirm" ->
            IF Complete(row) /\ row.status = "ready" THEN "confirm" ELSE "idle"
      [] row.status \in Live /\ act = "cancel" -> "close"
      [] row.status \in Live /\ act = "edit_name" ->
            IF row.status = "editing_name" /\ row.prompt # NoPrompt THEN "idle" ELSE "enter"
      [] row.status \in Live /\ act = "edit_date" ->
            IF row.status = "editing_date" /\ row.prompt # NoPrompt THEN "idle" ELSE "enter"

HandleTap ==
    /\ At("bot", "idle")
    /\ inbox # <<>> /\ Head(inbox).kind = "tap"
    /\ LET u == Head(inbox)
           place == Route(u.act, drafts[u.draft])
       IN  proc' = [proc EXCEPT !["bot"] =
                       IF place = "idle" THEN Idle
                       ELSE [Idle EXCEPT !.at = place, !.draft = u.draft,
                                         !.card = drafts[u.draft].card, !.todo = u]]
    /\ inbox' = Tail(inbox)
    /\ UNCHANGED <<table, telegram, queue, scheduler, faults>>

\* A message id that is not set is not left out.
EnqueuedAsIs(m) == deletions' = deletions \cup {m}

Enqueued(m) == deletions' = IF m = NoCard THEN deletions ELSE deletions \cup {m}

\* The tapped draft had ended: its card is scheduled for deletion.
DismissCard ==
    /\ At("bot", "dismiss")
    /\ Enqueued(proc["bot"].card)
    /\ Done("bot")
    /\ UNCHANGED <<table, chat, nextCard, inbox, queue, scheduler, faults>>

\* The transaction trusts the check made before it.
ConfirmUnchecked ==
    LET d == proc["bot"].draft
        row == drafts[d]
    IN  /\ At("bot", "confirm")
        /\ row.status \in Live
        /\ products' = Append(products, [draft |-> d, name |-> row.name, date |-> row.date])
        /\ Write(d, [StatusRow(d, "confirmed") EXCEPT !.product = Len(products) + 1])
        /\ Goto("bot", "finish")
        /\ UNCHANGED <<telegram, inbox, queue, scheduler, faults>>

\* CreateProductFromDraft: one transaction that locks the row and reads it
\* again.  A row confirmed before keeps its product.
ConfirmDraft ==
    LET d == proc["bot"].draft
        row == drafts[d]
    IN  /\ At("bot", "confirm")
        /\ IF row.status \in Live /\ Complete(row)
           THEN /\ products' = Append(products, [draft |-> d, name |-> row.name, date |-> row.date])
                /\ Write(d, [StatusRow(d, "confirmed") EXCEPT !.product = Len(products) + 1])
                /\ Goto("bot", "finish")
           ELSE /\ IF row.status = "confirmed" /\ row.product # 0
                   THEN Goto("bot", "finish") ELSE Done("bot")
                /\ UNCHANGED table
        /\ UNCHANGED <<telegram, inbox, queue, scheduler, faults>>

CloseDraft ==
    /\ At("bot", "close")
    /\ Write(proc["bot"].draft, StatusRow(proc["bot"].draft, "canceled"))
    /\ Goto("bot", "finish")
    /\ UNCHANGED <<products, telegram, inbox, queue, scheduler, faults>>

\* deleteMessagesNow on the card of the snapshot: a failure is only logged.
DeleteCardNow ==
    LET m == proc["bot"].card
    IN  /\ At("bot", "finish")
        /\ \/ /\ chat' = [k \in Cards |-> IF k = m THEN NoDraft ELSE chat[k]]
              /\ UNCHANGED faults
           \/ Fails /\ UNCHANGED chat
        /\ Goto("bot", "settle")
        /\ UNCHANGED <<table, nextCard, deletions, inbox, queue, scheduler>>

\* The delete job that backs up the deletion above.
ScheduleDelete ==
    /\ At("bot", "settle")
    /\ Enqueued(proc["bot"].card)
    /\ Done("bot")
    /\ UNCHANGED <<table, chat, nextCard, inbox, queue, scheduler, faults>>

EditStatus(act) == IF act = "edit_name" THEN "editing_name" ELSE "editing_date"

\* enterDraftEditMode: the status, then the prompt, then the prompt's id.
EnterEdit ==
    LET d == proc["bot"].draft
    IN  /\ At("bot", "enter")
        /\ Write(d, StatusRow(d, EditStatus(proc["bot"].todo.act)))
        /\ Goto("bot", "prompt")
        /\ UNCHANGED <<products, telegram, inbox, queue, scheduler, faults>>

SendPrompt ==
    /\ At("bot", "prompt")
    /\ Goto("bot", "setprompt")
    /\ UNCHANGED <<table, telegram, inbox, queue, scheduler, faults>>

SetPrompt ==
    LET d == proc["bot"].draft
    IN  /\ At("bot", "setprompt")
        /\ Write(d, [drafts[d] EXCEPT !.prompt = EditStatus(proc["bot"].todo.act)])
        /\ Done("bot")
        /\ UNCHANGED <<products, telegram, inbox, queue, scheduler, faults>>

-----------------------------------------------------------------------------
(* HandleMessage.                                                          *)

\* The fields an edit writes: the text as the field that is edited, the other
\* field as it was read.
Edited(row, text) ==
    IF row.status = "editing_name" THEN [name |-> text.asName, date |-> row.date]
    ELSE [name |-> row.name, date |-> text.asDate]

Readable(row, text) ==
    IF row.status = "editing_name" THEN text.asName # Missing ELSE text.asDate # Missing

\* While a draft is being edited, the text is its new name or date.
HandleEditText ==
    /\ At("bot", "idle")
    /\ inbox # <<>> /\ Head(inbox).kind = "text"
    /\ Editable # {}
    /\ LET d == Latest(Editable)
           text == Head(inbox).text
       IN  proc' = [proc EXCEPT !["bot"] =
                       IF ~Readable(drafts[d], text) THEN Idle
                       ELSE [Idle EXCEPT !.at = "edit", !.draft = d,
                                         !.snap = StatusOf(drafts[d]),
                                         !.fields = Edited(drafts[d], text),
                                         !.todo = Head(inbox)]]
    /\ inbox' = Tail(inbox)
    /\ UNCHANGED <<table, telegram, queue, scheduler, faults>>

\* Every update gets a trace of its own, also one that is delivered again; it is
\* the key of the draft (draft_sessions.trace_id).
NewTrace == traces + 1

\* Otherwise it is the message of a new draft, made at once (tryHandleTextFast).
\* A text that parses to nothing only produces a failure message, which is
\* also what the model makes of the messages beyond MaxDrafts.
HandleNewText ==
    /\ At("bot", "idle")
    /\ inbox # <<>> /\ Head(inbox).kind = "text"
    /\ Editable = {}
    /\ LET parsed == Head(inbox).text.parsed
       IN  IF parsed = NoFields \/ traces = MaxDrafts THEN UNCHANGED <<traces, proc>>
           ELSE /\ traces' = traces + 1
                /\ proc' = [proc EXCEPT !["bot"] =
                               [Idle EXCEPT !.at = "upsert", !.draft = NewTrace,
                                            !.fields = parsed, !.todo = Head(inbox)]]
    /\ inbox' = Tail(inbox)
    /\ UNCHANGED <<table, telegram, work, cleanerKeys, scheduler, faults>>

\* A voice message is never an edit: it becomes a job of the pipeline.
HandleVoice ==
    /\ At("bot", "idle")
    /\ inbox # <<>> /\ Head(inbox).kind = "voice"
    /\ IF traces = MaxDrafts THEN UNCHANGED <<traces, work>>
       ELSE /\ traces' = traces + 1
            /\ work' = work \cup {[kind |-> "ingest", draft |-> NewTrace,
                                   parsed |-> Head(inbox).parsed, tries |-> 0]}
    /\ inbox' = Tail(inbox)
    /\ UNCHANGED <<table, telegram, cleanerKeys, proc, scheduler, faults>>

ApplyEdit ==
    LET d == proc["bot"].draft
    IN  /\ At("bot", "edit")
        /\ Write(d, FieldsRow(d, proc["bot"].fields))
        /\ Forget("bot", "redraw")
        /\ UNCHANGED <<products, telegram, inbox, queue, scheduler, faults>>

\* The card is drawn again from the row; what a card shows is not modelled.
RedrawCard ==
    /\ At("bot", "redraw")
    /\ Done("bot")
    /\ UNCHANGED <<table, telegram, inbox, queue, scheduler, faults>>

-----------------------------------------------------------------------------
(* The ingestion of one message, by the bot (fast path) or the pipeline.   *)

StartJob(j) ==
    /\ At("pipeline", "idle")
    /\ j \in work
    /\ work' = work \ {j}
    /\ proc' = [proc EXCEPT !["pipeline"] =
                   [Idle EXCEPT !.at = IF j.kind = "ingest" THEN "upsert" ELSE "read",
                                !.draft = j.draft, !.todo = j,
                                !.fields = IF j.kind = "ingest" THEN j.parsed ELSE NoFields]]
    /\ UNCHANGED <<table, telegram, inbox, traces, cleanerKeys, scheduler, faults>>

\* upsertDraftCard, for a trace without a draft...
CreateDraft(p) ==
    LET d == proc[p].draft
    IN  /\ At(p, "upsert")
        /\ drafts[d].status = "absent"
        /\ Write(d, CreatedRow(proc[p].fields))
        /\ Forget(p, "publish")
        /\ UNCHANGED <<products, telegram, inbox, queue, scheduler, faults>>

\* ... and for one that has a draft from an earlier attempt.
OverwriteDraft(p) ==
    LET d == proc[p].draft
    IN  /\ At(p, "upsert")
        /\ drafts[d].status # "absent"
        /\ Write(d, FieldsRow(d, proc[p].fields))
        /\ Forget(p, "payload")
        /\ UNCHANGED <<products, telegram, inbox, queue, scheduler, faults>>

OverwritePayload(p) ==
    LET d == proc[p].draft
    IN  /\ At(p, "payload")
        /\ Write(d, PayloadRow(d))
        /\ Goto(p, "publish")
        /\ UNCHANGED <<products, telegram, inbox, queue, scheduler, faults>>

\* publishDraftCard: read, then edit the card or send one.
PublishRead(p) ==
    /\ At(p, "publish")
    /\ proc' = [proc EXCEPT ![p].at = "show", ![p].snap = CardOf(drafts[proc[p].draft])]
    /\ UNCHANGED <<table, telegram, inbox, queue, scheduler, faults>>

Published(p) == IF proc[p].todo.kind = "clean" THEN Done(p) ELSE Forget(p, "reread")

InChat(m) == m # NoCard /\ chat[m] # NoDraft

PublishEdit(p) ==
    /\ At(p, "show")
    /\ InChat(proc[p].snap.card)
    /\ Published(p)
    /\ UNCHANGED <<table, telegram, inbox, queue, scheduler, faults>>

PublishSend(p) ==
    /\ At(p, "show")
    /\ ~InChat(proc[p].snap.card)
    /\ nextCard <= MaxCards
    /\ chat' = [chat EXCEPT ![nextCard] = proc[p].draft]
    /\ nextCard' = nextCard + 1
    /\ proc' = [proc EXCEPT ![p].at = "setcard", ![p].card = nextCard, ![p].snap = NoRow]
    /\ UNCHANGED <<table, deletions, inbox, queue, scheduler, faults>>

SetCard(p) ==
    LET d == proc[p].draft
    IN  /\ At(p, "setcard")
        /\ Write(d, [drafts[d] EXCEPT !.card = proc[p].card])
        /\ Published(p)
        /\ UNCHANGED <<products, telegram, inbox, queue, scheduler, faults>>

ReadPublished(p) ==
    /\ At(p, "reread")
    /\ proc' = [proc EXCEPT ![p].at = "enqueue",
                            ![p].snap = StatusOf(drafts[proc[p].draft])]
    /\ UNCHANGED <<table, telegram, inbox, queue, scheduler, faults>>

\* enqueueBackgroundCleaner, after UpdateIngestStatus went through.
EnqueueCleaner(p) ==
    LET d == proc[p].draft
    IN  /\ At(p, "enqueue")
        /\ IF proc[p].snap.status = "ready" /\ d \notin cleanerKeys
           THEN /\ work' = work \cup {[kind |-> "clean", draft |-> d, tries |-> 0]}
                /\ cleanerKeys' = cleanerKeys \cup {d}
           ELSE UNCHANGED <<work, cleanerKeys>>
        /\ Done(p)
        /\ UNCHANGED <<table, telegram, inbox, traces, scheduler, faults>>

-----------------------------------------------------------------------------
(* handleCleanDraft.                                                       *)

\* shouldApplyBackgroundCleaner, on the draft read before the model was asked.
\* A candidate that adds a date is taken whatever its name is.
Improves(row, f) ==
    /\ f # NoFields
    /\ row.date # Missing => f.date = row.date
    /\ \/ row.name = Missing /\ f.name # Missing
       \/ row.date = Missing /\ f.date # Missing
       \/ <<row.name, f.name>> \in Shorter

CleanRead ==
    LET row == drafts[proc["pipeline"].draft]
    IN  /\ At("pipeline", "read")
        /\ IF row.status = "ready"
           THEN proc' = [proc EXCEPT !["pipeline"].at = "ask", !["pipeline"].snap = ContentOf(row)]
           ELSE Done("pipeline")
        /\ UNCHANGED <<table, telegram, inbox, queue, scheduler, faults>>

\* The language model answers, up to ninety seconds later.
CleanChosen(f) ==
    /\ At("pipeline", "ask")
    /\ Improves(proc["pipeline"].snap, f)
    /\ proc' = [proc EXCEPT !["pipeline"].at = "apply", !["pipeline"].fields = f,
                            !["pipeline"].snap = NoRow]
    /\ UNCHANGED <<table, telegram, inbox, queue, scheduler, faults>>

\* The model fails, or its candidate is not better.
CleanRejected ==
    /\ At("pipeline", "ask")
    /\ Forget("pipeline", "keep")
    /\ UNCHANGED <<table, telegram, inbox, queue, scheduler, faults>>

\* The status is not part of the UPDATE's condition.
CleanApplyAnyway ==
    LET d == proc["pipeline"].draft
    IN  /\ At("pipeline", "apply")
        /\ Write(d, CleanedRow(d, proc["pipeline"].fields))
        /\ Forget("pipeline", "publish")
        /\ UNCHANGED <<products, telegram, inbox, queue, scheduler, faults>>

\* ApplyCleanerUpdateIfReady: one conditional UPDATE.
CleanApply ==
    LET d == proc["pipeline"].draft
    IN  /\ At("pipeline", "apply")
        /\ IF drafts[d].status = "ready"
           THEN /\ Write(d, CleanedRow(d, proc["pipeline"].fields))
                /\ Forget("pipeline", "publish")
           ELSE Done("pipeline") /\ UNCHANGED <<drafts, rank>>
        /\ UNCHANGED <<products, telegram, inbox, queue, scheduler, faults>>

CleanKeep ==
    LET d == proc["pipeline"].draft
    IN  /\ At("pipeline", "keep")
        /\ Write(d, PayloadRow(d))
        /\ Goto("pipeline", "publish")
        /\ UNCHANGED <<products, telegram, inbox, queue, scheduler, faults>>

-----------------------------------------------------------------------------
(* Failures.  A call that fails ends the handler; one whose reply is lost   *)
(* is a call that succeeded followed by a failure.                          *)

BotFails ==
    /\ Fails
    /\ ~At("bot", "idle")
    /\ Done("bot")
    /\ UNCHANGED <<table, telegram, inbox, queue, scheduler>>

\* The process restarts: what was in its mailbox is lost, or the batch was not
\* acknowledged and is delivered again with the update that was in hand.
BotRestarts ==
    /\ Fails
    /\ ~At("bot", "idle")
    /\ inbox' \in {<<>>, inbox, <<proc["bot"].todo>> \o inbox}
    /\ Done("bot")
    /\ UNCHANGED <<table, telegram, queue, scheduler>>

\* The job goes back to the queue while it has attempts left.
JobFails ==
    LET j == proc["pipeline"].todo
    IN  /\ Fails
        /\ ~At("pipeline", "idle")
        /\ work' = IF j.tries + 1 < Attempts[j.kind]
                   THEN work \cup {[j EXCEPT !.tries = @ + 1]} ELSE work
        /\ Done("pipeline")
        /\ UNCHANGED <<table, telegram, inbox, traces, cleanerKeys, scheduler>>

\* The process restarts: its job stays running in the table, out of reach.
PipelineRestarts ==
    /\ Fails
    /\ ~At("pipeline", "idle")
    /\ Done("pipeline")
    /\ UNCHANGED <<table, telegram, inbox, queue, scheduler>>

-----------------------------------------------------------------------------
(* cleanupStaleDrafts and the deletion jobs.                               *)

Age(d) ==
    /\ Sweeps
    /\ drafts[d].status # "absent"
    /\ d \notin old
    /\ old' = old \cup {d}
    /\ UNCHANGED <<table, telegram, inbox, queue, proc, sweep, swept, faults>>

Stale == {d \in old : drafts[d].status \in Live}

\* The list of one tick: the stale drafts in the order they were created.
SweepList ==
    /\ Sweeps
    /\ sweep = <<>>
    /\ \E s \in [1..Cardinality(Stale) -> Stale] :
          /\ \A i, k \in DOMAIN s : i < k => s[i] < s[k]
          /\ sweep' = [i \in DOMAIN s |-> [draft |-> s[i], card |-> drafts[s[i]].card,
                                           marked |-> FALSE]]
    /\ UNCHANGED <<table, telegram, inbox, queue, proc, swept, old, faults>>

\* A draft whose key is in use is taken for one that was closed.
SweepEnqueueOnce ==
    /\ sweep # <<>> /\ ~Head(sweep).marked
    /\ LET d == Head(sweep).draft
       IN  IF d \in swept THEN sweep' = Tail(sweep) /\ UNCHANGED <<deletions, swept>>
           ELSE /\ Enqueued(Head(sweep).card)
                /\ swept' = swept \cup {d}
                /\ sweep' = [sweep EXCEPT ![1].marked = TRUE]
    /\ UNCHANGED <<table, chat, nextCard, inbox, queue, proc, old, faults>>

\* The delete job of the draft's messages, unless its key was used before.
SweepEnqueue ==
    /\ sweep # <<>> /\ ~Head(sweep).marked
    /\ LET d == Head(sweep).draft
       IN  /\ IF d \in swept THEN UNCHANGED deletions ELSE Enqueued(Head(sweep).card)
           /\ swept' = swept \cup {d}
    /\ sweep' = [sweep EXCEPT ![1].marked = TRUE]
    /\ UNCHANGED <<table, chat, nextCard, inbox, queue, proc, old, faults>>

SweepFail ==
    /\ sweep # <<>> /\ Head(sweep).marked
    /\ Write(Head(sweep).draft, StatusRow(Head(sweep).draft, "failed"))
    /\ sweep' = Tail(sweep)
    /\ UNCHANGED <<products, telegram, inbox, queue, proc, swept, old, faults>>

\* A statement fails, or the scheduler restarts: the tick is over.
SweepStops ==
    /\ Fails
    /\ sweep # <<>>
    /\ sweep' = <<>>
    /\ UNCHANGED <<table, telegram, inbox, queue, proc, swept, old>>

\* A delete_messages job is done.
DeleteJob(m) ==
    /\ m \in deletions
    /\ chat' = [chat EXCEPT ![m] = NoDraft]
    /\ deletions' = deletions \ {m}
    /\ UNCHANGED <<table, nextCard, inbox, queue, proc, scheduler, faults>>

-----------------------------------------------------------------------------

User ==
    \/ \E m \in Cards, act \in Acts : Tap(m, act)
    \/ \E text \in Texts : Say(text)
    \/ \E parsed \in Voices : Speak(parsed)

Ingest(p) ==
    \/ CreateDraft(p) \/ OverwriteDraft(p) \/ OverwritePayload(p)
    \/ PublishRead(p) \/ PublishEdit(p) \/ PublishSend(p) \/ SetCard(p)
    \/ ReadPublished(p) \/ EnqueueCleaner(p)

Bot ==
    \/ HandleTap \/ DismissCard \/ ConfirmDraft \/ CloseDraft
    \/ DeleteCardNow \/ ScheduleDelete
    \/ EnterEdit \/ SendPrompt \/ SetPrompt
    \/ HandleEditText \/ HandleNewText \/ HandleVoice
    \/ ApplyEdit \/ RedrawCard
    \/ Ingest("bot")

Pipeline ==
    \/ \E j \in work : StartJob(j)
    \/ Ingest("pipeline")
    \/ CleanRead \/ (\E f \in Fields : CleanChosen(f)) \/ CleanRejected
    \/ CleanApply \/ CleanKeep

Sweeper == SweepList \/ SweepEnqueue \/ SweepFail

Fault == BotFails \/ BotRestarts \/ JobFails \/ PipelineRestarts \/ SweepStops

Next ==
    \/ User
    \/ Bot
    \/ Pipeline
    \/ Sweeper
    \/ Fault
    \/ \E d \in Drafts : Age(d)
    \/ \E m \in Cards : DeleteJob(m)

Spec == Init /\ [][Next]_vars

\* Maintenance ticks come, each gets through its list, and drafts grow old.
\* Nothing is assumed of the user, the bot or the pipeline.
FairSpec ==
    /\ Spec
    /\ WF_vars(SweepList) /\ WF_vars(SweepEnqueue) /\ WF_vars(SweepFail)
    /\ \A d \in Drafts : WF_vars(Age(d))

-----------------------------------------------------------------------------
(* What drafts promise whatever fails, is retried or is swept.             *)

\* A confirmed draft and its product never part: the product exists, was made
\* from this draft, and no late write of the cleaner, of an edit or of an
\* ingest attempt changes the name or date it was made with.
ConfirmedMatchesProduct ==
    \A d \in Drafts : drafts[d].status = "confirmed" =>
        /\ drafts[d].product \in DOMAIN products
        /\ products[drafts[d].product] =
              [draft |-> d, name |-> drafts[d].name, date |-> drafts[d].date]

\* Every product has a name and a date, also when the cleaner takes one away
\* after handleDraftCallback checked the draft and before it is confirmed.
ProductsComplete == \A i \in DOMAIN products : Complete(products[i])

\* Only a further attempt of a voice message's ingest job overwrites a draft.  A text
\* delivered again, the next message and a first attempt never find the draft of
\* another message in place of a new one, whatever failed before.
RewritesAreRetries ==
    [][\A p \in Procs : OverwriteDraft(p) => p = "pipeline" /\ proc[p].todo.tries # 0]_vars

-----------------------------------------------------------------------------
(* What drafts promise while no ingestion overwrites a draft; in the run,  *)
(* because ingest jobs are tried once.                                     *)

\* No draft ever yields two products: not by tapping twice, not by an update
\* delivered again, not by an edit or a sweep that lands late.
OneProductPerDraft ==
    \A i, k \in DOMAIN products : products[i].draft = products[k].draft => i = k

\* An edit writes the other field back as it read it, and loses nothing: that
\* field is still what the row holds.
EditLosesNothing ==
    [][At("bot", "edit") /\ drafts' # drafts =>
          LET d == proc["bot"].draft
          IN  IF proc["bot"].snap.status = "editing_name"
              THEN drafts'[d].date = drafts[d].date
              ELSE drafts'[d].name = drafts[d].name]_vars

\* A draft the user has confirmed or canceled is never opened again and never
\* ends the other way, save that the sweep may call it failed; one with a
\* product stays closed even then.
EndedOnce ==
    [][\A d \in Drafts :
          drafts[d].status \in {"confirmed", "canceled"} \/ drafts[d].product # 0
             => drafts'[d].status \in {drafts[d].status, "failed"}]_vars

\* A prompt is on record only while the draft is edited, or after the sweep failed it:
\* an edit that is saved forgets its prompt.  A later edit whose own prompt cannot be
\* sent is then not passed over in favour of that one (shouldReuseDraftEditPrompt).  The
\* prompt of a field left for the other one stays on record, and does hide such an edit.
PromptMeansEditing ==
    \A d \in Drafts : drafts[d].prompt # NoPrompt => drafts[d].status \in Editing \cup {"failed"}

-----------------------------------------------------------------------------

\* A draft nobody finishes is closed in the end, whatever the user, the
\* pipeline and the cleaner are doing to it.
StaleDraftsEnd ==
    \A d \in Drafts : (drafts[d].status \in Live) ~> (drafts[d].status \in Terminal)

=============================================================================
