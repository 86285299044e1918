------------------------- MODULE DraftSessionProofs -------------------------
(***************************************************************************)
(* What holds of one user's drafts for every number of drafts and cards,   *)
(* all texts, names and dates, and every number of faults.  The first      *)
(* invariant, IInv, holds of every behaviour.  The second, OInv, holds     *)
(* as long as no ingest job finds the draft of an earlier attempt          *)
(* (NoRewrite), which takes an attempt that failed before it (NoRetry).    *)
(***************************************************************************)
EXTENDS DraftSession, SequenceTheorems, FiniteSetTheorems, WellFoundedInduction, TLAPS

Exists(d) == drafts[d].status # "absent"

TapPlaces == {"dismiss", "confirm", "close", "enter", "prompt", "setprompt", "finish", "settle"}
TextPlaces == {"edit", "redraw"}
IngestPlaces == {"upsert", "payload", "publish", "show", "setcard", "reread", "enqueue"}
CleanPlaces == {"read", "ask", "apply", "keep", "publish", "show", "setcard"}

\* What the bot has in hand is an update, and at which places.
BotHand ==
    LET h == proc["bot"]
    IN  h.at # "idle" =>
          /\ h.draft \in Drafts
          /\ \/ h.todo \in Input /\ h.todo.kind = "tap"
                /\ h.at \in TapPlaces /\ h.todo.draft = h.draft
             \/ h.todo \in Input /\ h.todo.kind = "text"
                /\ h.at \in TextPlaces \cup IngestPlaces

\* What the pipeline has in hand is a job for the draft it works on.
PipelineHand ==
    LET h == proc["pipeline"]
    IN  h.at # "idle" =>
          /\ h.draft \in Drafts
          /\ h.todo \in Job /\ h.todo.draft = h.draft
          /\ h.at \in IF h.todo.kind = "ingest" THEN IngestPlaces ELSE CleanPlaces

\* Whatever refers to a draft refers to a row of the table.  Only an ingestion
\* that has not written yet is ahead of it.
Existing ==
    /\ \A m \in Cards : chat[m] # NoDraft => Exists(chat[m])
    /\ \A i \in 1..Len(inbox) : inbox[i].kind = "tap" => Exists(inbox[i].draft)
    /\ \A j \in work : j.kind = "clean" => Exists(j.draft)
    /\ \A p \in Procs : proc[p].at \notin {"idle", "upsert"} => Exists(proc[p].draft)
    /\ \A i \in 1..Len(sweep) : Exists(sweep[i].draft)

IInv == TypeOK /\ BotHand /\ PipelineHand /\ Existing

\* A draft points to its product, and only a closed one has a product.
Pointers ==
    /\ \A i \in DOMAIN products : drafts[products[i].draft].product = i
    /\ \A d \in Drafts : drafts[d].product # 0 => drafts[d].status \in {"confirmed", "failed"}

\* A draft the bot is about to write has not been closed by the user.
Open ==
    LET h == proc["bot"]
        row == drafts[h.draft]
    IN  /\ h.at \in {"confirm", "close", "enter"} =>
              row.status \in Live \cup {"failed"} /\ row.product = 0
        /\ h.at \in {"prompt", "setprompt", "edit"} =>
              row.status \in Editing \cup {"failed"} /\ row.product = 0

\* An edit in hand still agrees with the row in the field it does not edit.
EditInHand ==
    LET h == proc["bot"]
        row == drafts[h.draft]
    IN  h.at = "edit" => IF h.snap.status = "editing_name" THEN h.fields.date = row.date
                                                           ELSE h.fields.name = row.name

OInv == IInv /\ Pointers /\ Open /\ EditInHand /\ PromptMeansEditing

\* No ingest job finds the draft of an earlier attempt.
Calm == \A p \in Procs : ~OverwriteDraft(p)
NoRewrite == [][Calm]_vars

Ingests(j) == j.kind = "ingest"
AtUpsert(p) == proc[p].at = "upsert"

\* Who is ingesting: the pipeline for as long as it has the job, which may be put
\* back; the bot, which never tries again, until the row is written.
InIngestion(p) ==
    AtUpsert(p) \/ (p = "pipeline" /\ proc[p].at # "idle" /\ Ingests(proc[p].todo))

FirstTry(p) == p = "bot" \/ proc[p].todo.tries = 0

\* No two ingestions are for one draft, and one in its first attempt is for a
\* draft that has no row.
Owned ==
    /\ \A d \in Drafts : d > traces => ~Exists(d)
    /\ \A j \in work : Ingests(j) => j.draft <= traces /\ (j.tries = 0 => ~Exists(j.draft))
    /\ \A j, k \in work : Ingests(j) /\ Ingests(k) /\ j.draft = k.draft => j = k
    /\ \A p \in Procs, j \in work : InIngestion(p) /\ Ingests(j) => proc[p].draft # j.draft
    /\ \A p \in Procs : InIngestion(p) => proc[p].draft <= traces
    /\ \A p \in Procs : AtUpsert(p) /\ FirstTry(p) => ~Exists(proc[p].draft)
    /\ \A p, q \in Procs :
          InIngestion(p) /\ InIngestion(q) /\ proc[p].draft = proc[q].draft => p = q

\* An ingest job that failed goes back to the queue.
PutsBack ==
    LET j == proc["pipeline"].todo
    IN  JobFails /\ Ingests(j) /\ j.tries + 1 < Attempts[j.kind]
NoRetry == [][~PutsBack]_vars

\* Every ingest job there is is in its first attempt.
FirstTries ==
    /\ \A j \in work : Ingests(j) => j.tries = 0
    /\ InIngestion("pipeline") => proc["pipeline"].todo.tries = 0

-----------------------------------------------------------------------------
(* The operators the steps are built from.                                  *)

\* Some of the drafts that are asked for was written last, and Latest is it.
LEMMA LatestOf ==
  ASSUME TypeOK, NEW S \in SUBSET Drafts, S # {}
  PROVE  Latest(S) \in S
<1> DEFINE older(d) == MaxDrafts - rank[d]
           R == {older(d) : d \in S}
<1>1. MaxDrafts \in Nat /\ \A d \in S : rank[d] \in 1..MaxDrafts
  BY DraftSessionAssumption DEF TypeOK, Drafts
<1>2. \A d \in S : older(d) \in Nat
  BY <1>1
<1>3. R \subseteq Nat /\ R # {}
  BY <1>2, Zenon
<1>4. PICK x \in R : \A y \in R : <<y, x>> \notin OpToRel(<, Nat)
  BY <1>3, WFMin, NatLessThanWellFounded
<1>5. \A y \in R : ~(y < x)
  BY <1>3, <1>4, Zenon DEF OpToRel
<1>6. PICK d \in S : x = older(d)
  OBVIOUS
<1>7. \A e \in S : ~(older(e) < older(d))
  BY <1>5, <1>6, Zenon
<1>8. \A e \in S : rank[e] <= rank[d]
  BY <1>1, <1>7
<1> QED
  BY <1>8 DEF Latest

\* One more write keeps the order of the rows an order.
LEMMA NewestTypes ==
  ASSUME TypeOK, NEW d \in Drafts, Newest(d)
  PROVE  rank' \in [Drafts -> Drafts]
<1>1. MaxDrafts \in Drafts
  BY DraftSessionAssumption DEF Drafts
<1>2. ASSUME NEW e \in Drafts, rank[e] > rank[d]
      PROVE  rank[e] - 1 \in Drafts
  <2>1. rank[e] \in Drafts /\ rank[d] \in Drafts /\ MaxDrafts \in Nat
    BY DraftSessionAssumption DEF TypeOK
  <2> QED
    BY <1>2, <2>1 DEF Drafts
<1> QED
  BY <1>1, <1>2 DEF Newest, TypeOK

\* Every row a statement writes has the type of a row.
LEMMA RowTypes ==
  ASSUME TypeOK, NEW d \in Drafts
  PROVE  /\ \A s \in Live \cup Terminal : StatusRow(d, s) \in Row
         /\ \A f \in Fields : /\ FieldsRow(d, f) \in Row
                              /\ CreatedRow(f) \in Row
                              /\ CleanedRow(d, f) \in Row
         /\ PayloadRow(d) \in Row
         /\ \A m \in Cards \cup {NoCard} : [drafts[d] EXCEPT !.card = m] \in Row
         /\ \A act : /\ EditStatus(act) \in Editing
                     /\ [drafts[d] EXCEPT !.prompt = EditStatus(act)] \in Row
<1>1. drafts[d] \in Row
  BY DEF TypeOK
<1>2. ASSUME NEW s \in Live \cup Terminal PROVE StatusRow(d, s) \in Row
  <2>1. (IF s \in Editing THEN drafts[d].prompt ELSE NoPrompt) \in Editing \cup {NoPrompt}
    BY <1>1 DEF Row
  <2> QED
    BY <1>1, <2>1 DEF Row, StatusRow
<1>3. ASSUME NEW f \in Fields
      PROVE  FieldsRow(d, f) \in Row /\ CreatedRow(f) \in Row /\ CleanedRow(d, f) \in Row
  BY <1>1 DEF Row, Fields, FieldsRow, CreatedRow, CleanedRow, NoRow, NoCard, Live, Editing
<1>4. ASSUME NEW m \in Cards \cup {NoCard} PROVE [drafts[d] EXCEPT !.card = m] \in Row
  BY <1>1 DEF Row
<1>5. PayloadRow(d) \in Row
  BY <1>1 DEF PayloadRow
<1>6. ASSUME NEW act
      PROVE  EditStatus(act) \in Editing /\ [drafts[d] EXCEPT !.prompt = EditStatus(act)] \in Row
  <2>1. EditStatus(act) \in Editing
    BY DEF EditStatus, Editing
  <2> QED
    BY <1>1, <2>1 DEF Row
<1> QED
  BY <1>2, <1>3, <1>4, <1>5, <1>6

\* A write changes one row and the order.
LEMMA WriteTypes ==
  ASSUME TypeOK, NEW d \in Drafts, NEW row \in Row, Write(d, row)
  PROVE  /\ drafts' \in [Drafts -> Row]
         /\ rank' \in [Drafts -> Drafts]
  BY NewestTypes DEF TypeOK, Write

\* What is read of a row has the type of a row.
LEMMA SnapTypes ==
  ASSUME NEW row \in Row
  PROVE  /\ NoRow \in Row
         /\ StatusOf(row) \in Row
         /\ ContentOf(row) \in Row
         /\ CardOf(row) \in Row
  BY DEF Row, NoRow, StatusOf, ContentOf, CardOf, NoCard

\* A process that goes on, forgets or ends has the type of a process.
LEMMA HandTypes ==
  ASSUME TypeOK, NEW p \in Procs, NEW place \in Places
  PROVE  /\ Idle \in InHand
         /\ Goto(p, place) => proc' \in [Procs -> InHand]
         /\ Forget(p, place) => proc' \in [Procs -> InHand]
         /\ Done(p) => proc' \in [Procs -> InHand]
<1>1. NoFields \in Fields /\ NoRow \in Row
  BY DEF NoFields, Fields, NoRow, Row, NoCard
<1>2. Idle \in InHand
  BY <1>1 DEF Idle, InHand, Places, NoCard
<1>3. proc[p] \in InHand
  BY DEF TypeOK
<1>4. Goto(p, place) => proc' \in [Procs -> InHand]
  <2>1. [proc[p] EXCEPT !.at = place] \in InHand
    BY <1>3 DEF InHand
  <2> QED
    BY <2>1 DEF TypeOK, Goto
<1>5. Forget(p, place) => proc' \in [Procs -> InHand]
  <2>1. [proc[p] EXCEPT !.at = place, !.snap = NoRow, !.fields = NoFields, !.card = NoCard]
          \in InHand
    BY <1>1, <1>3 DEF InHand
  <2> QED
    BY <2>1 DEF TypeOK, Forget
<1> QED
  BY <1>2, <1>4, <1>5 DEF TypeOK, Done

\* So has a process that reads a row or sends a card.
LEMMA ReadingTypes ==
  ASSUME NEW h \in InHand, NEW place \in Places, NEW row \in Row
  PROVE  /\ [h EXCEPT !.at = place, !.snap = row] \in InHand
         /\ \A m \in Cards : [h EXCEPT !.at = place, !.card = m, !.snap = row] \in InHand
         /\ \A f \in Fields : [h EXCEPT !.at = place, !.fields = f, !.snap = row] \in InHand
  BY DEF InHand

\* So has a process that takes an update or a job in hand.
LEMMA TakingTypes ==
  ASSUME NEW place \in Places, NEW d \in Drafts, NEW u \in Input \cup Job
  PROVE  /\ \A m \in Cards \cup {NoCard} :
               [Idle EXCEPT !.at = place, !.draft = d, !.card = m, !.todo = u] \in InHand
         /\ \A f \in Fields :
               /\ [Idle EXCEPT !.at = place, !.draft = d, !.fields = f, !.todo = u] \in InHand
               /\ [Idle EXCEPT !.at = place, !.draft = d, !.todo = u, !.fields = f] \in InHand
               /\ \A row \in Row : [Idle EXCEPT !.at = place, !.draft = d, !.snap = row,
                                               !.fields = f, !.todo = u] \in InHand
<1>1. NoFields \in Fields /\ NoRow \in Row /\ NoCard \in Cards \cup {NoCard}
  BY DEF NoFields, Fields, NoRow, Row, NoCard
<1> QED
  BY <1>1 DEF Idle, InHand

\* What handleDraftCallback makes of a tap on a draft that exists.
LEMMA RouteTypes ==
  ASSUME NEW row \in Row, row.status # "absent", NEW act \in Acts
  PROVE  /\ Route(act, row) \in {"idle", "dismiss", "confirm", "close", "enter"}
         /\ Route(act, row) \in {"confirm", "close", "enter"} => row.status \in Live
<1>1. row.status \in Live \cup Terminal
  BY DEF Row
<1> QED
  BY <1>1 DEF Route, Acts, Live, Editing, Terminal

\* What an edit writes are fields.
LEMMA EditedTypes ==
  ASSUME NEW text \in Texts
  PROVE  /\ text.parsed \in Fields
         /\ \A row \in Row : Edited(row, text) \in Fields
<1>1. text \in Text
  BY DraftSessionAssumption
<1> QED
  BY <1>1 DEF Text, Row, Fields, Edited

\* Taking the first update out of the mailbox.
LEMMA InboxFacts ==
  ASSUME TypeOK, inbox # <<>>
  PROVE  /\ Head(inbox) \in Input
         /\ Head(inbox) = inbox[1] /\ 1 \in 1..Len(inbox)
         /\ Tail(inbox) \in Seq(Input)
         /\ Len(Tail(inbox)) = Len(inbox) - 1 /\ Len(inbox) \in Nat
         /\ \A i \in 1..Len(Tail(inbox)) : Tail(inbox)[i] = inbox[i + 1] /\ i + 1 \in 1..Len(inbox)
<1>1. inbox \in Seq(Input) /\ Len(inbox) \in Nat \ {0}
  BY EmptySeq DEF TypeOK
<1>2. Head(inbox) = inbox[1]
  BY <1>1
<1> QED
  BY <1>1, <1>2, HeadTailProperties

Entry == [draft : Drafts, card : Cards \cup {NoCard}, marked : BOOLEAN]

\* Working through the list of a tick.
LEMMA SweepFacts ==
  ASSUME TypeOK, sweep # <<>>
  PROVE  /\ Head(sweep) \in Entry
         /\ Head(sweep) = sweep[1] /\ 1 \in 1..Len(sweep)
         /\ Tail(sweep) \in Seq(Entry)
         /\ Len(Tail(sweep)) = Len(sweep) - 1 /\ Len(sweep) \in Nat
         /\ \A i \in 1..Len(Tail(sweep)) : Tail(sweep)[i] = sweep[i + 1] /\ i + 1 \in 1..Len(sweep)
         /\ LET marked == [sweep EXCEPT ![1].marked = TRUE]
            IN  /\ marked \in Seq(Entry)
                /\ Len(marked) = Len(sweep)
                /\ \A i \in 1..Len(sweep) : marked[i].draft = sweep[i].draft
<1>1. sweep \in Seq(Entry) /\ Len(sweep) \in Nat \ {0}
  BY EmptySeq DEF TypeOK, Entry
<1>2. Head(sweep) = sweep[1] /\ 1 \in 1..Len(sweep)
  BY <1>1
<1> DEFINE e == [sweep[1] EXCEPT !.marked = TRUE]
<1>3. sweep[1] \in Entry /\ e \in Entry /\ e.draft = sweep[1].draft
  <2>1. sweep[1] \in Entry
    BY <1>1, <1>2, ElementOfSeq
  <2> QED
    BY <2>1 DEF Entry
<1> HIDE DEF e
<1>4. /\ [sweep EXCEPT ![1] = e] \in Seq(Entry)
      /\ Len([sweep EXCEPT ![1] = e]) = Len(sweep)
      /\ \A j \in 1..Len(sweep) : [sweep EXCEPT ![1] = e][j] = IF j = 1 THEN e ELSE sweep[j]
  BY <1>1, <1>2, <1>3, ExceptSeq
<1>5. [sweep EXCEPT ![1].marked = TRUE] = [sweep EXCEPT ![1] = e]
  BY DEF e
<1>6. /\ [sweep EXCEPT ![1].marked = TRUE] \in Seq(Entry)
      /\ Len([sweep EXCEPT ![1].marked = TRUE]) = Len(sweep)
      /\ \A i \in 1..Len(sweep) : [sweep EXCEPT ![1].marked = TRUE][i].draft = sweep[i].draft
  BY <1>3, <1>4, <1>5
<1>7. /\ Head(sweep) \in Entry
      /\ Tail(sweep) \in Seq(Entry)
      /\ Len(Tail(sweep)) = Len(sweep) - 1
      /\ \A i \in 1..Len(Tail(sweep)) : Tail(sweep)[i] = sweep[i + 1]
  BY <1>1, HeadTailProperties
<1>8. \A i \in 1..Len(Tail(sweep)) : i + 1 \in 1..Len(sweep)
  BY <1>1, <1>7
<1> QED
  BY <1>1, <1>2, <1>6, <1>7, <1>8

\* The list of a tick names stale drafts.
LEMMA StaleFacts ==
  ASSUME TypeOK, SweepList
  PROVE  /\ sweep' \in Seq(Entry)
         /\ \A i \in 1..Len(sweep') : Exists(sweep'[i].draft)
<1>1. Stale \subseteq Drafts /\ IsFiniteSet(Drafts)
  <2>1. IsFiniteSet(Drafts)
    BY FS_Interval, DraftSessionAssumption DEF Drafts
  <2> QED
    BY <2>1 DEF Stale, TypeOK
<1>2. Cardinality(Stale) \in Nat
  BY <1>1, FS_Subset, FS_CardinalityType
<1> DEFINE n == Cardinality(Stale)
<1>3. PICK s \in [1..n -> Stale] :
        sweep' = [i \in DOMAIN s |-> [draft |-> s[i], card |-> drafts[s[i]].card, marked |-> FALSE]]
  BY DEF SweepList
<1> HIDE DEF n
<1>4. \A i \in 1..n : drafts[s[i]] \in Row /\ s[i] \in Drafts /\ Exists(s[i])
  BY <1>1, <1>3 DEF TypeOK, Stale, Exists, Live, Editing
<1>5. ASSUME NEW i \in 1..n
      PROVE  /\ [draft |-> s[i], card |-> drafts[s[i]].card, marked |-> FALSE] \in Entry
             /\ sweep'[i].draft = s[i]
  BY <1>3, <1>4 DEF Entry, Row
<1>6. sweep' \in [1..n -> Entry]
  BY <1>3, <1>5
<1>7. sweep' \in Seq(Entry) /\ Len(sweep') = n
  BY <1>2, <1>6, SeqDef DEF n
<1> QED
  BY <1>4, <1>5, <1>7

-----------------------------------------------------------------------------
(* Types.                                                                  *)

\* A user with no drafts is in the invariant.
LEMMA InitIInv == Init => IInv
<1> SUFFICES ASSUME Init PROVE IInv
  OBVIOUS
<1>1. NoRow \in Row /\ Idle \in InHand
  BY DEF NoRow, Row, NoCard, Idle, InHand, NoFields, Fields, Places
<1>2. <<>> \in Seq(Input) /\ Len(<<>>) = 0
  BY EmptySeq
<1>3. TypeOK
  BY <1>1, DraftSessionAssumption DEF Init, TypeOK, Cards, Drafts, NoDraft
<1>4. \A p \in Procs : proc[p].at = "idle"
  BY DEF Init, Idle
<1> QED
  BY <1>2, <1>3, <1>4 DEF Init, IInv, BotHand, PipelineHand, Existing, Procs, NoDraft

\* Where the bot and the pipeline act, their draft is one of the table.
LEMMA HandFacts ==
  ASSUME IInv
  PROVE  /\ \A p \in Procs : /\ proc[p] \in InHand
                             /\ proc[p].at # "idle" => proc[p].draft \in Drafts
         /\ "bot" \in Procs /\ "pipeline" \in Procs
  BY DEF IInv, TypeOK, Procs, BotHand, PipelineHand

\* What fails is counted up to the bound.
LEMMA FailsTypes == ASSUME TypeOK, Fails PROVE faults' \in 0..MaxFaults
  BY DraftSessionAssumption DEF TypeOK, Fails

\* A user's update joins the mailbox.
LEMMA ArrivesFacts ==
  ASSUME TypeOK, NEW u \in Input, Arrives(u)
  PROVE  /\ inbox' \in Seq(Input)
         /\ \A i \in 1..Len(inbox') : (i \in 1..Len(inbox) /\ inbox'[i] = inbox[i]) \/ inbox'[i] = u
<1>1. inbox \in Seq(Input) /\ Len(inbox) \in Nat
  BY LenProperties DEF TypeOK
<1>2. inbox' = Append(inbox, u)
  BY DEF Arrives
<1> QED
  BY <1>1, <1>2, AppendProperties

\* Every step of a user keeps the types.
LEMMA UserTypes == ASSUME IInv, User PROVE TypeOK'
<1>1. TypeOK
  BY DEF IInv
<1>2. ASSUME NEW u \in Input, Arrives(u) PROVE TypeOK'
  BY <1>1, <1>2, ArrivesFacts DEF TypeOK, Arrives, table, telegram, queue, scheduler
<1>3. ASSUME NEW m \in Cards, NEW act \in Acts, Tap(m, act) PROVE TypeOK'
  <2>1. chat[m] \in Drafts
    BY <1>1, <1>3 DEF TypeOK, Tap
  <2>2. [kind |-> "tap", act |-> act, draft |-> chat[m]] \in Input
    BY <2>1 DEF Input
  <2> QED
    BY <1>2, <1>3, <2>2 DEF Tap
<1>4. ASSUME NEW text \in Texts, Say(text) PROVE TypeOK'
  BY <1>2, <1>4 DEF Say, Input
<1>5. ASSUME NEW parsed \in Voices, Speak(parsed) PROVE TypeOK'
  BY <1>2, <1>5 DEF Speak, Input
<1> QED
  BY <1>3, <1>4, <1>5 DEF User

\* Every step of the ingestion keeps the types, whoever takes it.
LEMMA IngestTypes == ASSUME IInv, NEW p \in Procs, Ingest(p) PROVE TypeOK'
<1> USE DEF table, telegram, queue, scheduler
<1>1. /\ TypeOK
      /\ proc[p] \in InHand
      /\ proc[p].at # "idle" => proc[p].draft \in Drafts /\ drafts[proc[p].draft] \in Row
      /\ proc[p].fields \in Fields /\ proc[p].card \in Cards \cup {NoCard}
  BY HandFacts DEF IInv, TypeOK, InHand
<1>2. IngestPlaces \subseteq Places /\ "idle" \in Places
  BY DEF Places, IngestPlaces
<1>3. CASE CreateDraft(p)
  <2>1. proc[p].draft \in Drafts /\ CreatedRow(proc[p].fields) \in Row
    BY <1>1, <1>3, RowTypes DEF CreateDraft, At
  <2> QED
    BY <1>1, <1>2, <1>3, <2>1, WriteTypes, HandTypes DEF CreateDraft, TypeOK, IngestPlaces
<1>4. CASE OverwriteDraft(p)
  <2>1. proc[p].draft \in Drafts /\ FieldsRow(proc[p].draft, proc[p].fields) \in Row
    BY <1>1, <1>4, RowTypes DEF OverwriteDraft, At
  <2> QED
    BY <1>1, <1>2, <1>4, <2>1, WriteTypes, HandTypes DEF OverwriteDraft, TypeOK, IngestPlaces
<1>5. CASE OverwritePayload(p)
  <2>1. proc[p].draft \in Drafts /\ PayloadRow(proc[p].draft) \in Row
    BY <1>1, <1>5, RowTypes DEF OverwritePayload, At
  <2> QED
    BY <1>1, <1>2, <1>5, <2>1, WriteTypes, HandTypes DEF OverwritePayload, TypeOK, IngestPlaces
<1>6. CASE PublishRead(p)
  <2>1. CardOf(drafts[proc[p].draft]) \in Row /\ "show" \in Places
    BY <1>1, <1>6, SnapTypes DEF PublishRead, At, Places
  <2>2. [proc[p] EXCEPT !.at = "show", !.snap = CardOf(drafts[proc[p].draft])] \in InHand
    BY <1>1, <2>1, ReadingTypes
  <2>3. proc' \in [Procs -> InHand]
    BY <1>1, <1>6, <2>2 DEF PublishRead, TypeOK
  <2> QED
    BY <1>1, <1>6, <2>3 DEF PublishRead, TypeOK
<1>7. ASSUME Published(p) PROVE proc' \in [Procs -> InHand]
  BY <1>1, <1>2, <1>7, HandTypes DEF Published, IngestPlaces
<1>8. CASE PublishEdit(p)
  BY <1>1, <1>7, <1>8 DEF PublishEdit, TypeOK
<1>9. CASE PublishSend(p)
  <2>1. nextCard \in Cards /\ nextCard + 1 \in 1..(MaxCards + 1)
    <3>1. nextCard \in 1..(MaxCards + 1) /\ MaxCards \in Nat
      BY <1>1, DraftSessionAssumption DEF TypeOK
    <3>2. nextCard <= MaxCards
      BY <1>9 DEF PublishSend
    <3> QED
      BY <3>1, <3>2 DEF Cards
  <2>2. NoRow \in Row /\ "setcard" \in Places /\ proc[p].draft \in Drafts
    BY <1>1, <1>9, HandTypes DEF PublishSend, At, NoRow, Row, NoCard, Places
  <2>3. [proc[p] EXCEPT !.at = "setcard", !.card = nextCard, !.snap = NoRow] \in InHand
    BY <1>1, <2>1, <2>2, ReadingTypes
  <2> QED
    BY <1>1, <1>9, <2>1, <2>2, <2>3 DEF PublishSend, TypeOK
<1>10. CASE SetCard(p)
  <2>1. proc[p].draft \in Drafts /\ [drafts[proc[p].draft] EXCEPT !.card = proc[p].card] \in Row
    BY <1>1, <1>10, RowTypes DEF SetCard, At
  <2> QED
    BY <1>1, <1>7, <1>10, <2>1, WriteTypes DEF SetCard, TypeOK
<1>11. CASE ReadPublished(p)
  <2>1. StatusOf(drafts[proc[p].draft]) \in Row /\ "enqueue" \in Places
    BY <1>1, <1>11, SnapTypes DEF ReadPublished, At, Places
  <2>2. [proc[p] EXCEPT !.at = "enqueue", !.snap = StatusOf(drafts[proc[p].draft])] \in InHand
    BY <1>1, <2>1, ReadingTypes
  <2> QED
    BY <1>1, <1>11, <2>2 DEF ReadPublished, TypeOK
<1>12. CASE EnqueueCleaner(p)
  <2>1. proc[p].draft \in Drafts
    BY <1>1, <1>12 DEF EnqueueCleaner, At
  <2>2. [kind |-> "clean", draft |-> proc[p].draft, tries |-> 0] \in Job
    BY <2>1 DEF Job
  <2> QED
    BY <1>1, <1>12, <2>1, <2>2, HandTypes DEF EnqueueCleaner, TypeOK, Places
<1> QED
  BY <1>3, <1>4, <1>5, <1>6, <1>8, <1>9, <1>10, <1>11, <1>12 DEF Ingest

\* Every step of the bot keeps the types.
LEMMA BotTypes == ASSUME IInv, Bot PROVE TypeOK'
<1> USE DEF table, telegram, queue, scheduler
<1> DEFINE h == proc["bot"]
<1>1. /\ TypeOK
      /\ h \in InHand /\ "bot" \in Procs
      /\ h.at # "idle" => h.draft \in Drafts /\ drafts[h.draft] \in Row
      /\ h.fields \in Fields /\ h.card \in Cards \cup {NoCard}
  BY HandFacts DEF IInv, TypeOK, InHand
<1>3. /\ \A place \in TapPlaces \cup TextPlaces :
            Goto("bot", place) \/ Forget("bot", place) => proc' \in [Procs -> InHand]
      /\ Done("bot") => proc' \in [Procs -> InHand]
      /\ Idle \in InHand
  <2>1. TapPlaces \cup TextPlaces \subseteq Places /\ "idle" \in Places
    BY DEF Places, TapPlaces, TextPlaces
  <2> QED
    BY <1>1, <2>1, HandTypes
<1>4. Enqueued(h.card) => deletions' \subseteq Cards
  BY <1>1 DEF Enqueued, TypeOK
<1>5. /\ h.at # "idle" => \A s \in Live \cup Terminal : StatusRow(h.draft, s) \in Row
      /\ h.at # "idle" => /\ FieldsRow(h.draft, h.fields) \in Row
                          /\ \A act : /\ EditStatus(act) \in Editing
                                      /\ [drafts[h.draft] EXCEPT !.prompt = EditStatus(act)] \in Row
  BY <1>1, RowTypes
<1>6. ASSUME NEW row \in Row, h.at # "idle", Write(h.draft, row)
      PROVE  drafts' \in [Drafts -> Row] /\ rank' \in [Drafts -> Drafts]
  BY <1>1, <1>6, WriteTypes
<1>7. inbox # <<>> => Head(inbox) \in Input /\ Tail(inbox) \in Seq(Input)
  BY <1>1, InboxFacts
<1>8. CASE HandleTap
  <2> DEFINE u == Head(inbox)
             place == Route(u.act, drafts[u.draft])
  <2>1. u \in Input /\ u.kind = "tap" /\ u = inbox[1] /\ 1 \in 1..Len(inbox)
    BY <1>1, <1>8, InboxFacts DEF HandleTap
  <2>2. u.draft \in Drafts /\ u.act \in Acts
    BY <2>1 DEF Input
  <2>3. Exists(u.draft)
    BY <2>1 DEF IInv, Existing
  <2>4. drafts[u.draft] \in Row /\ drafts[u.draft].card \in Cards \cup {NoCard}
    BY <1>1, <2>2 DEF TypeOK, Row
  <2>5. place \in Places
    BY <2>2, <2>3, <2>4, RouteTypes DEF Exists, Places
  <2>6. [Idle EXCEPT !.at = place, !.draft = u.draft, !.card = drafts[u.draft].card, !.todo = u]
          \in InHand
    BY <2>1, <2>2, <2>4, <2>5, TakingTypes
  <2>7. proc' \in [Procs -> InHand]
    BY <1>1, <1>3, <1>8, <2>6 DEF HandleTap, TypeOK
  <2> QED
    BY <1>1, <1>7, <1>8, <2>7 DEF HandleTap, TypeOK
<1>9. CASE DismissCard
  BY <1>1, <1>3, <1>4, <1>9 DEF DismissCard, TypeOK
<1>10. CASE ConfirmDraft
  <2>1. h.at # "idle" /\ "finish" \in TapPlaces
    BY <1>10 DEF ConfirmDraft, At, TapPlaces
  <2>2. proc' \in [Procs -> InHand]
    BY <1>3, <1>10, <2>1 DEF ConfirmDraft
  <2>3. CASE UNCHANGED <<drafts, rank, products>>
    BY <1>1, <1>10, <2>2, <2>3 DEF ConfirmDraft, TypeOK
  <2>4. CASE drafts[h.draft].status \in Live /\ Complete(drafts[h.draft])
    <3> DEFINE made == [draft |-> h.draft, name |-> drafts[h.draft].name,
                        date |-> drafts[h.draft].date]
               row == [StatusRow(h.draft, "confirmed") EXCEPT !.product = Len(products) + 1]
               Made == [draft : Drafts, name : Names \cup {Missing}, date : Dates \cup {Missing}]
    <3>1. made \in Made
      BY <1>1, <2>1 DEF Row
    <3>2. products \in Seq(Made) /\ Len(products) + 1 \in Nat
      BY <1>1, LenProperties DEF TypeOK
    <3>3. Append(products, made) \in Seq(Made)
      BY <3>1, <3>2, AppendProperties
    <3>4. StatusRow(h.draft, "confirmed") \in Row
      BY <1>5, <2>1 DEF Terminal
    <3>5. row \in Row
      BY <3>2, <3>4 DEF Row
    <3>6. products' = Append(products, made) /\ Write(h.draft, row)
      BY <1>10, <2>4 DEF ConfirmDraft
    <3> HIDE DEF row, made
    <3>7. drafts' \in [Drafts -> Row] /\ rank' \in [Drafts -> Drafts]
      BY <1>6, <2>1, <3>5, <3>6
    <3> QED
      BY <1>1, <1>10, <2>2, <3>3, <3>6, <3>7 DEF ConfirmDraft, TypeOK
  <2> QED
    BY <1>10, <2>3, <2>4 DEF ConfirmDraft
<1>11. CASE CloseDraft
  BY <1>1, <1>3, <1>5, <1>6, <1>11 DEF CloseDraft, At, TypeOK, TapPlaces, Terminal
<1>12. CASE DeleteCardNow
  <2>1. chat' \in [Cards -> Drafts \cup {NoDraft}]
    BY <1>1, <1>12 DEF DeleteCardNow, TypeOK
  <2>2. faults' \in 0..MaxFaults
    BY <1>1, <1>12, FailsTypes DEF DeleteCardNow, TypeOK
  <2> QED
    BY <1>1, <1>3, <1>12, <2>1, <2>2 DEF DeleteCardNow, TypeOK, TapPlaces
<1>13. CASE ScheduleDelete
  BY <1>1, <1>3, <1>4, <1>13 DEF ScheduleDelete, TypeOK
<1>14. CASE EnterEdit
  BY <1>1, <1>3, <1>5, <1>6, <1>14 DEF EnterEdit, EditStatus, At, TypeOK, TapPlaces, Live, Editing
<1>15. CASE SendPrompt
  BY <1>1, <1>3, <1>15 DEF SendPrompt, TypeOK, TapPlaces
<1>16. CASE SetPrompt
  BY <1>1, <1>3, <1>5, <1>6, <1>16 DEF SetPrompt, At, TypeOK
<1>17. CASE HandleEditText
  <2> DEFINE u == Head(inbox)
             d == Latest(Editable)
  <2>1. u \in Input /\ u.kind = "text"
    BY <1>1, <1>17, InboxFacts DEF HandleEditText
  <2>2. u.text \in Texts
    BY <2>1 DEF Input
  <2>3. d \in Drafts
    BY <1>1, <1>17, LatestOf DEF HandleEditText, Editable
  <2>4. drafts[d] \in Row
    BY <1>1, <2>3 DEF TypeOK
  <2> HIDE DEF u, d
  <2>5. StatusOf(drafts[d]) \in Row /\ Edited(drafts[d], u.text) \in Fields
    BY <2>2, <2>4, SnapTypes, EditedTypes
  <2>6. "edit" \in Places
    BY DEF Places
  <2>7. [Idle EXCEPT !.at = "edit", !.draft = d, !.snap = StatusOf(drafts[d]),
                     !.fields = Edited(drafts[d], u.text), !.todo = u] \in InHand
    BY <2>1, <2>3, <2>5, <2>6, TakingTypes
  <2>8. proc' \in [Procs -> InHand]
    BY <1>1, <1>3, <1>17, <2>7 DEF HandleEditText, TypeOK, u, d
  <2> QED
    BY <1>1, <1>7, <1>17, <2>8 DEF HandleEditText, TypeOK
<1>18. CASE HandleNewText
  <2> DEFINE u == Head(inbox)
  <2>1. u \in Input /\ u.kind = "text"
    BY <1>1, <1>18, InboxFacts DEF HandleNewText
  <2>2. u.text.parsed \in Fields /\ "upsert" \in Places
    BY <2>1, EditedTypes DEF Input, Places
  <2>3. CASE UNCHANGED <<traces, proc>>
    BY <1>1, <1>7, <1>18, <2>3 DEF HandleNewText, TypeOK
  <2>4. CASE u.text.parsed # NoFields /\ traces # MaxDrafts
    <3>1. traces + 1 \in Drafts /\ traces + 1 \in 0..MaxDrafts
      BY <1>1, <2>4, DraftSessionAssumption DEF TypeOK, Drafts
    <3>2. [Idle EXCEPT !.at = "upsert", !.draft = traces + 1, !.fields = u.text.parsed, !.todo = u]
             \in InHand
      BY <2>1, <2>2, <3>1, TakingTypes
    <3>3. proc' \in [Procs -> InHand]
      BY <1>1, <1>18, <2>4, <3>2 DEF HandleNewText, NewTrace, TypeOK
    <3> QED
      BY <1>1, <1>7, <1>18, <2>4, <3>1, <3>3 DEF HandleNewText, TypeOK
  <2> QED
    BY <1>18, <2>3, <2>4 DEF HandleNewText
<1>19. CASE HandleVoice
  <2> DEFINE u == Head(inbox)
  <2>1. u \in Input /\ u.kind = "voice"
    BY <1>1, <1>19, InboxFacts DEF HandleVoice
  <2>2. u.parsed \in Fields
    BY <2>1, DraftSessionAssumption DEF Input
  <2>3. CASE UNCHANGED <<traces, work>>
    BY <1>1, <1>7, <1>19, <2>3 DEF HandleVoice, TypeOK
  <2>4. CASE traces # MaxDrafts
    <3>1. traces + 1 \in Drafts /\ traces + 1 \in 0..MaxDrafts
      BY <1>1, <2>4, DraftSessionAssumption DEF TypeOK, Drafts
    <3>2. [kind |-> "ingest", draft |-> traces + 1, parsed |-> u.parsed, tries |-> 0] \in Job
      BY <2>2, <3>1 DEF Job
    <3> QED
      BY <1>1, <1>7, <1>19, <2>4, <3>1, <3>2 DEF HandleVoice, NewTrace, TypeOK
  <2> QED
    BY <1>19, <2>3, <2>4 DEF HandleVoice
<1>20. CASE ApplyEdit
  BY <1>1, <1>3, <1>5, <1>6, <1>20 DEF ApplyEdit, At, TypeOK, TextPlaces
<1>21. CASE RedrawCard
  BY <1>1, <1>3, <1>21 DEF RedrawCard, TypeOK
<1> QED
  BY <1>1, <1>8, <1>9, <1>10, <1>11, <1>12, <1>13, <1>14, <1>15, <1>16, <1>17, <1>18, <1>19,
     <1>20, <1>21, IngestTypes DEF Bot

\* Every step of the pipeline keeps the types.
LEMMA PipelineTypes == ASSUME IInv, Pipeline PROVE TypeOK'
<1> USE DEF table, telegram, queue, scheduler
<1> DEFINE h == proc["pipeline"]
<1>1. /\ TypeOK
      /\ h \in InHand /\ "pipeline" \in Procs
      /\ h.at # "idle" => h.draft \in Drafts /\ drafts[h.draft] \in Row
      /\ h.fields \in Fields
  BY HandFacts DEF IInv, TypeOK, InHand
<1>2. /\ \A place \in {"keep", "publish"} :
            Goto("pipeline", place) \/ Forget("pipeline", place) => proc' \in [Procs -> InHand]
      /\ Done("pipeline") => proc' \in [Procs -> InHand]
  <2>1. {"keep", "publish", "idle"} \subseteq Places
    BY DEF Places
  <2> QED
    BY <1>1, <2>1, HandTypes
<1>3. ASSUME NEW row \in Row, h.at # "idle", Write(h.draft, row)
      PROVE  drafts' \in [Drafts -> Row] /\ rank' \in [Drafts -> Drafts]
  BY <1>1, <1>3, WriteTypes
<1>4. h.at # "idle" => CleanedRow(h.draft, h.fields) \in Row /\ PayloadRow(h.draft) \in Row
  BY <1>1, RowTypes
<1>5. ASSUME NEW j \in work, StartJob(j) PROVE TypeOK'
  <2> DEFINE place == IF j.kind = "ingest" THEN "upsert" ELSE "read"
             f == IF j.kind = "ingest" THEN j.parsed ELSE NoFields
  <2>1. j \in Job /\ j.draft \in Drafts /\ place \in Places
    BY <1>1 DEF TypeOK, Job, Places
  <2>2. f \in Fields
    BY <2>1 DEF Job, NoFields, Fields
  <2> HIDE DEF place, f
  <2>3. [Idle EXCEPT !.at = place, !.draft = j.draft, !.todo = j, !.fields = f] \in InHand
    BY <2>1, <2>2, TakingTypes
  <2>4. proc' \in [Procs -> InHand]
    BY <1>1, <1>5, <2>3 DEF StartJob, TypeOK, place, f
  <2> QED
    BY <1>1, <1>5, <2>4 DEF StartJob, TypeOK
<1>6. CASE CleanRead
  <2>1. h.at # "idle" /\ "ask" \in Places
    BY <1>6 DEF CleanRead, At, Places
  <2>2. ContentOf(drafts[h.draft]) \in Row
    BY <1>1, <2>1, SnapTypes
  <2>3. [h EXCEPT !.at = "ask", !.snap = ContentOf(drafts[h.draft])] \in InHand
    BY <1>1, <2>1, <2>2, ReadingTypes
  <2>4. proc' \in [Procs -> InHand]
    BY <1>1, <1>2, <1>6, <2>3 DEF CleanRead, TypeOK
  <2> QED
    BY <1>1, <1>6, <2>4 DEF CleanRead, TypeOK
<1>7. ASSUME NEW f \in Fields, CleanChosen(f) PROVE TypeOK'
  <2>1. "apply" \in Places /\ NoRow \in Row
    BY DEF Places, NoRow, Row, NoCard
  <2>2. [h EXCEPT !.at = "apply", !.fields = f, !.snap = NoRow] \in InHand
    BY <1>1, <2>1, ReadingTypes
  <2>3. proc' \in [Procs -> InHand]
    BY <1>1, <1>7, <2>2 DEF CleanChosen, TypeOK
  <2> QED
    BY <1>1, <1>7, <2>3 DEF CleanChosen, TypeOK
<1>8. CASE CleanRejected
  BY <1>1, <1>2, <1>8 DEF CleanRejected, TypeOK
<1>9. CASE CleanApply
  BY <1>1, <1>2, <1>3, <1>4, <1>9 DEF CleanApply, At, TypeOK
<1>10. CASE CleanKeep
  BY <1>1, <1>2, <1>3, <1>4, <1>10 DEF CleanKeep, At, TypeOK
<1> QED
  BY <1>1, <1>5, <1>6, <1>7, <1>8, <1>9, <1>10, IngestTypes DEF Pipeline

\* Every step of the sweep, and a deletion job, keeps the types.
LEMMA SweeperTypes ==
  ASSUME IInv, Sweeper \/ (\E d \in Drafts : Age(d)) \/ (\E m \in Cards : DeleteJob(m))
  PROVE  TypeOK'
<1> USE DEF table, telegram, queue, scheduler
<1>1. TypeOK
  BY DEF IInv
<1>2. CASE SweepList
  BY <1>1, <1>2, StaleFacts DEF SweepList, TypeOK, Entry
<1>3. sweep # <<>> => /\ Head(sweep) \in Entry
                      /\ Tail(sweep) \in Seq(Entry)
                      /\ [sweep EXCEPT ![1].marked = TRUE] \in Seq(Entry)
  BY <1>1, SweepFacts
<1>4. CASE SweepEnqueue
  <2>1. Head(sweep).draft \in Drafts /\ Head(sweep).card \in Cards \cup {NoCard}
    BY <1>3, <1>4 DEF SweepEnqueue, Entry
  <2>2. deletions' \subseteq Cards /\ swept' \subseteq Drafts
    BY <1>1, <1>4, <2>1 DEF SweepEnqueue, Enqueued, TypeOK
  <2> QED
    BY <1>1, <1>3, <1>4, <2>2 DEF SweepEnqueue, TypeOK, Entry
<1>5. CASE SweepFail
  <2>1. Head(sweep).draft \in Drafts
    BY <1>3, <1>5 DEF SweepFail, Entry
  <2>2. StatusRow(Head(sweep).draft, "failed") \in Row
    BY <1>1, <2>1, RowTypes DEF Terminal
  <2>3. drafts' \in [Drafts -> Row] /\ rank' \in [Drafts -> Drafts]
    BY <1>1, <1>5, <2>1, <2>2, WriteTypes DEF SweepFail
  <2> QED
    BY <1>1, <1>3, <1>5, <2>3 DEF SweepFail, TypeOK, Entry
<1>6. ASSUME NEW d \in Drafts, Age(d) PROVE TypeOK'
  BY <1>1, <1>6 DEF Age, TypeOK
<1>7. ASSUME NEW m \in Cards, DeleteJob(m) PROVE TypeOK'
  BY <1>1, <1>7 DEF DeleteJob, TypeOK, NoDraft
<1> QED
  BY <1>2, <1>4, <1>5, <1>6, <1>7 DEF Sweeper

\* An update delivered again is an update; so is a job tried again.
LEMMA AgainFacts ==
  ASSUME IInv
  PROVE  /\ proc["bot"].at # "idle" =>
               LET again == <<proc["bot"].todo>> \o inbox
               IN  /\ again \in Seq(Input)
                   /\ Len(again) = Len(inbox) + 1
                   /\ \A i \in 1..Len(again) :
                         again[i] = IF i = 1 THEN proc["bot"].todo ELSE inbox[i - 1]
         /\ proc["pipeline"].at # "idle" =>
               LET j == proc["pipeline"].todo
               IN  /\ [j EXCEPT !.tries = @ + 1] \in Job
                   /\ [j EXCEPT !.tries = @ + 1].kind = j.kind
                   /\ [j EXCEPT !.tries = @ + 1].draft = j.draft
                   /\ [j EXCEPT !.tries = @ + 1].tries = j.tries + 1
<1>1. ASSUME proc["bot"].at # "idle"
      PROVE  LET again == <<proc["bot"].todo>> \o inbox
             IN  /\ again \in Seq(Input)
                 /\ Len(again) = Len(inbox) + 1
                 /\ \A i \in 1..Len(again) :
                       again[i] = IF i = 1 THEN proc["bot"].todo ELSE inbox[i - 1]
  <2> DEFINE u == proc["bot"].todo
  <2>1. u \in Input /\ inbox \in Seq(Input) /\ Len(inbox) \in Nat
    BY <1>1, LenProperties DEF IInv, BotHand, TypeOK
  <2> HIDE DEF u
  <2>2. <<u>> \in Seq(Input) /\ Len(<<u>>) = 1 /\ <<u>>[1] = u
    BY <2>1
  <2>3. /\ <<u>> \o inbox \in Seq(Input)
        /\ Len(<<u>> \o inbox) = 1 + Len(inbox)
        /\ \A i \in 1..(1 + Len(inbox)) :
              (<<u>> \o inbox)[i] = IF i <= 1 THEN <<u>>[i] ELSE inbox[i - 1]
    BY <2>1, <2>2, ConcatProperties
  <2> QED
    BY <2>1, <2>2, <2>3 DEF u
<1>2. ASSUME proc["pipeline"].at # "idle"
      PROVE  LET j == proc["pipeline"].todo
             IN  /\ [j EXCEPT !.tries = @ + 1] \in Job
                 /\ [j EXCEPT !.tries = @ + 1].kind = j.kind
                 /\ [j EXCEPT !.tries = @ + 1].draft = j.draft
                 /\ [j EXCEPT !.tries = @ + 1].tries = j.tries + 1
  <2>1. proc["pipeline"].todo \in Job
    BY <1>2 DEF IInv, PipelineHand
  <2> QED
    BY <2>1 DEF Job
<1> QED
  BY <1>1, <1>2

\* Every fault keeps the types.
LEMMA FaultTypes == ASSUME IInv, Fault PROVE TypeOK'
<1> USE DEF table, telegram, queue, scheduler
<1>1. TypeOK
  BY DEF IInv
<1>2. \A p \in Procs : Done(p) => proc' \in [Procs -> InHand]
  BY <1>1, HandTypes DEF Places
<1>3. "bot" \in Procs /\ "pipeline" \in Procs
  BY DEF Procs
<1>4. Fails => faults' \in 0..MaxFaults
  BY <1>1, FailsTypes
<1>5. CASE BotFails
  BY <1>1, <1>2, <1>3, <1>4, <1>5 DEF BotFails, TypeOK
<1>6. CASE BotRestarts
  <2>1. inbox' \in Seq(Input)
    BY <1>1, <1>6, AgainFacts, EmptySeq DEF BotRestarts, At, TypeOK
  <2> QED
    BY <1>1, <1>2, <1>3, <1>4, <1>6, <2>1 DEF BotRestarts, TypeOK
<1>7. CASE JobFails
  <2>1. work' \subseteq Job
    BY <1>1, <1>7, AgainFacts DEF JobFails, At, TypeOK
  <2> QED
    BY <1>1, <1>2, <1>3, <1>4, <1>7, <2>1 DEF JobFails, TypeOK
<1>8. CASE PipelineRestarts
  BY <1>1, <1>2, <1>3, <1>4, <1>8 DEF PipelineRestarts, TypeOK
<1>9. CASE SweepStops
  BY <1>1, <1>4, <1>9, EmptySeq DEF SweepStops, TypeOK
<1> QED
  BY <1>5, <1>6, <1>7, <1>8, <1>9 DEF Fault

\* Every step keeps the types.
LEMMA NextTypes == ASSUME IInv, [Next]_vars PROVE TypeOK'
<1>1. CASE UNCHANGED vars
  BY <1>1 DEF IInv, TypeOK, vars, table, telegram, queue, scheduler
<1> QED
  BY <1>1, UserTypes, BotTypes, PipelineTypes, SweeperTypes, FaultTypes DEF Next

-----------------------------------------------------------------------------
(* What is in hand.                                                        *)

\* A step of the ingestion goes on with the same draft and the same job, or
\* ends; the other process is not concerned.
LEMMA IngestHands ==
  ASSUME IInv, NEW p \in Procs, Ingest(p)
  PROVE  /\ \A q \in Procs \ {p} : proc'[q] = proc[q]
         /\ proc[p].at \in IngestPlaces
         /\ proc'[p].at # "idle" =>
               /\ proc'[p].draft = proc[p].draft /\ proc'[p].todo = proc[p].todo
               /\ proc'[p].at \in IngestPlaces \ {"upsert"}
               /\ proc[p].todo.kind = "clean" => proc'[p].at \in {"show", "setcard"}
<1>1. proc \in [Procs -> InHand] /\ p \in Procs /\ proc[p] \in InHand
  BY DEF IInv, TypeOK
<1> DEFINE cleans == proc[p].todo.kind = "clean"
<1>0. proc[p].at # "idle" /\ cleans => proc[p].at \in CleanPlaces
  BY DEF IInv, BotHand, PipelineHand, Procs
<1>2. ASSUME Published(p)
      PROVE  /\ \A q \in Procs \ {p} : proc'[q] = proc[q]
             /\ proc'[p].at # "idle" =>
                   /\ proc'[p].draft = proc[p].draft /\ proc'[p].todo = proc[p].todo
                   /\ proc'[p].at = "reread" /\ proc[p].todo.kind # "clean"
  <2>1. CASE Done(p)
    BY <1>1, <2>1 DEF Done, Idle
  <2>2. CASE Forget(p, "reread") /\ ~cleans
    BY <1>1, <2>2 DEF Forget, InHand
  <2> QED
    BY <1>2, <2>1, <2>2 DEF Published
<1>3. CASE CreateDraft(p) \/ OverwriteDraft(p) \/ OverwritePayload(p)
  <2>1. proc[p].at \in {"upsert", "payload"} /\ ~cleans
    BY <1>0, <1>3 DEF CreateDraft, OverwriteDraft, OverwritePayload, At, CleanPlaces
  <2>2. \A place \in {"payload", "publish"} :
           Goto(p, place) \/ Forget(p, place) =>
              /\ \A q \in Procs \ {p} : proc'[q] = proc[q]
              /\ proc'[p].draft = proc[p].draft /\ proc'[p].todo = proc[p].todo
              /\ proc'[p].at = place
    <3>1. ASSUME NEW place \in {"payload", "publish"}, Goto(p, place)
          PROVE  /\ \A q \in Procs \ {p} : proc'[q] = proc[q]
                 /\ proc'[p].draft = proc[p].draft /\ proc'[p].todo = proc[p].todo
                 /\ proc'[p].at = place
      BY <1>1, <3>1 DEF Goto, InHand
    <3>2. ASSUME NEW place \in {"payload", "publish"}, Forget(p, place)
          PROVE  /\ \A q \in Procs \ {p} : proc'[q] = proc[q]
                 /\ proc'[p].draft = proc[p].draft /\ proc'[p].todo = proc[p].todo
                 /\ proc'[p].at = place
      BY <1>1, <3>2 DEF Forget, InHand
    <3> QED
      BY <3>1, <3>2
  <2>3. \E place \in {"payload", "publish"} : Goto(p, place) \/ Forget(p, place)
    BY <1>3 DEF CreateDraft, OverwriteDraft, OverwritePayload
  <2> QED
    BY <2>1, <2>2, <2>3 DEF IngestPlaces
<1>4. CASE PublishRead(p) \/ PublishSend(p)
  BY <1>1, <1>4 DEF PublishRead, PublishSend, At, InHand, IngestPlaces
<1>5. CASE PublishEdit(p) \/ SetCard(p)
  BY <1>2, <1>5 DEF PublishEdit, SetCard, At, IngestPlaces
<1>6. CASE ReadPublished(p)
  BY <1>0, <1>1, <1>6 DEF ReadPublished, At, InHand, IngestPlaces, CleanPlaces
<1>7. CASE EnqueueCleaner(p)
  BY <1>1, <1>7 DEF EnqueueCleaner, At, Done, Idle, IngestPlaces
<1> QED
  BY <1>3, <1>4, <1>5, <1>6, <1>7 DEF Ingest

\* The bot took a tap on a draft that exists: it will write only an open one.
TakesTap(h) ==
    /\ HandleTap
    /\ h.todo \in Input /\ h.todo.kind = "tap" /\ h.todo.draft = h.draft
    /\ h.draft \in Drafts /\ Exists(h.draft)
    /\ h.at \in {"dismiss", "confirm", "close", "enter"}
    /\ h.at # "dismiss" => drafts[h.draft].status \in Live

\* The bot took a text for a draft that is being edited.
TakesEdit(h) ==
    /\ HandleEditText
    /\ h.todo \in Input /\ h.todo.kind = "text"
    /\ h.draft \in Drafts /\ drafts[h.draft].status \in Editing
    /\ h.at = "edit"
    /\ h.snap.status = drafts[h.draft].status
    /\ IF h.snap.status = "editing_name" THEN h.fields.date = drafts[h.draft].date
                                         ELSE h.fields.name = drafts[h.draft].name

\* The bot took a text for a new draft.
TakesText(h) ==
    /\ HandleNewText
    /\ h.todo \in Input /\ h.todo.kind = "text"
    /\ traces < MaxDrafts /\ traces' = traces + 1
    /\ h.draft = traces + 1 /\ h.draft \in Drafts
    /\ h.at = "upsert"

\* The bot goes on with what it has.
GoesOn(h) ==
    /\ h.draft = proc["bot"].draft /\ h.todo = proc["bot"].todo
    /\ \/ (ConfirmDraft \/ CloseDraft) /\ h.at = "finish"
       \/ DeleteCardNow /\ proc["bot"].at = "finish" /\ h.at = "settle"
       \/ EnterEdit /\ proc["bot"].at = "enter" /\ h.at = "prompt"
       \/ SendPrompt /\ proc["bot"].at = "prompt" /\ h.at = "setprompt"
       \/ ApplyEdit /\ proc["bot"].at = "edit" /\ h.at = "redraw"
       \/ /\ Ingest("bot") /\ proc["bot"].at \in IngestPlaces
          /\ h.at \in IngestPlaces \ {"upsert"}

\* What the bot has in hand after a step of its own or a fault.
LEMMA BotHands ==
  ASSUME IInv, Bot \/ BotFails \/ BotRestarts
  PROVE  /\ proc'["pipeline"] = proc["pipeline"]
         /\ LET h == proc'["bot"]
            IN  h.at = "idle" \/ TakesTap(h) \/ TakesEdit(h) \/ TakesText(h) \/ GoesOn(h)
<1> DEFINE h == proc'["bot"]
           Moved == /\ proc'["pipeline"] = proc["pipeline"]
                    /\ h.at = "idle" \/ TakesTap(h) \/ TakesEdit(h) \/ TakesText(h) \/ GoesOn(h)
<1> SUFFICES Moved
  OBVIOUS
<1>1. /\ proc \in [Procs -> InHand] /\ proc["bot"] \in InHand
      /\ "bot" \in Procs /\ "pipeline" \in Procs /\ TypeOK
  BY HandFacts DEF IInv, TypeOK
<1>2. ASSUME Done("bot") PROVE Moved
  BY <1>1, <1>2 DEF Done, Idle
<1>3. ASSUME NEW place, Goto("bot", place) \/ Forget("bot", place)
      PROVE  /\ proc'["pipeline"] = proc["pipeline"]
             /\ h.draft = proc["bot"].draft /\ h.todo = proc["bot"].todo /\ h.at = place
  <2>1. CASE Goto("bot", place)
    BY <1>1, <2>1 DEF Goto, InHand
  <2>2. CASE Forget("bot", place)
    BY <1>1, <2>2 DEF Forget, InHand
  <2> QED
    BY <1>3, <2>1, <2>2
<1>4. CASE HandleTap
  <2> DEFINE u == Head(inbox)
             place == Route(u.act, drafts[u.draft])
             taken == [Idle EXCEPT !.at = place, !.draft = u.draft,
                                   !.card = drafts[u.draft].card, !.todo = u]
  <2>1. u \in Input /\ u.kind = "tap" /\ u = inbox[1] /\ 1 \in 1..Len(inbox)
    BY <1>1, <1>4, InboxFacts DEF HandleTap
  <2>2. u.draft \in Drafts /\ u.act \in Acts
    BY <2>1 DEF Input
  <2>3. Exists(u.draft) /\ drafts[u.draft] \in Row
    BY <1>1, <2>1, <2>2 DEF IInv, Existing, TypeOK
  <2>4. /\ place \in {"idle", "dismiss", "confirm", "close", "enter"}
        /\ place \in {"confirm", "close", "enter"} => drafts[u.draft].status \in Live
    BY <2>2, <2>3, RouteTypes DEF Exists
  <2>5. proc' = [proc EXCEPT !["bot"] = IF place = "idle" THEN Idle ELSE taken]
    BY <1>4 DEF HandleTap
  <2>6. taken.at = place /\ taken.draft = u.draft /\ taken.todo = u /\ Idle.at = "idle"
    BY DEF Idle
  <2> HIDE DEF taken, place, u
  <2>7. /\ proc'["pipeline"] = proc["pipeline"]
        /\ h = IF place = "idle" THEN Idle ELSE taken
    BY <1>1, <2>5
  <2> QED
    BY <1>4, <2>1, <2>2, <2>3, <2>4, <2>6, <2>7 DEF TakesTap
<1>5. CASE DismissCard \/ ScheduleDelete \/ SetPrompt \/ RedrawCard \/ BotFails \/ BotRestarts
  BY <1>2, <1>5 DEF DismissCard, ScheduleDelete, SetPrompt, RedrawCard, BotFails, BotRestarts
<1>6. CASE ConfirmDraft
  BY <1>2, <1>3, <1>6 DEF ConfirmDraft, GoesOn
<1>7. CASE CloseDraft \/ DeleteCardNow
  BY <1>3, <1>7 DEF CloseDraft, DeleteCardNow, GoesOn, At
<1>8. CASE EnterEdit \/ SendPrompt \/ ApplyEdit
  BY <1>3, <1>8 DEF EnterEdit, SendPrompt, ApplyEdit, GoesOn, At
<1>9. CASE HandleEditText
  <2> DEFINE u == Head(inbox)
             d == Latest(Editable)
             taken == [Idle EXCEPT !.at = "edit", !.draft = d, !.snap = StatusOf(drafts[d]),
                                   !.fields = Edited(drafts[d], u.text), !.todo = u]
  <2>1. u \in Input /\ u.kind = "text"
    BY <1>1, <1>9, InboxFacts DEF HandleEditText
  <2>2. d \in Drafts /\ drafts[d].status \in Editing
    BY <1>1, <1>9, LatestOf DEF HandleEditText, Editable
  <2>3. proc' = [proc EXCEPT !["bot"] = IF ~Readable(drafts[d], u.text) THEN Idle ELSE taken]
    BY <1>9 DEF HandleEditText
  <2>4. /\ taken.at = "edit" /\ taken.draft = d /\ taken.todo = u /\ Idle.at = "idle"
        /\ taken.snap = StatusOf(drafts[d]) /\ taken.fields = Edited(drafts[d], u.text)
    BY DEF Idle
  <2>5. StatusOf(drafts[d]).status = drafts[d].status
    BY DEF StatusOf, NoRow
  <2>6. IF drafts[d].status = "editing_name"
        THEN Edited(drafts[d], u.text).date = drafts[d].date
        ELSE Edited(drafts[d], u.text).name = drafts[d].name
    BY DEF Edited
  <2> HIDE DEF taken, d, u
  <2>7. /\ proc'["pipeline"] = proc["pipeline"]
        /\ h = IF ~Readable(drafts[d], u.text) THEN Idle ELSE taken
    BY <1>1, <2>3
  <2> QED
    BY <1>9, <2>1, <2>2, <2>4, <2>5, <2>6, <2>7 DEF TakesEdit
<1>10. CASE HandleNewText
  <2> DEFINE u == Head(inbox)
             taken == [Idle EXCEPT !.at = "upsert", !.draft = traces + 1,
                                   !.fields = u.text.parsed, !.todo = u]
  <2>1. u \in Input /\ u.kind = "text" /\ proc["bot"].at = "idle"
    BY <1>1, <1>10, InboxFacts DEF HandleNewText, At
  <2>2. CASE UNCHANGED proc
    BY <2>1, <2>2
  <2>3. CASE proc' # proc
    <3>1. traces # MaxDrafts /\ traces' = traces + 1 /\ proc' = [proc EXCEPT !["bot"] = taken]
      BY <1>10, <2>3 DEF HandleNewText, NewTrace
    <3>2. traces < MaxDrafts /\ traces + 1 \in Drafts
      <4>1. traces \in 0..MaxDrafts /\ MaxDrafts \in Nat
        BY <1>1, DraftSessionAssumption DEF TypeOK
      <4> QED
        BY <3>1, <4>1 DEF Drafts
    <3>3. taken.at = "upsert" /\ taken.draft = traces + 1 /\ taken.todo = u
      BY DEF Idle
    <3> HIDE DEF taken, u
    <3>4. proc'["pipeline"] = proc["pipeline"] /\ h = taken
      BY <1>1, <3>1
    <3> QED
      BY <1>10, <2>1, <3>1, <3>2, <3>3, <3>4 DEF TakesText
  <2> QED
    BY <2>2, <2>3
<1>11. CASE HandleVoice
  BY <1>11 DEF HandleVoice, At
<1>12. CASE Ingest("bot")
  BY <1>1, <1>12, IngestHands DEF GoesOn
<1> QED
  BY <1>4, <1>5, <1>6, <1>7, <1>8, <1>9, <1>10, <1>11, <1>12 DEF Bot

\* The pipeline took a job.
TakesJob(h) ==
    /\ \E j \in work : StartJob(j) /\ h.todo = j /\ h.todo \in Job
    /\ h.draft = h.todo.draft /\ h.draft \in Drafts
    /\ h.at = IF h.todo.kind = "ingest" THEN "upsert" ELSE "read"

\* The pipeline goes on with the job it has.
Proceeds(h) ==
    /\ h.draft = proc["pipeline"].draft /\ h.todo = proc["pipeline"].todo
    /\ \/ /\ Ingest("pipeline")
          /\ h.at \in IngestPlaces \ {"upsert"}
          /\ h.todo.kind = "clean" => h.at \in {"show", "setcard"}
          /\ proc["pipeline"].at \in IngestPlaces
       \/ /\ h.at \in {"ask", "apply", "keep", "publish"}
          /\ proc["pipeline"].at \in {"read", "ask", "apply", "keep"}

\* What the pipeline has in hand after a step of its own or a fault.
LEMMA PipelineHands ==
  ASSUME IInv, Pipeline \/ JobFails \/ PipelineRestarts
  PROVE  /\ proc'["bot"] = proc["bot"]
         /\ LET h == proc'["pipeline"] IN h.at = "idle" \/ TakesJob(h) \/ Proceeds(h)
<1> DEFINE h == proc'["pipeline"]
           Moved == /\ proc'["bot"] = proc["bot"]
                    /\ h.at = "idle" \/ TakesJob(h) \/ Proceeds(h)
<1> SUFFICES Moved
  OBVIOUS
<1>1. /\ proc \in [Procs -> InHand] /\ proc["pipeline"] \in InHand
      /\ "bot" \in Procs /\ "pipeline" \in Procs /\ TypeOK
  BY HandFacts DEF IInv, TypeOK
<1>2. ASSUME Done("pipeline") PROVE Moved
  BY <1>1, <1>2 DEF Done, Idle
<1>3. ASSUME NEW place, Goto("pipeline", place) \/ Forget("pipeline", place)
      PROVE  /\ proc'["bot"] = proc["bot"]
             /\ h.draft = proc["pipeline"].draft /\ h.todo = proc["pipeline"].todo /\ h.at = place
  <2>1. CASE Goto("pipeline", place)
    BY <1>1, <2>1 DEF Goto, InHand
  <2>2. CASE Forget("pipeline", place)
    BY <1>1, <2>2 DEF Forget, InHand
  <2> QED
    BY <1>3, <2>1, <2>2
<1>4. ASSUME NEW j \in work, StartJob(j) PROVE Moved
  <2> DEFINE place == IF j.kind = "ingest" THEN "upsert" ELSE "read"
             taken == [Idle EXCEPT !.at = place, !.draft = j.draft, !.todo = j,
                                   !.fields = IF j.kind = "ingest" THEN j.parsed ELSE NoFields]
  <2>1. j \in Job /\ j.draft \in Drafts
    BY <1>1 DEF TypeOK, Job
  <2>2. taken.at = place /\ taken.draft = j.draft /\ taken.todo = j
    BY DEF Idle
  <2>3. proc' = [proc EXCEPT !["pipeline"] = taken]
    BY <1>4 DEF StartJob
  <2> HIDE DEF taken
  <2>4. proc'["bot"] = proc["bot"] /\ h = taken
    BY <1>1, <2>3
  <2> QED
    BY <1>4, <2>1, <2>2, <2>4 DEF TakesJob
<1>5. CASE Ingest("pipeline")
  BY <1>1, <1>5, IngestHands DEF Proceeds
<1>6. CASE CleanRead
  <2>1. CASE proc' = [proc EXCEPT !["pipeline"].at = "ask",
                                  !["pipeline"].snap = ContentOf(drafts[proc["pipeline"].draft])]
    BY <1>1, <1>6, <2>1 DEF CleanRead, At, Proceeds, InHand
  <2> QED
    BY <1>2, <1>6, <2>1 DEF CleanRead
<1>7. ASSUME NEW f \in Fields, CleanChosen(f) PROVE Moved
  BY <1>1, <1>7 DEF CleanChosen, At, Proceeds, InHand
<1>8. CASE CleanRejected \/ CleanKeep
  BY <1>3, <1>8 DEF CleanRejected, CleanKeep, At, Proceeds
<1>9. CASE CleanApply
  BY <1>2, <1>3, <1>9 DEF CleanApply, At, Proceeds
<1>10. CASE JobFails \/ PipelineRestarts
  BY <1>2, <1>10 DEF JobFails, PipelineRestarts
<1> QED
  BY <1>4, <1>5, <1>6, <1>7, <1>8, <1>9, <1>10 DEF Pipeline

\* The user, the sweep and the deletion jobs leave what is in hand alone.
LEMMA OthersHands ==
  ASSUME [Next]_vars,
         ~(Bot \/ BotFails \/ BotRestarts), ~(Pipeline \/ JobFails \/ PipelineRestarts)
  PROVE  UNCHANGED <<proc, work, traces>>
<1> USE DEF queue
<1>1. CASE UNCHANGED vars
  BY <1>1 DEF vars
<1>2. CASE User
  BY <1>2 DEF User, Tap, Say, Speak, Arrives
<1>3. CASE Sweeper \/ SweepStops
  BY <1>3 DEF Sweeper, SweepList, SweepEnqueue, SweepFail, SweepStops
<1>4. CASE (\E d \in Drafts : Age(d)) \/ \E m \in Cards : DeleteJob(m)
  BY <1>4 DEF Age, DeleteJob
<1> QED
  BY <1>1, <1>2, <1>3, <1>4 DEF Next, Fault

\* Every step keeps what is known of the hands.
LEMMA NextHands == ASSUME IInv, [Next]_vars PROVE BotHand' /\ PipelineHand'
<1>1. BotHand /\ PipelineHand
  BY DEF IInv
<1>2. CASE Bot \/ BotFails \/ BotRestarts
  <2> DEFINE h == proc'["bot"]
  <2>1. PipelineHand'
    BY <1>1, <1>2, BotHands DEF PipelineHand
  <2>2. ASSUME h.at = "idle" PROVE BotHand'
    BY <2>2 DEF BotHand
  <2>3. ASSUME TakesTap(h) PROVE BotHand'
    BY <2>3 DEF BotHand, TakesTap, TapPlaces
  <2>4. ASSUME TakesEdit(h) PROVE BotHand'
    BY <2>4 DEF BotHand, TakesEdit, TextPlaces
  <2>5. ASSUME TakesText(h) PROVE BotHand'
    BY <2>5 DEF BotHand, TakesText, IngestPlaces
  <2>6. ASSUME GoesOn(h) PROVE BotHand'
    BY <1>1, <2>6
    DEF BotHand, GoesOn, ConfirmDraft, CloseDraft, At, TapPlaces, TextPlaces, IngestPlaces
  <2> QED
    BY <1>2, <2>1, <2>2, <2>3, <2>4, <2>5, <2>6, BotHands
<1>3. CASE Pipeline \/ JobFails \/ PipelineRestarts
  <2> DEFINE h == proc'["pipeline"]
  <2>1. BotHand'
    BY <1>1, <1>3, PipelineHands DEF BotHand
  <2>2. ASSUME h.at = "idle" PROVE PipelineHand'
    BY <2>2 DEF PipelineHand
  <2>3. ASSUME TakesJob(h) PROVE PipelineHand'
    BY <2>3 DEF PipelineHand, TakesJob, IngestPlaces, CleanPlaces
  <2>4. ASSUME Proceeds(h) PROVE PipelineHand'
    BY <1>1, <2>4 DEF PipelineHand, Proceeds, IngestPlaces, CleanPlaces, Job
  <2> QED
    BY <1>3, <2>1, <2>2, <2>3, <2>4, PipelineHands
<1>4. CASE UNCHANGED proc
  BY <1>1, <1>4 DEF BotHand, PipelineHand
<1> QED
  BY <1>2, <1>3, <1>4, OthersHands

-----------------------------------------------------------------------------
(* What a step may do to a row.                                            *)

ProductOf(d) == [draft |-> d, name |-> drafts[d].name, date |-> drafts[d].date]

BotWrites(d, place) == proc["bot"].at = place /\ proc["bot"].draft = d

Confirms(d) ==
    /\ ConfirmDraft /\ BotWrites(d, "confirm")
    /\ drafts[d].status \in Live /\ Complete(drafts[d])
    /\ products' = Append(products, ProductOf(d))
    /\ drafts'[d] = [StatusRow(d, "confirmed") EXCEPT !.product = Len(products) + 1]

Closes(d) == CloseDraft /\ BotWrites(d, "close") /\ drafts'[d] = StatusRow(d, "canceled")

Enters(d) ==
    /\ EnterEdit /\ BotWrites(d, "enter")
    /\ \E s \in Editing : drafts'[d] = StatusRow(d, s)

Prompts(d) ==
    /\ SetPrompt /\ BotWrites(d, "setprompt")
    /\ drafts'[d] = [drafts[d] EXCEPT !.prompt = EditStatus(proc["bot"].todo.act)]

Edits(d) ==
    /\ ApplyEdit /\ BotWrites(d, "edit")
    /\ drafts'[d] = FieldsRow(d, proc["bot"].fields)

Creates(d) ==
    \E p \in Procs : /\ CreateDraft(p) /\ proc[p].at = "upsert" /\ proc[p].draft = d
                     /\ ~Exists(d) /\ drafts'[d] = CreatedRow(proc[p].fields)

Rewrites(d) ==
    \E p \in Procs : /\ OverwriteDraft(p) /\ proc[p].draft = d
                     /\ drafts'[d] = FieldsRow(d, proc[p].fields)

GetsCard(d) == \E m \in Cards \cup {NoCard} : drafts'[d] = [drafts[d] EXCEPT !.card = m]

GetsCleaned(d) ==
    drafts[d].status = "ready" /\ \E f \in Fields : drafts'[d] = CleanedRow(d, f)

IsSwept(d) == Exists(d) /\ drafts'[d] = StatusRow(d, "failed")

RowStep(d) ==
    \/ Confirms(d) \/ Closes(d) \/ Enters(d) \/ Prompts(d) \/ Edits(d)
    \/ Creates(d) \/ Rewrites(d) \/ GetsCard(d) \/ GetsCleaned(d) \/ IsSwept(d)

\* Rows change in these ten ways only, and a product comes only from the
\* draft the bot confirms.
LEMMA RowSteps ==
  ASSUME IInv, [Next]_vars
  PROVE  /\ \A d \in Drafts : drafts'[d] = drafts[d] \/ RowStep(d)
         /\ products' = products \/ (proc["bot"].draft \in Drafts /\ Confirms(proc["bot"].draft))
<1> DEFINE Good == /\ \A d \in Drafts : drafts'[d] = drafts[d] \/ RowStep(d)
                   /\ \/ products' = products
                      \/ proc["bot"].draft \in Drafts /\ Confirms(proc["bot"].draft)
<1> SUFFICES Good
  OBVIOUS
<1> USE DEF table
<1>1. /\ TypeOK /\ drafts \in [Drafts -> Row]
      /\ \A p \in Procs : /\ proc[p].at # "idle" => proc[p].draft \in Drafts
                          /\ proc[p].fields \in Fields /\ proc[p].card \in Cards \cup {NoCard}
  BY HandFacts DEF IInv, TypeOK, InHand
<1>2. CASE UNCHANGED <<drafts, products>>
  BY <1>2
<1>3. ASSUME NEW d \in Drafts, NEW row, Write(d, row)
      PROVE  drafts'[d] = row /\ \A e \in Drafts \ {d} : drafts'[e] = drafts[e]
  BY <1>1, <1>3 DEF Write
<1>4. ASSUME NEW d \in Drafts, NEW row, Write(d, row), RowStep(d),
             products' = products \/ (d = proc["bot"].draft /\ Confirms(d))
      PROVE  Good
  BY <1>3, <1>4
<1> HIDE DEF Good
<1>5. CASE User
  BY <1>2, <1>5 DEF User, Tap, Say, Speak, Arrives
<1>6. ASSUME NEW p \in Procs, Ingest(p) PROVE Good
  <2> DEFINE d == proc[p].draft
  <2>1. CASE CreateDraft(p)
    <3>1. d \in Drafts /\ Write(d, CreatedRow(proc[p].fields)) /\ ~Exists(d)
      BY <1>1, <2>1 DEF CreateDraft, At, Exists
    <3>2. Creates(d)
      BY <1>3, <2>1, <3>1 DEF CreateDraft, At, Creates
    <3> QED
      BY <1>4, <2>1, <3>1, <3>2 DEF CreateDraft, RowStep
  <2>2. CASE OverwriteDraft(p)
    <3>1. d \in Drafts /\ Write(d, FieldsRow(d, proc[p].fields))
      BY <1>1, <2>2 DEF OverwriteDraft, At
    <3>2. Rewrites(d)
      BY <1>3, <2>2, <3>1 DEF Rewrites
    <3> QED
      BY <1>4, <2>2, <3>1, <3>2 DEF OverwriteDraft, RowStep
  <2>3. CASE OverwritePayload(p)
    BY <1>1, <2>3 DEF OverwritePayload, Write, PayloadRow, Good
  <2>4. CASE SetCard(p)
    <3>1. d \in Drafts /\ Write(d, [drafts[d] EXCEPT !.card = proc[p].card])
      BY <1>1, <2>4 DEF SetCard, At
    <3>2. drafts'[d] = [drafts[d] EXCEPT !.card = proc[p].card]
      BY <1>3, <3>1
    <3>3. proc[p].card \in Cards \cup {NoCard}
      BY <1>1
    <3>4. GetsCard(d)
      BY <3>2, <3>3, Zenon DEF GetsCard
    <3> QED
      BY <1>4, <2>4, <3>1, <3>4 DEF SetCard, RowStep
  <2>5. CASE PublishRead(p) \/ PublishEdit(p) \/ PublishSend(p) \/ ReadPublished(p) \/ EnqueueCleaner(p)
    BY <1>2, <2>5 DEF PublishRead, PublishEdit, PublishSend, ReadPublished, EnqueueCleaner
  <2> QED
    BY <1>6, <2>1, <2>2, <2>3, <2>4, <2>5 DEF Ingest
<1>7. CASE Bot
  <2> DEFINE d == proc["bot"].draft
  <2>1. "bot" \in Procs
    BY DEF Procs
  <2>2. CASE ConfirmDraft
    <3>1. d \in Drafts /\ proc["bot"].at = "confirm"
      BY <1>1, <2>1, <2>2 DEF ConfirmDraft, At
    <3>2. CASE drafts[d].status \in Live /\ Complete(drafts[d])
      <4>1. /\ Write(d, [StatusRow(d, "confirmed") EXCEPT !.product = Len(products) + 1])
            /\ products' = Append(products, ProductOf(d))
        BY <2>2, <3>2 DEF ConfirmDraft, ProductOf
      <4>2. Confirms(d)
        BY <1>3, <2>2, <3>1, <3>2, <4>1 DEF Confirms, BotWrites
      <4> QED
        BY <1>4, <3>1, <4>1, <4>2 DEF RowStep
    <3> QED
      BY <1>2, <2>2, <3>2 DEF ConfirmDraft
  <2>3. CASE CloseDraft
    <3>1. d \in Drafts /\ Write(d, StatusRow(d, "canceled")) /\ proc["bot"].at = "close"
      BY <1>1, <2>1, <2>3 DEF CloseDraft, At
    <3>2. Closes(d)
      BY <1>3, <2>3, <3>1 DEF Closes, BotWrites
    <3> QED
      BY <1>4, <2>3, <3>1, <3>2 DEF CloseDraft, RowStep
  <2>4. CASE EnterEdit
    <3> DEFINE s == EditStatus(proc["bot"].todo.act)
    <3>1. d \in Drafts /\ Write(d, StatusRow(d, s)) /\ proc["bot"].at = "enter" /\ s \in Editing
      BY <1>1, <2>1, <2>4 DEF EnterEdit, At, EditStatus, Editing
    <3> HIDE DEF s
    <3>2. Enters(d)
      BY <1>3, <2>4, <3>1 DEF Enters, BotWrites
    <3> QED
      BY <1>4, <2>4, <3>1, <3>2 DEF EnterEdit, RowStep
  <2>5. CASE SetPrompt
    <3>1. /\ d \in Drafts /\ Write(d, [drafts[d] EXCEPT !.prompt = EditStatus(proc["bot"].todo.act)])
          /\ proc["bot"].at = "setprompt"
      BY <1>1, <2>1, <2>5 DEF SetPrompt, At
    <3>2. Prompts(d)
      BY <1>3, <2>5, <3>1 DEF Prompts, BotWrites
    <3> QED
      BY <1>4, <2>5, <3>1, <3>2 DEF SetPrompt, RowStep
  <2>6. CASE ApplyEdit
    <3>1. /\ d \in Drafts /\ Write(d, FieldsRow(d, proc["bot"].fields))
          /\ proc["bot"].at = "edit"
      BY <1>1, <2>1, <2>6 DEF ApplyEdit, At
    <3>2. Edits(d)
      BY <1>3, <2>6, <3>1 DEF Edits, BotWrites
    <3> QED
      BY <1>4, <2>6, <3>1, <3>2 DEF ApplyEdit, RowStep
  <2>7. CASE HandleTap \/ DismissCard \/ DeleteCardNow \/ ScheduleDelete \/ SendPrompt
             \/ HandleEditText \/ HandleNewText \/ HandleVoice \/ RedrawCard
    BY <1>2, <2>7
    DEF HandleTap, DismissCard, DeleteCardNow, ScheduleDelete, SendPrompt, HandleEditText,
        HandleNewText, HandleVoice, RedrawCard
  <2> QED
    BY <1>6, <1>7, <2>1, <2>2, <2>3, <2>4, <2>5, <2>6, <2>7 DEF Bot
<1>8. CASE Pipeline
  <2> DEFINE d == proc["pipeline"].draft
  <2>1. "pipeline" \in Procs
    BY DEF Procs
  <2>2. CASE CleanApply
    <3>1. d \in Drafts /\ products' = products /\ proc["pipeline"].fields \in Fields
      BY <1>1, <2>1, <2>2 DEF CleanApply, At
    <3>2. CASE drafts[d].status = "ready"
      <4>1. Write(d, CleanedRow(d, proc["pipeline"].fields))
        BY <2>2, <3>2 DEF CleanApply
      <4>2. GetsCleaned(d)
        BY <1>3, <3>1, <3>2, <4>1 DEF GetsCleaned
      <4> QED
        BY <1>4, <3>1, <4>1, <4>2 DEF RowStep
    <3> QED
      BY <1>2, <2>2, <3>1, <3>2 DEF CleanApply
  <2>3. CASE CleanKeep
    BY <1>1, <2>1, <2>3 DEF CleanKeep, Write, PayloadRow, At, Good
  <2>4. CASE (\E j \in work : StartJob(j)) \/ CleanRead \/ (\E f \in Fields : CleanChosen(f))
             \/ CleanRejected
    BY <1>2, <2>4 DEF StartJob, CleanRead, CleanChosen, CleanRejected
  <2> QED
    BY <1>6, <1>8, <2>1, <2>2, <2>3, <2>4 DEF Pipeline
<1>9. CASE SweepFail
  <2> DEFINE d == Head(sweep).draft
  <2>1. d \in Drafts /\ Write(d, StatusRow(d, "failed")) /\ Exists(d)
    BY <1>1, <1>9, SweepFacts DEF SweepFail, Entry, IInv, Existing
  <2>2. IsSwept(d)
    BY <1>3, <2>1 DEF IsSwept
  <2> QED
    BY <1>4, <1>9, <2>1, <2>2 DEF SweepFail, RowStep
<1>10. CASE SweepList \/ SweepEnqueue
  BY <1>2, <1>10 DEF SweepList, SweepEnqueue
<1>11. CASE Fault
  BY <1>2, <1>11 DEF Fault, BotFails, BotRestarts, JobFails, PipelineRestarts, SweepStops
<1>12. CASE (\E d \in Drafts : Age(d)) \/ \E m \in Cards : DeleteJob(m)
  BY <1>2, <1>12 DEF Age, DeleteJob
<1>13. CASE UNCHANGED vars
  BY <1>2, <1>13 DEF vars
<1> QED
  BY <1>5, <1>7, <1>8, <1>9, <1>10, <1>11, <1>12, <1>13 DEF Next, Sweeper

\* What a step leaves of a row, by its kind.
LEMMA RowStepFacts ==
  ASSUME TypeOK, NEW d \in Drafts
  PROVE  /\ Confirms(d) => /\ drafts'[d].status = "confirmed" /\ drafts'[d].prompt = NoPrompt
                           /\ drafts'[d].name = drafts[d].name /\ drafts'[d].date = drafts[d].date
                           /\ drafts'[d].product = Len(products) + 1
         /\ Closes(d) => /\ drafts'[d].status = "canceled" /\ drafts'[d].prompt = NoPrompt
                         /\ drafts'[d].product = drafts[d].product
         /\ Enters(d) => /\ drafts'[d].status \in Editing
                         /\ drafts'[d].product = drafts[d].product
         /\ Prompts(d) => /\ drafts'[d].status = drafts[d].status
                          /\ drafts'[d].name = drafts[d].name /\ drafts'[d].date = drafts[d].date
                          /\ drafts'[d].product = drafts[d].product
         /\ Edits(d) => /\ drafts'[d].status = "ready" /\ drafts'[d].prompt = NoPrompt
                        /\ drafts'[d].name = proc["bot"].fields.name
                        /\ drafts'[d].date = proc["bot"].fields.date
                        /\ drafts'[d].product = drafts[d].product
         /\ Creates(d) => /\ ~Exists(d) /\ drafts'[d].status = "ready" /\ drafts'[d].prompt = NoPrompt
                          /\ drafts'[d].product = 0
         /\ Rewrites(d) => drafts'[d].status = "ready" /\ drafts'[d].product = drafts[d].product
         /\ GetsCard(d) => /\ drafts'[d].status = drafts[d].status
                           /\ drafts'[d].prompt = drafts[d].prompt
                           /\ drafts'[d].name = drafts[d].name /\ drafts'[d].date = drafts[d].date
                           /\ drafts'[d].product = drafts[d].product
         /\ GetsCleaned(d) => /\ drafts[d].status = "ready" /\ drafts'[d].status = "ready"
                              /\ drafts'[d].prompt = drafts[d].prompt
                              /\ drafts'[d].product = drafts[d].product
         /\ IsSwept(d) => /\ drafts'[d].status = "failed" /\ drafts'[d].prompt = NoPrompt
                          /\ drafts'[d].name = drafts[d].name /\ drafts'[d].date = drafts[d].date
                          /\ drafts'[d].product = drafts[d].product
<1>1. drafts[d] \in Row
  BY DEF TypeOK
<1>2. ASSUME NEW st PROVE /\ StatusRow(d, st).status = st
                          /\ st \notin Editing => StatusRow(d, st).prompt = NoPrompt
                          /\ StatusRow(d, st).name = drafts[d].name
                          /\ StatusRow(d, st).date = drafts[d].date
                          /\ StatusRow(d, st).product = drafts[d].product
                          /\ \A n : LET row == [StatusRow(d, st) EXCEPT !.product = n]
                                   IN  /\ row.status = st /\ row.product = n
                                       /\ row.prompt = StatusRow(d, st).prompt
                                       /\ row.name = drafts[d].name /\ row.date = drafts[d].date
  BY <1>1 DEF StatusRow, Row
<1>3. "confirmed" \notin Editing /\ "canceled" \notin Editing /\ "failed" \notin Editing
  BY DEF Editing
<1>4. Confirms(d) => /\ drafts'[d].status = "confirmed" /\ drafts'[d].prompt = NoPrompt
                     /\ drafts'[d].name = drafts[d].name /\ drafts'[d].date = drafts[d].date
                     /\ drafts'[d].product = Len(products) + 1
  BY <1>2, <1>3 DEF Confirms
<1>5. Closes(d) => /\ drafts'[d].status = "canceled" /\ drafts'[d].prompt = NoPrompt
                   /\ drafts'[d].product = drafts[d].product
  BY <1>2, <1>3 DEF Closes
<1>6. Enters(d) => drafts'[d].status \in Editing /\ drafts'[d].product = drafts[d].product
  BY <1>2 DEF Enters
<1>7. IsSwept(d) => /\ drafts'[d].status = "failed" /\ drafts'[d].prompt = NoPrompt
                    /\ drafts'[d].name = drafts[d].name /\ drafts'[d].date = drafts[d].date
                    /\ drafts'[d].product = drafts[d].product
  BY <1>2, <1>3 DEF IsSwept
<1>8. Creates(d) => /\ ~Exists(d) /\ drafts'[d].status = "ready" /\ drafts'[d].prompt = NoPrompt
                    /\ drafts'[d].product = 0
  BY DEF Creates, CreatedRow, NoRow
<1> QED
  BY <1>1, <1>4, <1>5, <1>6, <1>7, <1>8
  DEF Prompts, Edits, Rewrites, GetsCard, GetsCleaned, FieldsRow, CleanedRow, Row

\* A row that exists never goes, and a new one comes only from an ingestion.
LEMMA RowsStay ==
  ASSUME IInv, [Next]_vars, NEW d \in Drafts
  PROVE  /\ Exists(d) => drafts'[d].status # "absent"
         /\ ~Exists(d) => drafts'[d] = drafts[d] \/ Creates(d) \/ drafts'[d].status = "absent"
<1>1. TypeOK /\ (drafts'[d] = drafts[d] \/ RowStep(d))
  BY RowSteps DEF IInv
<1>2. BotWrites(d, "close") \/ BotWrites(d, "enter") \/ BotWrites(d, "setprompt")
      \/ BotWrites(d, "edit") => Exists(d)
  BY DEF IInv, Existing, BotWrites, Procs
<1>3. Rewrites(d) => Exists(d)
  BY DEF Rewrites, OverwriteDraft, Exists
<1>4. Confirms(d) => Exists(d)
  BY DEF Confirms, Exists, Live, Editing
<1>5. Closes(d) \/ Enters(d) \/ Prompts(d) \/ Edits(d) \/ IsSwept(d) \/ GetsCleaned(d) => Exists(d)
  BY <1>2 DEF Closes, Enters, Prompts, Edits, IsSwept, GetsCleaned, Exists
<1>6. Exists(d) => drafts'[d].status # "absent"
  BY <1>1, RowStepFacts DEF RowStep, Exists, Editing
<1>7. GetsCard(d) => drafts'[d].status = drafts[d].status
  BY <1>1, RowStepFacts
<1> QED
  BY <1>1, <1>3, <1>4, <1>5, <1>6, <1>7 DEF RowStep, Exists

\* Which steps change the chat, the mailbox, the jobs, the list of the tick and
\* the number of messages.
LEMMA Frames ==
  ASSUME [Next]_vars
  PROVE  /\ chat' = chat \/ (\E p \in Procs : PublishSend(p)) \/ DeleteCardNow
                \/ \E m \in Cards : DeleteJob(m)
         /\ inbox' = inbox \/ User \/ HandleTap \/ HandleEditText \/ HandleNewText \/ HandleVoice
                \/ BotRestarts
         /\ work' = work \/ HandleVoice \/ (\E j \in work : StartJob(j)) \/ JobFails
                \/ \E p \in Procs : EnqueueCleaner(p)
         /\ sweep' = sweep \/ SweepList \/ SweepEnqueue \/ SweepFail \/ SweepStops
         /\ traces' = traces \/ HandleNewText \/ HandleVoice
<1> USE DEF table, telegram, queue, scheduler
<1>1. CASE UNCHANGED vars
  BY <1>1 DEF vars
<1>2. CASE User
  BY <1>2 DEF User, Tap, Say, Speak, Arrives
<1>3. ASSUME NEW p \in Procs, Ingest(p)
      PROVE  /\ UNCHANGED <<inbox, sweep, traces>>
             /\ chat' = chat \/ PublishSend(p)
             /\ work' = work \/ EnqueueCleaner(p)
  BY <1>3 DEF Ingest, CreateDraft, OverwriteDraft, OverwritePayload, PublishRead, PublishEdit,
              PublishSend, SetCard, ReadPublished, EnqueueCleaner
<1>4. CASE Bot
  <2>1. CASE Ingest("bot")
    BY <1>3, <2>1 DEF Procs
  <2>2. CASE HandleTap \/ DismissCard \/ ConfirmDraft \/ CloseDraft \/ DeleteCardNow \/ ScheduleDelete
    BY <2>2 DEF HandleTap, DismissCard, ConfirmDraft, CloseDraft, DeleteCardNow, ScheduleDelete
  <2>3. CASE EnterEdit \/ SendPrompt \/ SetPrompt \/ HandleEditText \/ ApplyEdit \/ RedrawCard
    BY <2>3 DEF EnterEdit, SendPrompt, SetPrompt, HandleEditText, ApplyEdit, RedrawCard
  <2>4. CASE HandleNewText \/ HandleVoice
    BY <2>4 DEF HandleNewText, HandleVoice
  <2> QED
    BY <1>4, <2>1, <2>2, <2>3, <2>4 DEF Bot
<1>5. CASE Pipeline
  <2>1. CASE Ingest("pipeline")
    BY <1>3, <2>1 DEF Procs
  <2>2. ASSUME NEW j \in work, StartJob(j)
        PROVE  UNCHANGED <<chat, inbox, sweep, traces>>
    BY <2>2 DEF StartJob
  <2>3. CASE CleanRead \/ (\E f \in Fields : CleanChosen(f)) \/ CleanRejected \/ CleanApply \/ CleanKeep
    BY <2>3 DEF CleanRead, CleanChosen, CleanRejected, CleanApply, CleanKeep
  <2> QED
    BY <1>5, <2>1, <2>2, <2>3 DEF Pipeline
<1>6. CASE Sweeper \/ \E d \in Drafts : Age(d)
  BY <1>6 DEF Sweeper, SweepList, SweepEnqueue, SweepFail, Age
<1>7. CASE Fault
  BY <1>7 DEF Fault, BotFails, BotRestarts, JobFails, PipelineRestarts, SweepStops
<1>8. ASSUME NEW m \in Cards, DeleteJob(m)
      PROVE  UNCHANGED <<inbox, work, sweep, traces>>
  BY <1>8 DEF DeleteJob
<1> QED
  BY <1>1, <1>2, <1>4, <1>5, <1>6, <1>7, <1>8 DEF Next

ChatExists == \A m \in Cards : chat[m] # NoDraft => Exists(chat[m])
TapsExist == \A i \in 1..Len(inbox) : inbox[i].kind = "tap" => Exists(inbox[i].draft)
CleansExist == \A j \in work : j.kind = "clean" => Exists(j.draft)
HandsExist == \A p \in Procs : proc[p].at \notin {"idle", "upsert"} => Exists(proc[p].draft)
SweepExists == \A i \in 1..Len(sweep) : Exists(sweep[i].draft)

\* Cards are sent only for drafts that are being published.
LEMMA NextChat == ASSUME IInv, [Next]_vars PROVE ChatExists'
<1>1. \A d \in Drafts : Exists(d) => Exists(d)'
  BY RowsStay DEF Exists
<1>2. chat \in [Cards -> Drafts \cup {NoDraft}] /\ nextCard \in 1..(MaxCards + 1)
  BY DEF IInv, TypeOK
<1>3. ASSUME NEW m \in Cards, chat'[m] # NoDraft
      PROVE  chat'[m] \in Drafts /\ Exists(chat'[m])
  <2>1. CASE chat'[m] = chat[m]
    BY <1>2, <1>3, <2>1 DEF IInv, Existing
  <2>2. ASSUME NEW p \in Procs, PublishSend(p), chat'[m] # chat[m]
        PROVE  chat'[m] \in Drafts /\ Exists(chat'[m])
    <3>1. chat'[m] = proc[p].draft /\ proc[p].at = "show"
      BY <1>2, <2>2 DEF PublishSend, At
    <3>2. proc[p].draft \in Drafts
      BY <2>2, <3>1, HandFacts
    <3>3. Exists(proc[p].draft)
      BY <2>2, <3>1 DEF IInv, Existing
    <3> QED
      BY <3>1, <3>2, <3>3
  <2>3. CASE DeleteCardNow \/ \E k \in Cards : DeleteJob(k)
    <3>1. chat'[m] = chat[m]
      BY <1>2, <1>3, <2>3 DEF DeleteCardNow, DeleteJob
    <3> QED
      BY <2>1, <3>1
  <2> QED
    BY <2>1, <2>2, <2>3, Frames
<1> QED
  BY <1>1, <1>3 DEF ChatExists, Exists

\* A tap on a card names a draft, also when it is delivered again.
LEMMA NextTaps == ASSUME IInv, [Next]_vars PROVE TapsExist'
<1>1. \A d \in Drafts : Exists(d) => Exists(d)'
  BY RowsStay DEF Exists
<1>2. /\ TypeOK /\ Existing /\ inbox \in Seq(Input) /\ Len(inbox) \in Nat
      /\ \A i \in 1..Len(inbox) : inbox[i] \in Input
  BY LenProperties, ElementOfSeq DEF IInv, TypeOK
<1>3. \A u \in Input : u.kind = "tap" => u.draft \in Drafts
  BY DEF Input
<1>4. ASSUME NEW u \in Input, u.kind = "tap" => Exists(u.draft)
      PROVE  u.kind = "tap" => Exists(u.draft)'
  BY <1>1, <1>3, <1>4 DEF Exists
<1>5. ASSUME inbox' = inbox PROVE TapsExist'
  BY <1>2, <1>4, <1>5 DEF TapsExist, Existing, Exists
<1>6. ASSUME NEW u \in Input, u.kind = "tap" => Exists(u.draft), Arrives(u) PROVE TapsExist'
  <2>1. \A i \in 1..Len(inbox') : (i \in 1..Len(inbox) /\ inbox'[i] = inbox[i]) \/ inbox'[i] = u
    BY <1>2, <1>6, ArrivesFacts
  <2>2. ASSUME NEW i \in 1..Len(inbox')
        PROVE  inbox'[i] \in Input /\ (inbox'[i].kind = "tap" => Exists(inbox'[i].draft))
    BY <1>2, <1>6, <2>1 DEF Existing
  <2> QED
    BY <1>4, <2>2 DEF TapsExist, Exists
<1>7. CASE User
  <2>1. ASSUME NEW m \in Cards, NEW act \in Acts, Tap(m, act) PROVE TapsExist'
    <3> DEFINE u == [kind |-> "tap", act |-> act, draft |-> chat[m]]
    <3>1. chat[m] \in Drafts /\ Exists(chat[m])
      BY <1>2, <2>1 DEF Tap, TypeOK, Existing
    <3>2. u \in Input /\ Exists(u.draft) /\ Arrives(u)
      BY <2>1, <3>1 DEF Input, Tap
    <3> QED
      BY <1>6, <3>2
  <2>2. ASSUME NEW text \in Texts, Say(text) PROVE TapsExist'
    <3>1. [kind |-> "text", text |-> text] \in Input
      BY DEF Input
    <3> QED
      BY <1>6, <2>2, <3>1 DEF Say
  <2>3. ASSUME NEW parsed \in Voices, Speak(parsed) PROVE TapsExist'
    <3>1. [kind |-> "voice", parsed |-> parsed] \in Input
      BY DEF Input
    <3> QED
      BY <1>6, <2>3, <3>1 DEF Speak
  <2> QED
    BY <1>7, <2>1, <2>2, <2>3 DEF User
<1>8. ASSUME inbox # <<>>, inbox' = Tail(inbox) PROVE TapsExist'
  <2>1. \A i \in 1..Len(inbox') : inbox'[i] = inbox[i + 1] /\ i + 1 \in 1..Len(inbox)
    BY <1>2, <1>8, InboxFacts
  <2>2. ASSUME NEW i \in 1..Len(inbox')
        PROVE  inbox'[i] \in Input /\ (inbox'[i].kind = "tap" => Exists(inbox'[i].draft))
    BY <1>2, <2>1 DEF Existing
  <2> QED
    BY <1>4, <2>2 DEF TapsExist, Exists
<1>9. CASE HandleTap \/ HandleEditText \/ HandleNewText \/ HandleVoice
  BY <1>8, <1>9 DEF HandleTap, HandleEditText, HandleNewText, HandleVoice
<1>10. CASE BotRestarts
  <2> DEFINE todo == proc["bot"].todo
  <2>1. CASE inbox' = <<>>
    BY <2>1, EmptySeq DEF TapsExist
  <2>2. CASE inbox' = <<todo>> \o inbox
    <3>1. proc["bot"].at # "idle"
      BY <1>10 DEF BotRestarts, At
    <3>2. todo \in Input /\ (todo.kind = "tap" => Exists(todo.draft))
      BY <3>1 DEF IInv, BotHand, Existing, TapPlaces, Procs
    <3>3. \A i \in 1..Len(inbox') : inbox'[i] = IF i = 1 THEN todo ELSE inbox[i - 1]
      BY <2>2, <3>1, AgainFacts
    <3>4. Len(inbox') = Len(inbox) + 1
      BY <2>2, <3>1, AgainFacts
    <3>5. ASSUME NEW i \in 1..Len(inbox')
          PROVE  inbox'[i] \in Input /\ (inbox'[i].kind = "tap" => Exists(inbox'[i].draft))
      <4>1. CASE i = 1
        BY <3>2, <3>3, <4>1
      <4>2. CASE i - 1 \in 1..Len(inbox)
        <5>1. inbox'[i] = inbox[i - 1]
          BY <3>3, <4>2
        <5> QED
          BY <1>2, <4>2, <5>1 DEF Existing
      <4> QED
        BY <1>2, <3>4, <4>1, <4>2
    <3> QED
      BY <1>4, <3>5 DEF TapsExist, Exists
  <2> QED
    BY <1>5, <1>10, <2>1, <2>2 DEF BotRestarts
<1> QED
  BY <1>5, <1>7, <1>9, <1>10, Frames

\* The cleaner's jobs are for drafts that were published.
LEMMA NextCleans == ASSUME IInv, [Next]_vars PROVE CleansExist'
<1>1. \A d \in Drafts : Exists(d) => Exists(d)'
  BY RowsStay DEF Exists
<1>2. /\ work \subseteq Job /\ \A j \in work : j.kind = "clean" => Exists(j.draft)
      /\ work' \subseteq Job
      /\ \A j \in Job : j.draft \in Drafts
  BY NextTypes DEF IInv, TypeOK, Existing, Job
<1>3. ASSUME NEW j \in work', j.kind = "clean"
      PROVE  j.draft \in Drafts /\ Exists(j.draft)
  <2>1. CASE j \in work
    BY <1>2, <1>3, <2>1
  <2>2. ASSUME NEW p \in Procs, EnqueueCleaner(p), j \notin work
        PROVE  j.draft \in Drafts /\ Exists(j.draft)
    <3>1. proc[p].at = "enqueue" /\ j.draft = proc[p].draft
      BY <2>2 DEF EnqueueCleaner, At
    <3> QED
      BY <1>2, <3>1 DEF IInv, Existing
  <2>3. CASE HandleVoice
    BY <1>3, <2>1, <2>3 DEF HandleVoice, NewTrace
  <2>4. CASE \E k \in work : StartJob(k)
    BY <2>1, <2>4 DEF StartJob
  <2>5. CASE JobFails /\ j \notin work
    <3> DEFINE todo == proc["pipeline"].todo
    <3>1. proc["pipeline"].at # "idle" /\ j = [todo EXCEPT !.tries = @ + 1]
      BY <2>5 DEF JobFails, At
    <3>2. j.kind = todo.kind /\ j.draft = todo.draft
      BY <3>1, AgainFacts
    <3>3. proc["pipeline"].at # "upsert" /\ todo.draft = proc["pipeline"].draft
      BY <1>3, <3>1, <3>2 DEF IInv, PipelineHand, CleanPlaces
    <3> QED
      BY <1>2, <3>1, <3>2, <3>3 DEF IInv, Existing, Procs
  <2> QED
    BY <2>1, <2>2, <2>3, <2>4, <2>5, Frames
<1> QED
  BY <1>1, <1>3 DEF CleansExist, Exists

\* What is in hand names a draft, once the ingestion has written it.
LEMMA NextHandsExist == ASSUME IInv, [Next]_vars PROVE HandsExist'
<1>1. \A d \in Drafts : Exists(d) => Exists(d)'
  BY RowsStay DEF Exists
<1>2. TypeOK /\ Existing /\ "bot" \in Procs /\ "pipeline" \in Procs /\ BotHand /\ PipelineHand
  BY DEF IInv, Procs
<1> DEFINE Fine(p) == proc[p].at \notin {"idle", "upsert"} =>
                        proc[p].draft \in Drafts /\ Exists(proc[p].draft)
<1>3. ASSUME NEW p \in Procs PROVE Fine(p)
  <2>1. proc[p].at # "idle" => proc[p].draft \in Drafts
    BY <1>3, HandFacts
  <2>2. proc[p].at \notin {"idle", "upsert"} => Exists(proc[p].draft)
    BY <1>2, <1>3 DEF Existing
  <2> QED
    BY <2>1, <2>2
<1>4. ASSUME NEW p \in Procs, proc'[p] = proc[p] PROVE Fine(p)'
  BY <1>1, <1>3, <1>4 DEF Exists
<1>5. ASSUME NEW p \in Procs, Ingest(p) PROVE Fine(p)'
  <2>1. /\ proc[p].at \in IngestPlaces
        /\ proc'[p].at # "idle" => proc'[p].draft = proc[p].draft
    BY <1>5, IngestHands
  <2>2. CASE proc[p].at # "upsert"
    BY <1>1, <1>3, <2>1, <2>2 DEF IngestPlaces, Exists
  <2>3. CASE proc[p].at = "upsert"
    <3>1. proc[p].draft \in Drafts
      BY <1>5, <2>3, HandFacts
    <3>2. CreateDraft(p) \/ OverwriteDraft(p)
      BY <1>5, <2>3
      DEF Ingest, CreateDraft, OverwriteDraft, OverwritePayload, PublishRead, PublishEdit,
          PublishSend, SetCard, ReadPublished, EnqueueCleaner, At
    <3>3. drafts \in [Drafts -> Row]
      BY <1>2 DEF TypeOK
    <3>4. drafts'[proc[p].draft] \in {CreatedRow(proc[p].fields),
                                    FieldsRow(proc[p].draft, proc[p].fields)}
      BY <3>1, <3>2, <3>3 DEF CreateDraft, OverwriteDraft, Write
    <3>5. drafts'[proc[p].draft].status = "ready"
      BY <3>1, <3>3, <3>4 DEF Row, CreatedRow, FieldsRow, NoRow
    <3> QED
      BY <2>1, <3>1, <3>5 DEF Exists
  <2> QED
    BY <2>2, <2>3
<1>6. CASE Bot \/ BotFails \/ BotRestarts
  <2> DEFINE h == proc'["bot"]
  <2>1. proc'["pipeline"] = proc["pipeline"]
        /\ (h.at = "idle" \/ TakesTap(h) \/ TakesEdit(h) \/ TakesText(h) \/ GoesOn(h))
    BY <1>6, BotHands
  <2>2. ASSUME h.at = "idle" PROVE Fine("bot")'
    BY <2>2
  <2>3. ASSUME TakesTap(h) \/ TakesEdit(h) PROVE Fine("bot")'
    BY <1>1, <2>3 DEF TakesTap, TakesEdit, Exists, Editing
  <2>4. ASSUME TakesText(h) PROVE Fine("bot")'
    BY <2>4 DEF TakesText
  <2>5. ASSUME GoesOn(h) PROVE Fine("bot")'
    <3>1. CASE Ingest("bot")
      BY <1>2, <1>5, <3>1
    <3>2. CASE ~Ingest("bot")
      <4>1. proc["bot"].at \notin {"idle", "upsert"} /\ h.draft = proc["bot"].draft
        BY <2>5, <3>2 DEF GoesOn, ConfirmDraft, CloseDraft, At
      <4> QED
        BY <1>1, <1>2, <1>3, <4>1 DEF Exists
    <3> QED
      BY <3>1, <3>2
  <2>6. Fine("bot")'
    BY <2>1, <2>2, <2>3, <2>4, <2>5
  <2>7. Fine("pipeline")'
    BY <1>2, <1>4, <2>1
  <2> HIDE DEF Fine
  <2>8. \A p \in Procs : Fine(p)'
    BY <2>6, <2>7 DEF Procs
  <2> QED
    BY <2>8 DEF Fine, HandsExist, Exists
<1>7. CASE Pipeline \/ JobFails \/ PipelineRestarts
  <2> DEFINE h == proc'["pipeline"]
  <2>1. proc'["bot"] = proc["bot"] /\ (h.at = "idle" \/ TakesJob(h) \/ Proceeds(h))
    BY <1>7, PipelineHands
  <2>2. ASSUME h.at = "idle" PROVE Fine("pipeline")'
    BY <2>2
  <2>3. ASSUME TakesJob(h) PROVE Fine("pipeline")'
    BY <1>1, <1>2, <2>3 DEF TakesJob, Existing, Exists, Job
  <2>4. ASSUME Proceeds(h) PROVE Fine("pipeline")'
    <3>1. CASE Ingest("pipeline")
      BY <1>2, <1>5, <3>1
    <3>2. CASE ~Ingest("pipeline")
      <4>1. proc["pipeline"].at \notin {"idle", "upsert"} /\ h.draft = proc["pipeline"].draft
        BY <2>4, <3>2 DEF Proceeds
      <4> QED
        BY <1>1, <1>2, <1>3, <4>1 DEF Exists
    <3> QED
      BY <3>1, <3>2
  <2>5. Fine("pipeline")'
    BY <2>1, <2>2, <2>3, <2>4
  <2>6. Fine("bot")'
    BY <1>2, <1>4, <2>1
  <2> HIDE DEF Fine
  <2>7. \A p \in Procs : Fine(p)'
    BY <2>5, <2>6 DEF Procs
  <2> QED
    BY <2>7 DEF Fine, HandsExist, Exists
<1>8. CASE UNCHANGED proc
  BY <1>4, <1>8 DEF HandsExist, Exists
<1> QED
  BY <1>6, <1>7, <1>8, OthersHands

\* The list of a tick names drafts.
LEMMA NextSweep == ASSUME IInv, [Next]_vars PROVE SweepExists'
<1>1. \A d \in Drafts : Exists(d) => Exists(d)'
  BY RowsStay DEF Exists
<1>2. /\ TypeOK /\ sweep \in Seq(Entry) /\ Len(sweep) \in Nat
      /\ \A i \in 1..Len(sweep) : sweep[i].draft \in Drafts /\ Exists(sweep[i].draft)
  <2>1. sweep \in Seq(Entry) /\ TypeOK
    BY DEF IInv, TypeOK, Entry
  <2>2. \A i \in 1..Len(sweep) : sweep[i] \in Entry
    BY <2>1, ElementOfSeq
  <2> QED
    BY <2>1, <2>2, LenProperties DEF IInv, Existing, Entry
<1>3. ASSUME \A i \in 1..Len(sweep') : \E k \in 1..Len(sweep) : sweep'[i].draft = sweep[k].draft
      PROVE  SweepExists'
  BY <1>1, <1>2, <1>3 DEF SweepExists, Exists
<1>4. CASE sweep' = sweep
  BY <1>3, <1>4
<1>5. CASE SweepList
  <2>1. \A i \in 1..Len(sweep') : Exists(sweep'[i].draft)
    BY <1>2, <1>5, StaleFacts
  <2>2. drafts' = drafts
    BY <1>5 DEF SweepList, table
  <2> QED
    BY <2>1, <2>2 DEF SweepExists, Exists
<1>6. CASE SweepEnqueue
  <2>1. sweep # <<>> /\ sweep' = [sweep EXCEPT ![1].marked = TRUE]
    BY <1>6 DEF SweepEnqueue
  <2>2. Len(sweep') = Len(sweep) /\ \A i \in 1..Len(sweep) : sweep'[i].draft = sweep[i].draft
    BY <1>2, <2>1, SweepFacts
  <2> QED
    BY <1>3, <2>2
<1>7. CASE SweepFail
  <2>1. sweep # <<>> /\ sweep' = Tail(sweep)
    BY <1>7 DEF SweepFail
  <2>2. \A i \in 1..Len(sweep') : sweep'[i] = sweep[i + 1] /\ i + 1 \in 1..Len(sweep)
    BY <1>2, <2>1, SweepFacts
  <2> QED
    BY <1>3, <2>2
<1>8. CASE SweepStops
  BY <1>8, EmptySeq DEF SweepStops, SweepExists
<1> QED
  BY <1>4, <1>5, <1>6, <1>7, <1>8, Frames

\* Every step keeps the invariant.
LEMMA NextIInv == IInv /\ [Next]_vars => IInv'
<1> SUFFICES ASSUME IInv, [Next]_vars PROVE IInv'
  OBVIOUS
<1>1. Existing'
  BY NextChat, NextTaps, NextCleans, NextHandsExist, NextSweep
  DEF Existing, ChatExists, TapsExist, CleansExist, HandsExist, SweepExists
<1> QED
  BY <1>1, NextTypes, NextHands DEF IInv

\* The invariant holds of every state any user, fault or schedule leads to.
THEOREM Invariance == Spec => []IInv
  BY InitIInv, NextIInv, PTL DEF Spec

\* Every variable keeps its type.
THEOREM DraftTypes == Spec => []TypeOK
<1>1. IInv => TypeOK
  BY DEF IInv
<1> QED
  BY <1>1, Invariance, PTL

-----------------------------------------------------------------------------
(* Products, whatever happens.                                             *)

Product == [draft : Drafts, name : Names \cup {Missing}, date : Dates \cup {Missing}]

\* A step keeps every product as it is and adds at most one, from the complete
\* draft the bot confirms.
LEMMA ProductSteps ==
  ASSUME IInv, [Next]_vars
  PROVE  /\ products \in Seq(Product) /\ Len(products) \in Nat
         /\ DOMAIN products = 1..Len(products)
         /\ \A i \in DOMAIN products : products[i] \in Product
         /\ \A i \in DOMAIN products : i \in DOMAIN products' /\ products'[i] = products[i]
         /\ \/ products' = products
            \/ LET d == proc["bot"].draft
               IN  /\ d \in Drafts /\ Confirms(d)
                   /\ DOMAIN products' = 1..(Len(products) + 1)
                   /\ products'[Len(products) + 1] = ProductOf(d)
<1> DEFINE d == proc["bot"].draft
<1>1. TypeOK /\ products \in Seq(Product)
  BY DEF IInv, TypeOK, Product
<1>2. /\ Len(products) \in Nat /\ DOMAIN products = 1..Len(products)
      /\ \A i \in DOMAIN products : products[i] \in Product
  BY <1>1, LenProperties, ElementOfSeq
<1>3. CASE products' = products
  BY <1>1, <1>2, <1>3
<1>4. CASE d \in Drafts /\ Confirms(d)
  <2>1. drafts[d] \in Row
    BY <1>1, <1>4 DEF TypeOK
  <2>2. ProductOf(d) \in Product
    BY <1>4, <2>1 DEF ProductOf, Product, Row
  <2>3. products' = Append(products, ProductOf(d))
    BY <1>4 DEF Confirms
  <2>4. /\ products' \in Seq(Product) /\ Len(products') = Len(products) + 1
        /\ \A i \in 1..Len(products) : products'[i] = products[i]
        /\ products'[Len(products) + 1] = ProductOf(d)
    BY <1>1, <2>2, <2>3, AppendProperties
  <2>5. DOMAIN products' = 1..(Len(products) + 1)
    BY <2>4, LenProperties
  <2> QED
    BY <1>1, <1>2, <1>4, <2>4, <2>5
<1> QED
  BY <1>3, <1>4, RowSteps

\* Only the transaction that makes the product confirms a draft, and nothing
\* that happens to a confirmed row touches what the product was made of.
LEMMA ConfirmedStep ==
  IInv /\ ConfirmedMatchesProduct /\ [Next]_vars => ConfirmedMatchesProduct'
<1> SUFFICES ASSUME IInv, ConfirmedMatchesProduct, [Next]_vars,
                    NEW d \in Drafts, drafts'[d].status = "confirmed"
             PROVE  /\ drafts'[d].product \in DOMAIN products'
                    /\ products'[drafts'[d].product] =
                         [draft |-> d, name |-> drafts'[d].name, date |-> drafts'[d].date]
  BY DEF ConfirmedMatchesProduct
<1>1. TypeOK /\ (drafts'[d] = drafts[d] \/ RowStep(d))
  BY RowSteps DEF IInv
<1>2. CASE Confirms(d)
  <2>1. /\ drafts'[d].product = Len(products) + 1
        /\ drafts'[d].name = drafts[d].name /\ drafts'[d].date = drafts[d].date
    BY <1>1, <1>2, RowStepFacts
  <2>2. products # products'
    <3>1. products \in Seq(Product) /\ products' = Append(products, ProductOf(d))
      BY <1>2, ProductSteps DEF Confirms
    <3> QED
      BY <3>1
  <2>3. /\ Len(products) + 1 \in DOMAIN products'
        /\ products'[Len(products) + 1] = ProductOf(d)
    BY <1>2, <2>2, ProductSteps DEF Confirms, BotWrites
  <2> QED
    BY <2>1, <2>3 DEF ProductOf
<1>3. CASE ~Confirms(d)
  <2>1. /\ drafts[d].status = "confirmed" /\ drafts'[d].product = drafts[d].product
        /\ drafts'[d].name = drafts[d].name /\ drafts'[d].date = drafts[d].date
    BY <1>1, <1>3, RowStepFacts DEF RowStep, Editing
  <2> QED
    BY <2>1, ProductSteps DEF ConfirmedMatchesProduct
<1> QED
  BY <1>2, <1>3

\* A confirmed draft and its product never part, whatever fails, is retried or
\* is swept.
THEOREM ConfirmedMatchesProductHolds == Spec => []ConfirmedMatchesProduct
<1>1. Init => ConfirmedMatchesProduct
  BY DEF Init, ConfirmedMatchesProduct, NoRow
<1> QED
  BY <1>1, ConfirmedStep, Invariance, PTL DEF Spec

\* The transaction checks the row it has locked.
LEMMA CompleteStep == IInv /\ ProductsComplete /\ [Next]_vars => ProductsComplete'
<1> SUFFICES ASSUME IInv, ProductsComplete, [Next]_vars, NEW i \in DOMAIN products'
             PROVE  Complete(products'[i])
  BY DEF ProductsComplete, Complete
<1>1. CASE i \in DOMAIN products
  BY <1>1, ProductSteps DEF ProductsComplete
<1>2. CASE i \notin DOMAIN products
  <2> DEFINE d == proc["bot"].draft
  <2>1. Confirms(d) /\ products'[i] = ProductOf(d)
    BY <1>2, ProductSteps
  <2> QED
    BY <2>1 DEF Confirms, Complete, ProductOf
<1> QED
  BY <1>1, <1>2

\* Every product has a name and a date.
THEOREM ProductsCompleteHolds == Spec => []ProductsComplete
<1>1. Init => ProductsComplete
  BY DEF Init, ProductsComplete
<1> QED
  BY <1>1, CompleteStep, Invariance, PTL DEF Spec

-----------------------------------------------------------------------------
(* Drafts that are not overwritten by a second attempt.                    *)

\* The steps of a row, without the overwriting one.
LEMMA CalmSteps ==
  ASSUME IInv, [Next]_vars, [Calm]_vars, NEW d \in Drafts
  PROVE  \/ drafts'[d] = drafts[d]
         \/ Confirms(d) \/ Closes(d) \/ Enters(d) \/ Prompts(d) \/ Edits(d)
         \/ Creates(d) \/ GetsCard(d) \/ GetsCleaned(d) \/ IsSwept(d)
<1>1. CASE UNCHANGED vars
  BY <1>1 DEF vars, table
<1>2. CASE Calm
  <2>1. ~Rewrites(d)
    BY <1>2 DEF Rewrites, Calm
  <2> QED
    BY <2>1, RowSteps DEF RowStep
<1> QED
  BY <1>1, <1>2

\* A row the bot writes is one it does not have in hand afterwards, unless it
\* goes on to send the prompt.
LEMMA BotMovesOn ==
  ASSUME IInv, NEW d \in Drafts,
         Confirms(d) \/ Closes(d) \/ Enters(d) \/ Prompts(d) \/ Edits(d)
  PROVE  proc'["bot"].at # proc["bot"].at
<1>1. proc \in [Procs -> InHand] /\ "bot" \in Procs
  BY HandFacts DEF IInv, TypeOK
<1>2. /\ Done("bot") => proc'["bot"].at = "idle"
      /\ \A place : Goto("bot", place) \/ Forget("bot", place) => proc'["bot"].at = place
  <2>1. Done("bot") => proc'["bot"].at = "idle"
    BY <1>1 DEF Done, Idle
  <2>2. ASSUME NEW place, Goto("bot", place) PROVE proc'["bot"].at = place
    BY <1>1, <2>2 DEF Goto, InHand
  <2>3. ASSUME NEW place, Forget("bot", place) PROVE proc'["bot"].at = place
    BY <1>1, <2>3 DEF Forget, InHand
  <2> QED
    BY <2>1, <2>2, <2>3
<1>3. CASE Confirms(d) \/ Closes(d) \/ Enters(d)
  BY <1>2, <1>3 DEF Confirms, Closes, Enters, ConfirmDraft, CloseDraft, EnterEdit, At
<1>4. CASE Prompts(d) \/ Edits(d)
  BY <1>2, <1>4 DEF Prompts, Edits, SetPrompt, ApplyEdit, At
<1> QED
  BY <1>3, <1>4

\* Either the bot stays where it is, or it made a step of its own or failed.
LEMMA BotStays ==
  ASSUME IInv, [Next]_vars
  PROVE  \/ proc'["bot"] = proc["bot"]
         \/ LET h == proc'["bot"]
            IN  h.at = "idle" \/ TakesTap(h) \/ TakesEdit(h) \/ TakesText(h) \/ GoesOn(h)
  BY BotHands, PipelineHands, OthersHands

\* A draft keeps its product, and a product its draft.
LEMMA PointersStep == OInv /\ [Next]_vars /\ [Calm]_vars => Pointers'
<1> SUFFICES ASSUME OInv, [Next]_vars, [Calm]_vars PROVE Pointers'
  OBVIOUS
<1>1. IInv /\ TypeOK /\ Pointers /\ Open
  BY DEF OInv, IInv
<1>2. ASSUME NEW d \in Drafts, drafts[d].product # 0
      PROVE  /\ drafts'[d].product = drafts[d].product
             /\ drafts'[d].status \in {"confirmed", "failed"}
  <2>1. drafts[d].status \in {"confirmed", "failed"}
    BY <1>1, <1>2 DEF Pointers
  <2>2. ~Confirms(d) /\ ~Creates(d) /\ ~GetsCleaned(d)
    BY <1>1, <2>1 DEF Confirms, Creates, GetsCleaned, Live, Editing, Exists
  <2>3. ~Closes(d) /\ ~Enters(d) /\ ~Prompts(d) /\ ~Edits(d)
    BY <1>1, <1>2 DEF Open, Closes, Enters, Prompts, Edits, BotWrites
  <2> QED
    BY <1>1, <2>1, <2>2, <2>3, CalmSteps, RowStepFacts
<1>3. ASSUME NEW d \in Drafts, drafts'[d].product # 0
      PROVE  drafts'[d].status \in {"confirmed", "failed"}
  <2>1. CASE drafts[d].product # 0
    BY <1>2, <2>1
  <2>2. CASE drafts[d].product = 0
    BY <1>1, <1>3, <2>2, CalmSteps, RowStepFacts
  <2> QED
    BY <2>1, <2>2
<1>4. ASSUME NEW i \in DOMAIN products'
      PROVE  drafts'[products'[i].draft].product = i
  <2>1. CASE i \in DOMAIN products
    <3>1. products'[i] = products[i] /\ products[i].draft \in Drafts /\ i # 0
      BY <1>1, <2>1, ProductSteps DEF Product
    <3>2. drafts[products[i].draft].product = i
      BY <1>1, <2>1 DEF Pointers
    <3> QED
      BY <1>2, <3>1, <3>2
  <2>2. CASE i \notin DOMAIN products
    <3> DEFINE d == proc["bot"].draft
    <3>1. /\ d \in Drafts /\ Confirms(d) /\ i = Len(products) + 1
          /\ products'[i] = ProductOf(d)
      BY <1>1, <1>4, <2>2, ProductSteps
    <3>2. drafts'[d].product = Len(products) + 1
      BY <1>1, <3>1, RowStepFacts
    <3> QED
      BY <3>1, <3>2 DEF ProductOf
  <2> QED
    BY <2>1, <2>2
<1> QED
  BY <1>3, <1>4 DEF Pointers

\* A row the bot has in hand to write stays open, whoever else writes it.
LEMMA OpenStep == OInv /\ [Next]_vars /\ [Calm]_vars => Open' /\ EditInHand'
<1> SUFFICES ASSUME OInv, [Next]_vars, [Calm]_vars PROVE Open' /\ EditInHand'
  OBVIOUS
<1>1. IInv /\ TypeOK /\ Pointers /\ Open /\ EditInHand
  BY DEF OInv, IInv
<1> DEFINE h == proc'["bot"]
<1>2. \A d \in Drafts : drafts[d].status \in Live => drafts[d].product = 0
  BY <1>1 DEF Pointers, Live, Editing
<1>3. CASE proc'["bot"] = proc["bot"]
  <2>1. CASE h.at \notin {"confirm", "close", "enter", "prompt", "setprompt", "edit"}
    BY <2>1 DEF Open, EditInHand
  <2>2. CASE h.at \in {"confirm", "close", "enter", "prompt", "setprompt", "edit"}
    <3> DEFINE d == h.draft
    <3>1. d \in Drafts /\ Exists(d)
      BY <1>1, <1>3, <2>2, HandFacts DEF IInv, Existing
    <3>2. \/ drafts'[d] = drafts[d]
          \/ GetsCard(d) \/ GetsCleaned(d) \/ IsSwept(d)
      BY <1>1, <1>3, <3>1, CalmSteps, BotMovesOn DEF Creates
    <3>3. /\ drafts'[d].product = drafts[d].product
          /\ drafts'[d].status \in {drafts[d].status, "failed"}
          /\ ~GetsCleaned(d) => drafts'[d].name = drafts[d].name /\ drafts'[d].date = drafts[d].date
          /\ GetsCleaned(d) => drafts[d].status = "ready"
      BY <1>1, <3>1, <3>2, RowStepFacts
    <3>4. Open'
      BY <1>1, <1>3, <3>3 DEF Open
    <3>5. EditInHand'
      BY <1>1, <1>3, <3>3 DEF Open, EditInHand, Editing
    <3> QED
      BY <3>4, <3>5
  <2> QED
    BY <2>1, <2>2
<1>4. CASE h.at = "idle" \/ TakesText(h)
  BY <1>4 DEF TakesText, Open, EditInHand
<1>5. CASE TakesTap(h)
  <2>1. drafts' = drafts
    BY <1>5 DEF TakesTap, HandleTap, table
  <2> QED
    BY <1>2, <1>5, <2>1 DEF TakesTap, Open, EditInHand
<1>6. CASE TakesEdit(h)
  <2>1. drafts' = drafts
    BY <1>6 DEF TakesEdit, HandleEditText, table
  <2> QED
    BY <1>2, <1>6, <2>1 DEF TakesEdit, Open, EditInHand, Live
<1>7. CASE GoesOn(h)
  <2>1. CASE EnterEdit /\ proc["bot"].at = "enter" /\ h.at = "prompt"
    <3> DEFINE d == h.draft
    <3>1. d \in Drafts /\ d = proc["bot"].draft /\ Exists(d)
      BY <1>1, <1>7, <2>1, HandFacts DEF GoesOn, IInv, Existing
    <3>2. drafts[d].product = 0
      BY <1>1, <2>1, <3>1 DEF Open
    <3>3. drafts'[d].status \in Editing /\ drafts'[d].product = drafts[d].product
      <4>1. drafts[d] \in Row /\ drafts \in [Drafts -> Row]
        BY <1>1, <3>1 DEF TypeOK
      <4>2. \E st \in Editing : drafts'[d] = StatusRow(d, st)
        BY <2>1, <3>1, <4>1 DEF EnterEdit, EditStatus, Write, Editing
      <4> QED
        BY <4>1, <4>2 DEF StatusRow, Row
    <3> QED
      BY <2>1, <3>2, <3>3 DEF Open, EditInHand
  <2>2. CASE SendPrompt /\ proc["bot"].at = "prompt" /\ h.at = "setprompt"
    <3>1. drafts' = drafts
      BY <2>2 DEF SendPrompt, table
    <3> QED
      BY <1>1, <1>7, <2>2, <3>1 DEF GoesOn, Open, EditInHand
  <2>3. CASE h.at \in {"finish", "settle", "redraw"} \cup IngestPlaces
    BY <2>3 DEF IngestPlaces, Open, EditInHand
  <2> QED
    BY <1>7, <2>1, <2>2, <2>3 DEF GoesOn
<1> QED
  BY <1>1, <1>3, <1>4, <1>5, <1>6, <1>7, BotStays

\* A prompt is recorded on a draft that is being edited or was failed since.
LEMMA PromptStep == OInv /\ [Next]_vars /\ [Calm]_vars => PromptMeansEditing'
<1> SUFFICES ASSUME OInv, [Next]_vars, [Calm]_vars, NEW d \in Drafts, drafts'[d].prompt # NoPrompt
             PROVE  drafts'[d].status \in Editing \cup {"failed"}
  BY DEF PromptMeansEditing
<1>1. IInv /\ TypeOK /\ Open /\ PromptMeansEditing
  BY DEF OInv, IInv
<1>2. CASE Prompts(d)
  <2>1. drafts[d].status \in Editing \cup {"failed"}
    BY <1>1, <1>2 DEF Open, Prompts, BotWrites
  <2> QED
    BY <1>1, <1>2, <2>1, RowStepFacts
<1>3. CASE ~Prompts(d)
  <2>1. ~Confirms(d) /\ ~Closes(d) /\ ~Edits(d) /\ ~Creates(d) /\ ~IsSwept(d)
    BY <1>1, RowStepFacts
  <2>2. drafts'[d] = drafts[d] \/ Enters(d) \/ GetsCard(d) \/ GetsCleaned(d)
    BY <1>1, <1>3, <2>1, CalmSteps
  <2>3. CASE Enters(d)
    BY <1>1, <2>3, RowStepFacts
  <2>4. CASE drafts'[d] = drafts[d] \/ GetsCard(d) \/ GetsCleaned(d)
    <3>1. drafts'[d].prompt = drafts[d].prompt
      BY <1>1, <2>4, RowStepFacts, Zenon
    <3>2. drafts[d].prompt # NoPrompt
      BY <3>1, Zenon
    <3>3. drafts[d].status \in Editing \cup {"failed"}
      BY <1>1, <3>2, Zenon DEF PromptMeansEditing
    <3>4. drafts'[d].status = drafts[d].status
      BY <1>1, <2>4, RowStepFacts
    <3> QED
      BY <3>3, <3>4
  <2> QED
    BY <2>2, <2>3, <2>4
<1> QED
  BY <1>2, <1>3

\* A step that overwrites no draft keeps the invariant.
LEMMA NextOInv == OInv /\ [Next]_vars /\ [Calm]_vars => OInv'
  BY NextIInv, PointersStep, OpenStep, PromptStep DEF OInv

\* The user starts with no drafts, products or prompts.
LEMMA InitOInv == Init => OInv
<1> SUFFICES ASSUME Init PROVE OInv
  OBVIOUS
<1>1. \A d \in Drafts : drafts[d].prompt = NoPrompt /\ drafts[d].product = 0
  BY DEF Init, NoRow
<1>2. proc["bot"].at = "idle" /\ DOMAIN products = {}
  BY DEF Init, Procs, Idle
<1> QED
  BY <1>1, <1>2, InitIInv DEF OInv, Pointers, Open, EditInHand, PromptMeansEditing

\* As long as no ingest attempt overwrites a draft, drafts, products and what
\* the bot has in hand agree.
THEOREM CalmInvariance == Spec /\ NoRewrite => []OInv
  BY InitOInv, NextOInv, PTL DEF Spec, NoRewrite

\* As long as no ingest attempt overwrites it, no draft yields two products.
THEOREM OneProductPerDraftHolds == Spec /\ NoRewrite => []OneProductPerDraft
<1>1. OInv => OneProductPerDraft
  BY DEF OInv, Pointers, OneProductPerDraft
<1> QED
  BY <1>1, CalmInvariance, PTL

\* As long as no ingest attempt overwrites it, a draft has a prompt on record
\* only while it is edited or after the sweep failed it.
THEOREM PromptMeansEditingHolds == Spec /\ NoRewrite => []PromptMeansEditing
<1>1. OInv => PromptMeansEditing
  BY DEF OInv
<1> QED
  BY <1>1, CalmInvariance, PTL

\* As long as no ingest attempt overwrites it, a draft the user has ended stays
\* ended the same way, save that the sweep may call it failed.
THEOREM EndedOnceHolds == Spec /\ NoRewrite => EndedOnce
<1> DEFINE Ends == \A d \in Drafts :
             drafts[d].status \in {"confirmed", "canceled"} \/ drafts[d].product # 0
                => drafts'[d].status \in {drafts[d].status, "failed"}
<1>1. OInv /\ [Next]_vars /\ [Calm]_vars => [Ends]_vars
  <2> SUFFICES ASSUME OInv, [Next]_vars, [Calm]_vars, NEW d \in Drafts,
                      drafts[d].status \in {"confirmed", "canceled"} \/ drafts[d].product # 0
               PROVE  drafts'[d].status \in {drafts[d].status, "failed"}
    OBVIOUS
  <2>1. IInv /\ TypeOK /\ Pointers /\ Open
    BY DEF OInv, IInv
  <2>2. drafts[d].status \in {"confirmed", "canceled", "failed"}
    BY <2>1 DEF Pointers
  <2>3. ~Confirms(d) /\ ~Creates(d) /\ ~GetsCleaned(d)
    BY <2>2 DEF Confirms, Creates, GetsCleaned, Live, Editing, Exists
  <2>4. ~Closes(d) /\ ~Enters(d) /\ ~Edits(d)
    BY <2>1 DEF Open, Closes, Enters, Edits, BotWrites, Live, Editing
  <2> QED
    BY <2>1, <2>3, <2>4, CalmSteps, RowStepFacts
<1> QED
  BY <1>1, CalmInvariance, PTL DEF Spec, NoRewrite, EndedOnce

\* As long as no ingest attempt overwrites the draft, an edit finds the other
\* field as it read it, whatever the cleaner and the sweep did meanwhile.
THEOREM EditLosesNothingHolds == Spec /\ NoRewrite => EditLosesNothing
<1> DEFINE Loses == At("bot", "edit") /\ drafts' # drafts =>
              LET d == proc["bot"].draft
              IN  IF proc["bot"].snap.status = "editing_name"
                  THEN drafts'[d].date = drafts[d].date
                  ELSE drafts'[d].name = drafts[d].name
<1>1. OInv /\ [Next]_vars /\ [Calm]_vars => [Loses]_vars
  <2> DEFINE h == proc["bot"]
             d == h.draft
  <2> SUFFICES ASSUME OInv, [Next]_vars, [Calm]_vars, h.at = "edit"
               PROVE  IF h.snap.status = "editing_name" THEN drafts'[d].date = drafts[d].date
                                                        ELSE drafts'[d].name = drafts[d].name
    BY DEF At
  <2>1. IInv /\ TypeOK /\ Open /\ EditInHand /\ d \in Drafts
    BY HandFacts DEF OInv, IInv
  <2>2. drafts[d].status \in Editing \cup {"failed"}
    BY <2>1 DEF Open
  <2>3. drafts'[d] = drafts[d] \/ Edits(d) \/ GetsCard(d) \/ IsSwept(d)
    BY <2>1, <2>2, CalmSteps
    DEF Confirms, Closes, Enters, Prompts, Creates, GetsCleaned, BotWrites, Editing, Exists
  <2>4. CASE Edits(d)
    BY <2>1, <2>4, RowStepFacts DEF EditInHand
  <2> QED
    BY <2>1, <2>3, <2>4, RowStepFacts
<1> QED
  BY <1>1, CalmInvariance, PTL DEF Spec, NoRewrite, EditLosesNothing

-----------------------------------------------------------------------------
(* What overwrites a draft.                                                *)

\* A row comes to be when the ingestion it belongs to leaves its first step.
LEMMA NewRows ==
  ASSUME IInv, [Next]_vars, NEW d \in Drafts, ~Exists(d), drafts'[d].status # "absent"
  PROVE  \E p \in Procs : AtUpsert(p) /\ proc[p].draft = d /\ proc'[p].at # "upsert"
<1>1. PICK p \in Procs : CreateDraft(p) /\ AtUpsert(p) /\ proc[p].draft = d
  BY RowsStay DEF Exists, Creates, AtUpsert
<1>2. proc'[p].at # "upsert"
  BY <1>1, IngestHands DEF Ingest
<1> QED
  BY <1>1, <1>2

\* An ingestion in hand was in hand before, or is the bot's of a new text, or
\* the pipeline's of a job that waited.
LEMMA Arrivals ==
  ASSUME IInv, [Next]_vars, NEW p \in Procs, InIngestion(p)'
  PROVE  \/ /\ InIngestion(p)
            /\ proc'[p].draft = proc[p].draft /\ proc'[p].todo = proc[p].todo
            /\ AtUpsert(p)' => proc'[p] = proc[p]
         \/ p = "bot" /\ TakesText(proc'[p])
         \/ p = "pipeline" /\ TakesJob(proc'[p]) /\ Ingests(proc'[p].todo)
<1> DEFINE Same == /\ InIngestion(p)
                   /\ proc'[p].draft = proc[p].draft /\ proc'[p].todo = proc[p].todo
                   /\ AtUpsert(p)' => proc'[p] = proc[p]
<1>1. p = "bot" \/ p = "pipeline"
  BY DEF Procs
<1>2. ASSUME proc'[p] = proc[p] PROVE Same
  BY <1>2 DEF InIngestion, AtUpsert, Ingests
<1>3. CASE Bot \/ BotFails \/ BotRestarts
  BY <1>1, <1>2, <1>3, BotHands DEF TakesTap, TakesEdit, GoesOn, AtUpsert, InIngestion
<1>4. CASE Pipeline \/ JobFails \/ PipelineRestarts
  <2>1. CASE p = "bot"
    BY <1>2, <1>4, <2>1, PipelineHands
  <2>2. CASE p = "pipeline"
    <3> DEFINE h == proc'["pipeline"]
    <3>1. h.at # "idle"
      BY <2>2 DEF InIngestion, AtUpsert
    <3>2. CASE TakesJob(h)
      BY <2>2, <3>2 DEF TakesJob, InIngestion, AtUpsert, Ingests
    <3>3. CASE Proceeds(h)
      <4>1. h.at # "upsert" /\ proc["pipeline"].at # "idle" /\ h.todo = proc["pipeline"].todo
            /\ h.draft = proc["pipeline"].draft
        BY <3>3 DEF Proceeds, IngestPlaces
      <4> QED
        BY <2>2, <4>1 DEF InIngestion, AtUpsert, Ingests
    <3> QED
      BY <1>4, <2>2, <3>1, <3>2, <3>3, PipelineHands
  <2> QED
    BY <1>1, <2>1, <2>2
<1> QED
  BY <1>2, <1>3, <1>4, OthersHands

\* Which ingest jobs wait after a step: those that waited, and one more for a
\* voice message or for the attempt that failed.
LEMMA IngestJobs ==
  ASSUME IInv, [Next]_vars, NEW j \in work', Ingests(j)
  PROVE  /\ j \in Job
         /\ \/ j \in work
            \/ /\ HandleVoice /\ traces' = traces + 1 /\ traces < MaxDrafts
               /\ j.draft = traces + 1 /\ j.tries = 0 /\ UNCHANGED <<proc, drafts>>
               /\ \A k \in work' : k = j \/ k \in work
            \/ /\ PutsBack
               /\ InIngestion("pipeline") /\ proc'["pipeline"].at = "idle"
               /\ proc'["bot"] = proc["bot"] /\ UNCHANGED <<traces, drafts>>
               /\ j.draft = proc["pipeline"].draft /\ j.tries # 0
               /\ \A k \in work' : k = j \/ k \in work
<1>1. TypeOK /\ j \in Job
  BY NextTypes DEF IInv, TypeOK
<1>2. CASE HandleVoice /\ j \notin work
  <2>1. traces # MaxDrafts /\ traces' = traces + 1
        /\ work' = work \cup {[kind |-> "ingest", draft |-> traces + 1,
                               parsed |-> Head(inbox).parsed, tries |-> 0]}
    BY <1>2 DEF HandleVoice, NewTrace
  <2>2. traces < MaxDrafts
    <3>1. traces \in 0..MaxDrafts /\ MaxDrafts \in Nat
      BY <1>1, DraftSessionAssumption DEF TypeOK
    <3> QED
      BY <2>1, <3>1
  <2>3. j = [kind |-> "ingest", draft |-> traces + 1, parsed |-> Head(inbox).parsed, tries |-> 0]
    BY <1>2, <2>1
  <2> QED
    BY <1>1, <1>2, <2>1, <2>2, <2>3 DEF HandleVoice, table
<1>3. CASE JobFails /\ j \notin work
  <2> DEFINE h == proc["pipeline"]
             todo == h.todo
             again == [todo EXCEPT !.tries = @ + 1]
  <2>1. /\ h.at # "idle" /\ todo.tries + 1 < Attempts[todo.kind]
        /\ j = again /\ work' = work \cup {again}
    BY <1>3 DEF JobFails, At
  <2>2. todo.kind = "ingest" /\ todo \in Job /\ todo.draft = h.draft
        /\ j.draft = h.draft /\ j.tries = todo.tries + 1
    BY <2>1, AgainFacts DEF Ingests, IInv, PipelineHand
  <2>3. todo.tries \in Nat
    BY <2>2 DEF Job
  <2>4. proc'["pipeline"].at = "idle" /\ proc'["bot"] = proc["bot"]
        /\ UNCHANGED <<traces, drafts>>
    BY <1>1, <1>3 DEF JobFails, Done, Idle, TypeOK, Procs, table
  <2>5. PutsBack /\ InIngestion("pipeline")
    BY <1>3, <2>1, <2>2 DEF PutsBack, InIngestion, Ingests
  <2>6. j.tries # 0
    BY <2>2, <2>3
  <2> QED
    BY <1>1, <2>1, <2>2, <2>4, <2>5, <2>6
<1>4. ASSUME NEW p \in Procs, EnqueueCleaner(p) PROVE j \in work
  BY <1>4 DEF EnqueueCleaner, Ingests
<1>5. ASSUME NEW k \in work, StartJob(k) PROVE j \in work
  BY <1>5 DEF StartJob
<1>6. CASE j \in work
  BY <1>1, <1>6
<1>7. ASSUME work' = work PROVE j \in work
  BY <1>7
<1>8. \/ work' = work \/ HandleVoice \/ (\E k \in work : StartJob(k)) \/ JobFails
      \/ \E p \in Procs : EnqueueCleaner(p)
  BY Frames
<1>9. j \in work \/ HandleVoice \/ JobFails
  BY <1>4, <1>5, <1>7, <1>8
<1>10. j \in work \/ (HandleVoice /\ j \notin work) \/ (JobFails /\ j \notin work)
  BY <1>9
<1> QED
  BY <1>2, <1>3, <1>6, <1>10

\* No step brings two ingestions to one draft, or a first attempt to a draft
\* that has a row.
LEMMA OwnedStep == IInv /\ Owned /\ [Next]_vars => Owned'
<1> SUFFICES ASSUME IInv, Owned, [Next]_vars PROVE Owned'
  OBVIOUS
<1>1. /\ TypeOK /\ traces \in Nat /\ traces' \in Nat /\ "bot" # "pipeline"
      /\ \A j \in Job : j.draft \in Drafts
      /\ work \subseteq Job
      /\ Procs = {"bot", "pipeline"}
  <2>1. TypeOK /\ TypeOK'
    BY NextTypes DEF IInv
  <2>2. traces \in Nat /\ work \subseteq Job
    BY <2>1 DEF TypeOK
  <2>3. traces' \in Nat
    BY <2>1 DEF TypeOK
  <2>4. \A j \in Job : j.draft \in Drafts
    BY DEF Job
  <2> QED
    BY <2>1, <2>2, <2>3, <2>4 DEF Procs
<1>2. traces' \in {traces, traces + 1}
  BY Frames DEF HandleNewText, HandleVoice
<1>3. \A d \in Drafts : d \in Nat
  BY DEF Drafts
<1>4. \A p \in Procs : InIngestion(p) => proc[p].draft \in Drafts /\ proc[p].draft <= traces
  BY HandFacts DEF Owned, InIngestion, AtUpsert
<1>5. \A p \in Procs : AtUpsert(p) => InIngestion(p)
  BY DEF InIngestion
<1>6. ASSUME NEW d \in Drafts, d > traces PROVE drafts'[d].status = "absent"
  <2>1. \A p \in Procs : AtUpsert(p) => proc[p].draft # d
    BY <1>1, <1>3, <1>4, <1>5, <1>6
  <2> QED
    BY <1>6, <2>1, NewRows DEF Owned
<1>7. \A d \in Drafts : d > traces' => ~Exists(d)'
  BY <1>1, <1>2, <1>3, <1>6 DEF Exists
<1>8. ASSUME NEW j \in work, Ingests(j), j.tries = 0 PROVE drafts'[j.draft].status = "absent"
  BY <1>1, <1>5, <1>8, NewRows DEF Owned
<1>9. ASSUME NEW p \in Procs, AtUpsert(p), FirstTry(p), proc'[p] = proc[p]
      PROVE  drafts'[proc[p].draft].status = "absent"
  <2>1. proc[p].draft \in Drafts /\ ~Exists(proc[p].draft)
    BY <1>4, <1>5, <1>9 DEF Owned
  <2>2. ASSUME NEW q \in Procs, AtUpsert(q), proc[q].draft = proc[p].draft
        PROVE  proc'[q].at = "upsert"
    BY <1>5, <1>9, <2>2 DEF Owned, AtUpsert
  <2> QED
    BY <2>1, <2>2, NewRows
<1>10. ASSUME NEW j \in work, Ingests(j)
       PROVE  j.draft \in Drafts /\ j.draft <= traces /\ j.draft # traces + 1
  BY <1>1, <1>3, <1>10 DEF Owned
<1>11. ASSUME NEW j \in work', Ingests(j)
       PROVE  j.draft <= traces' /\ (j.tries = 0 => drafts'[j.draft].status = "absent")
  <2>1. j \in Job /\ j.draft \in Drafts
    BY <1>1, <1>11, IngestJobs
  <2>2. CASE j \in work
    BY <1>1, <1>2, <1>3, <1>8, <1>10, <1>11, <2>1, <2>2
  <2>3. CASE j.draft = traces + 1 /\ traces' = traces + 1
    BY <1>1, <1>6, <2>1, <2>3
  <2>4. CASE InIngestion("pipeline") /\ traces' = traces /\ j.draft = proc["pipeline"].draft
             /\ j.tries # 0
    BY <1>1, <1>4, <2>4
  <2> QED
    BY <1>11, <2>2, <2>3, <2>4, IngestJobs
<1>12. ASSUME NEW j \in work', NEW k \in work', Ingests(j), Ingests(k), j.draft = k.draft
       PROVE  j = k
  <2>1. CASE j \in work /\ k \in work
    BY <1>12, <2>1 DEF Owned
  <2>2. \A i \in work : Ingests(i) /\ InIngestion("pipeline") => i.draft # proc["pipeline"].draft
    BY <1>1 DEF Owned
  <2> QED
    BY <1>10, <1>12, <2>1, <2>2, IngestJobs
<1>13. ASSUME NEW p \in Procs, InIngestion(p)' PROVE proc'[p].draft <= traces'
  <2>1. CASE InIngestion(p) /\ proc'[p].draft = proc[p].draft
    BY <1>1, <1>2, <1>3, <1>4, <2>1
  <2>2. CASE TakesText(proc'[p])
    BY <1>1, <2>2 DEF TakesText
  <2>3. CASE TakesJob(proc'[p]) /\ Ingests(proc'[p].todo)
    <3>1. proc'[p].todo \in work /\ proc'[p].draft = proc'[p].todo.draft
      BY <2>3 DEF TakesJob
    <3> QED
      BY <1>1, <1>2, <1>3, <1>10, <2>3, <3>1
  <2> QED
    BY <1>13, <2>1, <2>2, <2>3, Arrivals
<1>14. ASSUME NEW p \in Procs, AtUpsert(p)', FirstTry(p)'
       PROVE  drafts'[proc'[p].draft].status = "absent"
  <2>1. CASE InIngestion(p) /\ proc'[p] = proc[p]
    BY <1>9, <1>14, <2>1 DEF AtUpsert, FirstTry
  <2>2. CASE TakesText(proc'[p])
    BY <1>1, <1>3, <1>6, <2>2 DEF TakesText
  <2>3. CASE p = "pipeline" /\ TakesJob(proc'[p]) /\ Ingests(proc'[p].todo)
    <3>1. proc'[p].todo \in work /\ proc'[p].draft = proc'[p].todo.draft
      BY <2>3 DEF TakesJob
    <3>2. proc'[p].todo.tries = 0
      BY <1>1, <1>14, <2>3 DEF FirstTry
    <3> QED
      BY <1>8, <2>3, <3>1, <3>2
  <2> QED
    BY <1>14, <2>1, <2>2, <2>3, Arrivals DEF InIngestion
<1>15. ASSUME NEW p \in Procs, NEW j \in work', InIngestion(p)', Ingests(j)
       PROVE  proc'[p].draft # j.draft
  <2> DEFINE h == proc'[p]
  <2>1. CASE InIngestion(p) /\ h.draft = proc[p].draft
    <3>1. h.draft # traces + 1
      BY <1>1, <1>3, <1>4, <2>1
    <3>2. CASE j \in work
      BY <1>15, <2>1, <3>2 DEF Owned
    <3>3. CASE InIngestion("pipeline") /\ proc'["pipeline"].at = "idle"
               /\ j.draft = proc["pipeline"].draft
      <4>1. p # "pipeline"
        BY <1>15, <3>3 DEF InIngestion, AtUpsert
      <4> QED
        BY <1>1, <2>1, <3>3, <4>1 DEF Owned
    <3> QED
      BY <1>15, <3>1, <3>2, <3>3, IngestJobs
  <2>2. CASE TakesText(h)
    <3>1. work' = work /\ h.draft = traces + 1
      BY <2>2 DEF TakesText, HandleNewText
    <3> QED
      BY <1>10, <1>15, <3>1
  <2>3. CASE TakesJob(h) /\ Ingests(h.todo)
    <3>1. h.todo \in work /\ work' = work \ {h.todo} /\ h.draft = h.todo.draft
      BY <2>3 DEF TakesJob, StartJob
    <3> QED
      BY <1>15, <2>3, <3>1 DEF Owned
  <2> QED
    BY <1>15, <2>1, <2>2, <2>3, Arrivals
<1>16. ASSUME NEW a \in Procs, NEW b \in Procs, a # b, InIngestion(a)', InIngestion(b)',
              proc'[b] = proc[b]
       PROVE  proc'[a].draft # proc'[b].draft
  <2>1. InIngestion(b)
    BY <1>16 DEF InIngestion, AtUpsert, Ingests
  <2>2. CASE InIngestion(a) /\ proc'[a].draft = proc[a].draft
    BY <1>16, <2>1, <2>2 DEF Owned
  <2>3. CASE TakesText(proc'[a])
    BY <1>1, <1>3, <1>4, <1>16, <2>1, <2>3 DEF TakesText
  <2>4. CASE TakesJob(proc'[a]) /\ Ingests(proc'[a].todo)
    <3>1. proc'[a].todo \in work /\ proc'[a].draft = proc'[a].todo.draft
      BY <2>4 DEF TakesJob
    <3> QED
      BY <1>16, <2>1, <2>4, <3>1 DEF Owned
  <2> QED
    BY <1>16, <2>2, <2>3, <2>4, Arrivals
<1>17. proc'["bot"] = proc["bot"] \/ proc'["pipeline"] = proc["pipeline"]
  BY BotHands, PipelineHands, OthersHands
<1>18. ASSUME NEW p \in Procs, NEW q \in Procs, InIngestion(p)', InIngestion(q)',
              proc'[p].draft = proc'[q].draft
       PROVE  p = q
  BY <1>1, <1>16, <1>17, <1>18
<1> QED
  BY <1>7, <1>11, <1>12, <1>13, <1>14, <1>15, <1>18 DEF Owned, Exists

\* At the start nothing is ingested.
LEMMA InitOwned == Init => Owned
<1> SUFFICES ASSUME Init PROVE Owned
  OBVIOUS
<1>1. work = {} /\ \A p \in Procs : ~InIngestion(p) /\ ~AtUpsert(p)
  BY DEF Init, InIngestion, AtUpsert, Idle
<1>2. \A d \in Drafts : ~Exists(d)
  BY DEF Init, Exists, NoRow
<1> QED
  BY <1>1, <1>2 DEF Owned

\* Only a retry overwrites: whoever finds a draft in place of a new one is the
\* pipeline on a further attempt of the same voice message.  A text the bot is
\* given again, a second message and a first attempt never touch a draft of
\* another, however often the job is allowed to be tried.
THEOREM RewritesAreRetriesHolds == Spec => RewritesAreRetries
<1>1. IInv /\ Owned => \A p \in Procs :
                           OverwriteDraft(p) => p = "pipeline" /\ proc[p].todo.tries # 0
  <2> SUFFICES ASSUME IInv, Owned, NEW p \in Procs, OverwriteDraft(p)
               PROVE  p = "pipeline" /\ proc[p].todo.tries # 0
    OBVIOUS
  <2>1. AtUpsert(p) /\ Exists(proc[p].draft)
    BY DEF OverwriteDraft, At, AtUpsert, Exists
  <2> QED
    BY <2>1 DEF Owned, FirstTry, Procs
<1> QED
  BY <1>1, Invariance, InitOwned, OwnedStep, PTL DEF Spec, RewritesAreRetries

\* While no job is put back, every job is in its first attempt.
LEMMA FirstTriesStep == IInv /\ FirstTries /\ [Next]_vars /\ [~PutsBack]_vars => FirstTries'
<1> SUFFICES ASSUME IInv, FirstTries, [Next]_vars, [~PutsBack]_vars PROVE FirstTries'
  OBVIOUS
<1>1. CASE UNCHANGED vars
  BY <1>1 DEF vars, queue, FirstTries, InIngestion, AtUpsert, Ingests
<1>2. CASE ~PutsBack
  <2>1. ASSUME NEW j \in work', Ingests(j) PROVE j.tries = 0
    BY <1>2, <2>1, IngestJobs DEF FirstTries
  <2>2. ASSUME InIngestion("pipeline")' PROVE proc'["pipeline"].todo.tries = 0
    <3> DEFINE h == proc'["pipeline"]
    <3>1. \/ InIngestion("pipeline") /\ h.todo = proc["pipeline"].todo
          \/ h.todo \in work /\ Ingests(h.todo)
      BY <2>2, Arrivals DEF Procs, TakesJob
    <3> QED
      BY <3>1 DEF FirstTries
  <2> QED
    BY <2>1, <2>2 DEF FirstTries
<1> QED
  BY <1>1, <1>2

\* While no voice message's ingestion fails and is put back for a further attempt,
\* no draft is overwritten: it yields one product at most, a prompt is on record only
\* while it is edited, what has ended stays ended, and edits lose nothing.
THEOREM WhileNothingIsRetried ==
  Spec /\ NoRetry => /\ []OneProductPerDraft
                     /\ []PromptMeansEditing
                     /\ EndedOnce
                     /\ EditLosesNothing
<1>1. Init => FirstTries
  BY DEF Init, FirstTries, InIngestion, AtUpsert, Idle, Procs
<1>2. Spec /\ NoRetry => []FirstTries
  BY <1>1, Invariance, FirstTriesStep, PTL DEF Spec, NoRetry
<1>3. /\ FirstTries
      /\ \A p \in Procs : OverwriteDraft(p) => p = "pipeline" /\ proc[p].todo.tries # 0
      => Calm
  BY DEF FirstTries, InIngestion, AtUpsert, OverwriteDraft, At, Calm
<1>4. Spec /\ NoRetry => NoRewrite
  BY <1>2, <1>3, RewritesAreRetriesHolds, PTL DEF RewritesAreRetries, NoRewrite
<1> QED
  BY <1>4, OneProductPerDraftHolds, PromptMeansEditingHolds, EndedOnceHolds, EditLosesNothingHolds

=============================================================================
