------------------------------ MODULE Dashboard ------------------------------
(***************************************************************************)
(* The dashboard of one user: the message the bot keeps pinned in the chat *)
(* and edits in place, the row of table user_settings that remembers its   *)
(* id, and the products it shows.                                          *)
(*                                                                         *)
(* The handlers of one user run one at a time (module Dispatcher), each a  *)
(* list of calls, todo, of which one is made per step: a statement or a    *)
(* Telegram call, which may fail, or take effect without the bot knowing.  *)
(* A failed call ends the handler.  The reads of a handler are made with   *)
(* the call that follows them, since nobody else writes these rows.  The   *)
(* notice Telegram posts on a pin comes from the bot itself and is handled *)
(* in another mailbox, between any two of those calls.                     *)
(*                                                                         *)
(* Not modelled: the deletion of the command's own message, the last call  *)
(* of its handler; the clock, which stands at Today.                       *)
(***************************************************************************)
EXTENDS Products

CONSTANTS
    StartTables,    \* tables of products the model starts from
    Days,           \* expiry days of products the user adds
    Today,
    MaxProducts,    \* bound: products
    MaxDashboards,  \* bound: dashboards ever sent, each update delivered once
    MaxUpdates,     \* bound: updates the user causes
    MaxInbox,       \* bound: updates waiting in the user's mailbox
    MaxFaults,      \* bound: calls that fail, kills, and dashboards the user deletes
    Zones,          \* time zones of the settings card
    DefaultZone,
    Slots           \* digest times, a cycle 0 .. Slots - 1

ASSUME DashboardAssumption ==
    /\ Today \in Int /\ Days \subseteq Int
    /\ StartTables \subseteq Seq([expires : Int, status : {"active"}])
    /\ {MaxProducts, MaxDashboards, MaxUpdates, MaxInbox, MaxFaults} \subseteq Nat
    /\ DefaultZone \in Zones /\ Slots \in Nat \ {0}

VARIABLES
    products,   \* table products
    settings,   \* the user's row; dash 0 is a NULL dashboard_message_id
    chat,       \* the dashboards in the chat
    nextId,     \* the id of the next dashboard
    notices,    \* pin notices in the chat, by dashboard, and what became of each
    jobs,       \* dashboards that queued delete_messages jobs name
    hints,      \* feedback messages with no deletion job
    sent,       \* updates the user caused so far
    inbox,      \* the user's mailbox
    hand,       \* the update being handled and its calls yet to make
    faults      \* failures so far, and dashboards the user deleted

vars == <<products, settings, chat, nextId, notices, jobs, hints, sent, inbox, hand, faults>>
tables == <<products, settings>>
telegram == <<chat, nextId, notices>>

Ids == 1..(MaxUpdates + MaxFaults)   \* a command delivered again sends one more

-----------------------------------------------------------------------------
(* Views: what the dashboard is asked to show, what it then shows, and the *)
(* buttons under it.                                                       *)

View(view) == [view |-> view, page |-> 0, id |-> 0, mode |-> "list"]
Home == View("home")
ListView(mode, page) == [View(mode) EXCEPT !.page = page]
ProductView(id, mode, page) ==
    [view |-> "product", page |-> page, id |-> id, mode |-> mode]

Blank == [counts |-> <<>>, items |-> <<>>, total |-> 0, status |-> "none",
          zone |-> "none", slot |-> 0]

\* The text of a list page, after the page asked for is clamped.
ListShown(mode, page) ==
    LET list == Listed(products, mode, Today)
        total == Total(products, mode, Today)
        p == ClampPage(page, total)
    IN  [state |-> ListView(mode, p),
         text |-> [Blank EXCEPT !.items = PageOf(list, p), !.total = total]]

HomeText == [Blank EXCEPT !.counts = SubSeq(Stats(products, Today), 1, 3)]
StatsText == [Blank EXCEPT !.counts = Stats(products, Today)]
SettingsText == [Blank EXCEPT !.zone = settings.zone, !.slot = settings.slot]
ProductText(id) == [Blank EXCEPT !.status = products[id].status]

Shown(v) ==
    CASE v.view = "home" -> [state |-> v, text |-> HomeText]
      [] v.view = "stats" -> [state |-> v, text |-> StatsText]
      [] v.view = "settings" -> [state |-> v, text |-> SettingsText]
      [] v.view = "product" -> [state |-> v, text |-> ProductText(v.id)]
      [] OTHER -> ListShown(v.view, v.page)

Go(v) == [act |-> "go", to |-> v]
Set(id, status, v) == [act |-> "set", to |-> v, id |-> id, status |-> status]
Slot(delta) == [act |-> "digest", to |-> View("settings"), delta |-> delta]
Zone(zone) == [act |-> "zone", to |-> View("settings"), zone |-> zone]

HomeButtons ==
    {Go(ListView("list", 0)), Go(ListView("soon", 0)), Go(View("stats")), Go(View("settings"))}

Back == {Go(Home)}

ZoneButtons == {Zone(z) : z \in Zones}
SettingsButtons == {Slot(-1), Slot(1)} \cup ZoneButtons \cup Back

ProductButtons(v) ==
    LET origin == ListView(v.mode, v.page)
    IN  {Set(v.id, s, origin) : s \in Closings} \cup {Go(origin)}

PageButtons(v, text) ==
    {Go(ListView(v.view, p)) : p \in {v.page - 1, v.page + 1} \cap 0..(PageCount(text.total) - 1)}

ListButtons(v, text) ==
    {Go(ProductView(text.items[i], v.view, v.page)) : i \in DOMAIN text.items}
      \cup PageButtons(v, text) \cup Back

Buttons(shown) ==
    LET v == shown.state
    IN  CASE v.view = "home" -> HomeButtons
          [] v.view = "stats" -> Back
          [] v.view = "settings" -> SettingsButtons
          [] v.view = "product" -> ProductButtons(v)
          [] OTHER -> ListButtons(v, shown.text)

-----------------------------------------------------------------------------
Unsent == [here |-> FALSE, pinned |-> FALSE, shown |-> [state |-> Home, text |-> Blank]]
NoUpdate == [kind |-> "none"]
Newest == nextId - 1

Init ==
    /\ products \in StartTables
    /\ settings = [row |-> products # <<>>, dash |-> 0, zone |-> DefaultZone, slot |-> 0]
    /\ chat = [m \in Ids |-> Unsent]
    /\ nextId = 1
    /\ notices = [m \in Ids |-> "none"]
    /\ jobs = {}
    /\ hints = 0
    /\ sent = 0
    /\ inbox = <<>>
    /\ hand = [on |-> NoUpdate, todo |-> <<>>]
    /\ faults = 0

-----------------------------------------------------------------------------
(* The user: commands, taps on any dashboard in the chat, a draft confirmed *)
(* (its own steps are module DraftSession's), a message deleted.            *)

Command(kind) == [kind |-> kind]
Commands == {Command("start"), Command("dashboard")}
Confirm(day) == [kind |-> "confirm", day |-> day]
Tap(m, button) == [kind |-> "tap", on |-> m, button |-> button]

Waiting(kinds) ==
    Len(SelectSeq(inbox \o <<hand.on>>, LAMBDA u : u.kind \in kinds))

Arrives(update) ==
    /\ Len(inbox) < MaxInbox /\ sent < MaxUpdates
    /\ sent' = sent + 1
    /\ inbox' = Append(inbox, update)
    /\ UNCHANGED <<tables, telegram, jobs, hints, hand, faults>>

UserCommands ==
    /\ nextId + Waiting({"start", "dashboard"}) <= MaxDashboards
    /\ \E c \in Commands : Arrives(c)

UserTaps ==
    \E m \in Ids : chat[m].here /\ \E b \in Buttons(chat[m].shown) : Arrives(Tap(m, b))

UserConfirms ==
    /\ Len(products) + Waiting({"confirm"}) < MaxProducts
    /\ \E day \in Days : Arrives(Confirm(day))

UserDeletes ==
    \E m \in Ids :
        /\ chat[m].here /\ faults < MaxFaults
        /\ chat' = [chat EXCEPT ![m] = Unsent]
        /\ faults' = faults + 1
        /\ UNCHANGED <<tables, nextId, notices, jobs, hints, sent, inbox, hand>>

-----------------------------------------------------------------------------
(* The calls an update leads to.                                           *)

Call(name) == [call |-> name]
On(name, m) == [call |-> name, on |-> m]    \* on = 0: the message just sent
Edit(m, v) == [call |-> "edit", on |-> m, to |-> v]

Create == <<Call("send"), Call("save"), On("pin", 0)>>
Retire(m) == IF m = 0 THEN <<>> ELSE <<On("delete", m), On("schedule", m)>>
Feedback == <<Call("hint"), Call("scheduleHint")>>
EnsureRow == IF settings.row THEN <<>> ELSE <<Call("row")>>

StartCalls ==
    EnsureRow \o IF settings.dash = 0 THEN Create ELSE <<On("repin", settings.dash)>>

\* Faulty variant: the new dashboard is pinned before its id is saved.
CreatePinned == <<Call("send"), On("pin", 0), Call("save")>>
DashboardCallsPinFirst == EnsureRow \o CreatePinned \o Retire(settings.dash)

\* Faulty variant: the dashboard is replaced as /start makes the first.
DashboardCallsKept == EnsureRow \o Create

DashboardCalls == EnsureRow \o Create \o Retire(settings.dash)

ConfirmCalls(day) ==
    EnsureRow \o <<[call |-> "product", day |-> day]>>
      \o IF settings.dash = 0 THEN <<>> ELSE <<Edit(settings.dash, Home)>>

Change(b) ==
    CASE b.act = "go" -> <<>>
      [] b.act = "set" -> <<[call |-> "status", id |-> b.id, status |-> b.status]>>
      [] b.act = "digest" -> <<[call |-> "slot", slot |-> (settings.slot + b.delta) % Slots]>>
      [] b.act = "zone" -> <<[call |-> "zone", zone |-> b.zone]>>

\* Faulty variant: a closed product is taken off without drawing the list again.
TapCallsUndrawn(m, b) ==
    IF ~settings.row THEN <<>>
    ELSE IF m # settings.dash THEN Feedback
    ELSE Change(b) \o IF b.act = "set" THEN <<>> ELSE <<Edit(m, b.to)>>

TapCalls(m, b) ==
    IF ~settings.row THEN <<>>
    ELSE IF m # settings.dash THEN Feedback
    ELSE Change(b) \o <<Edit(m, b.to)>>

Calls(u) ==
    CASE u.kind = "start" -> StartCalls
      [] u.kind = "dashboard" -> DashboardCalls
      [] u.kind = "confirm" -> ConfirmCalls(u.day)
      [] u.kind = "tap" -> TapCalls(u.on, u.button)

Idle == hand.todo = <<>>

Take ==
    /\ Idle /\ inbox # <<>>
    /\ hand' = [on |-> Head(inbox), todo |-> Calls(Head(inbox))]
    /\ inbox' = Tail(inbox)
    /\ UNCHANGED <<tables, telegram, jobs, hints, sent, faults>>

-----------------------------------------------------------------------------
(* What each call does when it takes effect.                               *)

Target(c) == IF c.on = 0 THEN Newest ELSE c.on
Missing(c) == c.call \in {"pin", "repin", "edit"} /\ ~chat[Target(c)].here

Row == settings' = [settings EXCEPT !.row = TRUE]
       /\ UNCHANGED <<products, telegram, jobs, hints>>

Send ==
    /\ chat' = [chat EXCEPT ![nextId] = [Unsent EXCEPT !.here = TRUE, !.shown = Shown(Home)]]
    /\ nextId' = nextId + 1
    /\ UNCHANGED <<tables, notices, jobs, hints>>

Save == settings' = [settings EXCEPT !.dash = Newest]
        /\ UNCHANGED <<products, telegram, jobs, hints>>

\* Telegram posts a notice when a message that is not pinned is pinned.
Pin(m) ==
    /\ chat' = [chat EXCEPT ![m].pinned = TRUE]
    /\ notices' = IF chat[m].pinned THEN notices ELSE [notices EXCEPT ![m] = "new"]
    /\ UNCHANGED <<tables, nextId, jobs, hints>>

Delete(m) == chat' = [chat EXCEPT ![m] = Unsent]
             /\ UNCHANGED <<tables, nextId, notices, jobs, hints>>

Schedule(m) == jobs' = jobs \cup {m} /\ UNCHANGED <<tables, telegram, hints>>

\* The feedback message, and the deletion job that will remove it.
Hint(n) == hints' = hints + n /\ UNCHANGED <<tables, telegram, jobs>>

Insert(day) ==
    /\ products' = Append(products, [expires |-> day, status |-> "active"])
    /\ UNCHANGED <<settings, telegram, jobs, hints>>

SetStatus(id, status) ==
    /\ products' = [products EXCEPT ![id].status = status]
    /\ UNCHANGED <<settings, telegram, jobs, hints>>

SetSlot(slot) == settings' = [settings EXCEPT !.slot = slot]
                 /\ UNCHANGED <<products, telegram, jobs, hints>>
SetZone(zone) == settings' = [settings EXCEPT !.zone = zone]
                 /\ UNCHANGED <<products, telegram, jobs, hints>>

Redraw(m, v) == chat' = [chat EXCEPT ![m].shown = Shown(v)]
                /\ UNCHANGED <<tables, nextId, notices, jobs, hints>>

Effect(c) ==
    \/ c.call = "row" /\ Row
    \/ c.call = "send" /\ Send
    \/ c.call = "save" /\ Save
    \/ c.call \in {"pin", "repin"} /\ Pin(Target(c))
    \/ c.call = "delete" /\ Delete(Target(c))
    \/ c.call = "schedule" /\ Schedule(Target(c))
    \/ c.call = "hint" /\ Hint(1)
    \/ c.call = "scheduleHint" /\ Hint(-1)
    \/ c.call = "product" /\ Insert(c.day)
    \/ c.call = "status" /\ SetStatus(c.id, c.status)
    \/ c.call = "slot" /\ SetSlot(c.slot)
    \/ c.call = "zone" /\ SetZone(c.zone)
    \/ c.call = "edit" /\ Redraw(c.on, c.to)

Proceed(todo) == hand' = [on |-> IF todo = <<>> THEN NoUpdate ELSE hand.on, todo |-> todo]

\* A reminder that cannot be pinned, a message that cannot be deleted now: the
\* handler goes on.  Any other error ends it.
AfterFailure ==
    IF Head(hand.todo).call \in {"delete", "repin"} THEN Tail(hand.todo) ELSE <<>>

Succeed ==
    /\ ~Idle /\ ~Missing(Head(hand.todo))
    /\ Effect(Head(hand.todo))
    /\ Proceed(Tail(hand.todo))
    /\ UNCHANGED <<sent, inbox, faults>>

\* The call has failed, or has taken effect and its reply was lost.
Fail ==
    /\ ~Idle /\ faults < MaxFaults
    /\ \/ ~Missing(Head(hand.todo)) /\ Effect(Head(hand.todo))
       \/ UNCHANGED <<tables, telegram, jobs, hints>>
    /\ Proceed(AfterFailure)
    /\ faults' = faults + 1
    /\ UNCHANGED <<sent, inbox>>

\* The message is gone: /start answers with a hint, the others give up.
Refused ==
    /\ ~Idle /\ Missing(Head(hand.todo))
    /\ Proceed(IF Head(hand.todo).call = "repin" THEN Feedback ELSE <<>>)
    /\ UNCHANGED <<tables, telegram, jobs, hints, sent, inbox, faults>>

\* telegram-api is killed.  The update in hand and those in the mailbox are lost
\* if a later poll acknowledged them and arrive again otherwise; a draft already
\* confirmed is not confirmed again.
Again == IF hand.on.kind = "confirm" /\ Head(hand.todo).call \in {"edit"} THEN <<>> ELSE <<hand.on>>

Crash ==
    /\ ~Idle /\ faults < MaxFaults
    /\ inbox' \in {<<>>, inbox, Again \o inbox}
    /\ Proceed(<<>>)
    /\ faults' = faults + 1
    /\ UNCHANGED <<tables, telegram, jobs, hints, sent>>

-----------------------------------------------------------------------------
(* The bot's own mailbox, and the job worker.                              *)

HandleNotice ==
    \E m \in Ids :
        /\ notices[m] = "new"
        /\ \/ notices' = [notices EXCEPT ![m] = IF settings.dash = m THEN "gone" ELSE "kept"]
              /\ UNCHANGED faults
           \/ /\ faults < MaxFaults
              /\ notices' = [notices EXCEPT ![m] = "kept"]
              /\ faults' = faults + 1
        /\ UNCHANGED <<tables, chat, nextId, jobs, hints, sent, inbox, hand>>

DeleteJob ==
    \E m \in jobs :
        /\ chat' = [chat EXCEPT ![m] = Unsent]
        /\ jobs' = jobs \ {m}
        /\ UNCHANGED <<tables, nextId, notices, hints, sent, inbox, hand, faults>>

User == UserCommands \/ UserTaps \/ UserConfirms \/ UserDeletes
Handler == Take \/ Succeed \/ Refused

Next == User \/ Handler \/ Fail \/ Crash \/ HandleNotice \/ DeleteJob

Spec == Init /\ [][Next]_vars

\* The mailbox runs what it holds (module Dispatcher) and a job ends (JobQueue).
FairSpec == Spec /\ WF_vars(Handler) /\ WF_vars(HandleNotice) /\ WF_vars(DeleteJob)

-----------------------------------------------------------------------------
(* Properties.                                                             *)

\* What stays in the chat and nobody will remove.
Leftovers ==
    Cardinality({m \in Ids : chat[m].here /\ m # settings.dash /\ m \notin jobs})
      + Cardinality({m \in Ids : notices[m] = "kept" /\ m = settings.dash}) + hints

\* Between two updates a message is left behind in the chat, a dashboard that was
\* replaced, a feedback message or the notice of the current pin, only where a call
\* failed, the process stopped or the user deleted a dashboard that the handler was
\* about to pin: one message for each time (CreateDashboard, deleteMessagesReliably,
\* SendTransientFeedback, handleServiceMessage).
LeftoversAreFaults == Idle => Leftovers <= faults

\* Without failures the dashboard between two updates shows the rows as they are:
\* no handler changes a product or a setting and leaves the old view standing
\* (handleProductCallback, handleSettingsCallback, RefreshDashboardHome).
FreshView ==
    (Idle /\ faults = 0 /\ settings.dash # 0 /\ chat[settings.dash].here)
        => chat[settings.dash].shown = Shown(chat[settings.dash].shown.state)

\* Each product a list counts has a button on some page of it, the next-page buttons
\* lead there from the first page, and whatever page a button of an older view asks
\* for, the answer is empty only if the list is (renderDashboardListPage, DashboardList).
NavigationComplete ==
    \A mode \in Modes :
        LET list == Listed(products, mode, Today)
        IN  /\ \A i \in DOMAIN list : \E p \in 0..Len(list) :
                /\ Go(ProductView(list[i], mode, p)) \in Buttons(ListShown(mode, p))
                /\ \A q \in 1..p : Go(ListView(mode, q)) \in Buttons(ListShown(mode, q - 1))
            /\ \A p \in 0..MaxProducts : ListShown(mode, p).text.items = <<>> => list = <<>>

\* If nothing fails, the chat is at last left with no dashboard but the current one.
ChatSettles ==
    [](faults = 0) => <>[](\A m \in Ids : chat[m].here => m = settings.dash)
===============================================================================
