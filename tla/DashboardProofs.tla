---------------------------- MODULE DashboardProofs ----------------------------
(***************************************************************************)
(* Proofs about Dashboard, for any table of products, any number of        *)
(* updates, dashboards and failures: what the handlers leave behind in the *)
(* chat, and that the dashboard shows the rows as they are.                *)
(***************************************************************************)
EXTENDS Dashboard, Ranks, SequenceTheorems

(***************************************************************************)
(* The inductive invariant.                                                *)
(***************************************************************************)

dash == settings.dash
todo == hand.todo

IsButton(b) == b.act \in {"go", "set", "digest", "zone"}

\* What there is to know of an update before it is handled.
IsUpdate(u) ==
    /\ u.kind \in {"start", "dashboard", "confirm", "tap"}
    /\ u.kind = "tap" => u.on \in Ids /\ IsButton(u.button)

IsList(s) == s \in Seq({s[i] : i \in DOMAIN s})

\* The shapes of the tables and the chat, and of the mailbox.
Stored ==
    /\ IsList(products)
    /\ chat = [m \in Ids |-> [here |-> chat[m].here, pinned |-> chat[m].pinned,
                              shown |-> chat[m].shown]]
    /\ \A m \in Ids : chat[m].here \in BOOLEAN
    /\ settings = [row |-> settings.row, dash |-> dash, zone |-> settings.zone,
                   slot |-> settings.slot]
    /\ settings.row \in BOOLEAN /\ dash \in Nat /\ nextId \in Nat
    /\ notices \in [Ids -> {"none", "new", "gone", "kept"}]
    /\ hints \in Int

Mail ==
    /\ sent \in 0..MaxUpdates /\ faults \in 0..MaxFaults
    /\ IsList(inbox) /\ \A i \in DOMAIN inbox : IsUpdate(inbox[i])
    /\ hand = [on |-> hand.on, todo |-> todo]
    /\ todo # <<>> => IsUpdate(hand.on)

Shapes == Stored /\ Mail

\* What is deleted later or was announced has been the dashboard at some time.
Past ==
    /\ dash < nextId
    /\ jobs \subseteq 1..(dash - 1)
    /\ \A m \in Ids : notices[m] # "none" => m <= dash

\* The calls of a handler that has not sent a dashboard.
Replacing(old) == Create \o Retire(old)
Drawing(t) ==
    /\ dash # 0 /\ t # <<>> /\ Head(t).call = "edit"
    /\ Head(t) = Edit(dash, Head(t).to) /\ Tail(t) = <<>>
Changing(t) ==
    /\ dash # 0 /\ t # <<>> /\ Head(t).call \in {"product", "status", "slot", "zone"}
    /\ Drawing(Tail(t))
Adding(t) == dash = 0 /\ t # <<>> /\ Head(t).call = "product" /\ Tail(t) = <<>>
Repinning(t) == dash # 0 /\ t = <<On("repin", dash)>>
Body(t) ==
    \/ t = Replacing(dash) \/ Repinning(t) \/ Adding(t) \/ Changing(t) \/ t = Feedback
    \/ Drawing(t)
RowFirst(t) == t # <<>> /\ Head(t) = Call("row") /\ Body(Tail(t))

\* A dashboard is still to be sent.
Sending(t) ==
    /\ t # <<>>
    /\ \/ Head(t).call = "send"
       \/ Head(t).call = "row" /\ Tail(t) # <<>> /\ Head(Tail(t)).call = "send"

\* Each update sends one dashboard at most, and one more when it comes again.
Numbered == nextId + Len(inbox) + (IF Sending(todo) THEN 1 ELSE 0) <= 1 + sent + faults

\* The rest of the calls once a dashboard is sent, and once it is saved.
Saving(old) == <<Call("save"), On("pin", 0)>> \o Retire(old)
Pinning(old) == <<On("pin", 0)>> \o Retire(old)

Strays == {m \in Ids : chat[m].here /\ m # dash /\ m \notin jobs}
Kept == {m \in Ids : notices[m] = "kept" /\ m = dash}

\* The failures so far pay for what is left, but for the messages the handler is
\* about to deal with.
Covers(left, notes, n, more, paid) == Cardinality(left) + Cardinality(notes) + n + more <= paid
Paid(excused, more, paid) == Covers(Strays \ excused, Kept, hints, more, paid)

\* Where the handler is when t is what it has to do, and what is owed then.
Stage(t, paid) ==
    \/ (t = <<>> \/ RowFirst(t) \/ Body(t)) /\ Paid({}, 0, paid)
    \/ /\ t = Saving(dash) /\ dash < Newest
       /\ Paid({Newest}, IF chat[Newest].here THEN 0 ELSE 1, paid)
    \/ \E old \in 0..(dash - 1) :
          /\ t = Pinning(old) /\ dash = Newest
          /\ Paid(IF chat[Newest].here THEN {old} ELSE {}, 0, paid)
    \/ \E old \in 1..(dash - 1) :
          t \in {Retire(old), <<On("schedule", old)>>} /\ Paid({old}, 0, paid)
    \/ t = <<Call("scheduleHint")>> /\ Paid({}, -1, paid)

\* Before a failure, the dashboard shows the rows or is about to; so does one that
\* has been sent and not saved.
Fresh == dash # 0 /\ chat[dash].here => chat[dash].shown = Shown(chat[dash].shown.state)
Drawn ==
    /\ faults = 0 => Fresh \/ (todo # <<>> /\ Head(todo).call = "edit")
    /\ (faults = 0 /\ todo # <<>> /\ Head(todo).call = "save" /\ chat[Newest].here)
          => chat[Newest].shown = Shown(Home)

\* What comes next of a handler that has something to do, by the call it is about to
\* make, and what is owed before it.
Doing(c, t, paid) ==
    /\ c.call = "row" => Body(t) /\ Paid({}, 0, paid)
    /\ c.call = "send" => t = Saving(dash) /\ Paid({}, 0, paid)
    /\ c.call = "repin" => dash # 0 /\ c.on = dash /\ t = <<>> /\ Paid({}, 0, paid)
    /\ c.call \in {"product", "status", "slot", "zone"} =>
          (t = <<>> \/ Drawing(t)) /\ (t = <<>> => dash = 0) /\ Paid({}, 0, paid)
    /\ c.call = "hint" => t = <<Call("scheduleHint")>> /\ Paid({}, 0, paid)
    /\ c.call = "edit" => dash # 0 /\ c.on = dash /\ t = <<>> /\ Paid({}, 0, paid)
    /\ c.call = "save" => /\ t = Pinning(dash) /\ dash < Newest
                          /\ Paid({Newest}, IF chat[Newest].here THEN 0 ELSE 1, paid)
    /\ c.call = "pin" =>
          /\ c.on = 0 /\ dash = Newest
          /\ \E old \in 0..(dash - 1) :
                t = Retire(old) /\ Paid(IF chat[Newest].here THEN {old} ELSE {}, 0, paid)
    /\ c.call = "delete" =>
          \E old \in 1..(dash - 1) :
             c.on = old /\ t = <<On("schedule", old)>> /\ Paid({old}, 0, paid)
    /\ c.call = "schedule" =>
          \E old \in 1..(dash - 1) : c.on = old /\ t = <<>> /\ Paid({old}, 0, paid)
    /\ c.call = "scheduleHint" => t = <<>> /\ Paid({}, -1, paid)

IInv == Shapes /\ Past /\ Numbered /\ Stage(todo, faults) /\ Drawn

-----------------------------------------------------------------------------
(* Lists of calls.                                                          *)

\* A list with a call before it.
LEMMA ConsFacts ==
  ASSUME NEW S, NEW s \in Seq(S), NEW x
  PROVE  <<x>> \o s # <<>> /\ Head(<<x>> \o s) = x /\ Tail(<<x>> \o s) = s
OBVIOUS

\* A list with two calls before it.
LEMMA TwoFacts ==
  ASSUME NEW S, NEW s \in Seq(S), NEW x \in S, NEW y \in S
  PROVE  /\ <<x, y>> \o s \in Seq(S) /\ <<x, y>> \o s # <<>>
         /\ Head(<<x, y>> \o s) = x /\ Tail(<<x, y>> \o s) = <<y>> \o s
<1>1. /\ <<x, y>> \in Seq(S) /\ <<y>> \in Seq(S) /\ Len(<<x, y>>) = 2 /\ Len(<<y>>) = 1
      /\ Len(s) \in Nat
  OBVIOUS
<1> DEFINE t == <<x, y>> \o s
           u == <<y>> \o s
<1>2. /\ t \in Seq(S) /\ Len(t) = 2 + Len(s)
      /\ \A i \in 1..Len(t) : t[i] = IF i <= 2 THEN <<x, y>>[i] ELSE s[i - 2]
  BY <1>1
<1>3. /\ u \in Seq(S) /\ Len(u) = 1 + Len(s)
      /\ \A i \in 1..(1 + Len(s)) : u[i] = IF i <= 1 THEN y ELSE s[i - 1]
  BY <1>1
<1> HIDE DEF t, u
<1>4. t # <<>> /\ Head(t) = x
  BY <1>1, <1>2
<1>5. /\ Tail(t) \in Seq(S) /\ Len(Tail(t)) = 1 + Len(s)
      /\ \A i \in 1..(1 + Len(s)) : Tail(t)[i] = t[i + 1]
  BY <1>1, <1>2, <1>4
<1>6. \A i \in 1..(1 + Len(s)) : t[i + 1] = u[i]
  BY <1>1, <1>2, <1>3
<1>7. Tail(t) = u
  BY <1>1, <1>3, <1>5, <1>6
<1> QED
  BY <1>2, <1>4, <1>7 DEF t, u

\* A list with three calls before it.
LEMMA ThreeFacts ==
  ASSUME NEW S, NEW s \in Seq(S), NEW x \in S, NEW y \in S, NEW z \in S
  PROVE  /\ <<x, y, z>> \o s # <<>>
         /\ Head(<<x, y, z>> \o s) = x /\ Tail(<<x, y, z>> \o s) = <<y, z>> \o s
<1>1. /\ <<x, y, z>> \in Seq(S) /\ <<y, z>> \in Seq(S)
      /\ Len(<<x, y, z>>) = 3 /\ Len(<<y, z>>) = 2 /\ Len(s) \in Nat
  OBVIOUS
<1> DEFINE t == <<x, y, z>> \o s
           u == <<y, z>> \o s
<1>2. /\ t \in Seq(S) /\ Len(t) = 3 + Len(s)
      /\ \A i \in 1..Len(t) : t[i] = IF i <= 3 THEN <<x, y, z>>[i] ELSE s[i - 3]
  BY <1>1
<1>3. /\ u \in Seq(S) /\ Len(u) = 2 + Len(s)
      /\ \A i \in 1..(2 + Len(s)) : u[i] = IF i <= 2 THEN <<y, z>>[i] ELSE s[i - 2]
  BY <1>1
<1> HIDE DEF t, u
<1>4. t # <<>> /\ Head(t) = x
  BY <1>1, <1>2
<1>5. /\ Tail(t) \in Seq(S) /\ Len(Tail(t)) = 2 + Len(s)
      /\ \A i \in 1..(2 + Len(s)) : Tail(t)[i] = t[i + 1]
  BY <1>1, <1>2, <1>4
<1>6. \A i \in 1..(2 + Len(s)) : t[i + 1] = u[i]
  BY <1>1, <1>2, <1>3
<1>7. Tail(t) = u
  <2>1. \A i \in 1..(2 + Len(s)) : Tail(t)[i] = u[i]
    BY <1>5, <1>6
  <2> QED
    BY <1>3, <1>5, <2>1, SeqEqual
<1> QED
  BY <1>4, <1>7 DEF t, u

\* The heads and the tails of the lists a handler works through.
LEMMA ListFacts ==
  ASSUME NEW old
  PROVE  /\ Replacing(old) # <<>> /\ Head(Replacing(old)) = Call("send")
         /\ Tail(Replacing(old)) = Saving(old)
         /\ Saving(old) # <<>> /\ Head(Saving(old)) = Call("save")
         /\ Tail(Saving(old)) = Pinning(old)
         /\ Pinning(old) # <<>> /\ Head(Pinning(old)) = On("pin", 0)
         /\ Tail(Pinning(old)) = Retire(old)
         /\ Retire(0) = <<>>
         /\ old # 0 => /\ Retire(old) # <<>> /\ Head(Retire(old)) = On("delete", old)
                       /\ Tail(Retire(old)) = <<On("schedule", old)>>
         /\ Feedback # <<>> /\ Head(Feedback) = Call("hint")
         /\ Tail(Feedback) = <<Call("scheduleHint")>>
<1> DEFINE send == Call("send")
           save == Call("save")
           pin == On("pin", 0)
           delete == On("delete", old)
           later == On("schedule", old)
           hint == Call("hint")
           job == Call("scheduleHint")
<1> HIDE DEF send, save, pin, delete, later, hint, job
<1>1. /\ Retire(old) = IF old = 0 THEN <<>> ELSE <<delete, later>>
      /\ Create = <<send, save, pin>> /\ Feedback = <<hint, job>>
  BY DEF Retire, Create, Feedback, send, save, pin, delete, later, hint, job
<1>2. /\ Replacing(old) = <<send, save, pin>> \o Retire(old)
      /\ Saving(old) = <<save, pin>> \o Retire(old)
      /\ Pinning(old) = <<pin>> \o Retire(old)
  BY <1>1 DEF Replacing, Saving, Pinning, save, pin
<1> DEFINE S == {send, save, pin, delete, later}
<1>3. send \in S /\ save \in S /\ pin \in S /\ delete \in S /\ later \in S
  OBVIOUS
<1> HIDE DEF S
<1>t. Retire(old) \in Seq(S)
  BY <1>1, <1>3
<1>4. /\ Replacing(old) # <<>> /\ Head(Replacing(old)) = send
      /\ Tail(Replacing(old)) = Saving(old)
  <2> DEFINE s == Retire(old)
             u == <<send, save, pin>> \o s
  <2> HIDE DEF s
  <2>1. s \in Seq(S)
    BY <1>t DEF s
  <2>2. u # <<>> /\ Head(u) = send /\ Tail(u) = <<save, pin>> \o s
    BY <1>3, <2>1, ThreeFacts
  <2> QED
    BY <1>2, <2>2 DEF s
<1>5. /\ Saving(old) # <<>> /\ Head(Saving(old)) = save
      /\ Tail(Saving(old)) = Pinning(old)
  <2> DEFINE s == Retire(old)
             u == <<save, pin>> \o s
  <2> HIDE DEF s
  <2>1. s \in Seq(S)
    BY <1>t DEF s
  <2>2. u # <<>> /\ Head(u) = save /\ Tail(u) = <<pin>> \o s
    BY <1>3, <2>1, TwoFacts
  <2> QED
    BY <1>2, <2>2 DEF s
<1>6. /\ Pinning(old) # <<>> /\ Head(Pinning(old)) = pin
      /\ Tail(Pinning(old)) = Retire(old)
  BY <1>2, <1>3, <1>t, ConsFacts
<1>7. /\ Retire(0) = <<>>
      /\ old # 0 => Retire(old) # <<>> /\ Head(Retire(old)) = delete /\ Tail(Retire(old)) = <<later>>
      /\ Feedback # <<>> /\ Head(Feedback) = hint /\ Tail(Feedback) = <<job>>
  BY <1>1 DEF Retire
<1> QED
  BY <1>4, <1>5, <1>6, <1>7 DEF send, save, pin, delete, later, hint, job

\* A call of its own at the head of a list of one.
LEMMA OneFacts ==
  ASSUME NEW x
  PROVE  <<x>> # <<>> /\ Head(<<x>>) = x /\ Tail(<<x>>) = <<>>
OBVIOUS

\* A list of anything is a list of its own elements.
LEMMA Listing ==
  ASSUME NEW S, NEW s \in Seq(S)
  PROVE  IsList(s) /\ DOMAIN s = 1..Len(s) /\ Len(s) \in Nat
<1> DEFINE T == {s[i] : i \in DOMAIN s}
<1>1. DOMAIN s = 1..Len(s) /\ Len(s) \in Nat /\ s = [i \in 1..Len(s) |-> s[i]]
  OBVIOUS
<1>2. \A i \in 1..Len(s) : s[i] \in T
  BY <1>1
<1> HIDE DEF T
<1>3. s \in [1..Len(s) -> T]
  BY <1>1, <1>2
<1>4. s \in Seq(T)
  BY <1>1, <1>3
<1> QED
  BY <1>1, <1>4 DEF IsList, T

\* A list with one more.
LEMMA Appended ==
  ASSUME NEW s, IsList(s), NEW x
  PROVE  /\ IsList(Append(s, x)) /\ Len(Append(s, x)) = Len(s) + 1
         /\ \A i \in DOMAIN Append(s, x) :
               (i \in DOMAIN s /\ Append(s, x)[i] = s[i]) \/ Append(s, x)[i] = x
<1> DEFINE S == {s[i] : i \in DOMAIN s}
           T == S \cup {x}
<1>1. s \in Seq(S)
  BY DEF IsList
<1> HIDE DEF S
<1>2. s \in Seq(T) /\ x \in T
  BY <1>1
<1> HIDE DEF T
<1>3. /\ Append(s, x) \in Seq(T) /\ Len(Append(s, x)) = Len(s) + 1
      /\ \A i \in 1..(Len(s) + 1) : Append(s, x)[i] = IF i <= Len(s) THEN s[i] ELSE x
  BY <1>2, AppendProperties
<1>4. DOMAIN s = 1..Len(s) /\ Len(s) \in Nat
  BY <1>2
<1> DEFINE t == Append(s, x)
<1> HIDE DEF t
<1>5. IsList(t) /\ DOMAIN t = 1..Len(t)
  BY <1>3, Listing DEF t
<1>6. /\ Len(t) = Len(s) + 1
      /\ \A i \in 1..(Len(s) + 1) : t[i] = IF i <= Len(s) THEN s[i] ELSE x
  BY <1>3 DEF t
<1>7. \A i \in DOMAIN t : (i \in DOMAIN s /\ t[i] = s[i]) \/ t[i] = x
  BY <1>4, <1>5, <1>6
<1> QED
  BY <1>5, <1>6, <1>7 DEF t

\* A list without its first.
LEMMA Shortened ==
  ASSUME NEW s, IsList(s), s # <<>>
  PROVE  /\ IsList(Tail(s)) /\ Len(s) \in Nat \ {0} /\ Len(Tail(s)) = Len(s) - 1
         /\ \A i \in DOMAIN Tail(s) : i + 1 \in DOMAIN s /\ Tail(s)[i] = s[i + 1]
         /\ 1 \in DOMAIN s /\ Head(s) = s[1]
<1> DEFINE S == {s[i] : i \in DOMAIN s}
<1>1. s \in Seq(S)
  BY DEF IsList
<1> HIDE DEF S
<1>2. /\ Tail(s) \in Seq(S) /\ Len(s) \in Nat \ {0} /\ Len(Tail(s)) = Len(s) - 1
      /\ \A i \in 1..(Len(s) - 1) : Tail(s)[i] = s[i + 1]
      /\ DOMAIN s = 1..Len(s) /\ Head(s) = s[1]
  BY <1>1
<1> DEFINE t == Tail(s)
<1> HIDE DEF t
<1>3. IsList(t) /\ DOMAIN t = 1..Len(t)
  BY <1>2, Listing DEF t
<1>4. Len(t) = Len(s) - 1 /\ \A i \in 1..(Len(s) - 1) : t[i] = s[i + 1]
  BY <1>2 DEF t
<1>5. \A i \in DOMAIN t : i + 1 \in DOMAIN s /\ t[i] = s[i + 1]
  BY <1>2, <1>3, <1>4
<1>6. 1 \in DOMAIN s
  BY <1>2
<1> QED
  BY <1>2, <1>3, <1>4, <1>5, <1>6 DEF t

\* A list after one more.
After(x, s) == <<x>> \o s

\* It is a list, of that one and of what was in it.
LEMMA Preceded ==
  ASSUME NEW s, IsList(s), NEW x
  PROVE  /\ IsList(After(x, s)) /\ Len(After(x, s)) = Len(s) + 1 /\ Len(s) \in Nat
         /\ \A i \in DOMAIN After(x, s) :
               After(x, s)[i] = x \/ \E k \in DOMAIN s : After(x, s)[i] = s[k]
<1> DEFINE S == {s[i] : i \in DOMAIN s}
           T == S \cup {x}
           t == After(x, s)
<1>1. s \in Seq(S)
  BY DEF IsList
<1> HIDE DEF S
<1>2. s \in Seq(T) /\ x \in T
  BY <1>1
<1> HIDE DEF T
<1>3. <<x>> \in Seq(T) /\ Len(<<x>>) = 1 /\ <<x>>[1] = x
  BY <1>2
<1>4. DOMAIN s = 1..Len(s) /\ Len(s) \in Nat
  BY <1>2
<1>5. /\ t \in Seq(T) /\ Len(t) = 1 + Len(s)
      /\ \A i \in 1..(1 + Len(s)) : t[i] = IF i <= 1 THEN <<x>>[i] ELSE s[i - 1]
  BY <1>2, <1>3, ConcatProperties DEF After
<1> HIDE DEF t
<1>6. ASSUME NEW i \in DOMAIN t PROVE t[i] = x \/ \E k \in DOMAIN s : t[i] = s[k]
  <2>1. i \in 1..(1 + Len(s))
    BY <1>4, <1>5
  <2>2. i = 1 \/ i - 1 \in DOMAIN s
    BY <1>4, <2>1
  <2> QED
    BY <1>3, <1>4, <1>5, <2>1, <2>2
<1>7. IsList(t) /\ Len(t) = Len(s) + 1
  BY <1>4, <1>5, Listing
<1> QED
  BY <1>4, <1>6, <1>7 DEF t

\* The fields of calls.
LEMMA CallFields ==
  /\ \A name : Call(name).call = name
  /\ \A name, m : On(name, m).call = name /\ On(name, m).on = m
  /\ \A m, v : Edit(m, v).call = "edit" /\ Edit(m, v).on = m /\ Edit(m, v).to = v
BY DEF Call, On, Edit

\* A handler with something to do stands at one of these places.
LEMMA Now ==
  ASSUME IInv, todo # <<>>
  PROVE  Doing(Head(todo), Tail(todo), faults)
<1> DEFINE t == todo
           c == Head(t)
<1> HIDE DEF t
<1>1. Stage(t, faults) /\ t # <<>> /\ dash \in Nat
  BY DEF IInv, Shapes, Stored, Mail, t
<1> SUFFICES Doing(Head(t), Tail(t), faults)
  BY DEF t
<1>2. CASE RowFirst(t) /\ Paid({}, 0, faults)
  <2>1. c.call = "row" /\ Body(Tail(t))
    BY <1>2, CallFields DEF RowFirst
  <2> QED
    BY <1>2, <2>1 DEF Doing
<1>3. CASE Body(t) /\ Paid({}, 0, faults)
  <2>1. CASE t = Replacing(dash)
    <3>1. c.call = "send" /\ Tail(t) = Saving(dash)
      BY <2>1, ListFacts, CallFields
    <3> QED
      BY <1>3, <3>1 DEF Doing
  <2>2. CASE Repinning(t)
    <3>1. c.call = "repin" /\ c.on = dash /\ Tail(t) = <<>> /\ dash # 0
      BY <2>2, OneFacts, CallFields DEF Repinning
    <3> QED
      BY <1>3, <3>1 DEF Doing
  <2>3. CASE Adding(t)
    BY <1>3, <2>3 DEF Doing, Adding
  <2>4. CASE Changing(t)
    <3>1. c.call \in {"product", "status", "slot", "zone"} /\ Drawing(Tail(t)) /\ Tail(t) # <<>>
      BY <2>4 DEF Changing, Drawing
    <3> QED
      BY <1>3, <3>1 DEF Doing
  <2>5. CASE t = Feedback
    <3>1. c.call = "hint" /\ Tail(t) = <<Call("scheduleHint")>>
      BY <2>5, ListFacts, CallFields
    <3> QED
      BY <1>3, <3>1 DEF Doing
  <2>6. CASE Drawing(t)
    <3>1. c.call = "edit" /\ c.on = dash /\ Tail(t) = <<>> /\ dash # 0
      BY <2>6, CallFields DEF Drawing
    <3> QED
      BY <1>3, <3>1 DEF Doing
  <2> QED
    BY <1>3, <2>1, <2>2, <2>3, <2>4, <2>5, <2>6 DEF Body
<1>4. CASE /\ t = Saving(dash) /\ dash < Newest
           /\ Paid({Newest}, IF chat[Newest].here THEN 0 ELSE 1, faults)
  <2>1. c.call = "save" /\ Tail(t) = Pinning(dash)
    BY <1>4, ListFacts, CallFields
  <2> QED
    BY <1>4, <2>1 DEF Doing
<1>5. ASSUME NEW old \in 0..(dash - 1), t = Pinning(old), dash = Newest,
             Paid(IF chat[Newest].here THEN {old} ELSE {}, 0, faults)
      PROVE  Doing(c, Tail(t), faults)
  <2>1. c.call = "pin" /\ c.on = 0 /\ Tail(t) = Retire(old)
    <3>1. Head(Pinning(old)) = On("pin", 0) /\ Tail(Pinning(old)) = Retire(old)
      BY ListFacts
    <3> QED
      BY <1>5, <3>1, CallFields
  <2> QED
    BY <1>5, <2>1 DEF Doing
<1>6. ASSUME NEW old \in 1..(dash - 1), t = Retire(old), Paid({old}, 0, faults)
      PROVE  Doing(c, Tail(t), faults)
  <2>1. old # 0
    BY <1>1
  <2>2. c.call = "delete" /\ c.on = old /\ Tail(t) = <<On("schedule", old)>>
    <3>1. Head(Retire(old)) = On("delete", old) /\ Tail(Retire(old)) = <<On("schedule", old)>>
      BY <2>1, ListFacts
    <3> QED
      BY <1>6, <3>1, CallFields
  <2> QED
    BY <1>6, <2>2 DEF Doing
<1>7. ASSUME NEW old \in 1..(dash - 1), t = <<On("schedule", old)>>, Paid({old}, 0, faults)
      PROVE  Doing(c, Tail(t), faults)
  <2>1. c.call = "schedule" /\ c.on = old /\ Tail(t) = <<>>
    BY <1>7, OneFacts, CallFields
  <2> QED
    BY <1>7, <2>1 DEF Doing
<1>8. CASE t = <<Call("scheduleHint")>> /\ Paid({}, -1, faults)
  <2>1. c.call = "scheduleHint" /\ Tail(t) = <<>>
    BY <1>8, OneFacts, CallFields
  <2> QED
    BY <1>8, <2>1 DEF Doing
<1> QED
  BY <1>1, <1>2, <1>3, <1>4, <1>5, <1>6, <1>7, <1>8 DEF Stage

-----------------------------------------------------------------------------
(* Accounts.                                                                *)

\* Sets of dashboards are counted.
LEMMA Counting ==
  ASSUME NEW S \in SUBSET Ids, NEW T \in SUBSET Ids
  PROVE  /\ Cardinality(S) \in Nat
         /\ S \subseteq T => Cardinality(S) <= Cardinality(T)
         /\ \A x : S \subseteq T \cup {x} => Cardinality(S) <= Cardinality(T) + 1
<1>1. MaxUpdates + MaxFaults \in Nat
  BY DashboardAssumption
<1>2. IsFiniteSet(Ids)
  BY <1>1, FS_Interval DEF Ids
<1>3. IsFiniteSet(S) /\ IsFiniteSet(T) /\ Cardinality(S) \in Nat /\ Cardinality(T) \in Nat
  BY <1>2, FS_Subset, FS_CardinalityType
<1>4. S \subseteq T => Cardinality(S) <= Cardinality(T)
  BY <1>3, FS_Subset
<1>5. ASSUME NEW x, S \subseteq T \cup {x} PROVE Cardinality(S) <= Cardinality(T) + 1
  <2>1. IsFiniteSet(T \cup {x}) /\ Cardinality(T \cup {x}) <= Cardinality(T) + 1
    <3>1. /\ IsFiniteSet(T \cup {x})
          /\ Cardinality(T \cup {x}) = IF x \in T THEN Cardinality(T) ELSE Cardinality(T) + 1
      BY <1>3, FS_AddElement
    <3>2. CASE x \in T
      BY <1>3, <3>1, <3>2
    <3>3. CASE x \notin T
      BY <1>3, <3>1, <3>3
    <3> QED
      BY <3>2, <3>3
  <2>2. Cardinality(S) <= Cardinality(T \cup {x}) /\ Cardinality(T \cup {x}) \in Nat
    BY <1>5, <2>1, FS_Subset, FS_CardinalityType
  <2> QED
    BY <1>3, <2>1, <2>2
<1> QED
  BY <1>3, <1>4, <1>5

\* What is left behind are dashboards, before a step and after it.
LEMMA Countable ==
  /\ \A e : Strays \ e \in SUBSET Ids /\ Strays' \ e \in SUBSET Ids
  /\ Kept \in SUBSET Ids /\ Kept' \in SUBSET Ids
BY DEF Strays, Kept

\* Where no more is left than was, it is still paid for.
LEMMA NoMore ==
  ASSUME NEW S \in SUBSET Ids, NEW T \in SUBSET Ids, NEW K \in SUBSET Ids, NEW L \in SUBSET Ids,
         NEW g \in Int, NEW h \in Int, NEW more \in Int, NEW less \in Int,
         NEW p \in Int, NEW q \in Int,
         Covers(S, K, g, more, p), T \subseteq S, L \subseteq K, h + less + p <= g + more + q
  PROVE  Covers(T, L, h, less, q)
<1>1. Cardinality(T) <= Cardinality(S) /\ Cardinality(L) <= Cardinality(K)
  BY Counting
<1>2. PICK a \in Nat, b \in Nat, x \in Nat, y \in Nat :
         a = Cardinality(S) /\ b = Cardinality(K) /\ x = Cardinality(T) /\ y = Cardinality(L)
  BY Counting
<1>3. a + b + g + more <= p /\ x <= a /\ y <= b
  BY <1>1, <1>2 DEF Covers
<1>4. x + y + h + less <= q
  BY <1>3
<1> QED
  BY <1>2, <1>4 DEF Covers

\* One message more is left behind at most.
LEMMA OneMore ==
  ASSUME NEW S \in SUBSET Ids, NEW T \in SUBSET Ids, NEW K \in SUBSET Ids, NEW L \in SUBSET Ids,
         NEW g \in Int, NEW h \in Int, NEW more \in Int, NEW less \in Int,
         NEW p \in Int, NEW q \in Int,
         Covers(S, K, g, more, p), Cardinality(T) <= Cardinality(S) + 1, L \subseteq K, h + less + p + 1 <= g + more + q
  PROVE  Covers(T, L, h, less, q)
<1>1. Cardinality(T) <= Cardinality(S) + 1 /\ Cardinality(L) <= Cardinality(K)
  BY Counting
<1>2. PICK a \in Nat, b \in Nat, x \in Nat, y \in Nat :
         a = Cardinality(S) /\ b = Cardinality(K) /\ x = Cardinality(T) /\ y = Cardinality(L)
  BY Counting
<1>3. a + b + g + more <= p /\ x <= a + 1 /\ y <= b
  BY <1>1, <1>2 DEF Covers
<1>4. x + y + h + less <= q
  BY <1>3
<1> QED
  BY <1>2, <1>4 DEF Covers

\* One notice more is left behind at most.
LEMMA OneNotice ==
  ASSUME NEW S \in SUBSET Ids, NEW T \in SUBSET Ids, NEW K \in SUBSET Ids, NEW L \in SUBSET Ids,
         NEW g \in Int, NEW h \in Int, NEW more \in Int, NEW less \in Int,
         NEW p \in Int, NEW q \in Int,
         Covers(S, K, g, more, p), T \subseteq S, Cardinality(L) <= Cardinality(K) + 1, h + less + p + 1 <= g + more + q
  PROVE  Covers(T, L, h, less, q)
<1>1. Cardinality(T) <= Cardinality(S) /\ Cardinality(L) <= Cardinality(K) + 1
  BY Counting
<1>2. PICK a \in Nat, b \in Nat, x \in Nat, y \in Nat :
         a = Cardinality(S) /\ b = Cardinality(K) /\ x = Cardinality(T) /\ y = Cardinality(L)
  BY Counting
<1>3. a + b + g + more <= p /\ x <= a /\ y <= b + 1
  BY <1>1, <1>2 DEF Covers
<1>4. x + y + h + less <= q
  BY <1>3
<1> QED
  BY <1>2, <1>4 DEF Covers

-----------------------------------------------------------------------------
(* What the calls do.                                                       *)

\* A call does what its name says.
LEMMA Called ==
  ASSUME NEW c, Effect(c)
  PROVE  /\ c.call = "row" => Row
         /\ c.call = "send" => Send
         /\ c.call = "save" => Save
         /\ c.call \in {"pin", "repin"} => Pin(Target(c))
         /\ c.call = "delete" => Delete(Target(c))
         /\ c.call = "schedule" => Schedule(Target(c))
         /\ c.call = "hint" => Hint(1)
         /\ c.call = "scheduleHint" => Hint(-1)
         /\ c.call = "product" => Insert(c.day)
         /\ c.call = "status" => SetStatus(c.id, c.status)
         /\ c.call = "slot" => SetSlot(c.slot)
         /\ c.call = "zone" => SetZone(c.zone)
         /\ c.call = "edit" => Redraw(c.on, c.to)
  BY DEF Effect

\* Changes to the user's row that leave the dashboard's id alone.
LEMMA OtherSettings ==
  ASSUME Shapes,
         \/ Row \/ \E slot : SetSlot(slot) \/ \E zone : SetZone(zone)
         \/ \E day : Insert(day) \/ \E id, status : SetStatus(id, status)
  PROVE  dash' = dash /\ UNCHANGED <<chat, nextId, notices, jobs, hints>>
  BY DEF Shapes, Stored, Mail, dash, telegram, Row, SetSlot, SetZone, Insert, SetStatus

\* A new dashboard appears.
LEMMA Sent ==
  ASSUME Shapes, nextId \in Ids, Send
  PROVE  /\ UNCHANGED <<products, settings, dash, notices, jobs, hints>>
         /\ nextId' = nextId + 1 /\ Newest' = nextId
         /\ chat'[nextId].here /\ chat'[nextId].shown = Shown(Home)
         /\ \A m \in Ids \ {nextId} : chat'[m] = chat[m]
<1>1. chat' = [chat EXCEPT ![nextId] = [Unsent EXCEPT !.here = TRUE, !.shown = Shown(Home)]]
      /\ nextId' = nextId + 1 /\ UNCHANGED <<products, settings, notices, jobs, hints>>
  BY DEF Send, tables
<1>2. DOMAIN chat = Ids
  BY DEF Shapes, Stored, Mail
<1>3. /\ chat'[nextId] = [Unsent EXCEPT !.here = TRUE, !.shown = Shown(Home)]
      /\ \A m \in Ids \ {nextId} : chat'[m] = chat[m]
  BY <1>1, <1>2
<1>4. chat'[nextId].here /\ chat'[nextId].shown = Shown(Home)
  BY <1>3 DEF Unsent
<1>5. Newest' = nextId /\ dash' = dash
  BY <1>1 DEF Shapes, Stored, Mail, Newest, dash
<1> QED
  BY <1>1, <1>3, <1>4, <1>5

\* A message is pinned, taken out of the chat or drawn again.
LEMMA Touched ==
  ASSUME Shapes, NEW m \in Ids, NEW f \in {"pinned", "shown", "all"}, NEW v,
         chat' = [chat EXCEPT ![m] = IF f = "all" THEN Unsent
                                     ELSE IF f = "pinned" THEN [chat[m] EXCEPT !.pinned = TRUE]
                                     ELSE [chat[m] EXCEPT !.shown = v]]
  PROVE  /\ \A k \in Ids \ {m} : chat'[k] = chat[k]
         /\ chat'[m].here = IF f = "all" THEN FALSE ELSE chat[m].here
         /\ f = "pinned" => chat'[m].shown = chat[m].shown
         /\ f = "shown" => chat'[m].shown = v
<1>1. DOMAIN chat = Ids /\ chat[m] = [here |-> chat[m].here, pinned |-> chat[m].pinned,
                                      shown |-> chat[m].shown]
  BY DEF Shapes, Stored, Mail
<1> QED
  BY <1>1 DEF Unsent

\* A pin changes nothing but the pin and the notice of its message.
LEMMA Pinned ==
  ASSUME Shapes, NEW m \in Ids, Pin(m)
  PROVE  /\ UNCHANGED <<products, settings, dash, nextId, jobs, hints>>
         /\ \A k \in Ids : /\ chat'[k].here = chat[k].here /\ chat'[k].shown = chat[k].shown
                           /\ notices'[k] = notices[k] \/ (k = m /\ notices'[k] = "new")
         /\ notices' \in [Ids -> {"none", "new", "gone", "kept"}]
<1>1. chat' = [chat EXCEPT ![m] = [chat[m] EXCEPT !.pinned = TRUE]]
      /\ UNCHANGED <<products, settings, nextId, jobs, hints>>
  BY DEF Pin, tables
<1>2. \A k \in Ids : chat'[k].here = chat[k].here /\ chat'[k].shown = chat[k].shown
  BY <1>1, Touched
<1>3. \/ notices' = notices \/ notices' = [notices EXCEPT ![m] = "new"]
  BY DEF Pin
<1> QED
  BY <1>1, <1>2, <1>3 DEF Shapes, Stored, Mail, dash

\* Dashboards that were sent have an id.
LEMMA SentIds ==
  ASSUME IInv
  PROVE  /\ dash # 0 => dash \in Ids
         /\ Newest # 0 => Newest \in Ids
         /\ (todo # <<>> /\ Head(todo).call = "send") => nextId \in Ids
<1>1. /\ sent \in 0..MaxUpdates /\ faults \in 0..MaxFaults /\ MaxUpdates \in Nat
      /\ MaxFaults \in Nat /\ dash \in Nat /\ nextId \in Nat /\ dash < nextId
      /\ Len(inbox) \in Nat
  BY DashboardAssumption DEF IInv, Shapes, Stored, Mail, Past
<1>2. nextId + Len(inbox) + (IF Sending(todo) THEN 1 ELSE 0) <= 1 + sent + faults
  BY DEF IInv, Numbered
<1>3. (todo # <<>> /\ Head(todo).call = "send") => Sending(todo)
  BY DEF Sending
<1> QED
  BY <1>1, <1>2, <1>3 DEF Ids, Newest

\* A step that leaves alone what is counted leaves the handler where it is.
LEMMA Quiet ==
  ASSUME UNCHANGED <<dash, chat, nextId, notices, jobs, hints>>, NEW t, NEW p, Stage(t, p)
  PROVE  Stage(t, p)'
<1>1. Strays' = Strays /\ Kept' = Kept /\ Newest' = Newest
  BY DEF Strays, Kept, Newest
<1>2. Body(t)' = Body(t) /\ RowFirst(t)' = RowFirst(t)
  BY DEF Body, RowFirst, Drawing, Changing, Adding, Repinning
<1> QED
  BY <1>1, <1>2 DEF Stage, Paid

-----------------------------------------------------------------------------
(* A call that takes effect brings the handler to its next place.           *)

\* Calls on the tables.
LEMMA TablesStage ==
  ASSUME IInv, NEW c, NEW t, NEW p, Doing(c, t, p), Effect(c),
         c.call \in {"row", "product", "status", "slot", "zone"}
  PROVE  Stage(t, p)'
<1>1. dash' = dash /\ UNCHANGED <<chat, nextId, notices, jobs, hints>>
  BY Called, OtherSettings DEF IInv
<1>2. (t = <<>> \/ Body(t)) /\ Paid({}, 0, p)
  BY DEF Doing, Body, Call, On
<1> QED
  BY <1>1, <1>2, Quiet DEF Stage

\* A new dashboard is still to be saved.
LEMMA SendStage ==
  ASSUME IInv, NEW c, NEW t, NEW p \in Int, Doing(c, t, p), Effect(c), c.call = "send",
         nextId \in Ids
  PROVE  Stage(t, p)'
<1>1. Shapes /\ dash \in Nat /\ nextId \in Nat /\ dash < nextId /\ hints \in Int
      /\ \A m \in jobs : m < dash
  BY DEF IInv, Shapes, Stored, Mail, Past
<1>2. t = Saving(dash) /\ Paid({}, 0, p)
  BY DEF Doing, Call, On
<1>3. /\ UNCHANGED <<dash, notices, jobs, hints>> /\ Newest' = nextId /\ chat'[nextId].here
      /\ \A m \in Ids \ {nextId} : chat'[m] = chat[m]
  BY <1>1, Called, Sent
<1>4. Strays' \ {nextId} \subseteq Strays \ {}
  BY <1>3 DEF Strays
<1>h. hints \in Int /\ hints' = hints
  BY <1>1, <1>3
<1>5. Kept' \subseteq Kept
  BY <1>3 DEF Kept
<1>6. Covers(Strays' \ {nextId}, Kept', hints', 0, p)
  BY <1>2, <1>4, <1>5, <1>h, Countable, NoMore DEF Paid
<1>7. t = Saving(dash') /\ dash' < Newest'
  BY <1>1, <1>2, <1>3
<1> QED
  BY <1>3, <1>6, <1>7 DEF Stage, Paid

\* A saved dashboard is still to be pinned, and the one before it to be retired.
LEMMA SaveStage ==
  ASSUME IInv, NEW c, NEW t, NEW p \in Int, Doing(c, t, p), Effect(c), c.call = "save"
  PROVE  Stage(t, p)'
<1>1. Shapes /\ dash \in Nat /\ nextId \in Nat /\ dash < nextId /\ hints \in Int
      /\ \A m \in Ids : notices[m] # "none" => m <= dash
  BY DEF IInv, Shapes, Stored, Mail, Past
<1>2. /\ t = Pinning(dash) /\ dash < Newest
      /\ Paid({Newest}, IF chat[Newest].here THEN 0 ELSE 1, p)
  BY DEF Doing, Call, On
<1>3. dash' = Newest /\ UNCHANGED <<chat, nextId, notices, jobs, hints>> /\ Newest' = Newest
  BY <1>1, Called DEF Save, Shapes, Stored, Mail, dash, telegram, Newest
<1>h. hints \in Int /\ hints' = hints
  BY <1>1, <1>3
<1>4. Kept' \subseteq Kept
  BY <1>1, <1>2, <1>3 DEF Kept, Newest
<1>5. PICK old \in 0..(dash' - 1) : old = dash
  BY <1>1, <1>2, <1>3 DEF Newest
<1>6. CASE chat[Newest].here
  <2>1. Strays' \ {old} \subseteq Strays \ {Newest}
    BY <1>3, <1>5 DEF Strays
  <2>2. Paid({Newest}, 0, p)
    BY <1>2, <1>6
  <2>3. Covers(Strays' \ {old}, Kept', hints', 0, p)
    BY <1>4, <1>h, <2>1, <2>2, Countable, NoMore DEF Paid
  <2> QED
    BY <1>2, <1>3, <1>5, <1>6, <2>3 DEF Stage, Paid
<1>7. CASE ~chat[Newest].here
  <2>1. Strays' \ {} \subseteq (Strays \ {Newest}) \cup {old}
    BY <1>3, <1>5 DEF Strays
  <2>2. Paid({Newest}, 1, p)
    BY <1>2, <1>7
  <2>3. Covers(Strays' \ {}, Kept', hints', 0, p)
    <3>1. hints' + 0 + p + 1 <= hints + 1 + p
      BY <1>h
    <3>2. Covers(Strays \ {Newest}, Kept, hints, 1, p)
      BY <2>2 DEF Paid
    <3>3. Cardinality(Strays' \ {}) <= Cardinality(Strays \ {Newest}) + 1
      BY <2>1, Countable, Counting
    <3> QED
      BY <1>4, <1>h, <3>1, <3>2, <3>3, Countable, OneMore
  <2> QED
    BY <1>2, <1>3, <1>5, <1>7, <2>3 DEF Stage, Paid
<1> QED
  BY <1>6, <1>7

\* A pinned dashboard leaves the one before it to be retired.
LEMMA PinStage ==
  ASSUME IInv, NEW c, NEW t, NEW p \in Int, Doing(c, t, p), Effect(c), ~Missing(c), c.call = "pin"
  PROVE  Stage(t, p)'
<1>1. Shapes /\ dash \in Nat /\ hints \in Int
  BY DEF IInv, Shapes, Stored, Mail
<1>2. c.on = 0 /\ dash = Newest /\ Target(c) = Newest /\ chat[Newest].here
  BY DEF Doing, Missing, Target
<1>3. PICK old \in 0..(dash - 1) : t = Retire(old) /\ Paid({old}, 0, p)
  BY <1>2 DEF Doing
<1>4. Newest \in Ids
  BY <1>1, <1>2, <1>3, SentIds
<1>5. Pin(Newest)
  BY <1>2, Called
<1>6. UNCHANGED <<dash, nextId, jobs, hints>>
  BY <1>1, <1>4, <1>5, Pinned
<1>7. \A k \in Ids : /\ chat'[k].here = chat[k].here
                     /\ notices'[k] = notices[k] \/ notices'[k] = "new"
  BY <1>1, <1>4, <1>5, Pinned
<1>8. Strays' = Strays /\ Kept' \subseteq Kept
  BY <1>6, <1>7 DEF Strays, Kept
<1>9. CASE old = 0
  <2>1. Strays' \ {} \subseteq Strays \ {0}
    BY <1>8 DEF Strays, Ids
  <2>2. Covers(Strays' \ {}, Kept', hints', 0, p)
    BY <1>1, <1>3, <1>6, <1>8, <1>9, <2>1, Countable, NoMore DEF Paid
  <2>3. t = <<>>
    BY <1>3, <1>9, ListFacts
  <2> QED
    BY <2>2, <2>3 DEF Stage, Paid
<1>10. CASE old # 0
  <2>1. Strays' \ {old} \subseteq Strays \ {old}
    BY <1>8
  <2>2. Covers(Strays' \ {old}, Kept', hints', 0, p)
    BY <1>1, <1>3, <1>6, <1>8, <2>1, Countable, NoMore DEF Paid
  <2>3. old \in 1..(dash' - 1)
    BY <1>1, <1>3, <1>6, <1>10
  <2> QED
    BY <1>3, <2>2, <2>3 DEF Stage, Paid
<1> QED
  BY <1>9, <1>10

\* A dashboard pinned again or drawn again is the last call.
LEMMA LastStage ==
  ASSUME IInv, NEW c, NEW t, NEW p \in Int, Doing(c, t, p), Effect(c),
         c.call \in {"repin", "edit"}
  PROVE  Stage(t, p)'
<1>1. Shapes /\ dash \in Nat /\ hints \in Int
  BY DEF IInv, Shapes, Stored, Mail
<1>2. dash # 0 /\ c.on = dash /\ Target(c) = dash /\ t = <<>> /\ Paid({}, 0, p) /\ dash \in Ids
  BY SentIds DEF Doing, Target
<1>3. CASE c.call = "repin"
  <2>1. Pin(dash)
    BY <1>2, <1>3, Called
  <2>2. UNCHANGED <<dash, jobs, hints>>
    BY <1>1, <1>2, <2>1, Pinned
  <2>3. \A k \in Ids : /\ chat'[k].here = chat[k].here
                       /\ notices'[k] = notices[k] \/ notices'[k] = "new"
    BY <1>1, <1>2, <2>1, Pinned
  <2>4. Strays' \ {} \subseteq Strays \ {} /\ Kept' \subseteq Kept
    BY <2>2, <2>3 DEF Strays, Kept
  <2>5. Covers(Strays' \ {}, Kept', hints', 0, p)
    BY <1>1, <1>2, <2>2, <2>4, Countable, NoMore DEF Paid
  <2> QED
    BY <1>2, <2>5 DEF Stage, Paid
<1>4. CASE c.call = "edit"
  <2>1. /\ chat' = [chat EXCEPT ![dash] = [chat[dash] EXCEPT !.shown = Shown(c.to)]]
        /\ UNCHANGED <<dash, jobs, notices, hints>>
    BY <1>2, <1>4, Called DEF Redraw, tables, dash
  <2>2. \A k \in Ids : chat'[k].here = chat[k].here
    BY <1>1, <1>2, <2>1, Touched
  <2>4. Strays' \ {} \subseteq Strays \ {} /\ Kept' \subseteq Kept
    BY <2>1, <2>2 DEF Strays, Kept
  <2>5. hints' = hints
    BY <2>1
  <2>6. Covers(Strays' \ {}, Kept', hints', 0, p)
    BY <1>1, <1>2, <2>4, <2>5, Countable, NoMore DEF Paid
  <2> QED
    BY <1>2, <2>6 DEF Stage, Paid
<1> QED
  BY <1>3, <1>4

\* A dashboard that was replaced is deleted, and again by a job.
LEMMA RetireStage ==
  ASSUME IInv, NEW c, NEW t, NEW p \in Int, Doing(c, t, p), Effect(c),
         c.call \in {"delete", "schedule"}
  PROVE  Stage(t, p)'
<1>1. Shapes /\ dash \in Nat /\ hints \in Int
  BY DEF IInv, Shapes, Stored, Mail
<1>2. PICK old \in 1..(dash - 1) :
         /\ c.on = old /\ Paid({old}, 0, p)
         /\ t = IF c.call = "delete" THEN <<On("schedule", old)>> ELSE <<>>
  BY DEF Doing
<1>3. dash \in Ids /\ dash <= MaxUpdates + MaxFaults /\ MaxUpdates + MaxFaults \in Nat
  BY <1>1, <1>2, SentIds, DashboardAssumption DEF Ids
<1>4. old \in Ids /\ Target(c) = old
  BY <1>1, <1>2, <1>3 DEF Ids, Target
<1>5. CASE c.call = "delete"
  <2>1. /\ chat' = [chat EXCEPT ![old] = Unsent] /\ UNCHANGED <<dash, jobs, notices, hints>>
    BY <1>4, <1>5, Called DEF Delete, tables, dash
  <2>2. DOMAIN chat = Ids /\ ~Unsent.here
    BY <1>1 DEF Shapes, Stored, Mail, Unsent
  <2>3. \A k \in Ids : chat'[k].here => chat[k].here
    BY <2>1, <2>2
  <2>4. Strays' \ {old} \subseteq Strays \ {old} /\ Kept' \subseteq Kept
    BY <2>1, <2>3 DEF Strays, Kept
  <2>5. Covers(Strays' \ {old}, Kept', hints', 0, p)
    BY <1>1, <1>2, <2>1, <2>4, Countable, NoMore DEF Paid
  <2>6. old \in 1..(dash' - 1)
    BY <1>2, <2>1
  <2> QED
    BY <1>2, <1>5, <2>5, <2>6 DEF Stage, Paid
<1>6. CASE c.call = "schedule"
  <2>1. jobs' = jobs \cup {old} /\ UNCHANGED <<dash, chat, notices, hints>>
    BY <1>4, <1>6, Called DEF Schedule, tables, telegram, dash
  <2>4. Strays' \ {} \subseteq Strays \ {old} /\ Kept' \subseteq Kept
    BY <2>1 DEF Strays, Kept
  <2>5. Covers(Strays' \ {}, Kept', hints', 0, p)
    BY <1>1, <1>2, <2>1, <2>4, Countable, NoMore DEF Paid
  <2> QED
    BY <1>2, <1>6, <2>5 DEF Stage, Paid
<1> QED
  BY <1>5, <1>6

\* A feedback message is paid for by the job to come.
LEMMA HintCounts ==
  ASSUME NEW S \in SUBSET Ids, NEW K \in SUBSET Ids, NEW g \in Int, NEW p \in Int
  PROVE  Covers(S, K, g, 0, p) <=> Covers(S, K, g + 1, -1, p)
<1>1. PICK a \in Nat, b \in Nat : a = Cardinality(S) /\ b = Cardinality(K)
  BY Counting
<1>2. a + b + g + 0 <= p <=> a + b + (g + 1) + (-1) <= p
  OBVIOUS
<1> QED
  BY <1>1, <1>2 DEF Covers

\* A feedback message, and its deletion job.
LEMMA HintStage ==
  ASSUME IInv, NEW c, NEW t, NEW p \in Int, Doing(c, t, p), Effect(c),
         c.call \in {"hint", "scheduleHint"}
  PROVE  Stage(t, p)'
<1>1. hints \in Int
  BY DEF IInv, Shapes, Stored, Mail
<1>2. UNCHANGED <<dash, chat, notices, jobs>>
  BY Called DEF Hint, tables, telegram, dash
<1>3. Strays' = Strays /\ Kept' = Kept
  BY <1>2 DEF Strays, Kept
<1>4. CASE c.call = "hint"
  <2>1. t = <<Call("scheduleHint")>> /\ Covers(Strays \ {}, Kept, hints, 0, p)
    BY <1>4 DEF Doing, Paid
  <2>2. hints' = hints + 1
    BY <1>4, Called DEF Hint
  <2>3. Covers(Strays \ {}, Kept, hints + 1, -1, p)
    BY <1>1, <2>1, Countable, HintCounts
  <2>4. Paid({}, -1, p)'
    BY <1>3, <2>2, <2>3 DEF Paid
  <2> QED
    BY <2>1, <2>4 DEF Stage
<1>5. CASE c.call = "scheduleHint"
  <2>1. t = <<>> /\ Covers(Strays \ {}, Kept, hints, -1, p)
    BY <1>5 DEF Doing, Paid
  <2>2. hints' \in Int /\ hints = hints' + 1
    BY <1>1, <1>5, Called DEF Hint
  <2>3. Covers(Strays \ {}, Kept, hints', 0, p)
    BY <2>1, <2>2, Countable, HintCounts
  <2>4. Paid({}, 0, p)'
    BY <1>3, <2>3 DEF Paid
  <2> QED
    BY <2>1, <2>4 DEF Stage
<1> QED
  BY <1>4, <1>5

\* Every call that takes effect leaves the handler at its next place.
LEMMA EffectStage ==
  ASSUME IInv, todo # <<>>, NEW c, c = Head(todo), NEW t, t = Tail(todo),
         NEW p \in Int, p = faults, ~Missing(c), Effect(c)
  PROVE  Stage(t, p)'
<1>1. Doing(c, t, p)
  BY Now
<1>2. c.call = "send" => nextId \in Ids
  BY SentIds
<1>3. c.call \in {"row", "send", "save", "pin", "repin", "delete", "schedule", "hint",
                  "scheduleHint", "product", "status", "slot", "zone", "edit"}
  BY DEF Effect
<1>4. CASE c.call \in {"row", "product", "status", "slot", "zone"}
  BY <1>1, <1>4, TablesStage
<1>5. CASE c.call = "send"
  BY <1>1, <1>2, <1>5, SendStage
<1>6. CASE c.call = "save"
  BY <1>1, <1>6, SaveStage
<1>7. CASE c.call = "pin"
  BY <1>1, <1>7, PinStage
<1>8. CASE c.call \in {"repin", "edit"}
  BY <1>1, <1>8, LastStage
<1>9. CASE c.call \in {"delete", "schedule"}
  BY <1>1, <1>9, RetireStage
<1>10. CASE c.call \in {"hint", "scheduleHint"}
  BY <1>1, <1>10, HintStage
<1> QED
  BY <1>3, <1>4, <1>5, <1>6, <1>7, <1>8, <1>9, <1>10

-----------------------------------------------------------------------------
(* One failure pays for the message the handler was about to deal with.     *)

\* What a failure more covers: nothing, or a message less that is excused.
LEMMA Slacken ==
  ASSUME NEW S \in SUBSET Ids, NEW K \in SUBSET Ids, NEW g \in Int, NEW p \in Int
  PROVE  /\ Covers(S \ {}, K, g, -1, p) => Covers(S \ {}, K, g, 0, p + 1)
         /\ Covers(S \ {}, K, g, 0, p) => Covers(S \ {}, K, g, 0, p + 1)
         /\ \A m : Covers(S \ {m}, K, g, 0, p) => Covers(S \ {}, K, g, 0, p + 1)
         /\ \A m : Covers(S \ {m}, K, g, 1, p) => Covers(S \ {}, K, g, 0, p + 1)
<1>1. S \ {} = S
  OBVIOUS
<1>2. PICK a \in Nat, b \in Nat : a = Cardinality(S) /\ b = Cardinality(K)
  BY Counting
<1>3. Covers(S \ {}, K, g, 0, p + 1) <=> a + b + g + 0 <= p + 1
  BY <1>1, <1>2 DEF Covers
<1>4. ASSUME Covers(S \ {}, K, g, -1, p) PROVE a + b + g + 0 <= p + 1
  <2>1. a + b + g + (-1) <= p
    BY <1>1, <1>2, <1>4 DEF Covers
  <2> QED
    BY <2>1
<1>5. ASSUME Covers(S \ {}, K, g, 0, p) PROVE a + b + g + 0 <= p + 1
  <2>1. a + b + g + 0 <= p
    BY <1>1, <1>2, <1>5 DEF Covers
  <2> QED
    BY <2>1
<1>6. ASSUME NEW m, NEW more \in {0, 1}, Covers(S \ {m}, K, g, more, p)
      PROVE  a + b + g + 0 <= p + 1
  <2>1. S \ {m} \in SUBSET Ids /\ S \subseteq (S \ {m}) \cup {m}
    OBVIOUS
  <2>2. PICK x \in Nat : x = Cardinality(S \ {m})
    BY <2>1, Counting
  <2>3. a <= x + 1
    BY <1>2, <2>1, <2>2, Counting
  <2>4. x + b + g + more <= p
    BY <1>2, <1>6, <2>2 DEF Covers
  <2> QED
    BY <2>3, <2>4
<1> QED
  BY <1>3, <1>4, <1>5, <1>6

\* What was covered is covered by a failure more.
LEMMA Looser ==
  ASSUME NEW S \in SUBSET Ids, NEW K \in SUBSET Ids, NEW g \in Int, NEW p \in Int,
         NEW more \in Int, Covers(S, K, g, more, p)
  PROVE  Covers(S, K, g, more, p + 1)
<1>1. PICK a \in Nat, b \in Nat : a = Cardinality(S) /\ b = Cardinality(K)
  BY Counting
<1>2. a + b + g + more <= p
  BY <1>1 DEF Covers
<1>3. a + b + g + more <= p + 1
  BY <1>2
<1> QED
  BY <1>1, <1>3 DEF Covers

\* Wherever the handler is, it may be given up for a failure.
LEMMA Slack ==
  ASSUME NEW t, NEW p \in Int, Stage(t, p), hints \in Int
  PROVE  Paid({}, 0, p + 1)
<1> DEFINE goal == Covers(Strays \ {}, Kept, hints, 0, p + 1)
<1>1. Strays \in SUBSET Ids /\ Kept \in SUBSET Ids
  BY DEF Strays, Kept
<1>2. Covers(Strays \ {}, Kept, hints, -1, p) => goal
  BY <1>1, Slacken
<1>3. Covers(Strays \ {}, Kept, hints, 0, p) => goal
  BY <1>1, Slacken
<1>4. \A m : Covers(Strays \ {m}, Kept, hints, 0, p) => goal
  BY <1>1, Slacken
<1>5. \A m : Covers(Strays \ {m}, Kept, hints, 1, p) => goal
  BY <1>1, Slacken
<1> HIDE DEF goal
<1>6. Paid({Newest}, IF chat[Newest].here THEN 0 ELSE 1, p) => goal
  BY <1>4, <1>5 DEF Paid
<1>7. \A old : Paid(IF chat[Newest].here THEN {old} ELSE {}, 0, p) => goal
  BY <1>3, <1>4 DEF Paid
<1>8. goal
  BY <1>2, <1>3, <1>4, <1>6, <1>7 DEF Stage, Paid
<1> QED
  BY <1>8 DEF goal, Paid

\* The same after a step.
LEMMA SlackNext ==
  ASSUME NEW t, NEW p \in Int, Stage(t, p)', hints' \in Int
  PROVE  Paid({}, 0, p + 1)'
<1> DEFINE goal == Covers(Strays' \ {}, Kept', hints', 0, p + 1)
<1>1. Strays' \in SUBSET Ids /\ Kept' \in SUBSET Ids
  BY DEF Strays, Kept
<1>2. Covers(Strays' \ {}, Kept', hints', -1, p) => goal
  BY <1>1, Slacken
<1>3. Covers(Strays' \ {}, Kept', hints', 0, p) => goal
  BY <1>1, Slacken
<1>4. \A m : Covers(Strays' \ {m}, Kept', hints', 0, p) => goal
  BY <1>1, Slacken
<1>5. \A m : Covers(Strays' \ {m}, Kept', hints', 1, p) => goal
  BY <1>1, Slacken
<1> HIDE DEF goal
<1>6. Paid({Newest}, IF chat[Newest].here THEN 0 ELSE 1, p)' => goal
  BY <1>4, <1>5 DEF Paid
<1>7. \A old : Paid(IF chat[Newest].here THEN {old} ELSE {}, 0, p)' => goal
  BY <1>3, <1>4 DEF Paid
<1>8. goal
  BY <1>2, <1>3, <1>4, <1>6, <1>7 DEF Stage, Paid
<1> QED
  BY <1>8 DEF goal, Paid

\* A handler that goes on after a failure is where it would be.
LEMMA LooserNext ==
  ASSUME NEW t, NEW p \in Int, Stage(t, p)', hints' \in Int
  PROVE  Stage(t, p + 1)'
<1>1. \A e : \A more \in {-1, 0, 1} : Paid(e, more, p)' => Paid(e, more, p + 1)'
  <2> SUFFICES ASSUME NEW e, NEW more \in {-1, 0, 1}, Paid(e, more, p)'
               PROVE  Paid(e, more, p + 1)'
    OBVIOUS
  <2>1. Covers(Strays' \ e, Kept', hints', more, p)
    BY DEF Paid
  <2>2. Strays' \ e \in SUBSET Ids /\ Kept' \in SUBSET Ids /\ more \in Int
    BY DEF Strays, Kept
  <2>3. Covers(Strays' \ e, Kept', hints', more, p + 1)
    BY <2>1, <2>2, Looser
  <2> QED
    BY <2>3 DEF Paid
<1> QED
  BY <1>1 DEF Stage, Paid

-----------------------------------------------------------------------------
(* Every step leaves the handler at one of its places.                      *)

\* Where the handler is after a step.
LEMMA StageIs ==
  ASSUME NEW t, NEW p, Stage(t, p)', todo' = t, faults' = p
  PROVE  Stage(todo, faults)'
<1>1. Body(todo)' <=> Body(t)'
  BY DEF Body, Drawing, Changing, Adding, Repinning
<1>2. RowFirst(todo)' <=> RowFirst(t)'
  <2>1. Body(Tail(todo))' <=> Body(Tail(t))'
    BY DEF Body, Drawing, Changing, Adding, Repinning
  <2> QED
    BY <2>1 DEF RowFirst
<1> QED
  BY <1>1, <1>2 DEF Stage, Paid

\* A call that succeeds.
LEMMA SucceedStage ==
  ASSUME IInv, Succeed
  PROVE  Stage(todo, faults)'
<1>1. PICK p \in Int : p = faults
  BY DashboardAssumption DEF IInv, Shapes, Stored, Mail
<1>2. PICK t, c : t = Tail(todo) /\ c = Head(todo)
  OBVIOUS
<1>3. todo # <<>> /\ ~Missing(c) /\ Effect(c) /\ todo' = t /\ faults' = p
  BY <1>1, <1>2 DEF Succeed, Idle, Proceed, todo
<1>4. Stage(t, p)'
  BY <1>1, <1>2, <1>3, EffectStage
<1> QED
  BY <1>3, <1>4, StageIs

\* A call whose message is gone.
LEMMA RefusedStage ==
  ASSUME IInv, Refused
  PROVE  Stage(todo, faults)'
<1>1. PICK p \in Int : p = faults
  BY DashboardAssumption DEF IInv, Shapes, Stored, Mail
<1>2. PICK c : c = Head(todo)
  OBVIOUS
<1>3. PICK t : t = IF c.call = "repin" THEN Feedback ELSE <<>>
  OBVIOUS
<1>4. /\ todo # <<>> /\ Missing(c) /\ todo' = t /\ faults' = p
      /\ UNCHANGED <<dash, chat, nextId, notices, jobs, hints>>
  BY <1>1, <1>2, <1>3 DEF Refused, Idle, Proceed, todo, tables, telegram, dash
<1>5. Doing(c, Tail(todo), p)
  BY <1>1, <1>2, <1>4, Now
<1>6. c.call \in {"pin", "repin", "edit"} /\ ~chat[Target(c)].here
  BY <1>4 DEF Missing
<1>7. c.call = "pin" => Target(c) = Newest
  BY <1>5 DEF Doing, Target
<1>8. Paid({}, 0, p)
  <2>1. CASE c.call = "pin"
    BY <1>5, <1>6, <1>7, <2>1 DEF Doing
  <2>2. CASE c.call \in {"repin", "edit"}
    BY <1>5, <2>2 DEF Doing
  <2> QED
    BY <1>6, <2>1, <2>2
<1>9. t = <<>> \/ Body(t)
  BY <1>3 DEF Body
<1>10. Stage(t, p)
  BY <1>8, <1>9 DEF Stage
<1>11. Stage(t, p)'
  BY <1>4, <1>10, Quiet
<1> QED
  BY <1>4, <1>11, StageIs

\* A call that fails, with its effect or without it.
LEMMA FailStage ==
  ASSUME IInv, Fail
  PROVE  Stage(todo, faults)'
<1>1. PICK p \in Int : p = faults
  BY DashboardAssumption DEF IInv, Shapes, Stored, Mail
<1>2. PICK t, c : t = Tail(todo) /\ c = Head(todo)
  OBVIOUS
<1>3. PICK u : u = IF c.call \in {"delete", "repin"} THEN t ELSE <<>>
  OBVIOUS
<1>4. todo # <<>> /\ todo' = u /\ faults' = p + 1
  BY <1>1, <1>2, <1>3 DEF Fail, Idle, Proceed, AfterFailure, todo
<1>5. Doing(c, t, p) /\ hints \in Int /\ Stage(todo, p)
  BY <1>1, <1>2, <1>4, Now DEF IInv, Shapes, Stored, Mail
<1>6. CASE ~Missing(c) /\ Effect(c)
  <2>1. Stage(t, p)'
    BY <1>1, <1>2, <1>4, <1>6, EffectStage
  <2>2. hints' \in Int
    <3>1. hints' = hints \/ hints' = hints + 1 \/ hints' = hints + (-1)
      BY <1>6 DEF Effect, Row, Send, Save, Pin, Delete, Schedule, Hint, Insert, SetStatus,
                  SetSlot, SetZone, Redraw
    <3> QED
      BY <1>5, <3>1
  <2>3. CASE u = t
    <3>1. Stage(t, p + 1)'
      BY <2>1, <2>2, LooserNext
    <3> QED
      BY <1>4, <2>3, <3>1, StageIs
  <2>4. CASE u = <<>>
    <3>1. Paid({}, 0, p + 1)'
      BY <2>1, <2>2, SlackNext
    <3>2. Stage(u, p + 1)'
      BY <2>4, <3>1 DEF Stage
    <3> QED
      BY <1>4, <3>2, StageIs
  <2> QED
    BY <1>3, <2>3, <2>4
<1>7. CASE UNCHANGED <<tables, telegram, jobs, hints>>
  <2>1. UNCHANGED <<dash, chat, nextId, notices, jobs, hints>>
    BY <1>7 DEF tables, telegram, dash
  <2>2. Stage(u, p + 1)'
    <3>1. CASE c.call = "delete"
      <4>1. Stage(t, p)
        BY <1>5, <3>1 DEF Doing, Stage
      <4>2. Stage(t, p)' /\ hints' \in Int
        BY <1>5, <2>1, <4>1, Quiet
      <4> QED
        BY <1>3, <3>1, <4>2, LooserNext
    <3>2. CASE c.call # "delete"
      <4>1. u = <<>>
        BY <1>3, <1>5, <3>2 DEF Doing
      <4>2. Paid({}, 0, p + 1)
        BY <1>5, Slack
      <4>3. Stage(u, p + 1)
        BY <4>1, <4>2 DEF Stage
      <4> QED
        BY <2>1, <4>3, Quiet
    <3> QED
      BY <3>1, <3>2
  <2> QED
    BY <1>4, <2>2, StageIs
<1> QED
  BY <1>2, <1>6, <1>7 DEF Fail, todo

\* What an update leads to, after the row is made sure of.
LEMMA RowEnsured ==
  ASSUME NEW S, NEW b \in Seq(S), Body(b)
  PROVE  RowFirst(EnsureRow \o b) \/ Body(EnsureRow \o b)
<1>1. CASE settings.row
  <2>1. EnsureRow \o b = b
    BY <1>1 DEF EnsureRow
  <2> QED
    BY <2>1
<1>2. CASE ~settings.row
  <2>1. PICK x : x = Call("row")
    OBVIOUS
  <2>2. EnsureRow \o b = <<x>> \o b
    BY <1>2, <2>1 DEF EnsureRow
  <2>3. <<x>> \o b # <<>> /\ Head(<<x>> \o b) = x /\ Tail(<<x>> \o b) = b
    BY ConsFacts
  <2> QED
    BY <2>1, <2>2, <2>3 DEF RowFirst
<1> QED
  BY <1>1, <1>2

\* The row is made sure of before the rest of a list in two parts.
LEMMA RowThen ==
  ASSUME NEW S, Call("row") \in S, NEW a \in Seq(S), NEW b \in Seq(S), Body(a \o b)
  PROVE  RowFirst((EnsureRow \o a) \o b) \/ Body((EnsureRow \o a) \o b)
<1>1. PICK x \in S : x = Call("row")
  OBVIOUS
<1>2. <<>> \in Seq(S) /\ <<x>> \in Seq(S)
  OBVIOUS
<1>3. EnsureRow \in Seq(S)
  BY <1>1, <1>2 DEF EnsureRow
<1>4. a \o b \in Seq(S)
  BY ConcatProperties
<1>5. (EnsureRow \o a) \o b = EnsureRow \o (a \o b)
  BY <1>3, ConcatAssociative
<1> QED
  BY <1>4, <1>5, RowEnsured

\* The calls of /start.
LEMMA StartPlace ==
  ASSUME dash \in Nat
  PROVE  RowFirst(StartCalls) \/ Body(StartCalls)
<1> DEFINE send == Call("send")
           save == Call("save")
           pin == On("pin", 0)
           again == On("repin", dash)
<1> HIDE DEF send, save, pin, again
<1>1. Create = <<send, save, pin>>
  BY DEF Create, send, save, pin
<1>2. CASE dash = 0
  <2>1. Create \in Seq({send, save, pin})
    BY <1>1
  <2>2. Replacing(dash) = Create
    BY <1>2, <2>1, ListFacts, ConcatEmptySeq DEF Replacing
  <2>3. StartCalls = EnsureRow \o Create
    BY <1>2 DEF StartCalls, dash
  <2> QED
    BY <2>1, <2>2, <2>3, RowEnsured DEF Body
<1>3. CASE dash # 0
  <2>1. <<again>> \in Seq({again})
    OBVIOUS
  <2>2. Repinning(<<again>>)
    BY <1>3 DEF Repinning, again
  <2>3. StartCalls = EnsureRow \o <<again>>
    BY <1>3 DEF StartCalls, again, dash
  <2> QED
    BY <2>1, <2>2, <2>3, RowEnsured DEF Body
<1> QED
  BY <1>2, <1>3

\* The calls of /dashboard.
LEMMA DashboardPlace == RowFirst(DashboardCalls) \/ Body(DashboardCalls)
<1> DEFINE send == Call("send")
           save == Call("save")
           pin == On("pin", 0)
           delete == On("delete", dash)
           later == On("schedule", dash)
           row == Call("row")
           S == {send, save, pin, delete, later, row}
<1> HIDE DEF send, save, pin, delete, later, row
<1>1. Create = <<send, save, pin>> /\ Retire(dash) = IF dash = 0 THEN <<>> ELSE <<delete, later>>
  BY DEF Create, Retire, send, save, pin, delete, later
<1>2. send \in S /\ save \in S /\ pin \in S /\ delete \in S /\ later \in S /\ row \in S
  OBVIOUS
<1> HIDE DEF S
<1>3. <<send, save, pin>> \in Seq(S) /\ <<>> \in Seq(S) /\ <<delete, later>> \in Seq(S)
  BY <1>2
<1>4. Create \in Seq(S) /\ Retire(dash) \in Seq(S) /\ Call("row") \in S
  BY <1>1, <1>2, <1>3 DEF row
<1>5. DashboardCalls = (EnsureRow \o Create) \o Retire(dash)
  BY DEF DashboardCalls, dash
<1>6. Body(Create \o Retire(dash))
  BY DEF Body, Replacing
<1> QED
  BY <1>4, <1>5, <1>6, RowThen

\* The calls after a draft is confirmed.
LEMMA ConfirmPlace ==
  ASSUME dash \in Nat, NEW day
  PROVE  RowFirst(ConfirmCalls(day)) \/ Body(ConfirmCalls(day))
<1> DEFINE product == [call |-> "product", day |-> day]
           draw == Edit(dash, Home)
           row == Call("row")
           S == {product, draw, row}
           rest == IF dash = 0 THEN <<>> ELSE <<draw>>
<1>1. product.call = "product" /\ draw.call = "edit" /\ draw = Edit(dash, draw.to)
  BY CallFields
<1>2. ConfirmCalls(day) = (EnsureRow \o <<product>>) \o rest
  BY DEF ConfirmCalls, dash
<1>3. product \in S /\ draw \in S /\ row \in S
  OBVIOUS
<1> HIDE DEF product, draw, S
<1>4. <<product>> \in Seq(S) /\ rest \in Seq(S) /\ Call("row") \in S
  BY <1>3
<1>5. Body(<<product>> \o rest)
  <2>1. /\ <<product>> \o rest # <<>> /\ Head(<<product>> \o rest) = product
        /\ Tail(<<product>> \o rest) = rest
    BY <1>4, ConsFacts
  <2>2. dash # 0 => Drawing(rest)
    BY <1>1, OneFacts DEF Drawing
  <2> QED
    BY <1>1, <2>1, <2>2 DEF Body, Adding, Changing
<1> QED
  BY <1>2, <1>4, <1>5, RowThen

\* The calls of a tap.
LEMMA TapPlace ==
  ASSUME NEW m, m # 0, NEW b, IsButton(b)
  PROVE  TapCalls(m, b) = <<>> \/ Body(TapCalls(m, b))
<1> DEFINE draw == Edit(m, b.to)
<1>1. draw.call = "edit" /\ draw = Edit(m, draw.to)
  BY CallFields
<1>2. CASE ~settings.row \/ m # dash
  BY <1>2 DEF TapCalls, Body, dash
<1>3. CASE settings.row /\ m = dash
  <2>1. TapCalls(m, b) = Change(b) \o <<draw>>
    BY <1>3 DEF TapCalls, dash
  <2> HIDE DEF draw
  <2>2. <<draw>> \in Seq({draw}) /\ Drawing(<<draw>>)
    BY <1>1, <1>3, OneFacts DEF Drawing
  <2>3. CASE b.act = "go"
    <3>1. Change(b) \o <<draw>> = <<draw>>
      BY <2>2, <2>3, ConcatEmptySeq DEF Change
    <3> QED
      BY <2>1, <2>2, <3>1 DEF Body
  <2>4. CASE b.act # "go"
    <3>1. PICK x : Change(b) = <<x>> /\ x.call \in {"status", "slot", "zone"}
      BY <2>4 DEF Change, IsButton
    <3>2. /\ <<x>> \o <<draw>> # <<>> /\ Head(<<x>> \o <<draw>>) = x
          /\ Tail(<<x>> \o <<draw>>) = <<draw>>
      BY <2>2, ConsFacts
    <3> QED
      BY <1>3, <2>1, <2>2, <3>1, <3>2 DEF Body, Changing
  <2> QED
    BY <2>3, <2>4
<1> QED
  BY <1>2, <1>3

\* Whatever the update, its handler starts at one of its places.
LEMMA CallsPlace ==
  ASSUME NEW u, IsUpdate(u), dash \in Nat
  PROVE  Calls(u) = <<>> \/ RowFirst(Calls(u)) \/ Body(Calls(u))
<1>1. CASE u.kind = "start"
  BY <1>1, StartPlace DEF Calls
<1>2. CASE u.kind = "dashboard"
  BY <1>2, DashboardPlace DEF Calls
<1>3. CASE u.kind = "confirm"
  BY <1>3, ConfirmPlace DEF Calls
<1>4. CASE u.kind = "tap"
  <2>1. u.on # 0 /\ IsButton(u.button)
    BY <1>4, DashboardAssumption DEF IsUpdate, Ids
  <2> QED
    BY <1>4, <2>1, TapPlace DEF Calls
<1> QED
  BY <1>1, <1>2, <1>3, <1>4 DEF IsUpdate

\* Nothing is excused while the handler rests.
LEMMA RestPaid ==
  ASSUME NEW p, Stage(<<>>, p), dash \in Nat
  PROVE  Paid({}, 0, p)
<1>1. <<>> # Saving(dash) /\ \A old : <<>> # Pinning(old)
  BY ListFacts
<1>2. ASSUME NEW old \in 1..(dash - 1) PROVE <<>> \notin {Retire(old), <<On("schedule", old)>>}
  BY ListFacts, OneFacts
<1>3. <<>> # <<Call("scheduleHint")>>
  OBVIOUS
<1> QED
  BY <1>1, <1>2, <1>3 DEF Stage

\* The next update of the mailbox.
LEMMA TakeStage ==
  ASSUME IInv, Take
  PROVE  Stage(todo, faults)'
<1>1. PICK p \in Int : p = faults
  BY DashboardAssumption DEF IInv, Shapes, Stored, Mail
<1>2. PICK t : t = Calls(Head(inbox))
  OBVIOUS
<1>3. /\ todo = <<>> /\ todo' = t /\ faults' = p /\ inbox # <<>>
      /\ UNCHANGED <<dash, chat, nextId, notices, jobs, hints>>
  BY <1>1, <1>2 DEF Take, Idle, todo, tables, telegram, dash
<1>4. IsUpdate(Head(inbox)) /\ dash \in Nat
  BY <1>3, Shortened DEF IInv, Shapes, Stored, Mail
<1>5. Stage(t, p)
  BY <1>1, <1>2, <1>3, <1>4, CallsPlace, RestPaid DEF IInv, Stage
<1>6. Stage(t, p)'
  BY <1>3, <1>5, Quiet
<1> QED
  BY <1>3, <1>6, StageIs

\* The process is killed, or a step of the user that changes no message.
LEMMA CrashStage ==
  ASSUME IInv, Crash
  PROVE  Stage(todo, faults)'
<1>1. PICK p \in Int : p = faults
  BY DashboardAssumption DEF IInv, Shapes, Stored, Mail
<1>2. PICK t : t = <<>>
  OBVIOUS
<1>3. /\ todo' = t /\ faults' = p + 1 /\ UNCHANGED <<dash, chat, nextId, notices, jobs, hints>>
  BY <1>1, <1>2 DEF Crash, Proceed, todo, tables, telegram, dash
<1>4. Paid({}, 0, p + 1)
  BY <1>1, Slack DEF IInv, Shapes, Stored, Mail
<1>5. Stage(t, p + 1)
  BY <1>2, <1>4 DEF Stage
<1>6. Stage(t, p + 1)'
  BY <1>3, <1>5, Quiet
<1> QED
  BY <1>3, <1>6, StageIs

\* An update arrives, or nothing happens.
LEMMA ArrivesStage ==
  ASSUME IInv, (\E u : Arrives(u)) \/ UNCHANGED vars
  PROVE  Stage(todo, faults)'
<1>1. PICK t, p : t = todo /\ p = faults
  OBVIOUS
<1>2. /\ todo' = t /\ faults' = p /\ UNCHANGED <<dash, chat, nextId, notices, jobs, hints>>
  BY <1>1 DEF Arrives, vars, todo, tables, telegram, dash
<1>3. Stage(t, p)
  BY <1>1 DEF IInv
<1>4. Stage(t, p)'
  BY <1>2, <1>3, Quiet
<1> QED
  BY <1>2, <1>4, StageIs

\* Where only the account moves, the handler stays at its place.
LEMMA StageMoves ==
  ASSUME NEW t, NEW p, NEW q, Stage(t, p), UNCHANGED <<dash, nextId>>,
         chat'[Newest].here <=> chat[Newest].here,
         \A e : \A more \in {-1, 0, 1} : Paid(e, more, p) => Paid(e, more, q)'
  PROVE  Stage(t, q)'
<1>1. Body(t)' = Body(t) /\ RowFirst(t)' = RowFirst(t) /\ Newest' = Newest
  BY DEF Body, RowFirst, Drawing, Changing, Adding, Repinning, Newest
<1>2. \A e, more : Paid(e, more, q)' <=> Covers(Strays' \ e, Kept', hints', more, q)
  BY DEF Paid
<1>3. \A e : \A more \in {-1, 0, 1} :
         Paid(e, more, p) => Covers(Strays' \ e, Kept', hints', more, q)
  BY <1>2
<1>4. Paid({}, 0, p) => Covers(Strays' \ {}, Kept', hints', 0, q)
  BY <1>3
<1>5. Paid({}, -1, p) => Covers(Strays' \ {}, Kept', hints', -1, q)
  BY <1>3
<1>6. \A old : Paid({old}, 0, p) => Covers(Strays' \ {old}, Kept', hints', 0, q)
  BY <1>3
<1>7. Paid({Newest}, IF chat[Newest].here THEN 0 ELSE 1, p)
         => Covers(Strays' \ {Newest}, Kept', hints', IF chat[Newest].here THEN 0 ELSE 1, q)
  BY <1>3
<1>8. \A old : Paid(IF chat[Newest].here THEN {old} ELSE {}, 0, p)
         => Covers(Strays' \ (IF chat[Newest].here THEN {old} ELSE {}), Kept', hints', 0, q)
  BY <1>3
<1>9. CASE (t = <<>> \/ RowFirst(t) \/ Body(t)) /\ Paid({}, 0, p)
  BY <1>1, <1>4, <1>9 DEF Stage, Paid
<1>10. CASE /\ t = Saving(dash) /\ dash < Newest
            /\ Paid({Newest}, IF chat[Newest].here THEN 0 ELSE 1, p)
  BY <1>1, <1>7, <1>10 DEF Stage, Paid
<1>11. CASE \E old \in 0..(dash - 1) :
                /\ t = Pinning(old) /\ dash = Newest
                /\ Paid(IF chat[Newest].here THEN {old} ELSE {}, 0, p)
  BY <1>1, <1>8, <1>11 DEF Stage, Paid
<1>12. CASE \E old \in 1..(dash - 1) :
                t \in {Retire(old), <<On("schedule", old)>>} /\ Paid({old}, 0, p)
  BY <1>1, <1>6, <1>12 DEF Stage, Paid
<1>13. CASE t = <<Call("scheduleHint")>> /\ Paid({}, -1, p)
  BY <1>5, <1>13 DEF Stage, Paid
<1> QED
  BY <1>9, <1>10, <1>11, <1>12, <1>13 DEF Stage

\* Where nothing more is left, and no more is paid.
LEMMA Fewer ==
  ASSUME NEW t, NEW p \in Int, Stage(t, p), UNCHANGED <<dash, nextId, hints>>, hints \in Int,
         chat'[Newest].here <=> chat[Newest].here, Strays' \subseteq Strays, Kept' \subseteq Kept
  PROVE  Stage(t, p)'
<1>1. ASSUME NEW e, NEW more \in {-1, 0, 1}, Paid(e, more, p)
      PROVE  Paid(e, more, p)'
  <2>1. Strays' \ e \subseteq Strays \ e /\ more \in Int /\ hints' = hints
    OBVIOUS
  <2>2. Covers(Strays' \ e, Kept', hints', more, p)
    BY <1>1, <2>1, Countable, NoMore DEF Paid
  <2> QED
    BY <2>2 DEF Paid
<1> QED
  BY <1>1, StageMoves

\* A message that is gone.
LEMMA GoneFacts ==
  ASSUME Shapes, NEW m \in Ids, chat' = [chat EXCEPT ![m] = Unsent]
  PROVE  \A k \in Ids : /\ k # m => chat'[k] = chat[k]
                        /\ k = m => ~chat'[k].here
<1>1. DOMAIN chat = Ids /\ ~Unsent.here
  BY DEF Shapes, Stored, Mail, Unsent
<1> QED
  BY <1>1

\* A deletion job takes a dashboard away that was replaced.
LEMMA JobStage ==
  ASSUME IInv, DeleteJob
  PROVE  Stage(todo, faults)'
<1>p. PICK p \in Int : p = faults
  BY DashboardAssumption DEF IInv, Shapes, Stored, Mail
<1>1. PICK t : t = todo /\ p = faults
  BY <1>p
<1>2. PICK m \in jobs : /\ chat' = [chat EXCEPT ![m] = Unsent] /\ jobs' = jobs \ {m}
                        /\ UNCHANGED <<tables, nextId, notices, hints, sent, inbox, hand, faults>>
  BY DEF DeleteJob
<1>3. /\ Shapes /\ dash \in Nat /\ nextId \in Nat /\ dash < nextId /\ hints \in Int
      /\ \A k \in jobs : k < dash
  BY DEF IInv, Shapes, Stored, Mail, Past
<1>4. UNCHANGED <<dash, nextId, notices, hints>> /\ todo' = t /\ faults' = p
  BY <1>1, <1>2 DEF todo, dash, tables
<1>5. DOMAIN chat = Ids
  BY <1>3 DEF Shapes, Stored, Mail
<1>6. \A k \in Ids : /\ k # m => chat'[k] = chat[k]
                     /\ k = m => ~chat'[k].here
  BY <1>2, <1>5 DEF Unsent
<1>7. Strays' \subseteq Strays /\ Kept' \subseteq Kept
  BY <1>2, <1>4, <1>6 DEF Strays, Kept
<1>8. chat'[Newest].here <=> chat[Newest].here
  <2>2. m # Newest
    BY <1>2, <1>3 DEF Newest
  <2> QED
    BY <1>2, <1>5, <2>2
<1>9. Stage(t, p)
  BY <1>1 DEF IInv
<1>10. Stage(t, p)'
  BY <1>3, <1>4, <1>7, <1>8, <1>9, Fewer
<1> QED
  BY <1>4, <1>10, StageIs

\* The user deletes a dashboard, which may be the one about to be saved or pinned.
LEMMA DeletesStage ==
  ASSUME IInv, UserDeletes
  PROVE  Stage(todo, faults)'
<1>p. PICK p \in Int : p = faults
  BY DashboardAssumption DEF IInv, Shapes, Stored, Mail
<1>1. PICK t : t = todo /\ p = faults
  BY <1>p
<1>2. PICK m \in Ids : /\ chat[m].here /\ chat' = [chat EXCEPT ![m] = Unsent]
                       /\ faults' = faults + 1
                       /\ UNCHANGED <<tables, nextId, notices, jobs, hints, sent, inbox, hand>>
  BY DEF UserDeletes
<1>3. Shapes /\ dash \in Nat /\ hints \in Int
  BY DEF IInv, Shapes, Stored, Mail
<1>4. UNCHANGED <<dash, nextId, notices, jobs, hints>> /\ todo' = t /\ faults' = p + 1
  BY <1>1, <1>2 DEF todo, dash, tables
<1>5. \A k \in Ids : /\ k # m => chat'[k] = chat[k]
                     /\ k = m => ~chat'[k].here
  BY <1>2, <1>3, GoneFacts
<1>6. Strays' \subseteq Strays /\ Kept' \subseteq Kept
  BY <1>4, <1>5 DEF Strays, Kept
<1>7. Stage(t, p) /\ DOMAIN chat = Ids
  BY <1>1, <1>3 DEF IInv, Shapes, Stored, Mail
<1>8. CASE m # Newest
  <2>1. chat'[Newest] = chat[Newest]
    BY <1>2, <1>7, <1>8
  <2>2. Stage(t, p)'
    BY <1>3, <1>4, <1>6, <1>7, <2>1, Fewer
  <2>3. Stage(t, p + 1)'
    BY <1>3, <1>4, <2>2, LooserNext
  <2> QED
    BY <1>4, <2>3, StageIs
<1>9. CASE m = Newest
  <2>1. chat[Newest].here /\ ~chat'[Newest].here /\ Newest' = Newest
    BY <1>2, <1>4, <1>5, <1>9 DEF Newest
  <2>2. Body(t)' = Body(t) /\ RowFirst(t)' = RowFirst(t)
    BY <1>4 DEF Body, RowFirst, Drawing, Changing, Adding, Repinning
  <2>3. Paid({}, 0, p + 1)'
    <3>1. Paid({}, 0, p + 1)
      BY <1>3, <1>7, Slack
    <3>2. p + 1 \in Int /\ hints' = hints /\ Strays' \ {} \subseteq Strays \ {}
      BY <1>4, <1>6
    <3>3. Covers(Strays' \ {}, Kept', hints', 0, p + 1)
      BY <1>3, <1>6, <3>1, <3>2, Countable, NoMore DEF Paid
    <3> QED
      BY <3>3 DEF Paid
  <2>4. \A e : Paid(e, 0, p) => Paid(e, 0, p + 1)' /\ Paid(e, 1, p + 1)'
    <3> SUFFICES ASSUME NEW e, Paid(e, 0, p)
                 PROVE  Covers(Strays' \ e, Kept', hints', 0, p + 1)
                        /\ Covers(Strays' \ e, Kept', hints', 1, p + 1)
      BY DEF Paid
    <3>1. Strays' \ e \subseteq Strays \ e /\ hints' = hints
      BY <1>4, <1>6
    <3>2. Covers(Strays' \ e, Kept', hints', 0, p)
      BY <1>3, <1>6, <3>1, Countable, NoMore DEF Paid
    <3>3. PICK a \in Nat, b \in Nat, g \in Int :
             a = Cardinality(Strays' \ e) /\ b = Cardinality(Kept') /\ g = hints'
      BY <1>3, <3>1, Countable, Counting
    <3>4. a + b + g + 0 <= p
      BY <3>2, <3>3 DEF Covers
    <3>5. a + b + g + 0 <= p + 1 /\ a + b + g + 1 <= p + 1
      BY <3>4
    <3> QED
      BY <3>3, <3>5 DEF Covers
  <2>5. Stage(t, p + 1)'
    <3>1. CASE (t = <<>> \/ RowFirst(t) \/ Body(t)) /\ Paid({}, 0, p)
      BY <2>2, <2>3, <3>1 DEF Stage
    <3>2. CASE /\ t = Saving(dash) /\ dash < Newest
               /\ Paid({Newest}, IF chat[Newest].here THEN 0 ELSE 1, p)
      <4>1. PICK e : e = {Newest}
        OBVIOUS
      <4>2. Paid(e, 0, p)
        BY <2>1, <3>2, <4>1
      <4>3. Covers(Strays' \ e, Kept', hints', 1, p + 1)
        BY <2>4, <4>2 DEF Paid
      <4> QED
        BY <1>4, <2>1, <3>2, <4>1, <4>3 DEF Stage, Paid
    <3>3. CASE \E old \in 0..(dash - 1) :
                  /\ t = Pinning(old) /\ dash = Newest
                  /\ Paid(IF chat[Newest].here THEN {old} ELSE {}, 0, p)
      BY <1>4, <2>1, <2>3, <3>3 DEF Stage, Paid
    <3>4. CASE \E old \in 1..(dash - 1) :
                  t \in {Retire(old), <<On("schedule", old)>>} /\ Paid({old}, 0, p)
      BY <1>4, <2>4, <3>4 DEF Stage
    <3>5. CASE t = <<Call("scheduleHint")>> /\ Paid({}, -1, p)
      <4>1. Stage(t, p)'
        <5>1. Strays' \ {} \subseteq Strays \ {} /\ hints' = hints
          BY <1>4, <1>6
        <5>2. PICK n \in Int : n = -1
          OBVIOUS
        <5>3. Covers(Strays \ {}, Kept, hints, n, p)
          BY <3>5, <5>2 DEF Paid
        <5>4. Covers(Strays' \ {}, Kept', hints', n, p)
          BY <1>3, <1>6, <5>1, <5>3, Countable, NoMore
        <5> QED
          BY <3>5, <5>2, <5>4 DEF Stage, Paid
      <4> QED
        BY <1>3, <1>4, <4>1, LooserNext
    <3> QED
      BY <1>7, <3>1, <3>2, <3>3, <3>4, <3>5 DEF Stage
  <2> QED
    BY <1>4, <2>5, StageIs
<1> QED
  BY <1>8, <1>9

\* The notice of a pin is deleted, or stays.
LEMMA NoticeStage ==
  ASSUME IInv, HandleNotice
  PROVE  Stage(todo, faults)'
<1>p. PICK p \in Int : p = faults
  BY DashboardAssumption DEF IInv, Shapes, Stored, Mail
<1>1. PICK t : t = todo /\ p = faults
  BY <1>p
<1>2. PICK m \in Ids :
         /\ notices[m] = "new"
         /\ \/ notices' = [notices EXCEPT ![m] = IF dash = m THEN "gone" ELSE "kept"]
               /\ UNCHANGED faults
            \/ notices' = [notices EXCEPT ![m] = "kept"] /\ faults' = faults + 1
         /\ UNCHANGED <<tables, chat, nextId, jobs, hints, sent, inbox, hand>>
  BY DEF HandleNotice, dash
<1>3. Shapes /\ hints \in Int /\ DOMAIN notices = Ids /\ Stage(t, p)
  BY <1>1 DEF IInv, Shapes, Stored, Mail
<1>4. UNCHANGED <<dash, chat, nextId, jobs, hints>> /\ todo' = t
  BY <1>1, <1>2 DEF todo, dash, tables
<1>5. Strays' = Strays
  BY <1>4 DEF Strays
<1>6. CASE notices' = [notices EXCEPT ![m] = IF dash = m THEN "gone" ELSE "kept"]
           /\ UNCHANGED faults
  <2>1. Kept' \subseteq Kept
    BY <1>3, <1>4, <1>6 DEF Kept
  <2>2. Stage(t, p)'
    BY <1>3, <1>4, <1>5, <2>1, Fewer
  <2> QED
    BY <1>1, <1>4, <1>6, <2>2, StageIs
<1>7. CASE notices' = [notices EXCEPT ![m] = "kept"] /\ faults' = faults + 1
  <2>1. Kept' \subseteq Kept \cup {m}
    BY <1>3, <1>4, <1>7 DEF Kept
  <2>2. Cardinality(Kept') <= Cardinality(Kept) + 1
    BY <2>1, Countable, Counting
  <2>3. ASSUME NEW e, NEW more \in {-1, 0, 1}, Paid(e, more, p)
        PROVE  Paid(e, more, p + 1)'
    <3>1. PICK x \in Nat, b \in Nat, d \in Nat, g \in Int :
             /\ x = Cardinality(Strays \ e) /\ b = Cardinality(Kept) /\ d = Cardinality(Kept')
             /\ g = hints
      BY <1>3, Countable, Counting
    <3>2. x + b + g + more <= p /\ d <= b + 1
      BY <2>2, <2>3, <3>1 DEF Paid, Covers
    <3>3. x + d + g + more <= p + 1
      BY <3>2
    <3> QED
      BY <1>4, <1>5, <3>1, <3>3 DEF Paid, Covers
  <2>4. Stage(t, p + 1)'
    BY <1>3, <1>4, <2>3, StageMoves
  <2> QED
    BY <1>1, <1>4, <1>7, <2>4, StageIs
<1> QED
  BY <1>2, <1>6, <1>7

\* Every step leaves the handler at one of its places.
LEMMA NextStage ==
  ASSUME IInv, [Next]_vars
  PROVE  Stage(todo, faults)'
<1>1. UserCommands \/ UserTaps \/ UserConfirms => \E u : Arrives(u)
  BY DEF UserCommands, UserTaps, UserConfirms
<1> QED
  BY <1>1, ArrivesStage, TakeStage, SucceedStage, RefusedStage, FailStage, CrashStage,
     JobStage, DeletesStage, NoticeStage DEF Next, User, Handler

-----------------------------------------------------------------------------
(* The shapes.                                                              *)

\* What the buttons of a view carry.
LEMMA ButtonsAre ==
  ASSUME NEW shown, NEW b \in Buttons(shown)
  PROVE  IsButton(b)
  BY DEF Buttons, HomeButtons, Back, SettingsButtons, ZoneButtons, ProductButtons, ListButtons,
         PageButtons, Go, Set, Slot, Zone, IsButton

\* What the user does is an update.
LEMMA UpdatesAre ==
  ASSUME UserCommands \/ UserTaps \/ UserConfirms
  PROVE  \E u : IsUpdate(u) /\ Arrives(u)
<1>1. CASE UserCommands
  BY <1>1 DEF UserCommands, Commands, Command, IsUpdate
<1>2. CASE UserTaps
  <2>1. PICK m \in Ids : \E b \in Buttons(chat[m].shown) : Arrives(Tap(m, b))
    BY <1>2 DEF UserTaps
  <2>2. PICK b \in Buttons(chat[m].shown) : Arrives(Tap(m, b))
    BY <2>1
  <2>3. IsUpdate(Tap(m, b))
    BY ButtonsAre DEF IsUpdate, Tap
  <2> QED
    BY <2>2, <2>3
<1>3. CASE UserConfirms
  BY <1>3 DEF UserConfirms, Confirm, IsUpdate
<1> QED
  BY <1>1, <1>2, <1>3

\* The mailbox keeps its shape.
LEMMA NextMail ==
  ASSUME IInv, [Next]_vars
  PROVE  Mail'
<1>1. /\ Mail /\ MaxUpdates \in Nat /\ MaxFaults \in Nat /\ sent \in 0..MaxUpdates
      /\ faults \in 0..MaxFaults
  BY DashboardAssumption DEF IInv, Shapes, Mail
<1>2. CASE UserCommands \/ UserTaps \/ UserConfirms
  <2>1. PICK u : IsUpdate(u) /\ Arrives(u)
    BY <1>2, UpdatesAre
  <2>2. inbox' = Append(inbox, u) /\ sent' = sent + 1 /\ sent < MaxUpdates
        /\ UNCHANGED <<hand, faults, todo>>
    BY <2>1 DEF Arrives, todo
  <2>3. IsList(inbox)' /\ \A i \in DOMAIN inbox' : IsUpdate(inbox'[i])
    <3>1. PICK old : old = inbox
      OBVIOUS
    <3>2. IsList(old) /\ \A i \in DOMAIN old : IsUpdate(old[i])
      BY <1>1, <3>1 DEF Mail
    <3>3. PICK box : box = Append(old, u)
      OBVIOUS
    <3>4. IsList(box) /\ \A i \in DOMAIN box : IsUpdate(box[i])
      BY <2>1, <3>2, <3>3, Appended
    <3> QED
      BY <2>2, <3>1, <3>3, <3>4 DEF IsList
  <2>4. sent' \in 0..MaxUpdates
    BY <1>1, <2>2
  <2> QED
    BY <1>1, <2>2, <2>3, <2>4 DEF Mail, IsUpdate
<1>3. CASE Take
  <2>1. /\ inbox # <<>> /\ inbox' = Tail(inbox) /\ UNCHANGED <<sent, faults>>
        /\ hand' = [on |-> Head(inbox), todo |-> Calls(Head(inbox))]
    BY <1>3 DEF Take
  <2>2. IsList(inbox)' /\ \A i \in DOMAIN inbox' : IsUpdate(inbox'[i])
    <3>1. PICK old : old = inbox
      OBVIOUS
    <3>2. IsList(old) /\ (\A i \in DOMAIN old : IsUpdate(old[i])) /\ old # <<>>
      BY <1>1, <2>1, <3>1 DEF Mail
    <3>3. PICK box : box = Tail(old)
      OBVIOUS
    <3>4. IsList(box) /\ \A i \in DOMAIN box : IsUpdate(box[i])
      BY <3>2, <3>3, Shortened
    <3> QED
      BY <2>1, <3>1, <3>3, <3>4 DEF IsList
  <2>3. IsUpdate(Head(inbox))
    BY <1>1, <2>1, Shortened DEF Mail
  <2> QED
    BY <1>1, <2>1, <2>2, <2>3 DEF Mail, todo, IsUpdate
<1>4. ASSUME NEW t, Proceed(t), t # <<>> => todo # <<>>, faults' \in 0..MaxFaults, sent' = sent,
             IsList(inbox)', \A i \in DOMAIN inbox' : IsUpdate(inbox'[i])
      PROVE  Mail'
  <2>1. hand' = [on |-> IF t = <<>> THEN NoUpdate ELSE hand.on, todo |-> t]
    BY <1>4 DEF Proceed
  <2>2. todo' = t /\ hand'.on = IF t = <<>> THEN NoUpdate ELSE hand.on
    BY <2>1 DEF todo
  <2>3. todo' # <<>> => IsUpdate(hand'.on)
    BY <1>1, <1>4, <2>2 DEF Mail
  <2> QED
    BY <1>1, <1>4, <2>1, <2>2, <2>3 DEF Mail, IsUpdate
<1>5. ASSUME inbox' = inbox
      PROVE  IsList(inbox)' /\ \A i \in DOMAIN inbox' : IsUpdate(inbox'[i])
  BY <1>1, <1>5 DEF Mail, IsList
<1>6. CASE Succeed
  <2>1. PICK t : Proceed(t) /\ todo # <<>> /\ UNCHANGED <<sent, inbox, faults>>
    BY <1>6 DEF Succeed, Idle, todo
  <2> QED
    BY <1>1, <1>4, <1>5, <2>1
<1>7. CASE Refused
  <2>1. PICK t : Proceed(t) /\ todo # <<>> /\ UNCHANGED <<sent, inbox, faults>>
    BY <1>7 DEF Refused, Idle, todo
  <2> QED
    BY <1>1, <1>4, <1>5, <2>1
<1>8. CASE Fail
  <2>1. PICK t : Proceed(t) /\ todo # <<>> /\ UNCHANGED <<sent, inbox>>
    BY <1>8 DEF Fail, Idle, todo
  <2>2. faults' \in 0..MaxFaults
    BY <1>1, <1>8 DEF Fail
  <2> QED
    BY <1>1, <1>4, <1>5, <2>1, <2>2
<1>9. CASE Crash
  <2>1. PICK t : t = <<>> /\ Proceed(t) /\ UNCHANGED sent
    BY <1>9 DEF Crash
  <2>2. faults' \in 0..MaxFaults /\ todo # <<>> /\ inbox' \in {<<>>, inbox, Again \o inbox}
    BY <1>1, <1>9 DEF Crash, Idle, todo
  <2>3. IsList(inbox') /\ \A i \in DOMAIN inbox' : IsUpdate(inbox'[i])
    <3>1. CASE inbox' = <<>>
      BY <3>1 DEF IsList
    <3>2. CASE inbox' = inbox
      BY <1>1, <3>2 DEF Mail
    <3>3. CASE inbox' = Again \o inbox
      <4>1. CASE Again = <<>>
        <5>1. inbox' = inbox
          BY <1>1, <3>3, <4>1, ConcatEmptySeq DEF Mail, IsList
        <5> QED
          BY <3>2, <5>1
      <4>2. CASE Again = <<hand.on>>
        <5>1. IsUpdate(hand.on)
          BY <1>1, <2>2 DEF Mail
        <5>2. PICK old, x : old = inbox /\ x = hand.on
          OBVIOUS
        <5>3. IsList(old) /\ \A i \in DOMAIN old : IsUpdate(old[i])
          BY <1>1, <5>2 DEF Mail
        <5>4. PICK box : box = After(x, old)
          OBVIOUS
        <5>5. IsList(box) /\ \A i \in DOMAIN box : IsUpdate(box[i])
          <6>1. /\ IsList(box)
                /\ \A i \in DOMAIN box : box[i] = x \/ \E k \in DOMAIN old : box[i] = old[k]
            BY <5>3, <5>4, Preceded
          <6>2. IsUpdate(x)
            BY <5>1, <5>2
          <6> QED
            BY <5>3, <6>1, <6>2
        <5> QED
          BY <3>3, <4>2, <5>2, <5>4, <5>5 DEF After
      <4> QED
        BY <4>1, <4>2 DEF Again
    <3> QED
      BY <2>2, <3>1, <3>2, <3>3
  <2> QED
    BY <1>4, <2>1, <2>2, <2>3 DEF IsList
<1>10. CASE UserDeletes \/ HandleNotice \/ DeleteJob \/ UNCHANGED vars
  <2>1. UNCHANGED <<sent, inbox, hand, todo>> /\ faults' \in 0..MaxFaults
    BY <1>1, <1>10 DEF UserDeletes, HandleNotice, DeleteJob, vars, todo
  <2> QED
    BY <1>1, <2>1 DEF Mail, IsList, IsUpdate
<1> QED
  BY <1>2, <1>3, <1>6, <1>7, <1>8, <1>9, <1>10 DEF Next, User, Handler

-----------------------------------------------------------------------------
(* The tables and the chat keep their shapes.                               *)

\* One message of the chat is replaced by another.
LEMMA ChatKept ==
  ASSUME Stored, NEW m, NEW x, x = [here |-> x.here, pinned |-> x.pinned, shown |-> x.shown],
         x.here \in BOOLEAN, chat' = [chat EXCEPT ![m] = x]
  PROVE  /\ chat' = [k \in Ids |-> [here |-> chat'[k].here, pinned |-> chat'[k].pinned,
                                    shown |-> chat'[k].shown]]
         /\ \A k \in Ids : chat'[k].here \in BOOLEAN
<1>1. DOMAIN chat = Ids /\ DOMAIN chat' = Ids /\ chat' = [k \in Ids |-> chat'[k]]
  BY DEF Stored
<1>2. \A k \in Ids : chat'[k] = chat[k] \/ chat'[k] = x
  BY <1>1
<1>3. \A k \in Ids : /\ chat[k] = [here |-> chat[k].here, pinned |-> chat[k].pinned,
                                   shown |-> chat[k].shown]
                     /\ chat[k].here \in BOOLEAN
  BY DEF Stored
<1>4. \A k \in Ids : /\ chat'[k] = [here |-> chat'[k].here, pinned |-> chat'[k].pinned,
                                    shown |-> chat'[k].shown]
                     /\ chat'[k].here \in BOOLEAN
  BY <1>2, <1>3
<1> QED
  BY <1>1, <1>4

\* A message that is sent, pinned, taken out of the chat or drawn again.
LEMMA ChatMessages ==
  ASSUME Stored, NEW m,
         \/ chat' = [chat EXCEPT ![m] = Unsent]
         \/ chat' = [chat EXCEPT ![m].pinned = TRUE]
         \/ \E v : chat' = [chat EXCEPT ![m].shown = v]
         \/ \E v : chat' = [chat EXCEPT ![m] = [Unsent EXCEPT !.here = TRUE, !.shown = v]]
  PROVE  /\ chat' = [k \in Ids |-> [here |-> chat'[k].here, pinned |-> chat'[k].pinned,
                                    shown |-> chat'[k].shown]]
         /\ \A k \in Ids : chat'[k].here \in BOOLEAN
<1>1. DOMAIN chat = Ids
  BY DEF Stored
<1>2. CASE m \notin Ids
  <2>1. chat' = chat
    <3>1. \E x : chat' = [chat EXCEPT ![m] = x]
      OBVIOUS
    <3>2. \A x : [chat EXCEPT ![m] = x] = chat
      BY <1>1, <1>2 DEF Stored
    <3> QED
      BY <3>1, <3>2
  <2> QED
    BY <2>1 DEF Stored
<1>3. CASE m \in Ids
  <2>1. /\ chat[m] = [here |-> chat[m].here, pinned |-> chat[m].pinned, shown |-> chat[m].shown]
        /\ chat[m].here \in BOOLEAN
    BY <1>3 DEF Stored
  <2>2. CASE chat' = [chat EXCEPT ![m] = Unsent]
    BY <2>2, ChatKept DEF Unsent
  <2>3. CASE chat' = [chat EXCEPT ![m].pinned = TRUE]
    <3>1. PICK x : x = [here |-> chat[m].here, pinned |-> TRUE, shown |-> chat[m].shown]
      OBVIOUS
    <3>2. chat' = [chat EXCEPT ![m] = x]
      BY <2>1, <2>3, <3>1
    <3> QED
      BY <2>1, <3>1, <3>2, ChatKept
  <2>4. ASSUME NEW v, chat' = [chat EXCEPT ![m].shown = v]
        PROVE  \E x : /\ x = [here |-> x.here, pinned |-> x.pinned, shown |-> x.shown]
                      /\ x.here \in BOOLEAN /\ chat' = [chat EXCEPT ![m] = x]
    <3>1. PICK x : x = [here |-> chat[m].here, pinned |-> chat[m].pinned, shown |-> v]
      OBVIOUS
    <3>2. chat' = [chat EXCEPT ![m] = x]
      BY <2>1, <2>4, <3>1
    <3> QED
      BY <2>1, <3>1, <3>2
  <2>5. ASSUME NEW v, chat' = [chat EXCEPT ![m] = [Unsent EXCEPT !.here = TRUE, !.shown = v]]
        PROVE  \E x : /\ x = [here |-> x.here, pinned |-> x.pinned, shown |-> x.shown]
                      /\ x.here \in BOOLEAN /\ chat' = [chat EXCEPT ![m] = x]
    <3>1. PICK x : x = [Unsent EXCEPT !.here = TRUE, !.shown = v]
      OBVIOUS
    <3>2. x = [here |-> x.here, pinned |-> x.pinned, shown |-> x.shown] /\ x.here \in BOOLEAN
      BY <3>1 DEF Unsent
    <3> QED
      BY <2>5, <3>1, <3>2
  <2> QED
    BY <2>2, <2>3, <2>4, <2>5, ChatKept
<1> QED
  BY <1>2, <1>3

\* The table of products grows, or a status in it changes.
LEMMA ProductsKept ==
  ASSUME IsList(products),
         \/ \E x : products' = Append(products, x)
         \/ \E id, x : products' = [products EXCEPT ![id] = x]
         \/ products' = products
  PROVE  IsList(products)'
<1>1. PICK old, new : old = products /\ new = products'
  OBVIOUS
<1>2. IsList(old)
  BY <1>1
<1>3. ASSUME NEW x, new = Append(old, x) PROVE IsList(new)
  BY <1>2, <1>3, Appended
<1>4. ASSUME NEW id, NEW x, new = [old EXCEPT ![id] = x] PROVE IsList(new)
  <2>1. PICK S : S = {old[i] : i \in DOMAIN old}
    OBVIOUS
  <2>2. old \in Seq(S)
    BY <1>2, <2>1 DEF IsList
  <2>3. PICK T : T = S \cup {x} /\ old \in Seq(T) /\ x \in T
    <3>1. old \in Seq(S \cup {x}) /\ x \in S \cup {x}
      BY <2>2
    <3> QED
      BY <3>1, Zenon
  <2>4. new \in Seq(T)
    <3>1. PICK n \in Nat : n = Len(old) /\ old \in [1..n -> T]
      BY <2>3
    <3>2. new \in [1..n -> T]
      BY <1>4, <2>3, <3>1
    <3> QED
      BY <3>1, <3>2
  <2> QED
    BY <2>4, Listing
<1>5. IsList(new)
  BY <1>1, <1>2, <1>3, <1>4
<1> QED
  BY <1>1, <1>5 DEF IsList

\* What takes effect keeps the shapes.
LEMMA EffectStored ==
  ASSUME IInv, NEW c, Effect(c)
  PROVE  Stored'
<1>1. Stored /\ dash < nextId /\ dash \in Nat /\ nextId \in Nat /\ hints \in Int
  BY DEF IInv, Shapes, Stored, Past
<1>2. ASSUME UNCHANGED <<products, nextId, notices, hints, settings>>,
             chat' = [k \in Ids |-> [here |-> chat'[k].here, pinned |-> chat'[k].pinned,
                                     shown |-> chat'[k].shown]],
             \A k \in Ids : chat'[k].here \in BOOLEAN
      PROVE  Stored'
  BY <1>1, <1>2 DEF Stored, dash, IsList
<1>3. ASSUME IsList(products)', UNCHANGED <<chat, nextId, notices>>, hints' \in Int,
             settings' = [row |-> settings'.row, dash |-> settings'.dash,
                          zone |-> settings'.zone, slot |-> settings'.slot],
             settings'.row \in BOOLEAN, settings'.dash \in Nat
      PROVE  Stored'
  BY <1>1, <1>3 DEF Stored, dash
<1>4. IsList(products)' \/ products' # products
  BY <1>1 DEF Stored, IsList
<1>5. settings = [row |-> settings.row, dash |-> settings.dash, zone |-> settings.zone,
                  slot |-> settings.slot]
      /\ settings.row \in BOOLEAN /\ settings.dash \in Nat
  BY <1>1 DEF Stored, dash
<1>6. CASE Row \/ Save \/ (\E slot : SetSlot(slot)) \/ \E zone : SetZone(zone)
  <2>1. UNCHANGED <<products, chat, nextId, notices, hints>>
    BY <1>6 DEF Row, Save, SetSlot, SetZone, telegram
  <2>2. Newest \in Nat
    BY <1>1 DEF Newest
  <2>3. /\ settings' = [row |-> settings'.row, dash |-> settings'.dash,
                        zone |-> settings'.zone, slot |-> settings'.slot]
        /\ settings'.row \in BOOLEAN /\ settings'.dash \in Nat
    BY <1>5, <1>6, <2>2 DEF Row, Save, SetSlot, SetZone
  <2> QED
    BY <1>1, <1>3, <1>4, <2>1, <2>3
<1>7. CASE (\E day : Insert(day)) \/ \E id, status : SetStatus(id, status)
  <2>1. UNCHANGED <<settings, chat, nextId, notices, hints>>
    BY <1>7 DEF Insert, SetStatus, telegram
  <2>2. \/ \E x : products' = Append(products, x)
        \/ \E id, x : products' = [products EXCEPT ![id] = x]
    BY <1>7 DEF Insert, SetStatus
  <2>3. IsList(products)'
    BY <1>1, <2>2, ProductsKept DEF Stored
  <2> QED
    BY <1>1, <1>3, <1>5, <2>1, <2>3
<1>8. CASE Send
  <2>1. /\ UNCHANGED <<products, settings, notices, hints>> /\ nextId' = nextId + 1
        /\ chat' = [chat EXCEPT ![nextId] = [Unsent EXCEPT !.here = TRUE, !.shown = Shown(Home)]]
    BY <1>8 DEF Send, tables
  <2>2. /\ chat' = [k \in Ids |-> [here |-> chat'[k].here, pinned |-> chat'[k].pinned,
                                   shown |-> chat'[k].shown]]
        /\ \A k \in Ids : chat'[k].here \in BOOLEAN
    BY <1>1, <2>1, ChatMessages
  <2>3. nextId' \in Nat
    BY <1>1, <2>1
  <2>4. dash' = dash /\ notices' \in [Ids -> {"none", "new", "gone", "kept"}]
        /\ IsList(products)' /\ hints' \in Int
    BY <1>1, <1>4, <2>1 DEF Stored, dash
  <2> QED
    BY <1>1, <1>5, <2>1, <2>2, <2>3, <2>4 DEF Stored
<1>9. ASSUME NEW m, Pin(m) PROVE Stored'
  <2>1. /\ UNCHANGED <<products, settings, nextId, hints>>
        /\ chat' = [chat EXCEPT ![m].pinned = TRUE]
        /\ notices' = notices \/ notices' = [notices EXCEPT ![m] = "new"]
    BY <1>9 DEF Pin, tables
  <2>2. /\ chat' = [k \in Ids |-> [here |-> chat'[k].here, pinned |-> chat'[k].pinned,
                                   shown |-> chat'[k].shown]]
        /\ \A k \in Ids : chat'[k].here \in BOOLEAN
    BY <1>1, <2>1, ChatMessages
  <2>3. notices' \in [Ids -> {"none", "new", "gone", "kept"}]
    BY <1>1, <2>1 DEF Stored
  <2>4. dash' = dash /\ nextId' \in Nat /\ IsList(products)' /\ hints' \in Int
    BY <1>1, <1>4, <2>1 DEF Stored, dash
  <2> QED
    BY <1>1, <1>5, <2>1, <2>2, <2>3, <2>4 DEF Stored
<1>10. ASSUME NEW m, Delete(m) PROVE Stored'
  <2>1. UNCHANGED <<products, settings, nextId, notices, hints>>
        /\ chat' = [chat EXCEPT ![m] = Unsent]
    BY <1>10 DEF Delete, tables
  <2> QED
    BY <1>1, <1>2, <2>1, ChatMessages
<1>11. ASSUME NEW m, NEW v, Redraw(m, v) PROVE Stored'
  <2>1. UNCHANGED <<products, settings, nextId, notices, hints>>
        /\ chat' = [chat EXCEPT ![m].shown = Shown(v)]
    BY <1>11 DEF Redraw, tables
  <2> QED
    BY <1>1, <1>2, <2>1, ChatMessages
<1>12. ASSUME (\E m : Schedule(m)) \/ Hint(1) \/ Hint(-1) PROVE Stored'
  <2>1. UNCHANGED <<products, settings, chat, nextId, notices>>
        /\ (hints' = hints \/ hints' = hints + 1 \/ hints' = hints + (-1))
    BY <1>12 DEF Schedule, Hint, tables, telegram
  <2>2. hints' \in Int
    BY <1>1, <2>1
  <2> QED
    BY <1>1, <1>3, <1>4, <1>5, <2>1, <2>2
<1> QED
  BY <1>6, <1>7, <1>8, <1>9, <1>10, <1>11, <1>12 DEF Effect

\* Every step keeps them.
LEMMA NextStored ==
  ASSUME IInv, [Next]_vars
  PROVE  Stored'
<1>1. Stored
  BY DEF IInv, Shapes
<1>2. ASSUME UNCHANGED <<tables, telegram, hints>> PROVE Stored'
  BY <1>1, <1>2 DEF Stored, tables, telegram, dash, IsList
<1>3. ASSUME UNCHANGED <<tables, nextId, notices, hints>>, NEW m,
             chat' = [chat EXCEPT ![m] = Unsent]
      PROVE  Stored'
  BY <1>1, <1>3, ChatMessages DEF Stored, tables, dash, IsList
<1>4. CASE UserCommands \/ UserTaps \/ UserConfirms
  BY <1>2, <1>4, UpdatesAre DEF Arrives
<1>5. CASE UserDeletes \/ DeleteJob
  BY <1>3, <1>5 DEF UserDeletes, DeleteJob
<1>6. CASE Succeed \/ Fail
  BY <1>2, <1>6, EffectStored DEF Succeed, Fail
<1>7. CASE Take \/ Refused \/ Crash \/ UNCHANGED vars
  BY <1>2, <1>7 DEF Take, Refused, Crash, vars, tables, telegram
<1>8. CASE HandleNotice
  <2>1. PICK m \in Ids : UNCHANGED <<tables, chat, nextId, hints>>
                         /\ notices' \in {[notices EXCEPT ![m] = "gone"],
                                          [notices EXCEPT ![m] = "kept"]}
    BY <1>8 DEF HandleNotice
  <2>2. notices' \in [Ids -> {"none", "new", "gone", "kept"}]
    BY <1>1, <2>1 DEF Stored
  <2> QED
    BY <1>1, <2>1, <2>2 DEF Stored, tables, dash, IsList
<1> QED
  BY <1>4, <1>5, <1>6, <1>7, <1>8 DEF Next, User, Handler

-----------------------------------------------------------------------------
(* What has been the dashboard, and the number of dashboards sent.          *)

\* What takes effect keeps the past.
LEMMA EffectPast ==
  ASSUME IInv, todo # <<>>, Effect(Head(todo))
  PROVE  Past'
<1>1. PICK c, t, p : c = Head(todo) /\ t = Tail(todo) /\ p = faults
  OBVIOUS
<1>2. Doing(c, t, p) /\ Effect(c)
  BY <1>1, Now
<1>3. /\ Shapes /\ dash \in Nat /\ nextId \in Nat /\ dash < nextId /\ DOMAIN notices = Ids
      /\ jobs \subseteq 1..(dash - 1) /\ \A m \in Ids : notices[m] # "none" => m <= dash
  BY DEF IInv, Shapes, Stored, Past
<1>4. CASE c.call \in {"row", "product", "status", "slot", "zone"}
  <2>1. dash' = dash /\ UNCHANGED <<nextId, notices, jobs>>
    BY <1>2, <1>3, <1>4, Called, OtherSettings
  <2> QED
    BY <1>3, <2>1 DEF Past
<1>5. CASE c.call = "send"
  <2>1. UNCHANGED <<dash, notices, jobs>> /\ nextId' = nextId + 1
    BY <1>2, <1>5, Called DEF Send, tables, dash
  <2> QED
    BY <1>3, <2>1 DEF Past
<1>6. CASE c.call = "save"
  <2>1. dash < Newest
    BY <1>2, <1>6 DEF Doing
  <2>2. settings' = [settings EXCEPT !.dash = Newest] /\ UNCHANGED <<nextId, notices, jobs>>
    BY <1>2, <1>6, Called DEF Save, telegram
  <2>3. dash' = Newest
    BY <1>3, <2>2 DEF dash, Shapes, Stored
  <2>4. /\ Newest \in Int /\ Newest < nextId
        /\ \A m \in 1..(dash - 1) : m \in 1..(Newest - 1)
    BY <1>3, <2>1 DEF Newest
  <2>5. \A m \in Ids : m <= dash => m <= Newest
    BY <1>3, <2>1, <2>4 DEF Ids
  <2>6. jobs \subseteq 1..(Newest - 1)
    BY <1>3, <2>4
  <2> QED
    BY <1>3, <2>2, <2>3, <2>4, <2>5, <2>6 DEF Past
<1>7. CASE c.call \in {"pin", "repin"}
  <2>1. Target(c) = dash /\ dash # 0
    <3>1. CASE c.call = "pin"
      <4>1. c.on = 0 /\ dash = Newest /\ \E old : old \in 0..(dash - 1)
        BY <1>2, <3>1 DEF Doing
      <4> QED
        BY <1>3, <4>1 DEF Target
    <3>2. CASE c.call = "repin"
      BY <1>2, <3>2 DEF Doing, Target
    <3> QED
      BY <1>7, <3>1, <3>2
  <2>2. dash \in Ids
    BY <2>1, SentIds
  <2>3. Pin(dash)
    BY <1>2, <1>7, <2>1, Called
  <2>4. /\ UNCHANGED <<dash, nextId, jobs>>
        /\ \A k \in Ids : notices'[k] = notices[k] \/ k = dash
    BY <1>3, <2>2, <2>3, Pinned
  <2>5. \A k \in Ids : notices'[k] # "none" => k <= dash
    BY <1>3, <2>4
  <2> QED
    BY <1>3, <2>4, <2>5 DEF Past
<1>8. CASE c.call = "schedule"
  <2>1. PICK old \in 1..(dash - 1) : c.on = old
    BY <1>2, <1>8 DEF Doing
  <2>2. Target(c) = old /\ old < dash
    BY <1>3, <2>1 DEF Target
  <2>3. jobs' = jobs \cup {old} /\ UNCHANGED <<dash, nextId, notices>>
    BY <1>2, <1>8, <2>2, Called DEF Schedule, tables, telegram, dash
  <2> QED
    BY <1>3, <2>2, <2>3 DEF Past
<1>9. CASE c.call \in {"delete", "hint", "scheduleHint", "edit"}
  <2>1. UNCHANGED <<dash, nextId, notices, jobs>>
    BY <1>2, <1>9, Called DEF Delete, Hint, Redraw, tables, telegram, dash
  <2> QED
    BY <1>3, <2>1 DEF Past
<1> QED
  BY <1>2, <1>4, <1>5, <1>6, <1>7, <1>8, <1>9 DEF Effect

\* Every step keeps it.
LEMMA NextPast ==
  ASSUME IInv, [Next]_vars
  PROVE  Past'
<1>1. /\ dash < nextId /\ DOMAIN notices = Ids
      /\ jobs \subseteq 1..(dash - 1) /\ \A m \in Ids : notices[m] # "none" => m <= dash
  BY DEF IInv, Shapes, Stored, Past
<1>2. ASSUME UNCHANGED <<tables, nextId, notices>>, jobs' \subseteq jobs PROVE Past'
  BY <1>1, <1>2 DEF Past, tables, dash
<1>3. CASE UserCommands \/ UserTaps \/ UserConfirms
  BY <1>2, <1>3, UpdatesAre DEF Arrives, telegram
<1>4. CASE UserDeletes \/ Take \/ Refused \/ Crash \/ DeleteJob \/ UNCHANGED vars
  BY <1>2, <1>4 DEF UserDeletes, Take, Refused, Crash, DeleteJob, vars, telegram, tables
<1>5. CASE Succeed
  BY <1>5, EffectPast DEF Succeed, Idle, todo
<1>6. CASE Fail
  BY <1>2, <1>6, EffectPast DEF Fail, Idle, todo, telegram
<1>7. CASE HandleNotice
  <2>1. PICK m \in Ids :
           /\ notices[m] = "new" /\ UNCHANGED <<tables, nextId, jobs>>
           /\ notices' \in {[notices EXCEPT ![m] = "gone"], [notices EXCEPT ![m] = "kept"]}
    BY <1>7 DEF HandleNotice
  <2>2. \A k \in Ids : notices'[k] # "none" => notices[k] # "none"
    BY <1>1, <2>1
  <2>3. UNCHANGED <<dash, nextId, jobs>>
    BY <2>1 DEF dash, tables
  <2> QED
    BY <1>1, <2>2, <2>3 DEF Past
<1> QED
  BY <1>3, <1>4, <1>5, <1>6, <1>7 DEF Next, User, Handler

\* The body of a handler begins with a call of its own.
LEMMA BodyHead ==
  ASSUME NEW t, Body(t)
  PROVE  t # <<>> /\ Head(t).call \notin {"row", "save", "pin", "delete", "schedule"}
<1>1. CASE t = Replacing(dash) \/ t = Feedback
  BY <1>1, ListFacts, CallFields
<1>2. CASE Repinning(t)
  BY <1>2, OneFacts, CallFields DEF Repinning
<1>3. CASE Adding(t) \/ Changing(t) \/ Drawing(t)
  BY <1>3 DEF Adding, Changing, Drawing
<1> QED
  BY <1>1, <1>2, <1>3 DEF Body

\* A handler sends a dashboard once.
LEMMA SendsOnce ==
  ASSUME NEW c, NEW t, NEW p, Doing(c, t, p), Effect(c)
  PROVE  /\ c.call # "row" => ~Sending(t)
         /\ (c.call = "row" /\ Sending(t)) => t # <<>> /\ Head(t).call = "send"
<1>1. CASE c.call = "row"
  BY <1>1, BodyHead DEF Doing, Sending
<1>2. CASE c.call = "send"
  BY <1>2, ListFacts, CallFields DEF Doing, Sending
<1>3. CASE c.call = "save"
  BY <1>3, ListFacts, CallFields DEF Doing, Sending
<1>4. CASE c.call = "pin"
  <2>1. PICK old : t = Retire(old)
    BY <1>4 DEF Doing
  <2>2. t = <<>> \/ Head(t) = On("delete", old)
    BY <2>1, ListFacts
  <2> QED
    BY <1>4, <2>2, CallFields DEF Sending
<1>5. CASE c.call = "delete"
  <2>1. PICK old : t = <<On("schedule", old)>>
    BY <1>5 DEF Doing
  <2>2. Head(t).call = "schedule"
    BY <2>1, OneFacts, CallFields
  <2> QED
    BY <1>5, <2>2 DEF Sending
<1>6. CASE c.call = "hint"
  <2>1. Head(t).call = "scheduleHint"
    BY <1>6, OneFacts, CallFields DEF Doing
  <2> QED
    BY <1>6, <2>1 DEF Sending
<1>7. CASE c.call \in {"repin", "edit", "schedule", "scheduleHint"}
  BY <1>7 DEF Doing, Sending
<1>8. CASE c.call \in {"product", "status", "slot", "zone"}
  <2>1. t = <<>> \/ Head(t).call = "edit"
    BY <1>8 DEF Doing, Drawing
  <2> QED
    BY <1>8, <2>1 DEF Sending
<1> QED
  BY <1>1, <1>2, <1>3, <1>4, <1>5, <1>6, <1>7, <1>8 DEF Effect

\* What there is to count of a step.
LEMMA Number ==
  ASSUME NEW n \in Int, NEW l \in Int, NEW s \in Int, NEW f \in Int, NEW b \in {0, 1},
         nextId' = n, Len(inbox') = l, sent' = s, faults' = f, Sending(todo)' => b = 1,
         n + l + b <= 1 + s + f
  PROVE  Numbered'
<1>1. CASE Sending(todo)'
  <2>1. n + l + 1 <= 1 + s + f
    BY <1>1
  <2> QED
    BY <1>1, <2>1 DEF Numbered
<1>2. CASE ~Sending(todo)'
  <2>1. n + l + 0 <= 1 + s + f
    OBVIOUS
  <2> QED
    BY <1>2, <2>1 DEF Numbered
<1> QED
  BY <1>1, <1>2

\* The account of dashboards is kept by every step.
LEMMA NextNumbered ==
  ASSUME IInv, [Next]_vars
  PROVE  Numbered'
<1>1. IsList(inbox) /\ Len(inbox) \in Nat /\ nextId \in Nat /\ sent \in Int /\ faults \in Int
  <2>1. IsList(inbox) /\ nextId \in Nat /\ sent \in Int /\ faults \in Int
    BY DashboardAssumption DEF IInv, Shapes, Stored, Mail
  <2> QED
    BY <2>1, Listing DEF IsList
<1>2. PICK n, l, s, f \in Int : n = nextId /\ l = Len(inbox) /\ s = sent /\ f = faults
  BY <1>1
<1>3. PICK b \in {0, 1} : (b = 1 <=> Sending(todo)) /\ n + l + b <= 1 + s + f
  BY <1>2 DEF IInv, Numbered
<1>4. ~Sending(<<>>) /\ ~Sending(Feedback)
  BY ListFacts, CallFields DEF Sending
<1>5. n + l <= 1 + s + f /\ n + l + b <= 1 + s + (f + 1) /\ n + l + 1 <= 1 + s + (f + 1)
  BY <1>3
<1>6. CASE UserCommands \/ UserTaps \/ UserConfirms
  <2>1. PICK u : Arrives(u)
    BY <1>6, UpdatesAre
  <2>2. nextId' = n /\ sent' = s + 1 /\ faults' = f /\ todo' = todo /\ inbox' = Append(inbox, u)
    BY <1>2, <2>1 DEF Arrives, telegram, todo
  <2>3. Len(inbox') = l + 1
    BY <1>1, <1>2, <2>2, Appended
  <2>4. Sending(todo)' => b = 1
    BY <1>3, <2>2 DEF Sending
  <2>5. n + (l + 1) + b <= 1 + (s + 1) + f
    BY <1>3
  <2> QED
    BY <2>2, <2>3, <2>4, <2>5, Number
<1>7. CASE Take
  <2>1. nextId' = n /\ sent' = s /\ faults' = f /\ inbox # <<>> /\ inbox' = Tail(inbox)
    BY <1>2, <1>7 DEF Take, telegram
  <2>2. Len(inbox') = l - 1
    BY <1>1, <1>2, <2>1, Shortened
  <2>3. n + (l - 1) + 1 <= 1 + s + f
    BY <1>5
  <2> QED
    BY <2>1, <2>2, <2>3, Number
<1>8. ASSUME todo # <<>>, Effect(Head(todo))
      PROVE  /\ nextId' = n \/ (nextId' = n + 1 /\ b = 1)
             /\ Sending(Tail(todo)) => (b = 1 /\ nextId' = n)
  <2>1. PICK c, t : c = Head(todo) /\ t = Tail(todo)
    OBVIOUS
  <2>2. Doing(c, t, faults) /\ Effect(c)
    BY <1>8, <2>1, Now
  <2>3. CASE c.call = "send"
    BY <1>2, <1>3, <1>8, <2>1, <2>2, <2>3, Called, SendsOnce DEF Send, Sending
  <2>4. CASE c.call # "send"
    <3>1. nextId' = n
      BY <1>2, <2>2, <2>4 DEF Effect, Row, Save, Pin, Delete, Schedule, Hint, Insert, SetStatus,
                              SetSlot, SetZone, Redraw, telegram
    <3>2. Sending(t) => Sending(todo)
      BY <1>8, <2>1, <2>2, SendsOnce DEF Sending
    <3> QED
      BY <1>3, <2>1, <3>1, <3>2
  <2> QED
    BY <2>3, <2>4
<1>9. CASE Succeed
  <2>1. todo # <<>> /\ Effect(Head(todo)) /\ todo' = Tail(todo) /\ inbox' = inbox
        /\ sent' = s /\ faults' = f
    BY <1>2, <1>9 DEF Succeed, Idle, Proceed, todo
  <2>2. Sending(todo)' => Sending(Tail(todo))
    BY <2>1 DEF Sending
  <2>3. CASE Sending(Tail(todo))
    <3>1. b = 1 /\ nextId' = n
      BY <1>8, <2>1, <2>3
    <3> QED
      BY <1>2, <1>3, <2>1, <3>1, Number
  <2>4. CASE ~Sending(Tail(todo))
    <3>1. PICK d \in {0, 1} : nextId' = n + d /\ (d = 1 => b = 1)
      BY <1>8, <2>1
    <3>2. (n + d) + l + 0 <= 1 + s + f /\ n + d \in Int
      BY <1>3, <3>1
    <3> QED
      BY <1>2, <2>1, <2>2, <2>4, <3>1, <3>2, Number
  <2> QED
    BY <2>3, <2>4
<1>10. CASE Fail
  <2>1. /\ todo # <<>> /\ inbox' = inbox /\ sent' = s /\ faults' = f + 1
        /\ todo' = <<>> \/ todo' = Tail(todo)
        /\ Effect(Head(todo)) \/ nextId' = n
        /\ ~Effect(Head(todo)) => nextId' = n
    BY <1>2, <1>10 DEF Fail, Idle, Proceed, AfterFailure, telegram, todo
  <2>2. nextId' = n \/ (nextId' = n + 1 /\ b = 1)
    BY <1>8, <2>1
  <2>3. CASE nextId' = n
    BY <1>2, <1>5, <2>1, <2>3, Number
  <2>4. CASE nextId' = n + 1 /\ b = 1
    <3>1. Effect(Head(todo)) /\ ~Sending(Tail(todo))
      BY <1>8, <2>1, <2>4
    <3>2. ~Sending(todo)'
      BY <1>4, <2>1, <3>1 DEF Sending
    <3>3. (n + 1) + l + 0 <= 1 + s + (f + 1)
      BY <1>5
    <3> QED
      BY <1>2, <2>1, <2>4, <3>2, <3>3, Number
  <2> QED
    BY <2>2, <2>3, <2>4
<1>11. CASE Refused
  <2>1. /\ inbox' = inbox /\ sent' = s /\ faults' = f /\ nextId' = n
        /\ todo' = <<>> \/ todo' = Feedback
    BY <1>2, <1>11 DEF Refused, Proceed, telegram, todo
  <2>2. ~Sending(todo)'
    BY <1>4, <2>1 DEF Sending
  <2>3. n + l + 0 <= 1 + s + f
    BY <1>5
  <2> QED
    BY <1>2, <2>1, <2>2, <2>3, Number
<1>12. CASE Crash
  <2>1. /\ inbox' \in {<<>>, inbox, Again \o inbox} /\ sent' = s /\ faults' = f + 1
        /\ nextId' = n /\ todo' = <<>>
    BY <1>2, <1>12 DEF Crash, Proceed, telegram, todo
  <2>2. Len(inbox') \in Nat /\ Len(inbox') <= l + 1
    <3>1. CASE inbox' = <<>>
      BY <1>1, <1>2, <3>1
    <3>2. CASE inbox' = inbox
      BY <1>1, <1>2, <3>2
    <3>3. CASE inbox' = Again \o inbox
      <4>1. CASE Again = <<>>
        <5>1. inbox' = inbox
          BY <1>1, <3>3, <4>1, ConcatEmptySeq DEF IsList
        <5> QED
          BY <1>1, <1>2, <5>1
      <4>2. CASE Again = <<hand.on>>
        <5>1. inbox' = After(hand.on, inbox)
          BY <3>3, <4>2 DEF After
        <5>2. Len(inbox') = l + 1
          BY <1>1, <1>2, <5>1, Preceded
        <5> QED
          BY <1>1, <1>2, <5>2
      <4> QED
        BY <4>1, <4>2 DEF Again
    <3> QED
      BY <2>1, <3>1, <3>2, <3>3
  <2>3. PICK k \in Int : k = Len(inbox') /\ k <= l + 1
    BY <2>2
  <2>4. n + k + 0 <= 1 + s + (f + 1)
    BY <1>5, <2>3
  <2>5. ~Sending(todo)'
    BY <1>4, <2>1 DEF Sending
  <2> QED
    BY <2>1, <2>3, <2>4, <2>5, Number
<1>13. CASE UserDeletes \/ HandleNotice \/ DeleteJob \/ UNCHANGED vars
  <2>1. UNCHANGED <<nextId, inbox, sent, todo>> /\ (faults' = f \/ faults' = f + 1)
    BY <1>2, <1>13 DEF UserDeletes, HandleNotice, DeleteJob, vars, todo
  <2>2. Sending(todo)' => b = 1
    BY <1>3, <2>1 DEF Sending
  <2> QED
    BY <1>2, <1>3, <1>5, <2>1, <2>2, Number
<1> QED
  BY <1>6, <1>7, <1>9, <1>10, <1>11, <1>12, <1>13 DEF Next, User, Handler

-----------------------------------------------------------------------------
(* What the dashboard shows.                                                *)

\* What a view shows depends on the products and two of the settings.
LEMMA ShownKept ==
  ASSUME UNCHANGED <<products, settings.zone, settings.slot>>, NEW v
  PROVE  Shown(v)' = Shown(v)
<1>1. /\ (HomeText' = HomeText) /\ (StatsText' = StatsText)
      /\ (SettingsText' = SettingsText) /\ (ProductText(v.id)' = ProductText(v.id))
  BY DEF HomeText, StatsText, SettingsText, ProductText
<1>2. ListShown(v.view, v.page)' = ListShown(v.view, v.page)
  BY DEF ListShown
<1> QED
  BY <1>1, <1>2 DEF Shown

\* A list has a finite number of products.
LEMMA Totals ==
  ASSUME IsList(products), NEW mode
  PROVE  Total(products, mode, Today) \in Nat
<1>1. DOMAIN products = 1..Len(products) /\ Len(products) \in Nat
  BY Listing DEF IsList
<1>2. IsFiniteSet(DOMAIN products)
  BY <1>1, FS_Interval
<1>3. Soon(products, Today) \subseteq DOMAIN products /\ Active(products) \subseteq DOMAIN products
  BY DEF Soon, Active
<1> QED
  BY <1>2, <1>3, FS_Subset, FS_CardinalityType DEF Total

\* A page that was clamped is clamped no more.
LEMMA Clamped ==
  ASSUME NEW page, NEW total \in Nat
  PROVE  ClampPage(ClampPage(page, total), total) = ClampPage(page, total)
<1>1. PICK last \in Int : last = (total - 1) \div PageSize
  BY ProductsAssumption
<1>2. ~(last > last)
  BY <1>1
<1> QED
  BY <1>1, <1>2 DEF ClampPage

\* A dashboard asked for what it shows shows the same.
LEMMA ShownAgain ==
  ASSUME IsList(products), NEW v
  PROVE  Shown(Shown(v).state) = Shown(v)
<1>1. CASE v.view \in {"home", "stats", "settings", "product"}
  BY <1>1 DEF Shown
<1>2. CASE v.view \notin {"home", "stats", "settings", "product"}
  <2>1. PICK total \in Nat : total = Total(products, v.view, Today)
    BY Totals
  <2>2. PICK p : p = ClampPage(v.page, total) /\ ClampPage(p, total) = p
    BY Clamped
  <2>3. Shown(v) = ListShown(v.view, v.page)
    BY <1>2 DEF Shown
  <2>4. ListShown(v.view, v.page) = ListShown(v.view, p) /\ Shown(v).state = ListView(v.view, p)
    BY <2>1, <2>2, <2>3 DEF ListShown
  <2>5. ListView(v.view, p).view = v.view /\ ListView(v.view, p).page = p
    BY DEF ListView, View
  <2>6. Shown(ListView(v.view, p)) = ListShown(v.view, p)
    BY <1>2, <2>5 DEF Shown
  <2> QED
    BY <2>3, <2>4, <2>6
<1> QED
  BY <1>1, <1>2

\* A dashboard that shows the rows shows them while neither changes.
LEMMA FreshKept ==
  ASSUME Fresh, UNCHANGED <<dash, products, settings.zone, settings.slot>>,
         dash # 0 => (chat'[dash].here <=> chat[dash].here) /\ chat'[dash].shown = chat[dash].shown
  PROVE  Fresh'
<1>1. CASE dash # 0 /\ chat[dash].here
  <2>1. PICK x : x = chat[dash].shown /\ x = Shown(x.state)
    BY <1>1 DEF Fresh
  <2>2. Shown(x.state)' = Shown(x.state)
    BY ShownKept
  <2> QED
    BY <1>1, <2>1, <2>2 DEF Fresh
<1>2. CASE ~(dash # 0 /\ chat[dash].here)
  BY <1>2 DEF Fresh
<1> QED
  BY <1>1, <1>2

\* A dashboard is saved right after it was sent, and at no other time.
LEMMA SavesNext ==
  ASSUME NEW c, NEW t, NEW p, Doing(c, t, p), Effect(c), c.call # "send"
  PROVE  t = <<>> \/ Head(t).call # "save"
<1>1. CASE c.call = "row"
  BY <1>1, BodyHead DEF Doing
<1>2. CASE c.call = "save"
  BY <1>2, ListFacts, CallFields DEF Doing
<1>3. CASE c.call = "pin"
  <2>1. PICK old : t = Retire(old)
    BY <1>3 DEF Doing
  <2>2. t = <<>> \/ Head(t) = On("delete", old)
    BY <2>1, ListFacts
  <2> QED
    BY <2>2, CallFields
<1>4. CASE c.call = "delete"
  <2>1. PICK old : t = <<On("schedule", old)>>
    BY <1>4 DEF Doing
  <2> QED
    BY <2>1, OneFacts, CallFields
<1>5. CASE c.call = "hint"
  <2>1. Head(t).call = "scheduleHint"
    BY <1>5, OneFacts, CallFields DEF Doing
  <2> QED
    BY <2>1
<1>6. CASE c.call \in {"repin", "edit", "schedule", "scheduleHint"}
  BY <1>6 DEF Doing
<1>7. CASE c.call \in {"product", "status", "slot", "zone"}
  BY <1>7 DEF Doing, Drawing
<1> QED
  BY <1>1, <1>2, <1>3, <1>4, <1>5, <1>6, <1>7 DEF Effect

\* A call that takes effect leaves a fresh dashboard, or one about to be drawn.
LEMMA EffectDrawn ==
  ASSUME IInv, Fresh \/ (todo # <<>> /\ Head(todo).call = "edit"), todo # <<>>,
         Effect(Head(todo)), faults = 0, NEW t, t = Tail(todo)
  PROVE  /\ Fresh' \/ (t # <<>> /\ Head(t).call = "edit")
         /\ (t # <<>> /\ Head(t).call = "save" /\ chat'[Newest'].here)
               => chat'[Newest'].shown = Shown(Home)'
<1>1. PICK c : c = Head(todo)
  OBVIOUS
<1>2. Doing(c, t, faults) /\ Effect(c)
  BY <1>1, Now
<1>3. /\ Shapes /\ dash \in Nat /\ nextId \in Nat /\ dash < nextId /\ IsList(products)
      /\ dash # 0 => dash \in Ids
  BY SentIds DEF IInv, Shapes, Stored, Past
<1>4. c.call # "edit" => Fresh
  BY <1>1
<1>5. c.call # "send" => t = <<>> \/ Head(t).call # "save"
  BY <1>2, SavesNext
<1>6. CASE c.call = "row"
  <2>1. UNCHANGED <<dash, products, chat, settings.zone, settings.slot>>
    BY <1>2, <1>3, <1>6, Called DEF Row, telegram, dash, Shapes, Stored
  <2>2. Fresh'
    BY <1>4, <1>6, <2>1, FreshKept
  <2> QED
    BY <1>5, <1>6, <2>2
<1>7. CASE c.call = "send"
  <2>1. nextId \in Ids
    BY <1>1, <1>7, SentIds
  <2>2. /\ UNCHANGED <<products, settings, dash>> /\ Newest' = nextId
        /\ chat'[nextId].here /\ chat'[nextId].shown = Shown(Home)
        /\ \A m \in Ids \ {nextId} : chat'[m] = chat[m]
    BY <1>2, <1>3, <1>7, <2>1, Called, Sent
  <2>3. Shown(Home)' = Shown(Home)
    BY <2>2, ShownKept
  <2>4. dash # 0 => chat'[dash] = chat[dash]
    BY <1>3, <2>2
  <2>5. Fresh'
    BY <1>4, <1>7, <2>2, <2>4, FreshKept
  <2> QED
    BY <2>2, <2>3, <2>5
<1>8. CASE c.call = "save"
  <2>1. settings' = [settings EXCEPT !.dash = Newest] /\ UNCHANGED <<products, chat>>
    BY <1>2, <1>8, Called DEF Save, telegram
  <2>2. dash' = Newest /\ UNCHANGED <<settings.zone, settings.slot>>
    BY <1>3, <2>1 DEF dash, Shapes, Stored
  <2>3. PICK n : n = Newest
    OBVIOUS
  <2>4. chat[n].here => chat[n].shown = Shown(Home)
    BY <1>1, <1>8, <2>3 DEF IInv, Drawn
  <2>5. Shown(Shown(Home).state) = Shown(Home)
    BY <1>3, ShownAgain
  <2>6. PICK x : x = Shown(Home) /\ x = Shown(x.state)
    BY <2>5
  <2>7. Shown(x.state)' = Shown(x.state)
    BY <2>1, <2>2, ShownKept
  <2>8. chat'[n].here => chat'[n].shown = x
    BY <2>1, <2>4, <2>6
  <2>9. Fresh'
    BY <2>2, <2>3, <2>6, <2>7, <2>8 DEF Fresh
  <2> QED
    BY <1>5, <1>8, <2>9
<1>9. CASE c.call \in {"pin", "repin"}
  <2>1. Target(c) = dash /\ dash # 0
    <3>1. CASE c.call = "pin"
      <4>1. c.on = 0 /\ dash = Newest /\ \E old : old \in 0..(dash - 1)
        BY <1>2, <3>1 DEF Doing
      <4> QED
        BY <1>3, <4>1 DEF Target
    <3>2. CASE c.call = "repin"
      BY <1>2, <3>2 DEF Doing, Target
    <3> QED
      BY <1>9, <3>1, <3>2
  <2>2. /\ UNCHANGED <<products, settings, dash>>
        /\ chat'[dash].here = chat[dash].here /\ chat'[dash].shown = chat[dash].shown
    BY <1>2, <1>3, <1>9, <2>1, Called, Pinned
  <2>3. Fresh'
    BY <1>4, <1>9, <2>2, FreshKept
  <2> QED
    BY <1>5, <1>9, <2>3
<1>10. CASE c.call = "delete"
  <2>1. PICK old \in 1..(dash - 1) : c.on = old
    BY <1>2, <1>10 DEF Doing
  <2>2. Target(c) = old /\ old # dash /\ dash # 0
    BY <1>3, <2>1 DEF Target
  <2>3. chat' = [chat EXCEPT ![old] = Unsent] /\ UNCHANGED <<products, settings, dash>>
    BY <1>2, <1>10, <2>2, Called DEF Delete, tables, dash
  <2>4. chat'[dash] = chat[dash]
    BY <1>3, <2>2, <2>3 DEF Shapes, Stored
  <2>5. Fresh'
    BY <1>4, <1>10, <2>3, <2>4, FreshKept
  <2> QED
    BY <1>5, <1>10, <2>5
<1>11. CASE c.call \in {"schedule", "hint", "scheduleHint"}
  <2>1. UNCHANGED <<products, settings, dash, chat>>
    BY <1>2, <1>11, Called DEF Schedule, Hint, tables, telegram, dash
  <2>2. Fresh'
    BY <1>4, <1>11, <2>1, FreshKept
  <2> QED
    BY <1>5, <1>11, <2>2
<1>12. CASE c.call \in {"product", "status", "slot", "zone"}
  <2>1. (t = <<>> => dash = 0) /\ (t = <<>> \/ Drawing(t))
    BY <1>2, <1>12 DEF Doing
  <2>2. dash' = dash
    BY <1>2, <1>3, <1>12, Called, OtherSettings
  <2>3. Fresh' \/ (t # <<>> /\ Head(t).call = "edit")
    BY <2>1, <2>2 DEF Fresh, Drawing
  <2> QED
    BY <1>5, <1>12, <2>3
<1>13. CASE c.call = "edit"
  <2>1. dash # 0 /\ c.on = dash
    BY <1>2, <1>13 DEF Doing
  <2>2. PICK v : v = c.to /\ chat' = [chat EXCEPT ![dash].shown = Shown(v)]
                 /\ UNCHANGED <<products, settings, dash>>
    BY <1>2, <1>13, <2>1, Called DEF Redraw, tables, dash
  <2>3. PICK x : x = Shown(v) /\ x = Shown(x.state)
    BY <1>3, ShownAgain
  <2>4. chat'[dash].shown = x
    BY <1>3, <2>1, <2>2, <2>3 DEF Shapes, Stored
  <2>5. Shown(x.state)' = Shown(x.state)
    BY <2>2, ShownKept
  <2>6. Fresh'
    BY <2>2, <2>3, <2>4, <2>5 DEF Fresh
  <2> QED
    BY <1>5, <1>13, <2>6
<1> QED
  BY <1>2, <1>6, <1>7, <1>8, <1>9, <1>10, <1>11, <1>12, <1>13 DEF Effect

\* Every step that is no failure leaves the dashboard fresh or about to be drawn.
LEMMA NextDrawn ==
  ASSUME IInv, [Next]_vars
  PROVE  Drawn'
<1>1. /\ Shapes /\ dash \in Nat /\ nextId \in Nat /\ dash < nextId /\ IsList(products)
      /\ faults \in Nat /\ (dash # 0 => dash \in Ids)
  BY SentIds, DashboardAssumption DEF IInv, Shapes, Stored, Mail, Past
<1>2. faults = 0 => Fresh \/ (todo # <<>> /\ Head(todo).call = "edit")
  BY DEF IInv, Drawn
<1>3. faults' = faults + 1 => Drawn'
  BY <1>1 DEF Drawn
<1>4. ASSUME faults' = 0 => Fresh' \/ (todo' # <<>> /\ Head(todo').call = "edit"),
             todo' # <<>> => Head(todo').call # "save"
      PROVE  Drawn'
  BY <1>4 DEF Drawn
<1>5. ASSUME UNCHANGED <<products, settings, dash, chat, nextId, todo, faults>> PROVE Drawn'
  <2>1. Fresh => Fresh'
    BY <1>5, FreshKept
  <2>2. Shown(Home)' = Shown(Home) /\ Newest' = Newest
    BY <1>5, ShownKept DEF Newest
  <2> QED
    BY <1>5, <2>1, <2>2 DEF IInv, Drawn
<1>6. CASE UserCommands \/ UserTaps \/ UserConfirms \/ UNCHANGED vars
  BY <1>5, <1>6, UpdatesAre DEF Arrives, vars, tables, telegram, dash, todo
<1>7. CASE UserDeletes \/ Fail \/ Crash
  BY <1>3, <1>7 DEF UserDeletes, Fail, Crash
<1>8. CASE HandleNotice
  <2>1. /\ UNCHANGED <<products, settings, dash, chat, nextId, todo>>
        /\ UNCHANGED faults \/ faults' = faults + 1
    BY <1>8 DEF HandleNotice, tables, dash, todo
  <2> QED
    BY <1>3, <1>5, <2>1
<1>9. CASE DeleteJob
  <2>1. PICK m \in jobs : chat' = [chat EXCEPT ![m] = Unsent]
                          /\ UNCHANGED <<products, settings, dash, nextId, todo, faults>>
    BY <1>9 DEF DeleteJob, tables, dash, todo
  <2>2. m \in 1..(dash - 1)
    BY <2>1 DEF IInv, Past
  <2>3. m # dash /\ m # Newest /\ dash \in Ids /\ Newest \in Ids
    BY <1>1, <2>2, SentIds DEF Newest
  <2>4. chat'[dash] = chat[dash] /\ chat'[Newest] = chat[Newest]
    BY <1>1, <2>1, <2>3 DEF Shapes, Stored
  <2>5. Fresh => Fresh'
    BY <2>1, <2>4, FreshKept
  <2>6. Shown(Home)' = Shown(Home) /\ Newest' = Newest
    BY <2>1, ShownKept DEF Newest
  <2> QED
    BY <2>1, <2>4, <2>5, <2>6 DEF IInv, Drawn
<1>10. CASE Take
  <2>1. PICK t : t = Calls(Head(inbox))
    OBVIOUS
  <2>2. /\ todo = <<>> /\ todo' = t /\ inbox # <<>>
        /\ UNCHANGED <<products, settings, dash, chat, faults>>
    BY <1>10, <2>1 DEF Take, Idle, todo, tables, telegram, dash
  <2>3. IsUpdate(Head(inbox))
    BY <2>2, Shortened DEF IInv, Shapes, Mail
  <2>4. t = <<>> \/ RowFirst(t) \/ Body(t)
    BY <1>1, <2>1, <2>3, CallsPlace
  <2>5. t # <<>> => Head(t).call # "save"
    BY <2>4, BodyHead, CallFields DEF RowFirst
  <2>6. faults = 0 => Fresh'
    BY <1>2, <2>2, FreshKept
  <2> QED
    BY <1>4, <2>2, <2>5, <2>6
<1>11. CASE Refused
  <2>1. PICK c : c = Head(todo)
    OBVIOUS
  <2>2. PICK t : t = IF c.call = "repin" THEN Feedback ELSE <<>>
    OBVIOUS
  <2>3. /\ todo # <<>> /\ todo' = t /\ Missing(c)
        /\ UNCHANGED <<products, settings, dash, chat, faults>>
    BY <1>11, <2>1, <2>2 DEF Refused, Idle, Proceed, todo, tables, telegram, dash
  <2>4. c.call = "edit" => Fresh
    <3>1. c.call = "edit" => dash # 0 /\ c.on = dash
      BY <2>1, <2>3, Now DEF Doing
    <3>2. c.call = "edit" => ~chat[dash].here
      BY <2>3, <3>1 DEF Missing, Target
    <3> QED
      BY <3>2 DEF Fresh
  <2>5. faults = 0 => Fresh'
    BY <1>2, <2>1, <2>3, <2>4, FreshKept
  <2>6. t # <<>> => Head(t).call # "save"
    BY <2>2, ListFacts, CallFields
  <2> QED
    BY <1>4, <2>3, <2>5, <2>6
<1>12. CASE Succeed
  <2>1. PICK t : t = Tail(todo)
    OBVIOUS
  <2>2. todo # <<>> /\ Effect(Head(todo)) /\ todo' = t /\ faults' = faults
    BY <1>12, <2>1 DEF Succeed, Idle, Proceed, todo
  <2>3. CASE faults = 0
    <3>1. /\ Fresh' \/ (t # <<>> /\ Head(t).call = "edit")
          /\ (t # <<>> /\ Head(t).call = "save" /\ chat'[Newest'].here)
                => chat'[Newest'].shown = Shown(Home)'
      BY <1>2, <2>1, <2>2, <2>3, EffectDrawn
    <3> QED
      BY <2>2, <3>1 DEF Drawn
  <2>4. CASE faults # 0
    BY <2>2, <2>4 DEF Drawn
  <2> QED
    BY <2>3, <2>4
<1> QED
  BY <1>6, <1>7, <1>8, <1>9, <1>10, <1>11, <1>12 DEF Next, User, Handler

-----------------------------------------------------------------------------
(* The invariant and what follows from it.                                  *)

\* The invariant holds at the start.
LEMMA InitIInv == Init => IInv
<1> SUFFICES ASSUME Init PROVE IInv
  OBVIOUS
<1>1. /\ products \in StartTables /\ jobs = {} /\ hints = 0 /\ sent = 0 /\ faults = 0
      /\ settings = [row |-> products # <<>>, dash |-> 0, zone |-> DefaultZone, slot |-> 0]
      /\ chat = [m \in Ids |-> Unsent] /\ nextId = 1 /\ notices = [m \in Ids |-> "none"]
      /\ inbox = <<>> /\ hand = [on |-> NoUpdate, todo |-> <<>>]
  BY DEF Init
<1>2. todo = <<>> /\ dash = 0
  BY <1>1 DEF todo, dash
<1>3. Stored
  <2>1. IsList(products)
    BY <1>1, DashboardAssumption, Listing
  <2>2. chat = [m \in Ids |-> [here |-> chat[m].here, pinned |-> chat[m].pinned,
                               shown |-> chat[m].shown]]
        /\ \A m \in Ids : chat[m].here \in BOOLEAN
    BY <1>1 DEF Unsent
  <2> QED
    BY <1>1, <1>2, <2>1, <2>2 DEF Stored
<1>4. Mail
  BY <1>1, <1>2, DashboardAssumption DEF Mail, IsList
<1>5. Past
  BY <1>1, <1>2 DEF Past
<1>6. Numbered
  BY <1>1, <1>2 DEF Numbered, Sending
<1>7. Stage(<<>>, 0)
  <2>1. Strays \ {} = {} /\ Kept = {}
    BY <1>1, <1>2 DEF Strays, Kept, Unsent
  <2>2. Cardinality({}) = 0
    BY FS_EmptySet
  <2>3. 0 + 0 + 0 + 0 <= 0
    OBVIOUS
  <2>4. Paid({}, 0, 0)
    BY <1>1, <2>1, <2>2, <2>3 DEF Paid, Covers
  <2> QED
    BY <2>4 DEF Stage
<1>8. Drawn
  BY <1>2 DEF Drawn, Fresh
<1> QED
  BY <1>1, <1>2, <1>3, <1>4, <1>5, <1>6, <1>7, <1>8 DEF IInv, Shapes

\* Every step keeps it.
LEMMA NextIInv == IInv /\ [Next]_vars => IInv'
  BY NextStored, NextMail, NextPast, NextNumbered, NextStage, NextDrawn DEF IInv, Shapes

\* The invariant holds in every state the dashboard reaches.
THEOREM Invariance == Spec => []IInv
  BY InitIInv, NextIInv, PTL DEF Spec

\* Between two updates what is left behind in the chat, replaced dashboards, feedback
\* messages and the notice of the current pin, is no more than the failures so far,
\* whatever the number of updates, dashboards and failures (CreateDashboard,
\* deleteMessagesReliably, SendTransientFeedback, handleServiceMessage).
THEOREM LeftoversAreFaultsHolds == Spec => []LeftoversAreFaults
<1>1. IInv => LeftoversAreFaults
  <2> SUFFICES ASSUME IInv, todo = <<>> PROVE Leftovers <= faults
    BY DEF LeftoversAreFaults, Idle, todo
  <2>1. Paid({}, 0, faults)
    BY RestPaid DEF IInv, Shapes, Stored
  <2>2. PICK s \in Nat, k \in Nat, h \in Int, f \in Int :
           s = Cardinality(Strays) /\ k = Cardinality(Kept) /\ h = hints /\ f = faults
    <3>1. Cardinality(Strays) \in Nat /\ Cardinality(Kept) \in Nat
      BY Countable, Counting
    <3>2. hints \in Int /\ faults \in Int
      BY DashboardAssumption DEF IInv, Shapes, Stored, Mail
    <3> QED
      BY <3>1, <3>2
  <2>3. s + k + h + 0 <= f
    <3>1. Strays \ {} = Strays
      OBVIOUS
    <3> QED
      BY <2>1, <2>2, <3>1 DEF Paid, Covers
  <2>4. s + k + h <= f
    BY <2>3
  <2>5. Leftovers = s + k + h
    BY <2>2 DEF Leftovers, Strays, Kept, dash
  <2> QED
    BY <2>2, <2>4, <2>5
<1> QED
  BY <1>1, Invariance, PTL

\* Without failures the dashboard between two updates shows the rows as they are,
\* whatever the view and the table (handleProductCallback, handleSettingsCallback,
\* RefreshDashboardHome).
THEOREM FreshViewHolds == Spec => []FreshView
<1>1. IInv => FreshView
  BY DEF IInv, Drawn, Fresh, FreshView, Idle, todo, dash
<1> QED
  BY <1>1, Invariance, PTL

-----------------------------------------------------------------------------
(* The lists and their pages.                                               *)

\* Dividing by the size of a page.
LEMMA Division ==
  ASSUME NEW a \in Nat, NEW b \in Nat \ {0}
  PROVE  a \div b \in Nat /\ (a \div b) * b <= a /\ a < (a \div b) * b + b
OBVIOUS

\* A later page does not begin earlier.
LEMMA Larger ==
  ASSUME NEW a \in Nat, NEW b \in Nat, NEW k \in Nat, a <= b
  PROVE  a * k <= b * k /\ a * k \in Nat
OBVIOUS

\* A later product is not on an earlier page.
LEMMA LaterPage ==
  ASSUME NEW a \in Nat, NEW c \in Nat, NEW b \in Nat \ {0}, a <= c
  PROVE  a \div b <= c \div b
OBVIOUS

\* A page has the products that lie on it, each at its place.
LEMMA PageHas ==
  ASSUME NEW S, NEW list \in Seq(S), NEW p \in Nat, NEW i \in 1..Len(list),
         p * PageSize < i, i <= p * PageSize + PageSize
  PROVE  /\ i - p * PageSize \in DOMAIN PageOf(list, p)
         /\ PageOf(list, p)[i - p * PageSize] = list[i]
<1>1. PICK n \in Nat, k \in Nat : n = Len(list) /\ k = PageSize
  BY ProductsAssumption
<1>2. PICK after \in Nat : after = p * k
  BY <1>1, Larger
<1>3. i \in 1..n /\ after < i /\ i <= after + k
  BY <1>1, <1>2
<1>4. PICK last \in Nat : last = IF after + k < n THEN after + k ELSE n
  <2>1. (after + k < n => after + k \in Nat) /\ (~(after + k < n) => n \in Nat)
    OBVIOUS
  <2>2. CASE after + k < n
    BY <2>1, <2>2
  <2>3. CASE ~(after + k < n)
    BY <2>3
  <2> QED
    BY <2>2, <2>3
<1>5. i <= last /\ last <= n
  BY <1>3, <1>4
<1>6. PageOf(list, p) = SubSeq(list, after + 1, last)
  BY <1>1, <1>2, <1>4 DEF PageOf
<1>7. SubSeq(list, after + 1, last) = [j \in 1..(last - after) |-> list[after + j]]
  BY <1>1, <1>3, <1>5, SubSeqProperties
<1>8. i - after \in 1..(last - after) /\ after + (i - after) = i
  BY <1>3, <1>5
<1> QED
  BY <1>1, <1>2, <1>6, <1>7, <1>8

\* A list is a sequence of as many products as are counted.
LEMMA ListedIs ==
  ASSUME IsList(products), NEW mode
  PROVE  /\ \E S : Listed(products, mode, Today) \in Seq(S)
         /\ Len(Listed(products, mode, Today)) = Total(products, mode, Today)
<1>1. PICK ids : ids = IF mode = "soon" THEN Soon(products, Today) ELSE Active(products)
  OBVIOUS
<1>2. PICK n \in Nat : n = Cardinality(ids) /\ n = Total(products, mode, Today)
  BY <1>1, Totals DEF Total
<1> DEFINE Place(u) == CHOOSE p \in ids :
                         Cardinality({q \in ids : q = p \/ Before(products, q, p)}) = u
<1>3. Listed(products, mode, Today) = [u \in 1..n |-> Place(u)]
  BY <1>1, <1>2 DEF Listed, ByExpiry
<1> HIDE DEF Place
<1>4. PICK f : f = [u \in 1..n |-> Place(u)] /\ Listed(products, mode, Today) = f
  BY <1>3
<1>5. DOMAIN f = 1..n /\ f = [u \in 1..n |-> f[u]]
  BY <1>4
<1>6. PICK S : S = {f[u] : u \in 1..n}
  OBVIOUS
<1>7. f \in Seq(S) /\ Len(f) = n
  BY <1>5, <1>6
<1> QED
  BY <1>2, <1>4, <1>7

\* Each product counted has its button on some page, the buttons lead from page to
\* page up to it, and no page of a list that is not empty is empty: for any size of
\* a page and any table (renderDashboardListPage, DashboardList, clampPage).
THEOREM NavigationCompleteHolds == Spec => []NavigationComplete
<1>1. ASSUME IsList(products), NEW mode \in Modes, NEW list, list = Listed(products, mode, Today)
      PROVE  /\ \A i \in DOMAIN list : \E p \in 0..Len(list) :
                   /\ Go(ProductView(list[i], mode, p)) \in Buttons(ListShown(mode, p))
                   /\ \A q \in 1..p : Go(ListView(mode, q)) \in Buttons(ListShown(mode, q - 1))
             /\ \A p \in 0..MaxProducts : ListShown(mode, p).text.items = <<>> => list = <<>>
  <2>1. PICK n \in Nat, k \in Nat \ {0} :
           n = Total(products, mode, Today) /\ n = Len(list) /\ k = PageSize
    BY <1>1, Totals, ListedIs, ProductsAssumption
  <2>2. PICK S : list \in Seq(S)
    BY <1>1, ListedIs
  <2>3. DOMAIN list = 1..n
    BY <2>1, <2>2
  <2>4. \A p : ListShown(mode, p) = [state |-> ListView(mode, ClampPage(p, n)),
           text |-> [Blank EXCEPT !.items = PageOf(list, ClampPage(p, n)), !.total = n]]
    BY <1>1, <2>1 DEF ListShown
  <2>5. /\ \A p : ListShown(mode, p).text.items = PageOf(list, ClampPage(p, n))
        /\ \A p : ListShown(mode, p).text.total = n
        /\ \A p : ListShown(mode, p).state = ListView(mode, ClampPage(p, n))
    <3>1. ASSUME NEW p
          PROVE  /\ ListShown(mode, p).text.items = PageOf(list, ClampPage(p, n))
                 /\ ListShown(mode, p).text.total = n
                 /\ ListShown(mode, p).state = ListView(mode, ClampPage(p, n))
      <4>1. PICK items, v : items = PageOf(list, ClampPage(p, n))
                            /\ v = ListView(mode, ClampPage(p, n))
        OBVIOUS
      <4>2. PICK text : text = [Blank EXCEPT !.items = items, !.total = n]
        OBVIOUS
      <4>3. text.items = items /\ text.total = n
        BY <4>2, Zenon DEF Blank
      <4>4. ListShown(mode, p) = [state |-> v, text |-> text]
        BY <2>4, <4>1, <4>2
      <4> QED
        BY <4>1, <4>3, <4>4
    <3> QED
      BY <3>1
  <2>6. \A p : ListView(mode, p).view = mode /\ ListView(mode, p).page = p
    BY DEF ListView, View
  <2>7. \A p : Buttons(ListShown(mode, p))
                  = ListButtons(ListView(mode, ClampPage(p, n)), ListShown(mode, p).text)
    BY <2>5, <2>6 DEF Buttons, Modes
  <2>8. CASE n = 0
    <3>1. list = <<>>
      <4>1. list \in Seq(S) /\ Len(list) = 0
        BY <2>1, <2>2, <2>8
      <4> QED
        BY <4>1, EmptySeq
    <3> QED
      BY <2>3, <2>8, <3>1
  <2>9. CASE n # 0
    <3>1. PICK last \in Nat : last = (n - 1) \div k /\ last * k <= n - 1 /\ n - 1 < last * k + k
      BY <2>9, Division
    <3>2. /\ PageCount(n) = last + 1
          /\ \A p \in 0..last : ClampPage(p, n) = p
          /\ \A p \in Nat : ClampPage(p, n) \in 0..last
      BY <2>1, <2>9, <3>1 DEF PageCount, ClampPage
    <3>3. ASSUME NEW i \in DOMAIN list
          PROVE  \E p \in 0..Len(list) :
                   /\ Go(ProductView(list[i], mode, p)) \in Buttons(ListShown(mode, p))
                   /\ \A q \in 1..p : Go(ListView(mode, q)) \in Buttons(ListShown(mode, q - 1))
      <4>i. i - 1 \in Nat /\ n - 1 \in Nat /\ i - 1 <= n - 1
        BY <2>3
      <4>1. PICK p \in Nat : p = (i - 1) \div k /\ p * k <= i - 1 /\ i - 1 < p * k + k
        BY <4>i, Division
      <4>2. p <= last
        BY <3>1, <4>i, <4>1, LaterPage
      <4>3. p <= i - 1
        <5>1. p * 1 <= p * k
          BY <2>1
        <5> QED
          BY <2>3, <4>1, <5>1
      <4>4. p \in 0..Len(list)
        BY <2>1, <2>3, <4>3
      <4>5. Go(ProductView(list[i], mode, p)) \in Buttons(ListShown(mode, p))
        <5>1. /\ p * PageSize < i /\ i <= p * PageSize + PageSize
              /\ i \in 1..Len(list)
          BY <2>1, <2>3, <4>1, Larger
        <5>2. \E j \in DOMAIN PageOf(list, p) : PageOf(list, p)[j] = list[i]
          BY <2>2, <5>1, PageHas
        <5>3. ClampPage(p, n) = p
          BY <3>2, <4>2
        <5> QED
          BY <2>5, <2>6, <2>7, <5>2, <5>3 DEF ListButtons
      <4>6. ASSUME NEW q \in 1..p
            PROVE  Go(ListView(mode, q)) \in Buttons(ListShown(mode, q - 1))
        <5>1. q - 1 \in 0..last /\ q \in 0..last /\ (q - 1) + 1 = q
          BY <4>2
        <5>2. ClampPage(q - 1, n) = q - 1
          BY <3>2, <5>1
        <5>3. q \in {(q - 1) - 1, (q - 1) + 1} \cap 0..(PageCount(n) - 1)
          BY <3>2, <5>1
        <5>4. Go(ListView(mode, q))
                 \in PageButtons(ListView(mode, q - 1), ListShown(mode, q - 1).text)
          BY <2>5, <2>6, <5>3 DEF PageButtons
        <5> QED
          BY <2>7, <5>2, <5>4 DEF ListButtons
      <4> QED
        BY <4>4, <4>5, <4>6
    <3>4. ASSUME NEW p \in 0..MaxProducts PROVE ListShown(mode, p).text.items # <<>>
      <4>1. PICK c \in 0..last : c = ClampPage(p, n)
        BY <3>2, DashboardAssumption
      <4>2. PICK i \in Nat : i = c * k + 1
        BY <2>1, Larger
      <4>3. c * k <= last * k
        BY <2>1, <4>1, Larger
      <4>4. i \in 1..Len(list) /\ c * PageSize < i /\ i <= c * PageSize + PageSize
        BY <2>1, <2>9, <3>1, <4>2, <4>3
      <4>5. DOMAIN PageOf(list, c) # {}
        BY <2>2, <4>1, <4>4, PageHas
      <4> QED
        BY <2>5, <4>1, <4>5
    <3> QED
      BY <3>3, <3>4
  <2> QED
    BY <2>8, <2>9
<1>2. IsList(products) => NavigationComplete
  BY <1>1 DEF NavigationComplete
<1>3. IInv => NavigationComplete
  BY <1>2 DEF IInv, Shapes, Stored
<1> QED
  BY <1>3, Invariance, PTL

\* A list has each of its products at one place, those that expire earlier first and
\* of a day's products the one added last first: ORDER BY expires_on ASC, id DESC
\* (ListActiveProductsPage, ListSoonProductsPage, ListSoonProducts,
\* ListExpiredProducts).
THEOREM ListedInOrder ==
  ASSUME NEW ps, NEW ids \in SUBSET DOMAIN ps, IsFiniteSet(ids), ids \subseteq Nat,
         \A p \in ids : ps[p].expires \in Int
  PROVE  /\ DOMAIN ByExpiry(ps, ids) = 1..Cardinality(ids)
         /\ \A i \in DOMAIN ByExpiry(ps, ids) : ByExpiry(ps, ids)[i] \in ids
         /\ \A p \in ids : \E i \in DOMAIN ByExpiry(ps, ids) : ByExpiry(ps, ids)[i] = p
         /\ \A i, j \in DOMAIN ByExpiry(ps, ids) :
               i < j => Before(ps, ByExpiry(ps, ids)[i], ByExpiry(ps, ids)[j])
<1> DEFINE Comes(q, p) == q = p \/ Before(ps, q, p)
           Upto == [p \in ids |-> {q \in ids : Comes(q, p)}]
           n == Cardinality(ids)
           Place(i) == CHOOSE p \in ids : Cardinality(Upto[p]) = i
           list == ByExpiry(ps, ids)
<1>1. \A p, q \in ids :
         /\ Comes(q, p) <=> \/ ps[q].expires < ps[p].expires
                            \/ ps[q].expires = ps[p].expires /\ p <= q
         /\ Before(ps, q, p) <=> Comes(q, p) /\ q # p
  BY DEF Before
<1>2. \A p, q \in ids : Comes(p, q) \/ Comes(q, p)
  BY <1>1
<1>3. \A p, q, s \in ids : Comes(p, q) /\ Comes(q, s) => Comes(p, s)
  BY <1>1
<1>4. \A p, q \in ids : Comes(p, q) /\ Comes(q, p) => p = q
  BY <1>1
<1>5. \A p \in ids : Comes(p, p)
  OBVIOUS
<1>6. list = [i \in 1..n |-> Place(i)]
  <2>1. ASSUME NEW i \in 1..n
        PROVE  Place(i) = CHOOSE p \in ids : Cardinality({q \in ids : Comes(q, p)}) = i
    OBVIOUS
  <2> QED
    BY <2>1 DEF ByExpiry
<1> HIDE DEF Comes
<1>7. Chain(ids, Upto)
  <2>1. \A p \in ids : p \in Upto[p] /\ Upto[p] \in SUBSET ids
    BY <1>5
  <2>2. \A p, q \in ids : Comes(p, q) => Upto[p] \subseteq Upto[q]
    BY <1>3
  <2>3. \A p, q \in ids : Upto[p] = Upto[q] => p = q
    BY <1>4, <2>1
  <2> QED
    BY <1>2, <2>1, <2>2, <2>3 DEF Chain
<1>8. Ranked(ids, Upto)
  BY <1>7, EveryRankIsTaken
<1>9. \A i \in 1..n : Place(i) \in ids /\ Cardinality(Upto[Place(i)]) = i
  BY <1>8 DEF Ranked
<1>10. \A p \in ids : Cardinality(Upto[p]) \in 1..n /\ Place(Cardinality(Upto[p])) = p
  BY <1>8, <1>9 DEF Ranked
<1> HIDE DEF Place
<1>11. ASSUME NEW i \in 1..n, NEW j \in 1..n, i < j PROVE Before(ps, Place(i), Place(j))
  <2>1. PICK p \in ids, q \in ids : /\ p = Place(i) /\ Cardinality(Upto[p]) = i
                                    /\ q = Place(j) /\ Cardinality(Upto[q]) = j
    BY <1>9
  <2> HIDE DEF Upto
  <2>i. i # j /\ Cardinality(Upto[p]) < Cardinality(Upto[q])
    BY <1>11, <2>1
  <2>2. Upto[p] \subseteq Upto[q] /\ p # q
    BY <1>8, <2>1, <2>i DEF Ranked
  <2> USE DEF Upto
  <2>3. p \in Upto[q]
    BY <1>5, <2>2
  <2> QED
    BY <1>1, <2>1, <2>2, <2>3
<1> HIDE DEF Upto, list
<1>12. DOMAIN list = 1..n /\ \A i \in 1..n : list[i] = Place(i)
  BY <1>6
<1>13. \A p \in ids : \E i \in 1..n : list[i] = p
  BY <1>10, <1>12
<1> QED
  BY <1>9, <1>11, <1>12, <1>13 DEF list

=============================================================================
