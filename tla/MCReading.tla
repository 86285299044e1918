------------------------------- MODULE MCReading -------------------------------
(* Instances of Reading for TLC.                                             *)
EXTENDS Reading

\* Distances of the Russian words: "сыр" and "сентябрь"'s form "сен", "до" and
\* "дек", "на" and "ноя", "дня" and "дек", "мята" and "мая", "млоко" and "молоко",
\* "г" for the year.
MCTyped == [
    cheese |-> [runes |-> 3, near |-> [september |-> 2]],
    until |-> [runes |-> 2, near |-> [december |-> 2]],
    on |-> [runes |-> 2, near |-> [november |-> 2]],
    day |-> [runes |-> 3, near |-> [december |-> 2]],
    mint |-> [runes |-> 4, near |-> [may |-> 2]],
    mlko |-> [runes |-> 5, near |-> [milk |-> 1]],
    zero |-> [runes |-> 4, near |-> [november |-> 2]],
    y |-> [runes |-> 1, near |-> <<>>]]
\* More than the tests of the repository show the library to find (a day, a
\* weekday, an evening, "through hour"): also a day and a month.
MCWhenFinds(phrase, on) ==
    LET first == phrase[1]
        last == Last(phrase).w
    IN  CASE Len(phrase) > 2 -> NoDate
          [] Len(phrase) = 1 /\ last \in DOMAIN CasualDays -> on + CasualDays[last]
          [] phrase \in {Spell(<<"evening">>), Spell(<<"through", "hour">>)} -> on
          [] Len(phrase) = 1 \/ first.w = "next" ->
                IF last \in DOMAIN Weekdays THEN NextWeekday(Weekdays[last], on) ELSE NoDate
          [] IsNumber(first, {1, 2}) /\ last \in DOMAIN Months ->
                CalendarDate(first.ns[1].n, Months[last], Year(on), on)
          [] OTHER -> NoDate
MCProducts == {Spell(p) : p \in {<<"magnet", "buy", "magnet", "buy", "milk">>, <<"mlko">>, <<"listen", "listen", "need", "mint">>,
    <<"need", "buy", "sausages", "knit">>, <<"house", "in", "village">>,
    <<"butter", "two", "pack", "from", "shop">>, <<"brand", "milk", "on", "house">>}}
MCRemarks == {Spell(p) : p \in {<<"milk", "evening">>, <<"sausages">>, <<"milk", "on">>, <<"until", "friday">>,
    <<"expires", "through", "week">>, <<"twenny", "first", "milk">>, <<"listen", "tomorrow", "milk">>,
    <<"remind", "meeting">>, <<"milk", "house">>, <<"milk", "milk", "on">>, <<"milk", "through", "hour">>, <<"okay", "cheese", "ten">>}}
    \cup {<<Word("milk"), Word("through"), Number(2, 1), Word("day")>>, <<Number(20, 2), Word("milk")>>}
\* The last day of 2027 and 29 February 2028.
MCFirstDays == {Date(2027, 12, 31), Date(2028, 2, 29)}
MCCalendar == {<<1, 1>>, <<29, 2>>, <<21, 5>>, <<31, 12>>}
===============================================================================
