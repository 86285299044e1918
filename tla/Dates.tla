-------------------------------- MODULE Dates ---------------------------------
(***************************************************************************)
(* How Shelfy reads a date (internal/domain/date_resolver.go).  A day is   *)
(* the number of days since 1 January 2000; a text is a sequence of fields,*)
(* each a word or a number as "12" or "12.05.26".  One word stands for all *)
(* forms of it that the source's tables list.  How close a word is to a    *)
(* known one is given by Typed, as the distance of the real, Russian words.*)
(* The library `when` is external: what it finds in a phrase is constant.   *)
(*                                                                         *)
(* Bound: the years 2000 to 2099.  Left out: the confidence of a date, a   *)
(* month between slashes ("5/may"), one number with two separators.        *)
(***************************************************************************)
EXTENDS Integers, FiniteSets, Sequences, SequencesExt

CONSTANTS
    Typed,      \* word -> [runes, near: known word -> distance 1 or 2, same first letter]
    WhenFinds(_, _) \* external: the date that `when` finds for a phrase, said on a day, or NoDate

\* The module leaves out a tie, which the source breaks by the order of a Go map.
ASSUME DatesAssumption == \A w \in DOMAIN Typed :
    /\ Typed[w].runes \in Nat
    /\ \A k, l \in DOMAIN Typed[w].near :
          Typed[w].near[k] \in 1..2 /\ (Typed[w].near[k] = Typed[w].near[l] => k = l)

-----------------------------------------------------------------------------
(* The calendar *)

NoDate == -1
NoYear == -1
DaysBefore == <<0, 31, 59, 90, 120, 151, 181, 212, 243, 273, 304, 334>>
NewYear(y) == 365 * (y - 2000) + (y - 1997) \div 4

\* time.Date: a month or a day past the end runs on into what follows.
Date(year, month, day) ==
    LET y == year + (month - 1) \div 12
        m == ((month - 1) % 12) + 1
    IN  NewYear(y) + DaysBefore[m] + day - 1 + IF m > 2 /\ y % 4 = 0 THEN 1 ELSE 0

Year(n) == CHOOSE y \in (2000 + n \div 366)..(2000 + n \div 365) : NewYear(y) <= n /\ n < NewYear(y + 1)
Month(n) == CHOOSE m \in 1..12 : Date(Year(n), m, 1) <= n /\ n < Date(Year(n), m + 1, 1)
Day(n) == n - Date(Year(n), Month(n), 1) + 1
Weekday(n) == (n + 6) % 7

NormalizeYear(v) == IF v < 100 THEN 2000 + v ELSE v


IsDay(n, day, month) == Month(n) = month /\ Day(n) = day

CalendarDate(day, month, year, today) ==
    LET y == IF year = NoYear THEN Year(today) ELSE NormalizeYear(year)
        this == Date(y, month, day)
        next == Date(y + 1, month, day)
    IN  IF day \notin 1..31 \/ month \notin 1..12 \/ ~IsDay(this, day, month) THEN NoDate
        ELSE IF year = NoYear /\ this < today /\ IsDay(next, day, month) THEN next ELSE this

\* A bare day: this month's, else the next month's, else none.
NextDayOfMonth(day, today) ==
    LET this == Date(Year(today), Month(today), day)
        next == Date(Year(today), Month(today) + 1, day)
    IN  IF day \notin 1..31 THEN NoDate
        ELSE IF Day(this) = day /\ this >= today THEN this
        ELSE IF Day(next) = day THEN next ELSE NoDate

NextWeekday(weekday, today) ==
    LET offset == (weekday - Weekday(today) + 7) % 7
    IN  today + IF offset = 0 THEN 7 ELSE offset

AddUnits(amount, unit, today) ==
    CASE amount = 0 -> NoDate
      [] amount > 0 /\ unit = "day" -> today + amount
      [] amount > 0 /\ unit = "week" -> today + 7 * amount
      [] amount > 0 /\ unit = "month" -> Date(Year(today), Month(today) + amount, Day(today))

-----------------------------------------------------------------------------
(* Words *)

Weekdays == [sunday |-> 0, monday |-> 1, tuesday |-> 2, wednesday |-> 3, thursday |-> 4,
             friday |-> 5, saturday |-> 6]
Months == [january |-> 1, february |-> 2, march |-> 3, april |-> 4, may |-> 5, june |-> 6, july |-> 7,
           august |-> 8, september |-> 9, october |-> 10, november |-> 11, december |-> 12]
OrdinalDays == [first |-> 1, second |-> 2, third |-> 3, fourth |-> 4, fifth |-> 5, sixth |-> 6,
    seventh |-> 7, eighth |-> 8, ninth |-> 9, tenth |-> 10, eleventh |-> 11, twelfth |-> 12,
    thirteenth |-> 13, fourteenth |-> 14, fifteenth |-> 15, sixteenth |-> 16, seventeenth |-> 17,
    eighteenth |-> 18, nineteenth |-> 19, twentieth |-> 20, thirtieth |-> 30]
OrdinalTens == [twenty |-> 20, thirty |-> 30]
CasualDays == [today |-> 0, tomorrow |-> 1, aftertomorrow |-> 2]
DatePrefixes == {"until", "by", "to", "on", "in"}
LeadingTokens == DatePrefixes \cup {"next"}
ExpiryWords == {"expires", "expiry"}
Units == {"day", "week", "month"}
Vocabulary == DOMAIN Weekdays \cup DOMAIN Months \cup DOMAIN OrdinalDays \cup DOMAIN OrdinalTens
              \cup DOMAIN CasualDays \cup LeadingTokens \cup Units \cup {"through", "zero"}
Overrides == [twenny |-> "twenty"]

Word(w) == [w |-> w, ns |-> <<>>, sep |-> ""]
Number(n, digits) == [w |-> "", ns |-> <<[n |-> n, digits |-> digits]>>, sep |-> ""]
HasDigits(f) == f.ns # <<>>
IsNumber(f, digits) == Len(f.ns) = 1 /\ f.ns[1].digits \in digits

Runes(w) == IF w \in DOMAIN Typed THEN Typed[w].runes ELSE 7
DistanceLimit(w) == IF Runes(w) <= 3 THEN 0 ELSE IF Runes(w) <= 6 THEN 1 ELSE 2

\* The known word nearest to w within the limit, or none.
Nearest(w, known, limit) ==
    LET near == IF w \in DOMAIN Typed THEN Typed[w].near ELSE <<>>
        close == {k \in DOMAIN near \cap known : near[k] <= limit}
    IN  {k \in close : \A l \in close : near[k] <= near[l]}

Resolved(w, table) ==
    IF w \in DOMAIN table THEN {table[w]} ELSE {table[k] : k \in Nearest(w, DOMAIN table, 2)}

DateToken(w) ==
    IF w \in DOMAIN Overrides THEN Overrides[w]
    ELSE IF w \in Vocabulary \/ Nearest(w, Vocabulary, DistanceLimit(w)) = {} THEN w
    ELSE CHOOSE k \in Nearest(w, Vocabulary, DistanceLimit(w)) : TRUE

DateInput(text) == [i \in DOMAIN text |->
    IF HasDigits(text[i]) THEN text[i] ELSE Word(DateToken(text[i].w))]

LeastOf(S) == CHOOSE c \in S : \A d \in S : c <= d

\* A mutant: the diagonal is read after the cell above it was overwritten.
CellInPlace(letter, b, s, j) ==
    [s EXCEPT !.column[j] =
        LeastOf({@ + 1, s.column[j - 1] + 1, s.column[j - 1] + IF letter = b[j] THEN 0 ELSE 1})]

\* levenshteinDistance and tokenLevenshtein, on sequences of letters: one column,
\* updated in place for each letter of a.  prevDiagonal keeps what a cell was.
Cell(letter, b, s, j) ==
    [prevDiagonal |-> s.column[j],
     column |-> [s.column EXCEPT ![j] =
        LeastOf({@ + 1, s.column[j - 1] + 1, s.prevDiagonal + IF letter = b[j] THEN 0 ELSE 1})]]

ColumnAfter(letter, i, b, column) ==
    LET upTo[j \in 0..Len(b)] ==
            IF j = 0 THEN [prevDiagonal |-> column[0], column |-> [column EXCEPT ![0] = i]]
            ELSE Cell(letter, b, upTo[j - 1], j)
    IN  upTo[Len(b)].column

Columns(a, b) ==
    LET after[i \in 0..Len(a)] ==
            IF i = 0 THEN [j \in 0..Len(b) |-> j] ELSE ColumnAfter(a[i], i, b, after[i - 1])
    IN  after

LevenshteinDistance(a, b) ==
    IF Len(a) - Len(b) \notin -2..2 /\ a # <<>> /\ b # <<>> THEN 3 ELSE Columns(a, b)[Len(a)][Len(b)]

-----------------------------------------------------------------------------
(* Phrases: handled means that no other way of reading is tried *)

Unhandled == [handled |-> FALSE, value |-> NoDate, absolute |-> FALSE]
Handled(value, absolute) ==
    [handled |-> TRUE, value |-> value, absolute |-> absolute /\ value # NoDate]

\* Expiry phrases before the date, and a single letter after it ("г" for the year).
WithoutDecorators(text) ==
    LET first == SelectInSeq(text, LAMBDA f : f.w \notin ExpiryWords)
        body == IF first = 0 THEN <<>> ELSE SubSeq(text, first, Len(text))
        last == SelectLastInSeq(body, LAMBDA f : HasDigits(f) \/ Runes(f.w) > 1)
    IN  IF body = <<>> THEN <<>> ELSE SubSeq(body, 1, IF last = 0 THEN 1 ELSE last)

WithoutPrefix(text) == IF Len(text) > 1 /\ text[1].w \in DatePrefixes THEN Tail(text) ELSE text

\* Where the day, the month and the year stand among the numbers; <<>>: no date.
NumericOrder(text, ns) ==
    LET shape(ds) == Len(ns) = Len(ds) /\ \A i \in DOMAIN ds : ns[i].digits \in ds[i]
        joined(sep) == Len(text) = 1 /\ text[1].sep = sep
        yearLast == shape(<<{1, 2}, {1, 2}, 2..4>>)
        yearFirst == shape(<<{2}, {1, 2}, {1, 2}>>) /\ joined("-")
        monthFirst == joined("/") /\ Len(ns) = 3 /\ ns[2].n > 12
    IN  CASE shape(<<{4}, {1, 2}, {1, 2}>>) \/ yearFirst -> <<3, 2, 1>>
          [] yearLast /\ ~yearFirst -> IF monthFirst THEN <<2, 1, 3>> ELSE <<1, 2, 3>>
          [] shape(<<{1, 2}, {1, 2}>>) -> <<1, 2>>
          [] shape(<<{1, 2}>>) -> <<1>>
          [] OTHER -> <<>>

NumericAt(ns, at, today) ==
    CASE at = <<>> -> Unhandled
      [] Len(at) = 1 -> Handled(NextDayOfMonth(ns[1].n, today), FALSE)
      [] OTHER -> Handled(CalendarDate(ns[at[1]].n, ns[at[2]].n,
                              IF Len(at) = 3 THEN ns[at[3]].n ELSE NoYear, today), TRUE)

NumericDate(text, today) ==
    LET ns == FlattenSeq([i \in DOMAIN text |-> text[i].ns])
    IN  NumericAt(ns, NumericOrder(text, ns), today)

\* "5 may 26" and "may 5 26": taken as a date even where the word is no month.
IsNamedMonth(text) ==
    /\ Len(text) \in {2, 3}
    /\ \E i \in 1..2 : IsNumber(text[i], {1, 2}) /\ ~HasDigits(text[3 - i])
    /\ Len(text) = 3 => IsNumber(text[3], 2..4)

NamedMonthDate(text, today) ==
    LET i == CHOOSE k \in 1..2 : HasDigits(text[k])
        year == IF Len(text) = 3 THEN text[3].ns[1].n ELSE NoYear
        month == Resolved(text[3 - i].w, Months)
    IN  Handled(IF month = {} THEN NoDate
                ELSE CalendarDate(text[i].ns[1].n, CHOOSE m \in month : TRUE, year, today), TRUE)

IsRelative(text) ==
    /\ Len(text) \in {2, 3} /\ text[1].w = "through" /\ text[Len(text)].w \in Units
    /\ IF Len(text) = 2 THEN text[2].w # "day" ELSE IsNumber(text[2], {1, 2})

\* [value, used]: the day and how many words it takes; used = 0: none
SpokenDay(text) ==
    LET w(i) == IF i \in DOMAIN text THEN text[i].w ELSE ""
    IN  IF w(1) \in DOMAIN OrdinalDays THEN [value |-> OrdinalDays[w(1)], used |-> 1]
        ELSE IF /\ w(1) \in DOMAIN OrdinalTens /\ w(2) \in DOMAIN OrdinalDays
                /\ OrdinalDays[w(2)] <= 9 /\ OrdinalTens[w(1)] + OrdinalDays[w(2)] <= 31
             THEN [value |-> OrdinalTens[w(1)] + OrdinalDays[w(2)], used |-> 2]
             ELSE [value |-> 0, used |-> 0]

\* "zero fifth", "fifth" or "may", and nothing after it; 0: none
SpokenMonth(text) ==
    LET ordinal(w, most) == IF w \in DOMAIN OrdinalDays /\ OrdinalDays[w] <= most THEN OrdinalDays[w] ELSE 0
        named == Resolved(text[1].w, Months)
    IN  IF Len(text) = 2 /\ text[1].w = "zero" THEN ordinal(text[2].w, 9)
        ELSE IF Len(text) # 1 THEN 0
        ELSE IF ordinal(text[1].w, 12) # 0 \/ named = {} THEN ordinal(text[1].w, 12)
        ELSE CHOOSE m \in named : TRUE

SpokenParts(day, rest, today) ==
    CASE day.used = 0 -> Unhandled
      [] day.used > 0 /\ rest = <<>> -> Handled(NextDayOfMonth(day.value, today), FALSE)
      [] day.used > 0 /\ rest # <<>> ->
            IF SpokenMonth(rest) = 0 THEN Unhandled
            ELSE Handled(CalendarDate(day.value, SpokenMonth(rest), NoYear, today), TRUE)

SpokenDate(text, today) ==
    LET day == SpokenDay(text) IN SpokenParts(day, SubSeq(text, day.used + 1, Len(text)), today)

WeekdayDate(text, today) ==
    LET weekday == IF Len(text) = 1 THEN Resolved(text[1].w, Weekdays) ELSE {}
    IN  IF weekday = {} THEN Unhandled
        ELSE Handled(NextWeekday(CHOOSE d \in weekday : TRUE, today), FALSE)

OrHandled(first, other) == IF first.handled THEN first ELSE other

ResolvePhrase(text, today) ==
    IF Len(text) = 1 /\ text[1].w \in DOMAIN CasualDays
    THEN Handled(today + CasualDays[text[1].w], FALSE)
    ELSE IF text # <<>> /\ \A i \in DOMAIN text : HasDigits(text[i]) THEN NumericDate(text, today)
    ELSE IF IsNamedMonth(text) THEN NamedMonthDate(text, today)
    ELSE IF IsRelative(text)
    THEN Handled(AddUnits(IF Len(text) = 2 THEN 1 ELSE text[2].ns[1].n, text[Len(text)].w, today), FALSE)
    ELSE OrHandled(SpokenDate(WithoutPrefix(text), today), WeekdayDate(WithoutPrefix(text), today))

ResolveStrict(raw, today) == ResolvePhrase(WithoutDecorators(raw), today)

-----------------------------------------------------------------------------
(* Texts *)

NothingFound == [phrase |-> <<>>, value |-> NoDate, absolute |-> FALSE]
Found(phrase, date) == [phrase |-> phrase, value |-> date.value, absolute |-> date.absolute]

StartsDate(f) ==
    \/ f.w \in DatePrefixes \ {"by"} \/ f.w \in {"through", "zero"} \/ HasDigits(f)
    \/ Resolved(f.w, Weekdays) # {} \/ Resolved(f.w, Months) # {}
    \/ f.w \in DOMAIN OrdinalDays \cup DOMAIN OrdinalTens

OrFound(first, other) == IF first.value # NoDate THEN first ELSE other

\* Of phrases by the fields they go from and to, one that starts first and is longest.
FirstLongest(phrases) ==
    IF phrases = <<>> THEN NothingFound
    ELSE phrases[CHOOSE v \in DOMAIN phrases : \A o \in DOMAIN phrases :
                    v[1] < o[1] \/ (v[1] = o[1] /\ v[2] >= o[2])]

Dated(phrases) == [v \in {w \in DOMAIN phrases : phrases[w].value # NoDate} |-> phrases[v]]

\* The library finds a phrase anywhere in the text; what is taken is where those
\* words stand last, with the prepositions before them.
WhenDate(text, today) ==
    LET windows == {w \in (1..Len(text)) \X (1..Len(text)) : w[1] <= w[2]}
        at(w) == SubSeq(text, w[1], w[2])
        found == FirstLongest(Dated([w \in windows |->
                    Found(at(w), Handled(WhenFinds(at(w), today), FALSE))]))
        last == CHOOSE w \in windows : /\ at(w) = found.phrase
                                       /\ \A o \in windows : at(o) = found.phrase => o[1] <= w[1]
        other == SelectLastInSubSeq(text, 1, last[1] - 1, LAMBDA f : f.w \notin LeadingTokens)
    IN  IF found.value = NoDate THEN NothingFound
        ELSE [found EXCEPT !.phrase = SubSeq(text, other + 1, last[2])]

StrictPhrase(text, today) ==
    LET windows == {w \in (1..Len(text)) \X (1..Len(text)) :
                       StartsDate(text[w[1]]) /\ w[2] \in w[1]..(w[1] + 4)}
        phrase(w) == SubSeq(text, w[1], w[2])
    IN  FirstLongest(Dated([w \in windows |-> Found(phrase(w), ResolveStrict(phrase(w), today))]))

ResolveRelativeDate(raw, today) ==
    LET text == DateInput(raw)
    IN  Found(raw, OrHandled(ResolveStrict(text, today), WhenDate(text, today)))

ExtractDateFromText(raw, today) ==
    LET text == DateInput(raw)
    IN  OrFound(Found(text, ResolveStrict(text, today)),
                OrFound(WhenDate(text, today), StrictPhrase(text, today)))
===============================================================================
