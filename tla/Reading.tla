-------------------------------- MODULE Reading --------------------------------
(***************************************************************************)
(* A text with a product and a date is read into a draft as it arrives     *)
(* (buildInitialDraft), by voice after its transcript was corrected, and   *)
(* any number of days and tries later a reading of what the language model *)
(* made of it may replace the draft (runCleanerPass).  Statuses and rows   *)
(* are in module DraftSession.                                             *)
(***************************************************************************)
EXTENDS DraftText, FiniteSetsExt

CONSTANTS
    Products,   \* how a product is said, without a date
    Remarks,    \* what else the model may answer
    Calendar,   \* pairs of a day and a month
    FirstDays,  \* the days on which texts are said
    Patience,   \* bound: days until the cleaner's last try
    Alphabet    \* letters of the words that Compare compares

ASSUME TextAssumption == \A text \in Products \cup Remarks :
    text \in Seq([w : STRING, ns : Seq([n : Nat, digits : Nat]), sep : STRING])

VARIABLES
    today,
    said,       \* the text that the draft is from
    draft,
    compared    \* two words and their distance

vars == <<today, said, draft, compared>>
Nothing == [text |-> <<>>]
NotCompared == [a |-> <<>>, b |-> <<>>, distance |-> 0]

OrdinalOf(n) == Word(CHOOSE w \in DOMAIN OrdinalDays : OrdinalDays[w] = n)
SpokenOf(n) ==
    IF n \in {OrdinalDays[w] : w \in DOMAIN OrdinalDays} THEN <<OrdinalOf(n)>>
    ELSE <<Word(IF n > 30 THEN "thirty" ELSE "twenty"), OrdinalOf(n % 10)>>

\* The ways of saying a date, on a day, that the texts of this module use.
Wordings(day, month, on) ==
    LET name == Word(CHOOSE w \in DOMAIN Months : Months[w] = month)
    IN  {<<[w |-> "", ns |-> <<[n |-> day, digits |-> 2], [n |-> month, digits |-> 2]>>, sep |-> "."]>>,
         <<Number(day, IF day < 10 THEN 1 ELSE 2), name>>, SpokenOf(day) \o <<name>>}
        \cup {SpokenOf(day) \o <<OrdinalOf(month)>>}
        \cup (IF month < 10 THEN {SpokenOf(day) \o <<Word("zero"), OrdinalOf(month)>>} ELSE {})
        \cup {<<Word(w)>> : w \in {c \in DOMAIN CasualDays : IsDay(on + CasualDays[c], day, month)}}

Init ==
    /\ today \in FirstDays
    /\ said = Nothing /\ draft = NoDraft /\ compared = NotCompared

\* Said without a date, there is nothing to word.
Undated == <<0, 0>>
Phrases(date, on) == IF date = Undated THEN {<<>>} ELSE Wordings(date[1], date[2], on)

\* Spoken, an "until" is heard as two other words.
Say(product, date, until, voice) ==
    /\ said = Nothing /\ compared = NotCompared
    /\ until => date # Undated
    /\ \E phrase \in Phrases(date, today) :
          LET marker == IF ~until THEN <<>> ELSE Spell(IF voice THEN <<"he", "that">> ELSE <<"until">>)
              typed == product \o marker \o phrase
              text == IF voice THEN NormalizeVoice(typed) ELSE typed
          IN  /\ draft' = FastDraft(text, today)
              /\ said' = [text |-> text, product |-> IF voice THEN NormalizeVoice(product) ELSE product,
                          phrase |-> phrase, until |-> until, day |-> date[1], month |-> date[2], on |-> today]
    /\ UNCHANGED <<today, compared>>

\* The model answers with anything, or with nothing.
Clean(answer) ==
    /\ said # Nothing
    /\ draft' = Cleaned(draft, said.text, answer, today)
    /\ UNCHANGED <<today, said, compared>>

DayPasses ==
    /\ said # Nothing /\ today < said.on + Patience
    /\ today' = today + 1
    /\ UNCHANGED <<said, draft, compared>>

Compare(a, b) ==
    /\ said = Nothing /\ compared = NotCompared
    /\ compared' = [a |-> a, b |-> b, distance |-> LevenshteinDistance(a, b)]
    /\ UNCHANGED <<today, said, draft>>

Spellings == UNION {[1..n -> Alphabet] : n \in 0..4}
Answers == {<<>>} \cup Products \cup Remarks \cup {p \o said.phrase : p \in Products}

Next ==
    \/ \E p \in Products, d \in Calendar \cup {Undated}, until, voice \in BOOLEAN : Say(p, d, until, voice)
    \/ said # Nothing /\ \E a \in Answers : Clean(a)
    \/ DayPasses
    \/ \E a, b \in Spellings : Compare(a, b)

Spec == Init /\ [][Next]_vars

-----------------------------------------------------------------------------
(* Properties *)

\* The draft of a product and a day of the year: the name that the product
\* alone becomes and the first such day from the day of the text on.  Of
\* 29 February this is said only where it is still to come in that year.
FirstSuchDay(day, month, from) ==
    Min({n \in from..(from + 1500) : Month(n) = month /\ Day(n) = day})
AsSaid(text, read) ==
    LET n == FirstSuchDay(text.day, text.month, text.on)
    IN  text.day < 29 \/ text.month # 2 \/ Year(n) = Year(text.on) =>
            read = [name |-> Finished(Head(NameOnly(text.product))).name, date |-> n]
SpokenInTwo(text) == text.phrase[1].w \in DOMAIN OrdinalTens /\ ~text.until
IsDated(text) == text.phrase # <<>>

\* A word of the product, behind its first, that the source takes for the first
\* of a date; without an "until", what `when` finds behind it is its date.
LeadsToDate(text) == ~text.until /\ \E i \in 2..Len(text.product) : LeadsDatePhrase(text.product[i], text.on)


\* The same of a day of two words with no "until" before it ("milk twenty
\* first").  The code breaks it: splitTrailingDatePhrase wants its first word
\* to look like a date by itself, and reads the second word alone.
SpokenDayKept == [][said = Nothing /\ said' # Nothing /\ IsDated(said') =>
                        ~SpokenInTwo(said') \/ LeadsToDate(said') \/ AsSaid(said', draft')]_vars

\* One name says the same in fewer words of noise, or in as few and in fewer words.
Cleaner(new, old) ==
    \/ Noise(new) < Noise(old)
    \/ Noise(new) = Noise(old) /\ Len(new) < Len(old)

\* What the source takes for better: a date where there was none, whatever becomes of
\* the name; or the same date, and a name where there was none; or the same date, and
\* a name of which the rules make a cleaner one.
Forward(new, old) ==
    \/ old.date = NoDate /\ new.date # NoDate
    \/ /\ new.date = old.date /\ new.name # <<>>
       /\ old.name = <<>> \/ Cleaner(NormalizeName(new.name), NormalizeName(old.name))

\* The cleaner's reading replaces a draft only where it is further on, whatever the
\* model answers, on whatever day, however often it is asked: no number of answers
\* brings back a draft that was replaced, and a draft with a date keeps the date
\* and does not lose its name.  One without a date may lose its name to an answer that
\* has a date and no product: a date is enough for shouldApplyBackgroundCleaner.
CleanedForward == [][said # Nothing /\ draft' # draft => Forward(draft', draft)]_vars

\* The words that one change, insertion or removal of a letter makes of some words.
OneEdit(w) ==
    {w} \cup {RemoveAt(w, i) : i \in DOMAIN w}
        \cup {ReplaceAt(w, i, x) : i \in DOMAIN w, x \in Alphabet}
        \cup {InsertAt(w, i, x) : i \in 1..(Len(w) + 1), x \in Alphabet}
Within(n, a) ==
    CASE n = 0 -> {a} [] n = 1 -> OneEdit(a) [] n = 2 -> UNION {OneEdit(w) : w \in OneEdit(a)}

\* The distance of two words is the least number of letters to change, insert
\* and remove where it is two or less, and more than two where it is not.
DistanceExact == \A n \in 0..2 : compared.distance <= n <=> compared.b \in Within(n, compared.a)
===============================================================================
