------------------------------- MODULE DraftText -------------------------------
(***************************************************************************)
(* What a text becomes as a draft: a name and a date (internal/ingest,     *)
(* parse_text.go, input_policy.go, normalization_rules.go), and when the   *)
(* reading of a text cleaned by the language model replaces it             *)
(* (cleaner_pipeline.go).  A text is a sequence of fields of Dates.        *)
(*                                                                         *)
(* Of each list of the source the module has a few words, at least one for *)
(* each way in which the lists overlap: "okay" is a filler and a shop,     *)
(* "ten" an amount and a false date, "in" belongs to a product, to a       *)
(* package and to a date.                                                  *)
(***************************************************************************)
EXTENDS Dates

-----------------------------------------------------------------------------
(* Words and phrases *)

FillerPrefixes == <<<<"listen">>, <<"please">>, <<"okay">>>>
ActionPrefixes == <<<<"need", "buy">>, <<"buy">>, <<"need">>>>
LeadingNoise == <<<<"from", "shop">>, <<"home">>>>
TrailingCuts == <<<<"home">>, <<"from", "shop">>, <<"expiry">>>>
GenericStores == {"okay", "magnet"}
Quantities == {"one", "two", "pack", "ten", "twenty", "zero"}
Packagings == {"glass"}
Fatness == {"percent"}
Deliveries == {"home"}
CutTokens == Quantities \cup Packagings \cup Fatness \cup Deliveries \cup {"in", "with", "please"}
CleanerNoise == {"please", "okay", "need", "in", "on", "home", "from", "shop", "brand", "expiry", "percent"}
                \cup Packagings \cup Deliveries \cup GenericStores \cup Quantities
FalseDates == {"ten", "hour"}
SignalWords == DOMAIN Weekdays \cup {"today", "tomorrow", "aftertomorrow", "until", "to", "on", "in", "may"}
               \cup Units
RejectWords == {"remind", "meeting"}
Residual == {"listen", "need", "please"}
Foods == {"milk", "cheese", "butter", "sausage", "sausages"}
FoodTokens == Foods \cup {"house", "village"}
LeadTokens == [sausages |-> "sausage", butter |-> "butter"]
NameRewrites == <<[from |-> <<"brand">>, to |-> <<>>]>>
VoiceRewrites == <<[from |-> <<"he", "that">>, to |-> <<"until">>],
                   [from |-> <<"juice", "term">>, to |-> <<"expiry">>]>>
NoCorrection == Quantities \cup Packagings \cup Fatness \cup Deliveries \cup FalseDates \cup SignalWords
                \cup RejectWords \cup {"evening", "please", "buy", "need", "listen"}

\* Lengths are those of the source's phrases, in letters.
ProductRules == <<
    [match |-> <<"milk", "house", "in", "village">>, length |-> 22,
     canonical |-> <<"milk", "house", "in", "village">>, size |-> 22],
    [match |-> <<"house", "in", "village">>, length |-> 15,
     canonical |-> <<"milk", "house", "in", "village">>, size |-> 22],
    [match |-> <<"sausages", "knit">>, length |-> 15, canonical |-> <<"sausage", "knit">>, size |-> 15],
    [match |-> <<"butter">>, length |-> 5, canonical |-> <<"butter">>, size |-> 5]>>

-----------------------------------------------------------------------------
(* Words of a text *)

Words(text) == [i \in DOMAIN text |-> text[i].w]
AnyOf(text, words) == \E i \in DOMAIN text : text[i].w \in words
At(i, phrase, text) == Words(SubSeq(text, i, i + Len(phrase) - 1)) = phrase
Starts(phrase, text) == Len(phrase) <= Len(text) /\ At(1, phrase, text)
Places(phrase, text) == {i \in 1..(Len(text) - Len(phrase) + 1) : At(i, phrase, text)}
First(S) == CHOOSE i \in S : \A j \in S : i <= j
Spell(words) == [i \in DOMAIN words |-> Word(words[i])]
DropFirst(n, text) == SubSeq(text, n + 1, Len(text))

\* normalizedPolicyText: what is no letter and no digit is a blank.
Plain(text) == FlattenSeq([i \in DOMAIN text |->
    IF Len(text[i].ns) < 2 THEN <<text[i]>>
    ELSE [k \in DOMAIN text[i].ns |-> [text[i] EXCEPT !.ns = <<@[k]>>, !.sep = ""]]])

\* The blank between two occurrences belongs to the first: the second stays.
Replace(text, rule) ==
    LET found(i) == i + Len(rule.from) <= Len(text) + 1 /\ At(i, rule.from, text)
        kept(i) == IF found(i) THEN i + Len(rule.from) ELSE i
        from[i \in 1..(Len(text) + 1)] ==
            (IF found(i) THEN Spell(rule.to) ELSE <<>>)
            \o (IF kept(i) > Len(text) THEN <<>> ELSE <<text[kept(i)]>> \o from[kept(i) + 1])
    IN  from[1]

Rewrite(text, rules) == FoldLeft(Replace, Plain(text), rules)

\* The last rule that matches with more letters than what was chosen before it.
Canonical(text) ==
    Spell(FoldLeft(LAMBDA best, rule :
        IF Places(rule.match, Plain(text)) # {} /\ rule.length > best.size
        THEN rule ELSE best, [canonical |-> <<>>, size |-> 0], ProductRules).canonical)

HasFood(text) == AnyOf(text, Foods)
IsFalseDate(text) == AnyOf(text, FalseDates)
HasDateSignal(text, today) ==
    \/ \E i \in DOMAIN text : HasDigits(text[i])
    \/ AnyOf(text, SignalWords)
    \/ ResolveRelativeDate(text, today).value # NoDate
    \/ ExtractDateFromText(text, today).value # NoDate

-----------------------------------------------------------------------------
(* Names *)

\* Fillers and actions before the name, in the order of the lists, but never all of it.
StripPrefixes(name) ==
    LET prefixes == FillerPrefixes \o ActionPrefixes
        at(i) == SelectInSeq(prefixes, LAMBDA p : Len(p) < Len(name) - i + 1 /\ At(i, p, name))
        bare[i \in 1..(Len(name) + 1)] ==
            IF at(i) = 0 THEN i ELSE bare[i + Len(prefixes[at(i)])]
    IN  DropFirst(bare[1] - 1, name)

\* The first of two, unless it is empty.
OrElse(first, other) == IF first # <<>> THEN first ELSE other

TrimLeading(name) ==
    LET drop(n, p) == IF Starts(p, n) /\ Len(p) < Len(n) THEN DropFirst(Len(p), n) ELSE n
        from(body, first) == IF first = 0 THEN <<>> ELSE DropFirst(first - 1, body)
        trimmed(body) == from(body, SelectInSeq(body,
                                LAMBDA f : f.w \notin {"fresh"} \cup GenericStores \cup CutTokens))
    IN  OrElse(Canonical(name), trimmed(FoldLeft(drop, name, LeadingNoise)))

TrimTrailing(name) ==
    LET cut(n, places) == IF places = {} THEN n ELSE SubSeq(n, 1, First(places) - 1)
        cutAt(n, p) == cut(n, Places(p, n))
        upTo(kept, last) == IF kept = <<>> THEN <<>> ELSE SubSeq(kept, 1, IF last = 0 THEN 1 ELSE last)
        without(kept) == upTo(kept, SelectLastInSeq(kept, LAMBDA f : f.w \notin {"with", "from"}))
        split(body, stops, phrases) ==
            IF DOMAIN phrases # {} /\ \A i \in stops : First(DOMAIN phrases) <= i
            THEN phrases[First(DOMAIN phrases)] ELSE without(cut(body, stops))
        stopsOf(body) == {i \in DOMAIN body :
            \/ body[i].w \in CutTokens /\ i > 1
            \/ body[i].w \in {"from", "with"} /\ i < Len(body) /\ body[i + 1].w \in GenericStores}
        known(all) == [i \in {k \in DOMAIN all : all[k] # <<>>} |-> all[i]]
        trimmed(body) == split(body, stopsOf(body),
                               known([i \in DOMAIN body |-> Canonical(SubSeq(body, 1, i))]))
    IN  OrElse(Canonical(name), trimmed(FoldLeft(cutAt, name, TrailingCuts)))

CanonicalLead(name) ==
    IF name # <<>> /\ name[1].w \in DOMAIN LeadTokens
    THEN <<Word(LeadTokens[name[1].w])>> \o Tail(name) ELSE name

\* The first stage with a product phrase decides, else the last stage.
NormalizeName(text) ==
    LET stage4(cut) == OrElse(Canonical(cut), LET lead == CanonicalLead(cut) IN OrElse(Canonical(lead), lead))
        stage3(led) == OrElse(Canonical(led), stage4(Rewrite(TrimLeading(TrimTrailing(led)), NameRewrites)))
        stage2(bare) == OrElse(Canonical(bare), stage3(TrimLeading(bare)))
    IN  stage2(StripPrefixes(Rewrite(text, NameRewrites)))

\* Words that say nothing but a date: no food, no task, and little besides.
RejectsTask(text) == AnyOf(text, RejectWords) \/ (~HasFood(text) /\ Len(text) >= 4)
IsDateOnlyResidual(text, today) ==
    \/ text = <<>>
    \/ /\ ~HasFood(text) /\ ~RejectsTask(text)
       /\ \A i \in DOMAIN text : text[i].w \in Residual \/ HasDateSignal(<<text[i]>>, today)

-----------------------------------------------------------------------------
(* A text with a date: a reading is <<>> or <<draft>> *)

\* validateResolvedDeadlinePhrase: the date, unless the phrase is something else.
Validated(found, today) ==
    LET text == Plain(found.phrase)
    IN  IF /\ found.value # NoDate /\ text # <<>>
           /\ ~IsFalseDate(text) /\ ~HasFood(text) /\ ~AnyOf(text, Packagings \cup Deliveries)
           /\ HasDateSignal(text, today)
        THEN found ELSE NothingFound

DeadlineOf(phrase, today) ==
    Validated(OrFound(ResolveRelativeDate(phrase, today), ExtractDateFromText(phrase, today)), today)

\* The name beside a date: none if it says no more than the date...
Named(name, found, today) ==
    [name |-> IF IsDateOnlyResidual(Plain(name), today) THEN <<>> ELSE name, date |-> found.value]

\* ... or is only a preposition.
Beside(name, found, today) ==
    Named(IF Len(name) = 1 /\ name[1].w \in DatePrefixes THEN <<>> ELSE NormalizeName(name), found, today)

\* "milk until friday": for each marker its first place with words on both sides.
MarkedBy(marker, text, today) ==
    LET i == SelectInSubSeq(text, 2, Len(text) - 1, LAMBDA f : f.w = marker)
    IN  [name |-> SubSeq(text, 1, i - 1),
         found |-> IF i = 0 THEN NothingFound ELSE DeadlineOf(DropFirst(i, text), today)]

FirstDated(parts, today) ==
    LET i == SelectInSeq(parts, LAMBDA d : d.found.value # NoDate)
    IN  IF i = 0 THEN <<>> ELSE <<Named(NormalizeName(parts[i].name), parts[i].found, today)>>

Marked(text, today) ==
    FirstDated([k \in 1..3 |-> MarkedBy(<<"until", "by", "expires">>[k], text, today)], today)

\* looksLikeDatePhraseLead
LeadsDatePhrase(f, today) ==
    f.w \in (DatePrefixes \cup {"through"}) \/ HasDateSignal(Plain(<<f>>), today)

\* "milk 12.05": the longest end of at most five fields that is a date.
DatedEnd(size, text, today) ==
    LET end == DropFirst(Len(text) - size, text)
    IN  [name |-> SubSeq(text, 1, Len(text) - size),
         found |-> IF size = 1 \/ LeadsDatePhrase(end[1], today)
                   THEN Validated(ResolveRelativeDate(end, today), today) ELSE NothingFound]

LastDated(parts, today) ==
    LET i == SelectLastInSeq(parts, LAMBDA d : d.found.value # NoDate)
    IN  IF i = 0 THEN <<>> ELSE <<Beside(parts[i].name, parts[i].found, today)>>

Suffixed(text, today) ==
    LastDated([k \in 1..(IF Len(text) <= 5 THEN Len(text) - 1 ELSE 5) |-> DatedEnd(k, text, today)], today)

\* "tomorrow milk": the date is taken out, with a preposition before it.
TrimPrepositions(name) ==
    FoldLeft(LAMBDA n, p : IF Len(n) > 1 /\ Last(n).w = p THEN Front(n) ELSE n, name,
             <<"until", "to", "on", "in", "by">>)

TakenOut(found, text, today) ==
    LET rest == ReplaceFirstSubSeq(<<>>, found.phrase, text)
    IN  IF found.value = NoDate THEN <<>>
        ELSE IF rest = text THEN <<[name |-> <<>>, date |-> found.value]>>
        ELSE <<Beside(TrimPrepositions(rest), found, today)>>

Inside(text, today) == TakenOut(Validated(ExtractDateFromText(text, today), today), text, today)

Whole(text, today) ==
    LET alone(found) == IF found.value = NoDate THEN <<>> ELSE <<[name |-> <<>>, date |-> found.value]>>
    IN  alone(Validated(ResolveRelativeDate(text, today), today))

NameOnly(text) == <<[name |-> NormalizeName(text), date |-> NoDate]>>

\* heuristicParse: the first reading that gives a date, else a name.
Parse(text, today) ==
    Head(OrElse(Marked(text, today), OrElse(Suffixed(text, today),
         OrElse(Inside(text, today), OrElse(Whole(text, today), NameOnly(text))))))

NoDraft == [name |-> <<>>, date |-> NoDate]
Finished(draft) == [draft EXCEPT !.name = NormalizeName(@)]
FastDraft(text, today) == Finished(Parse(text, today))

-----------------------------------------------------------------------------
(* Voice *)

CorrectVoiceToken(f) ==
    LET near == Nearest(f.w, FoodTokens, DistanceLimit(f.w))
    IN  IF \/ HasDigits(f) \/ Canonical(<<f>>) # <<>> \/ f.w \in NoCorrection \cup Foods \/ near = {}
        THEN f ELSE Word(CHOOSE k \in near : TRUE)

NormalizeVoice(text) ==
    LET heard == Rewrite(text, VoiceRewrites)
    IN  Rewrite([i \in DOMAIN heard |-> CorrectVoiceToken(heard[i])], VoiceRewrites)

-----------------------------------------------------------------------------
(* The cleaner *)

Noise(name) == Cardinality({i \in DOMAIN name : name[i].w \in CleanerNoise})

\* Named for the user's input, but the words compared are the model's own.
SupportedByInput(name, cleaned) ==
    LET known == {cleaned[i] : i \in DOMAIN cleaned}
                 \cup {Word(LeadTokens[w]) : w \in DOMAIN LeadTokens \cap {cleaned[i].w : i \in DOMAIN cleaned}}
        means(phrase) == phrase # <<>> /\ NormalizeName(phrase) = name
    IN  means(Canonical(cleaned)) \/ {name[i] : i \in DOMAIN name} \subseteq known

LeadWord(w) == IF w \in DOMAIN LeadTokens THEN LeadTokens[w] ELSE w
MatchesEntity(current, candidate) ==
    /\ current # <<>> /\ candidate # <<>>
    /\ \A i \in DOMAIN candidate : \E k \in DOMAIN current :
          current[k].ns = candidate[i].ns /\ LeadWord(current[k].w) = LeadWord(candidate[i].w)

\* The fields of candidate are matched from the left; what is left over is removed.
RemovesOnlyNoise(current, candidate) ==
    LET step(s, f) == IF s.matched < Len(candidate) /\ f = candidate[s.matched + 1]
                      THEN [s EXCEPT !.matched = @ + 1] ELSE [s EXCEPT !.removed = @ \cup {f.w}]
        result == FoldLeft(step, [matched |-> 0, removed |-> {}], current)
    IN  /\ Len(candidate) \in 1..(Len(current) - 1)
        /\ result.matched = Len(candidate) /\ result.removed \subseteq CleanerNoise

\* A mutant: a shorter name is taken with whatever noise it brings.
ShouldApplyShorter(current, candidate) ==
    /\ current.date # NoDate => candidate.date = current.date
    /\ Len(candidate.name) < Len(current.name) \/ current.name = <<>>

BetterName(old, new) ==
    /\ old # new /\ MatchesEntity(old, new)
    /\ \/ RemovesOnlyNoise(old, new)
       \/ /\ Noise(new) <= Noise(old)
          /\ Len(new) > Len(old) => Noise(new) = 0
          /\ Noise(new) < Noise(old) \/ Len(new) < Len(old)

\* shouldApplyBackgroundCleaner, for a draft that is ready
ShouldApply(current, candidate) ==
    /\ candidate # NoDraft
    /\ current.date # NoDate => candidate.date = current.date
    /\ \/ current.name = <<>> /\ candidate.name # <<>>
       \/ current.date = NoDate /\ candidate.date # NoDate
       \/ /\ current.name # <<>> /\ candidate.name # <<>>
          /\ BetterName(NormalizeName(current.name), NormalizeName(candidate.name))

\* A parsed answer replaces the draft if its words are the answer's and it is better.
Judged(current, parsed, text) ==
    IF SupportedByInput(Plain(parsed.name), Plain(text)) /\ ShouldApply(current, Finished(parsed))
    THEN Finished(parsed) ELSE current

Cleaned(current, input, answer, today) ==
    LET text == OrElse(answer, input) IN Judged(current, Parse(text, today), text)
===============================================================================
