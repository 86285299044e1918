--------------------------- MODULE MCDraftSession ---------------------------
(* Instances of DraftSession for TLC.                                        *)
EXTENDS DraftSession

MCShorter == {<<"noisy", "clean">>}

\* "milk" alone and "milk until friday": a whole text is a name, the second
\* also reads as a date.
NameText == [asName |-> "clean", asDate |-> Missing,
             parsed |-> [name |-> "noisy", date |-> Missing]]
DateText == [asName |-> "noisy", asDate |-> "d2",
             parsed |-> [name |-> "noisy", date |-> "d1"]]
MCTexts == {NameText, DateText}

\* One text and one voice message, over one date.
OneText == {[DateText EXCEPT !.asDate = "d1"]}

MCVoices == {[name |-> "noisy", date |-> Missing], [name |-> "noisy", date |-> "d1"]}
OneVoice == {[name |-> "noisy", date |-> Missing]}

TwoTries == [k \in {"ingest", "clean"} |-> 2]
IngestOnce == [k \in {"ingest", "clean"} |-> IF k = "ingest" THEN 1 ELSE 2]
=============================================================================
