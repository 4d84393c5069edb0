----------------------------- MODULE SummaryGate -----------------------------
(***************************************************************************)
(* The way of a summary: the answer of the model, a JSON brief or text, is *)
(* rendered to markdown, a gate accepts it or asks once more, and reports  *)
(* are made from what is stored if a second gate finds it deep enough.     *)
(* A text is a sequence of lines; a line is a heading with its level or    *)
(* content, with the traits that the gates look at.                        *)
(***************************************************************************)
EXTENDS Integers, Sequences, FiniteSets, SequencesExt

CONSTANTS
    DeepTakes,     \* DEEP_MIN_KEY_TAKES
    NormalTakes,   \* NORMAL_MIN_KEY_TAKES
    LowTakes,      \* LOW_CONTENT_MIN_KEY_TAKES
    MaxOdd         \* bound: sections of a text of the model that are not plain

SummaryAssumption == LowTakes \in 1..NormalTakes /\ NormalTakes \in 1..DeepTakes /\ MaxOdd \in 0..6

VARIABLES
    phase,     \* "ask", "gate", "ask again", "gate again", "stored", "failed"
    text,      \* the markdown of the last answer
    deep,      \* the transcript has 1500 words or ten minutes
    whole      \* history: the answer was a brief with every part filled in

summaryVars == <<phase, text, deep, whole>>

Required == {"glance", "executive", "takeaways", "concepts", "operator", "source"}
Headings == Required \cup {"detailed"}
Meaningful == {"executive", "detailed", "concepts", "operator"}

\* "topic" is a heading of no section, "details" another name of the detailed brief.
Section(name) == IF name = "details" THEN "detailed" ELSE name

Line(traits) == [level |-> 0, name |-> "none", traits |-> traits]
Heading(level, name) == [level |-> level, name |-> name, traits |-> {}]
Lines(n, traits) == [i \in 1..n |-> Line(traits)]

Has(t, S, trait) == \E i \in S : trait \in t[i].traits
Bullets(t, S) == Cardinality({i \in S : "bullet" \in t[i].traits})
-----------------------------------------------------------------------------
\* extract_heading_sections: content under the nearest heading, of whatever level.
Under(t, name) ==
    {i \in DOMAIN t : t[i].level = 0 /\
        \E h \in 1..i : /\ t[h].level > 0 /\ Section(t[h].name) = name
                        /\ \A j \in h + 1..i : t[j].level = 0}

\* extract_markdown_section: what follows a heading up to the next one of its level, or
\* of a higher one; a deeper heading of the same section starts again.
Scan(t, name) ==
    LET scan[i \in 0..Len(t)] ==
          IF i = 0 THEN [level |-> 7, lines |-> {}, over |-> FALSE]
          ELSE LET s == scan[i - 1] IN
               IF s.over THEN s
               ELSE IF t[i].level > 0 /\ t[i].level <= s.level /\ s.level < 7
                    THEN [s EXCEPT !.over = TRUE]
               ELSE IF t[i].level > 0 /\ Section(t[i].name) = name
                    THEN [level |-> t[i].level, lines |-> {}, over |-> FALSE]
               ELSE IF s.level < 7 THEN [s EXCEPT !.lines = @ \cup {i}] ELSE s
    IN scan[Len(t)].lines

Content(t, name) == IF Scan(t, name) # {} THEN Scan(t, name) ELSE Under(t, name)

\* _is_explicit_low_content of some lines.
LowContent(t, S) == Has(t, S, "low content") /\ ~Has(t, S, "no low content")

\* _count_detailed_items.
DetailedItems(t) ==
    LET S == Content(t, "detailed") IN
    Max({Bullets(t, S), Cardinality({i \in S : t[i].level \in 3..6}),
         Cardinality({i \in S : t[i].level = 0 /\ "bullet" \notin t[i].traits})})

\* The transcript asks for a deep brief, unless the summary says that it has no content.
FlaggedLow(t) == LowContent(t, Content(t, "glance")) \/ LowContent(t, Content(t, "executive"))
MinimumTakes(t) ==
    IF FlaggedLow(t) THEN LowTakes ELSE IF deep THEN DeepTakes ELSE NormalTakes

\* The first takeaways: each with a claim, its evidence and an implication.
Vague(t) ==
    \E i \in Content(t, "takeaways") :
       /\ "bullet" \in t[i].traits /\ "claim" \notin t[i].traits
       /\ Cardinality({j \in Content(t, "takeaways") : j < i /\ "bullet" \in t[j].traits}) < MinimumTakes(t)

\* Mutant: too few takeaways are always a warning.
Warned(t) == FALSE

\* Too few takeaways are an error, a warning if the summary flags low content.
Few(t) == ~FlaggedLow(t) /\ Bullets(t, Content(t, "takeaways")) < MinimumTakes(t)

Missing(t) == {name \in Required : Content(t, name) = {}}

\* validate_summary_contract: errors, not warnings.
Errors(t) ==
    Missing(t)
    \cup (IF Few(t) THEN {"few"} ELSE {})
    \cup (IF ~FlaggedLow(t) /\ Vague(t) THEN {"vague"} ELSE {})
    \cup (IF Has(t, Content(t, "glance"), "verdict") THEN {} ELSE {"verdict"})
    \cup (IF deep /\ ~FlaggedLow(t) /\ (\/ ~Has(t, Content(t, "executive"), "thick")
                                        \/ DetailedItems(t) < 1)
          THEN {"thin"} ELSE {})

\* validate_report_depth: low content is looked for in the whole summary.
SectionCount(t) == Cardinality({name \in Meaningful : Under(t, name) # {}})
DeepEnough(t) ==
    deep /\ ~LowContent(t, DOMAIN t) =>
       Bullets(t, Content(t, "takeaways")) >= NormalTakes /\ SectionCount(t) >= 2
-----------------------------------------------------------------------------
\* The JSON brief: its parts may be missing, a detail may repeat the takeaways, and a
\* detailed item may have any heading.
Briefs ==
    [filled : {Headings} \cup {Headings \ {p} : p \in Headings}, takes : {LowTakes, DeepTakes},
     details : {<<"new">>, <<"repeated">>, <<"repeated", "new">>}, name : {"topic", "details"}]

ItemLevel == 3

\* A detailed item without a value that the takeaways do not contain is left out, and so
\* is the section without an item.
Detailed(b) ==
    LET kept == SelectSeq(b.details, LAMBDA d : d = "new")
        items == FlattenSeq([i \in DOMAIN kept |-> <<Heading(ItemLevel, b.name), Line({"bullet"})>>])
    IN IF "detailed" \in b.filled /\ items # <<>> THEN <<Heading(2, "detailed")>> \o items ELSE <<>>

Filled(b, name, lines) == IF name \in b.filled THEN lines ELSE <<>>

\* structured_brief_to_markdown: headings are written also over empty parts; the source
\* is filled in from the arguments.
Render(b) ==
    <<Heading(2, "glance")>> \o Filled(b, "glance", <<Line({"bullet", "verdict"}), Line({"bullet"})>>)
    \o <<Heading(2, "executive")>> \o Filled(b, "executive", <<Line({"thick"})>>)
    \o <<Heading(2, "takeaways")>> \o Filled(b, "takeaways", Lines(b.takes, {"bullet", "claim"}))
    \o Detailed(b)
    \o <<Heading(2, "concepts")>> \o Filled(b, "concepts", <<Line({"bullet"})>>)
    \o <<Heading(2, "operator")>> \o Filled(b, "operator", <<Line({"bullet"})>>)
    \o <<Heading(2, "source"), Line({"bullet"})>>

Whole(b) == b.filled = Headings /\ b.takes = DeepTakes /\ "new" \in Range(b.details)

\* Text of the model itself: sections are missing, empty, or have a subheading, and the
\* text may call itself one of low content, or say that it is none.
Layouts == {f \in [Headings -> {"plain", "absent", "empty", "nested"}] :
               Cardinality({name \in Headings : f[name] # "plain"}) <= MaxOdd}

Body(name, takes, flag) ==
    CASE name = "glance"    -> <<Line({"bullet", "verdict"} \cup {flag})>>
      [] name = "executive" -> <<Line({"thick"})>>
      [] name = "takeaways" -> Lines(takes, {"bullet", "claim"})
      [] OTHER              -> <<Line({"bullet"})>>

Written(f, takes, flag, rebuttal) ==
    LET part(name) ==
          CASE f[name] = "absent" -> <<>>
            [] f[name] = "empty"  -> <<Heading(2, name)>>
            [] f[name] = "nested" -> <<Heading(2, name), Heading(3, "topic")>> \o Body(name, takes, flag)
            [] OTHER              -> <<Heading(2, name)>> \o Body(name, takes, flag)
    IN FlattenSeq([i \in 1..7 |-> part(<<"glance", "executive", "takeaways", "detailed",
                                         "concepts", "operator", "source">>[i])])
       \o (IF rebuttal THEN <<Line({"no low content"})>> ELSE <<>>)

Nested(t) == \E i \in DOMAIN t : t[i].level = 3 /\ t[i].name = "topic"
-----------------------------------------------------------------------------
Answer(t, w) == text' = t /\ whole' = w

\* summarize_text: structured output, or text where the JSON cannot be read.
Ask ==
    /\ phase = "ask"
    /\ \/ \E b \in Briefs : Answer(Render(b), Whole(b))
       \/ \E f \in Layouts, takes \in {LowTakes, NormalTakes}, flag \in {"", "low content"},
             rebuttal \in BOOLEAN : Answer(Written(f, takes, flag, rebuttal), FALSE)
    /\ phase' = "gate"
    /\ UNCHANGED deep

\* The first failure is answered by a second request, for markdown; then the stage fails.
Gate ==
    /\ phase \in {"gate", "gate again"}
    /\ phase' = IF Errors(text) = {} THEN "stored"
                ELSE IF phase = "gate" THEN "ask again" ELSE "failed"
    /\ IF phase' = "stored" THEN UNCHANGED <<text, whole>> ELSE Answer(<<>>, FALSE)
    /\ UNCHANGED deep

AskAgain ==
    /\ phase = "ask again"
    /\ \E f \in Layouts, takes \in {NormalTakes, DeepTakes}, flag \in {"", "low content"} :
          Answer(Written(f, takes, flag, FALSE), FALSE)
    /\ phase' = "gate again"
    /\ UNCHANGED deep

Init == phase = "ask" /\ text = <<>> /\ deep \in BOOLEAN /\ whole = FALSE

Next == Ask \/ Gate \/ AskAgain

-----------------------------------------------------------------------------
\* A brief with every part filled in, and a detail that the takeaways do not have, passes
\* the gate as it is rendered (structured_brief_to_markdown, validate_summary_contract).
WholeBriefPasses == phase = "gate" /\ whole => Errors(text) = {}

\* What was stored is deep enough for a report, unless a subheading hides a section from the
\* count, or the flag of low content is revoked elsewhere in the text (validate_report_depth).
StoredIsReported ==
    phase = "stored" =>
       \/ DeepEnough(text) \/ Nested(text)
       \/ FlaggedLow(text) /\ Has(text, DOMAIN text, "no low content")

\* The gates agree on what a brief is: a whole one passes the first, and what passed the first
\* passes the second, but for the named exceptions.
GatesAgree ==
    WholeBriefPasses /\ StoredIsReported
=============================================================================
