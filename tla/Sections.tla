------------------------------ MODULE Sections ------------------------------
(***************************************************************************)
(* The sections of a card: card_sections (src/content/entry.rs).           *)
(*                                                                         *)
(* A body is a sequence of lines, each a heading or "text" or "blank".     *)
(* The heading of a section is its name, that of a question "question",    *)
(* and "heading" is one of another level.  The text of a section is the    *)
(* set of its lines by number.                                             *)
(***************************************************************************)
EXTENDS Naturals, Sequences, FiniteSets, FiniteSetsExt

CONSTANT TLDR_MAX_LINES   \* 12 in the code

ASSUME LimitAssumption == TLDR_MAX_LINES \in Nat

TLDR == "TL;DR"
PITFALLS == "Pitfalls"
DEEP_DIVE == "Deep dive"
Order == <<TLDR, PITFALLS, DEEP_DIVE>>

\* The headings of level 2, "other" with an unknown name.
Names == {TLDR, PITFALLS, DEEP_DIVE, "other"}
HeadingLines == Names \cup {"question", "heading"}
Lines == HeadingLines \cup {"text", "blank"}

-----------------------------------------------------------------------------

\* The line of the first such heading from a line on, or the end.
NextOf(body, kinds, from) ==
  Min({k \in from..Len(body) : body[k] \in kinds} \cup {Len(body) + 1})

TextIn(body, from, to) == {k \in from..(to - 1) : body[k] = "text"}

\* Where a section ends, its text, and the headings in it.
SectionEnd(body, start) == NextOf(body, Names, start + 1)
SectionText(body, start) == TextIn(body, start + 1, SectionEnd(body, start))
QuestionsIn(body, start) ==
  {k \in (start + 1)..(SectionEnd(body, start) - 1) : body[k] \in HeadingLines}

\* The questions, each with its text.
DeepDive(body, start) ==
  {[title |-> q, text |-> TextIn(body, q + 1, NextOf(body, HeadingLines, q + 1))] :
     q \in QuestionsIn(body, start)}

NoSections == [tldr |-> {}, pitfalls |-> {}, deep_dive |-> {},
               expected |-> 1, found_tldr |-> FALSE, problems |-> {}]

Problem(s, what) == [s EXCEPT !.problems = @ \cup {what}]

Misplaced(body, start) == IF QuestionsIn(body, start) # {} THEN {"question"} ELSE {}

EmptySection(body, start) ==
  IF SectionText(body, start) = {} /\ QuestionsIn(body, start) = {} THEN {"empty"} ELSE {}

LongSection(body, start) ==
  LET lines == Cardinality(SectionText(body, start)) + Cardinality(QuestionsIn(body, start))
  IN  IF lines > TLDR_MAX_LINES THEN {"long"} ELSE {}

\* Text before the first question, or no question.
DeepDiveProblems(body, start) ==
  LET intro_end == Min(QuestionsIn(body, start) \cup {SectionEnd(body, start)})
  IN  (IF TextIn(body, start + 1, intro_end) # {} THEN {"intro"} ELSE {})
        \cup (IF QuestionsIn(body, start) = {} THEN {"no question"} ELSE {})

\* A section in its place.
Section(s, body, start) ==
  CASE body[start] = TLDR ->
         [s EXCEPT !.tldr = SectionText(body, start), !.found_tldr = TRUE,
                   !.problems = @ \cup Misplaced(body, start) \cup EmptySection(body, start)
                                  \cup LongSection(body, start)]
    [] body[start] = PITFALLS ->
         [s EXCEPT !.pitfalls = SectionText(body, start),
                   !.problems = @ \cup Misplaced(body, start) \cup EmptySection(body, start)]
    [] OTHER ->
         [s EXCEPT !.deep_dive = DeepDive(body, start),
                   !.problems = @ \cup DeepDiveProblems(body, start)]

\* A place before the expected one.
OutOfOrderButOnce(place, s) == place + 1 < s.expected
OutOfOrder(place, s) == place < s.expected

\* What is done at a heading of level 2.
AddSection(s, body, start) ==
  LET place == {p \in DOMAIN Order : Order[p] = body[start]}
  IN  IF place = {} THEN Problem(s, "unknown")
      ELSE IF OutOfOrder(Max(place), s) THEN Problem(s, "order")
      ELSE Section([s EXCEPT !.expected = Max(place) + 1], body, start)

\* The sections and the problems after each line.
SectionsAfter(body) ==
  LET after[i \in 0..Len(body)] ==
        IF i = 0 THEN NoSections
        ELSE LET s == after[i - 1]
             IN  IF body[i] \in Names THEN AddSection(s, body, i) ELSE s
  IN  after

CardSections(body) ==
  LET before == TextIn(body, 1, NextOf(body, HeadingLines, 1))
      levels == {k \in DOMAIN body : body[k] = "heading"}
      s      == SectionsAfter(body)[Len(body)]
  IN  [s EXCEPT !.problems = @
         \cup (IF levels # {} THEN {"level"} ELSE {})
         \cup (IF before # {} THEN {"text before"} ELSE {})
         \cup (IF s.found_tldr THEN {} ELSE {"missing"})]

-----------------------------------------------------------------------------
(* The rules: a TL;DR, then pitfalls if any, then questions if any. *)

AllOf(body, kinds, from, to) == \A k \in from..to : body[k] \in kinds

\* The TL;DR is at t, the pitfalls are at p if that is before d, and the
\* questions are from d on.
Follows(body) ==
  \E t \in DOMAIN body, p \in 1..(Len(body) + 1), d \in 1..(Len(body) + 1) :
    /\ t < p /\ p <= d
    /\ AllOf(body, {"blank"}, 1, t - 1)
    /\ body[t] = TLDR
    /\ AllOf(body, {"text", "blank"}, t + 1, p - 1)
    /\ Cardinality(TextIn(body, t + 1, p)) \in 1..TLDR_MAX_LINES
    /\ p < d => /\ body[p] = PITFALLS
                /\ AllOf(body, {"text", "blank"}, p + 1, d - 1)
                /\ TextIn(body, p + 1, d) # {}
    /\ d \in DOMAIN body =>
         /\ body[d] = DEEP_DIVE
         /\ \E q \in (d + 1)..Len(body) :
              /\ AllOf(body, {"blank"}, d + 1, q - 1)
              /\ body[q] = "question"
              /\ AllOf(body, {"question", "text", "blank"}, q + 1, Len(body))

\* The sections that the lines of text are in.
Kept(s) == s.tldr \cup s.pitfalls \cup UNION {q.text : q \in s.deep_dive}
Apart(s) ==
  /\ s.tldr \cap s.pitfalls = {}
  /\ \A q \in s.deep_dive : q.text \cap (s.tldr \cup s.pitfalls) = {}
  /\ \A q, r \in s.deep_dive : q # r => q.text \cap r.text = {}

\* The first heading.
HeadingFirst(body) ==
  LET first == NextOf(body, HeadingLines, 1)
  IN  IF first > Len(body) THEN "none" ELSE body[first]

(* ReadByTheRules: a body is accepted if and only if it follows the rules, *)
(* and then each line of its text is in one section, and one only.         *)
ReadByTheRules(body, s) ==
  /\ s.problems = {} <=> Follows(body)
  /\ s.problems = {} => Kept(s) = TextIn(body, 1, Len(body) + 1) /\ Apart(s)
=============================================================================
