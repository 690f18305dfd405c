------------------------------ MODULE Wrapping ------------------------------
(***************************************************************************)
(* How text is broken into lines: wrap (src/render/text.rs).               *)
(*                                                                         *)
(* Spans are a sequence of characters, each with its style and its link:   *)
(* spans of the same style and link make one anyway.  A line is a sequence *)
(* of them, each with its place in the text, and of the spaces put between *)
(* words; what it begins with is known by its width alone.                 *)
(***************************************************************************)
EXTENDS Naturals, Sequences, FiniteSetsExt

CONSTANT NoLink    \* a span without action

Look(c) == <<c.style, c.link>>
OfAWord(c) == c.style = "code" \/ ~c.blank

Placed(spans) ==
  [i \in DOMAIN spans |->
     [at |-> i, blank |-> spans[i].blank, style |-> spans[i].style, link |-> spans[i].link]]

\* The space between two words.
Space(link) == [at |-> 0, blank |-> TRUE, style |-> "plain", link |-> link]
IsSpace(c) == c.at = 0

-----------------------------------------------------------------------------

\* The places of the word that a place is in, with all code in it.
WordAt(spans, at) ==
  {k \in DOMAIN spans : \A j \in Min({k, at})..Max({k, at}) : OfAWord(spans[j])}
WordOf(spans, at) ==
  SubSeq(spans, Min(WordAt(spans, at)), Max(WordAt(spans, at)))

\* One look, and no code.
CanBeCut(word) == \A i \in DOMAIN word : Look(word[i]) = Look(word[1]) /\ word[i].style # "code"

\* split_long: a word that is wider than a line is cut.
IsCut(word, room) == Len(word) > room /\ CanBeCut(word)

\* words, each in its pieces: where the piece that a place is in begins.  Blanks
\* end a word, but not in code; a piece of a word that is cut ends when it is
\* as wide as a line.
PieceOf(spans, room) ==
  LET piece[i \in 0..Len(spans)] ==
        IF i = 0 \/ ~OfAWord(spans[i]) THEN 0
        ELSE LET before == piece[i - 1]
             IN  IF before = 0 \/ (i - before = room /\ IsCut(WordOf(spans, i), room))
                 THEN i ELSE before
  IN  piece

EndsPiece(spans, piece, i) ==
  OfAWord(spans[i]) /\ (i = Len(spans) \/ piece[i + 1] # piece[i])

\* trim_end: code that ends in a blank loses it.
TrimEnd(line) ==
  SubSeq(line, 1, Max({i \in DOMAIN line : ~line[i].blank} \cup {0}))

\* A word and the space before it, on a line that has words.
TooLongWithoutSpace(len, width, max) == len + width > max

TooLong(len, width, max) == len + 1 + width > max

\* What a line has room for.
RoomFor(rest, max) == IF max > rest THEN max - rest ELSE 1

\* A word is put on the line, or on the next one.  "prev" is the link of the
\* word before, which a space between the words of a link belongs to.
AddWord(s, word, rest, max) ==
  LET breaks == s.line # <<>> /\ TooLong(s.len, Len(word), max)
      line   == IF breaks THEN <<>> ELSE s.line
      len    == IF breaks THEN rest ELSE s.len
      link   == IF word[1].link = s.prev THEN s.prev ELSE NoLink
  IN  [lines |-> IF breaks THEN Append(s.lines, TrimEnd(s.line)) ELSE s.lines,
       line  |-> IF line = <<>> THEN word ELSE line \o <<Space(link)>> \o word,
       len   |-> len + Len(word) + (IF line = <<>> THEN 0 ELSE 1),
       prev  |-> word[Len(word)].link]

\* wrap: "first" and "rest" are how far the first line and the others begin
\* from the left.
NoWords(first) == [lines |-> <<>>, line |-> <<>>, len |-> first, prev |-> NoLink]

Wrap(spans, first, rest, max) ==
  LET piece == PieceOf(spans, RoomFor(rest, max))
      after[i \in 0..Len(spans)] ==
        IF i = 0 THEN NoWords(first)
        ELSE LET s == after[i - 1]
             IN  IF EndsPiece(spans, piece, i)
                 THEN AddWord(s, SubSeq(Placed(spans), piece[i], i), rest, max) ELSE s
      all == after[Len(spans)]
  IN  IF all.line = <<>> THEN all.lines ELSE Append(all.lines, TrimEnd(all.line))

-----------------------------------------------------------------------------
(* What is on the lines *)

\* Nothing is lost, and nothing stands before what it follows.
AllShown(spans, lines) ==
  /\ \A i \in DOMAIN spans : ~spans[i].blank =>
       \E n \in DOMAIN lines : \E k \in DOMAIN lines[n] : lines[n][k] = Placed(spans)[i]
  /\ \A n, m \in DOMAIN lines : \A k \in DOMAIN lines[n], l \in DOMAIN lines[m] :
       (n < m \/ (n = m /\ k < l)) /\ ~IsSpace(lines[n][k]) /\ ~IsSpace(lines[m][l]) =>
         lines[n][k].at < lines[m][l].at

\* What is on a line is of the text, or a space between two words of it; two
\* characters next to each other are so in the text.
LineFollows(spans, line) ==
  /\ \A i \in DOMAIN line :
       IF IsSpace(line[i])
       THEN /\ i - 1 \in DOMAIN line /\ i + 1 \in DOMAIN line
            /\ ~IsSpace(line[i - 1]) /\ ~IsSpace(line[i + 1])
            /\ line[i + 1].at \notin WordAt(spans, line[i - 1].at)
            /\ line[i] = Space(IF line[i - 1].link = line[i + 1].link
                              THEN line[i + 1].link ELSE NoLink)
       ELSE line[i].at \in DOMAIN spans /\ line[i] = Placed(spans)[line[i].at]
  /\ \A i \in 1..(Len(line) - 1) :
       ~IsSpace(line[i]) /\ ~IsSpace(line[i + 1]) => line[i + 1].at = line[i].at + 1

\* A line that ends with a and is followed by one that begins with b ends a
\* word, or cuts one that no line has room for.
BreaksRightly(spans, a, b, room) ==
  \/ b.at \notin WordAt(spans, a.at)
  \/ LET word == WordOf(spans, a.at)
     IN  b.at = a.at + 1 /\ IsCut(word, room)

\* A line is in the width, or has one word that cannot be in it.
FitsOrMust(spans, line, from, room, max) ==
  \/ from + Len(line) <= max
  \/ /\ \A i \in DOMAIN line : ~IsSpace(line[i])
     /\ Len(line) <= room \/ ~CanBeCut(WordOf(spans, line[1].at))

\* A line ends where the next word, or the piece of it that goes on a line, has
\* no room on it (said of code without blanks, which are lost at the end of a
\* line, and of the first piece of a word).
BreaksLate(spans, line, b, from, room, max) ==
  LET word == WordOf(spans, b.at)
      next == IF CanBeCut(word) THEN Min({Len(word), room}) ELSE Len(word)
  IN  \/ from + Len(line) + 1 + next > max
      \/ b.at \in WordAt(spans, line[Len(line)].at)
      \/ \E i \in DOMAIN spans : spans[i].blank /\ OfAWord(spans[i])

(* Wrapped: nothing is lost and nothing moved; code is never broken, nor *)
(* any word that could be on one line; no line is wider than there is    *)
(* room, but for a word that may not be cut; spaces in a link belong to  *)
(* it; and no word is on the next line that this one had room for (said  *)
(* of code without blanks, which are lost at the end of a line).         *)
Wrapped(spans, first, rest, max, lines) ==
  LET room    == RoomFor(rest, max)
      From(n) == IF n = 1 THEN first ELSE rest
      shown   == {n \in DOMAIN lines : lines[n] # <<>>}
  IN  /\ AllShown(spans, lines)
      /\ \A n \in shown :
           /\ LineFollows(spans, lines[n])
           /\ FitsOrMust(spans, lines[n], From(n), room, max)
      /\ \A n \in shown : n + 1 \in shown =>
           /\ BreaksRightly(spans, lines[n][Len(lines[n])], lines[n + 1][1], room)
           /\ BreaksLate(spans, lines[n], lines[n + 1][1], From(n), room, max)
=============================================================================
