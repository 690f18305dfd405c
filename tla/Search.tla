------------------------------- MODULE Search -------------------------------
(***************************************************************************)
(* Full-text search (src/search.rs).                                       *)
(*                                                                         *)
(* A page is a sequence of fields in the order of the code, each with its  *)
(* weight and its lines; a line is a sequence of words.  A hit is the      *)
(* number of a page in the contents, its score and the line of its         *)
(* snippet, which the code then cleans and shortens.                       *)
(***************************************************************************)
EXTENDS Closest

CONSTANT NoLine    \* Option::None

TITLE == 10
KEYS == 8
REFS == 4
TextWeights == {3, 2, 1}   \* TLDR, PITFALLS, DEEP

Word == Seq(STRING)
WordLine == Seq(Word)
SearchField == [weight : {TITLE, KEYS, REFS} \cup TextWeights, lines : Seq(WordLine)]

WordsOf(field) == UNION {{line[i] : i \in DOMAIN line} : line \in {field.lines[n] : n \in DOMAIN field.lines}}

\* term_score: 2 for a whole word, 1 for its beginning or a typo.
TermScore(term, found) ==
  IF term \in found THEN 2
  ELSE IF \E w \in found : \/ Len(term) >= 3 /\ IsPrefix(term, w)
                           \/ Len(term) >= 5 /\ Distance(term, w) <= 1
  THEN 1 ELSE 0

\* The best field of a word.
Best(term, page) ==
  Max({page[f].weight * TermScore(term, WordsOf(page[f])) : f \in DOMAIN page})

Matched(terms, page) == Cardinality({t \in DOMAIN terms : Best(terms[t], page) > 0})

\* The sum of Best over the words: for each word so many.
Score(terms, page) ==
  Cardinality(UNION {{t} \X (1..Best(terms[t], page)) : t \in DOMAIN terms})

MatchesLine(terms, line) ==
  \E t \in DOMAIN terms : TermScore(terms[t], {line[i] : i \in DOMAIN line}) > 0

\* The lines under the title and the keys, by field and line.
Body(page) ==
  UNION {{f} \X (DOMAIN page[f].lines) : f \in {g \in DOMAIN page : page[g].weight < KEYS}}
LineAt(page, x) == page[x[1]].lines[x[2]]

\* The text first, the weightiest first, and then commands and paths.
Weightier(page, f, g) ==
  LET refs(h) == page[h].weight = REFS
  IN  \/ ~refs(f) /\ refs(g)
      \/ /\ refs(f) = refs(g)
         /\ \/ page[f].weight > page[g].weight
            \/ page[f].weight = page[g].weight /\ f < g
Precedes(page, x, y) == Weightier(page, x[1], y[1]) \/ (x[1] = y[1] /\ x[2] < y[2])

\* snippet: the first line that matches.
Snippet(terms, page) ==
  LET found == {x \in Body(page) : MatchesLine(terms, LineAt(page, x))}
  IN  IF found = {} THEN NoLine
      ELSE LineAt(page, First(found, LAMBDA x, y : Precedes(page, x, y)))

HitOn(pages, terms, p) ==
  [page    |-> p,
   matched |-> Matched(terms, pages[p]),
   score   |-> Score(terms, pages[p]),
   snippet |-> Snippet(terms, pages[p])]
Hits(pages, terms) ==
  {HitOn(pages, terms, p) : p \in {q \in DOMAIN pages : Matched(terms, pages[q]) > 0}}

\* The order of the hits: the words matched, the score, the contents.
BeforeByScore(h, g) == h.score > g.score \/ (h.score = g.score /\ h.page < g.page)
Before(h, g) ==
  \/ h.matched > g.matched
  \/ h.matched = g.matched /\ (h.score > g.score \/ (h.score = g.score /\ h.page < g.page))

\* search: the hits, best first, and at most so many.
Search(pages, terms, limit) ==
  LET sorted == Sorted(Hits(pages, terms), Before)
  IN  IF terms = <<>> THEN <<>> ELSE [n \in 1..Min({limit, Len(sorted)}) |-> sorted[n]]

-----------------------------------------------------------------------------

\* The words of a query that a page has as they are.
Whole(terms, page) ==
  {t \in DOMAIN terms : \E f \in DOMAIN page : terms[t] \in WordsOf(page[f])}

\* The lines of the fields of these weights.
LinesOf(page, weights) ==
  UNION {{page[f].lines[l] : l \in DOMAIN page[f].lines} :
           f \in {g \in DOMAIN page : page[g].weight \in weights}}

(* SnippetSays: it matches; without one the page matched by its title or    *)
(* its keys only, and with a command or a path it matched nowhere in its    *)
(* text.                                                                    *)
SnippetSays(terms, page, snippet) ==
  LET text == LinesOf(page, TextWeights)
      refs == LinesOf(page, {REFS})
  IN  /\ snippet # NoLine => snippet \in text \cup refs /\ MatchesLine(terms, snippet)
      /\ snippet \notin text => \A line \in text : ~MatchesLine(terms, line)
      /\ snippet = NoLine => \A line \in refs : ~MatchesLine(terms, line)

(* BestShown: a page that has all the words of the query is among the hits, *)
(* unless the list is full of such pages; a hit before another one matches  *)
(* no fewer of the words, and of two with the same words and the same score *)
(* the first of the contents is first.                                      *)
BestShown(pages, terms, limit, hits) ==
  LET shown == {hits[n].page : n \in DOMAIN hits}
      All(p) == Whole(terms, pages[p]) = DOMAIN terms
  IN  /\ Len(hits) <= limit /\ Cardinality(shown) = Len(hits)
      /\ terms # <<>> =>
           \A p \in DOMAIN pages \ shown : All(p) =>
             /\ Len(hits) = limit
             /\ \A q \in shown : Matched(terms, pages[q]) = Len(terms)
      /\ \A m, n \in DOMAIN hits : m < n =>
           LET p == hits[m].page  q == hits[n].page
           IN  /\ Cardinality(Whole(terms, pages[q])) <= Matched(terms, pages[p])
               /\ (Matched(terms, pages[p]) = Matched(terms, pages[q])
                     /\ hits[m].score = hits[n].score) => p < q
      /\ \A n \in DOMAIN hits : SnippetSays(terms, pages[hits[n].page], hits[n].snippet)
=============================================================================
