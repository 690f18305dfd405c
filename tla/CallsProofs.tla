--------------------------- MODULE CallsProofs ---------------------------
(***************************************************************************)
(* What a search shows, what a query that opens no page suggests, what of  *)
(* a prompt is hidden, how text is broken into lines, which cards are      *)
(* accepted, which file a probe reads and which settings sshd takes,       *)
(* proved for any pages, words, limit, text, names, widths, bodies, trees  *)
(* and files.                                                              *)
(***************************************************************************)
EXTENDS Calls, DataProofs

-----------------------------------------------------------------------------
(* Scores *)

SearchPage == Seq(SearchField) \ {<<>>}

LEMMA TermScores ==
  ASSUME NEW term, NEW found
  PROVE  /\ TermScore(term, found) \in {0, 1, 2}
         /\ term \in found => TermScore(term, found) = 2
BY DEF TermScore

\* The best field of a word; a field that has it whole makes it count.
LEMMA BestScores ==
  ASSUME NEW term, NEW page \in SearchPage
  PROVE  /\ Best(term, page) \in 0..2 * TITLE
         /\ (\E f \in DOMAIN page : term \in WordsOf(page[f])) => Best(term, page) > 0
<1> DEFINE score(f) == page[f].weight * TermScore(term, WordsOf(page[f]))
           S == {score(f) : f \in DOMAIN page}
<1>1. \A f \in DOMAIN page : page[f].weight \in {10, 8, 4, 3, 2, 1}
  <2>1. \A f \in DOMAIN page : page[f] \in SearchField
    BY DEF SearchPage
  <2>2. \A field \in SearchField : field.weight \in {10, 8, 4, 3, 2, 1}
    BY DEF SearchField, TITLE, KEYS, REFS, TextWeights
  <2> QED
    BY <2>1, <2>2
<1>2. \A f \in DOMAIN page : TermScore(term, WordsOf(page[f])) \in {0, 1, 2}
  BY TermScores
<1>3. \A f \in DOMAIN page : score(f) \in 0..20
  BY <1>1, <1>2
<1>4. S \subseteq 0..20 /\ S # {}
  <2>1. DOMAIN page # {}
    <3>1. page \in Seq(SearchField) /\ page # <<>>
      BY DEF SearchPage
    <3>2. Len(page) \in Nat \ {0}
      BY <3>1, EmptySeq
    <3> HIDE DEF S, score
    <3>3. DOMAIN page = 1..Len(page)
      BY <3>1
    <3>4. 1 \in 1..Len(page)
      BY <3>2
    <3> QED
      BY <3>3, <3>4
  <2> HIDE DEF score
  <2> QED
    BY <1>3, <2>1
<1>5. IsFiniteSet(S)
  <2>1. IsFiniteSet(0..20)
    <3>1. 0 \in Int /\ 20 \in Int
      OBVIOUS
    <3> HIDE DEF S, score
    <3> QED
      BY <3>1, FS_Interval
  <2> HIDE DEF S
  <2> QED
    BY <1>4, <2>1, FS_Subset
<1>6. Max(S) \in S /\ \A x \in S : x <= Max(S)
  <2> HIDE DEF S
  <2>1. S \subseteq Nat
    BY <1>4
  <2> QED
    BY <1>4, <1>5, <2>1, MaxOf
<1>7. Best(term, page) = Max(S)
  BY DEF Best
<1>8. \A f \in DOMAIN page : term \in WordsOf(page[f]) => score(f) > 0
  BY <1>1, TermScores
<1> HIDE DEF score
<1>9. \A f \in DOMAIN page : score(f) \in S
  OBVIOUS
<1> HIDE DEF S
<1>10. Max(S) \in 0..20
  BY <1>4, <1>6
<1>11. ASSUME NEW f \in DOMAIN page, term \in WordsOf(page[f]) PROVE Max(S) > 0
  <2>1. score(f) \in 0..20 /\ score(f) > 0 /\ score(f) <= Max(S)
    BY <1>3, <1>6, <1>8, <1>9, <1>11
  <2> QED
    BY <1>10, <2>1
<1> QED
  BY <1>7, <1>10, <1>11 DEF TITLE

\* How many of the words a page has, and the sum of their scores.
LEMMA MatchesAndScores ==
  ASSUME NEW terms \in Seq(Word), NEW page \in SearchPage
  PROVE  /\ Matched(terms, page) \in 0..Len(terms)
         /\ Score(terms, page) \in Nat
         /\ Cardinality(Whole(terms, page)) <= Matched(terms, page)
         /\ Whole(terms, page) = DOMAIN terms => Matched(terms, page) = Len(terms)
<1> DEFINE D == 1..Len(terms)
           best(t) == Best(terms[t], page)
           M == {t \in D : best(t) > 0}
           W == {t \in D : \E f \in DOMAIN page : terms[t] \in WordsOf(page[f])}
           P == UNION {{t} \X (1..best(t)) : t \in D}
<1>1. DOMAIN terms = D /\ Len(terms) \in Nat
  OBVIOUS
<1>2. IsFiniteSet(D) /\ Cardinality(D) = Len(terms)
  BY <1>1, FS_Interval
<1>3. Matched(terms, page) = Cardinality(M) /\ Whole(terms, page) = W
  BY <1>1 DEF Matched, Whole
<1>4. \A t \in D : best(t) \in 0..2 * TITLE
  BY BestScores
<1>5. W \subseteq M
  BY BestScores
<1>6. IsFiniteSet(M) /\ Cardinality(M) <= Len(terms) /\ Cardinality(M) \in Nat
  <2>1. M \subseteq D
    OBVIOUS
  <2> HIDE DEF M, D
  <2> QED
    BY <1>2, <2>1, FS_Subset, FS_CardinalityType
<1>7. Cardinality(W) <= Cardinality(M)
  <2> HIDE DEF W, M
  <2> QED
    BY <1>5, <1>6, FS_Subset
<1>8. IsFiniteSet(P)
  <2>1. P \subseteq D \X (1..2 * TITLE)
    <3> HIDE DEF best, D
    <3> SUFFICES ASSUME NEW t \in D, NEW k \in 1..best(t) PROVE k \in 1..2 * TITLE
      BY DEF P
    <3> QED
      BY <1>4 DEF TITLE
  <2>2. IsFiniteSet(D \X (1..2 * TITLE))
    <3>1. IsFiniteSet(1..2 * TITLE)
      <4>1. 1 \in Int /\ 2 * TITLE \in Int
        BY DEF TITLE
      <4> HIDE DEF P, M, W
      <4> QED
        BY <4>1, FS_Interval
    <3> QED
      BY <1>2, <3>1, FS_Product
  <2> HIDE DEF P
  <2> QED
    BY <2>1, <2>2, FS_Subset
<1>9. Score(terms, page) \in Nat
  <2>1. Score(terms, page) = Cardinality(P)
    BY <1>1 DEF Score
  <2> HIDE DEF P
  <2> QED
    BY <1>8, <2>1, FS_CardinalityType
<1>10. W = D => M = D
  BY <1>5
<1> HIDE DEF M, W, D
<1> QED
  BY <1>1, <1>2, <1>3, <1>6, <1>7, <1>9, <1>10

-----------------------------------------------------------------------------
(* Snippets *)

LEMMA FieldTypes ==
  ASSUME NEW page \in SearchPage
  PROVE  /\ \A f \in DOMAIN page :
              /\ f \in Nat /\ page[f].weight \in {TITLE, KEYS, REFS} \cup TextWeights
              /\ page[f].lines \in Seq(WordLine)
         /\ IsFiniteSet(DOMAIN page)
<1>1. page \in Seq(SearchField)
  BY DEF SearchPage
<1>2. \A f \in DOMAIN page : f \in Nat /\ page[f] \in SearchField
  BY <1>1
<1>3. \A field \in SearchField :
        field.weight \in {TITLE, KEYS, REFS} \cup TextWeights /\ field.lines \in Seq(WordLine)
  BY DEF SearchField
<1>4. IsFiniteSet(DOMAIN page)
  <2>1. DOMAIN page = 1..Len(page) /\ Len(page) \in Int /\ 1 \in Int
    BY <1>1
  <2> QED
    BY <2>1, FS_Interval
<1> QED
  BY <1>2, <1>3, <1>4

LEMMA BodyIsFinite ==
  ASSUME NEW page \in SearchPage
  PROVE  IsFiniteSet(Body(page))
<1> DEFINE F == {g \in DOMAIN page : page[g].weight < KEYS}
           of == [f \in F |-> {f} \X DOMAIN page[f].lines]
           S == {of[f] : f \in F}
<1>1. IsFiniteSet(F)
  BY FieldTypes, FS_Subset
<1>2. IsFiniteSet(S)
  <2>1. of \in [F -> S]
    OBVIOUS
  <2> HIDE DEF F, of
  <2>2. \A T : of \in [F -> T] => IsFiniteSet({of[f] : f \in F})
    BY <1>1, FiniteImage
  <2> QED
    BY <2>1, <2>2
<1>3. ASSUME NEW f \in F PROVE IsFiniteSet(of[f])
  <2>1. page[f].lines \in Seq(WordLine)
    BY FieldTypes
  <2>2. DOMAIN page[f].lines = 1..Len(page[f].lines) /\ Len(page[f].lines) \in Int /\ 1 \in Int
    BY <2>1
  <2>3. IsFiniteSet(DOMAIN page[f].lines)
    BY <2>2, FS_Interval
  <2>4. of[f] = {f} \X DOMAIN page[f].lines
    OBVIOUS
  <2> QED
    BY <2>3, <2>4, FS_Singleton, FS_Product
<1>4. Body(page) = UNION S
  BY DEF Body
<1> HIDE DEF F, of
<1>5. \A T \in S : IsFiniteSet(T)
  BY <1>3
<1> HIDE DEF S
<1> QED
  BY <1>2, <1>4, <1>5, FS_UNION

\* The order in which lines are looked for is one.
LEMMA BodyOrdered ==
  ASSUME NEW page \in SearchPage, NEW I, I \subseteq Body(page)
  PROVE  Orders({r \in I \X I : Precedes(page, r[1], r[2])}, I)
<1> DEFINE R == {r \in I \X I : Precedes(page, r[1], r[2])}
<1>1. \A x, y \in I : <<x, y>> \in R <=> Precedes(page, x, y)
  OBVIOUS
<1>2. \A x \in I : /\ x = <<x[1], x[2]>> /\ x[1] \in DOMAIN page
                   /\ x[1] \in Nat /\ x[2] \in Nat
  <2> SUFFICES ASSUME NEW x \in I
               PROVE  /\ x = <<x[1], x[2]>> /\ x[1] \in DOMAIN page
                      /\ x[1] \in Nat /\ x[2] \in Nat
    OBVIOUS
  <2>1. PICK f \in DOMAIN page : x \in {f} \X DOMAIN page[f].lines
    BY DEF Body
  <2>2. f \in Nat /\ page[f].lines \in Seq(WordLine)
    BY FieldTypes
  <2>3. \A l \in DOMAIN page[f].lines : l \in Nat
    BY <2>2
  <2> QED
    BY <2>1, <2>2, <2>3
<1>3. \A f \in DOMAIN page : page[f].weight \in Nat
  BY FieldTypes DEF TITLE, KEYS, REFS, TextWeights
<1>4. \A f \in DOMAIN page : ~Weightier(page, f, f)
  BY <1>3, FieldTypes DEF Weightier
<1>5. \A f, g \in DOMAIN page : f = g \/ Weightier(page, f, g) \/ Weightier(page, g, f)
  BY <1>3, FieldTypes DEF Weightier
<1>6. \A f, g, h \in DOMAIN page :
        Weightier(page, f, g) /\ Weightier(page, g, h) => Weightier(page, f, h)
  BY <1>3, FieldTypes DEF Weightier
<1> HIDE DEF R
<1>7. \A x \in I : <<x, x>> \notin R
  BY <1>1, <1>2, <1>4 DEF Precedes
<1>8. \A x, y \in I : x = y \/ <<x, y>> \in R \/ <<y, x>> \in R
  <2> SUFFICES ASSUME NEW x \in I, NEW y \in I, ~Precedes(page, x, y), ~Precedes(page, y, x)
               PROVE  x = y
    BY <1>1
  <2>1. x[1] = y[1]
    BY <1>2, <1>5 DEF Precedes
  <2>2. x[2] = y[2]
    BY <1>2, <2>1 DEF Precedes
  <2> QED
    BY <1>2, <2>1, <2>2
<1>9. \A x, y, z \in I : <<x, y>> \in R /\ <<y, z>> \in R => <<x, z>> \in R
  BY <1>1, <1>2, <1>6 DEF Precedes
<1> QED
  BY <1>7, <1>8, <1>9 DEF Orders, R

\* The lines that are looked through are those of the text, of commands and paths.
LEMMA BodyLines ==
  ASSUME NEW page \in SearchPage
  PROVE  /\ \A x \in Body(page) :
              LineAt(page, x) \in LinesOf(page, TextWeights) \cup LinesOf(page, {REFS})
         /\ \A line \in LinesOf(page, TextWeights) :
              \E x \in Body(page) : LineAt(page, x) = line /\ page[x[1]].weight \in TextWeights
         /\ \A line \in LinesOf(page, {REFS}) : \E x \in Body(page) : LineAt(page, x) = line
         /\ \A x \in Body(page) : page[x[1]].weight \in TextWeights =>
              LineAt(page, x) \in LinesOf(page, TextWeights)
<1>1. \A f \in DOMAIN page :
        page[f].weight < KEYS <=> page[f].weight \in TextWeights \cup {REFS}
  BY FieldTypes DEF TITLE, KEYS, REFS, TextWeights
<1>2. \A x \in Body(page) : /\ x[1] \in DOMAIN page /\ x[2] \in DOMAIN page[x[1]].lines
                            /\ page[x[1]].weight < KEYS
  BY DEF Body
<1>3. ASSUME NEW x \in Body(page), NEW weights, page[x[1]].weight \in weights
      PROVE  LineAt(page, x) \in LinesOf(page, weights)
  BY <1>2, <1>3 DEF LineAt, LinesOf
<1>4. ASSUME NEW weights, weights \subseteq TextWeights \cup {REFS},
             NEW line \in LinesOf(page, weights)
      PROVE  \E x \in Body(page) : LineAt(page, x) = line /\ page[x[1]].weight \in weights
  <2>1. PICK f \in DOMAIN page :
          page[f].weight \in weights /\ \E l \in DOMAIN page[f].lines : line = page[f].lines[l]
    BY DEF LinesOf
  <2>2. PICK l \in DOMAIN page[f].lines : line = page[f].lines[l]
    BY <2>1
  <2>3. page[f].weight < KEYS
    BY <1>1, <1>4, <2>1
  <2>4. <<f, l>> \in Body(page)
    BY <2>2, <2>3 DEF Body
  <2> QED
    BY <2>1, <2>2, <2>4 DEF LineAt
<1>5. \A x \in Body(page) : page[x[1]].weight \in TextWeights \/ page[x[1]].weight \in {REFS}
  BY <1>1, <1>2
<1>6. \A line \in LinesOf(page, TextWeights) :
        \E x \in Body(page) : LineAt(page, x) = line /\ page[x[1]].weight \in TextWeights
  BY <1>4
<1>7. \A line \in LinesOf(page, {REFS}) : \E x \in Body(page) : LineAt(page, x) = line
  BY <1>4
<1> QED
  BY <1>3, <1>5, <1>6, <1>7

LEMMA SnippetIsRight ==
  ASSUME NEW terms, NEW page \in SearchPage
  PROVE  SnippetSays(terms, page, Snippet(terms, page))
<1> DEFINE found == {x \in Body(page) : MatchesLine(terms, LineAt(page, x))}
           R == {r \in found \X found : Precedes(page, r[1], r[2])}
           Leads(x) == \A y \in found \ {x} : Precedes(page, x, y)
           first == First(found, LAMBDA x, y : Precedes(page, x, y))
           text == LinesOf(page, TextWeights)
           refs == LinesOf(page, {REFS})
<1>1. CASE found = {}
  <2>1. Snippet(terms, page) = NoLine
    BY <1>1 DEF Snippet
  <2>2. \A x \in Body(page) : ~MatchesLine(terms, LineAt(page, x))
    BY <1>1
  <2>3. \A line \in text \cup refs : ~MatchesLine(terms, line)
    BY <2>2, BodyLines
  <2> QED
    BY <2>1, <2>3 DEF SnippetSays
<1>2. CASE found # {}
  <2>1. first \in found /\ Leads(first)
    <3>1. IsFiniteSet(found) /\ found \subseteq Body(page)
      <4>1. found \subseteq Body(page)
        OBVIOUS
      <4> HIDE DEF found
      <4> QED
        BY <4>1, BodyIsFinite, FS_Subset
    <3>2. Orders(R, found)
      <4> HIDE DEF found
      <4> QED
        BY <3>1, BodyOrdered
    <3>3. PICK m \in found : \A x \in found \ {m} : <<m, x>> \in R
      <4> HIDE DEF R, found
      <4> QED
        BY <1>2, <3>1, <3>2, FirstExists
    <3>4. Leads(m)
      <4>1. \A x, y : <<x, y>> \in R => Precedes(page, x, y)
        OBVIOUS
      <4> HIDE DEF R, found
      <4> QED
        BY <3>3, <4>1
    <3> HIDE DEF found
    <3>5. \E x \in found : Leads(x)
      BY <3>4
    <3> QED
      BY <3>5 DEF First
  <2>2. Snippet(terms, page) = LineAt(page, first)
    BY <1>2 DEF Snippet
  <2> HIDE DEF first
  <2>3. first \in Body(page) /\ MatchesLine(terms, LineAt(page, first))
    BY <2>1
  <2>4. LineAt(page, first) \in text \cup refs
    BY <2>3, BodyLines
  <2>5. LineAt(page, first) # NoLine
    <3>1. PICK f \in DOMAIN page : \E l \in DOMAIN page[f].lines :
                                     LineAt(page, first) = page[f].lines[l]
      BY <2>4 DEF LinesOf
    <3>2. page[f].lines \in Seq(WordLine)
      BY FieldTypes
    <3>3. LineAt(page, first) \in WordLine
      BY <3>1, <3>2
    <3> QED
      BY <3>3, SearchesAssumption
  <2>6. ASSUME NEW line \in text, MatchesLine(terms, line)
        PROVE  LineAt(page, first) \in text
    <3>1. PICK x \in Body(page) : LineAt(page, x) = line /\ page[x[1]].weight \in TextWeights
      BY BodyLines
    <3>2. x \in found
      BY <2>6, <3>1
    <3>3. first = x \/ Precedes(page, first, x)
      BY <2>1, <3>2
    <3>4. page[first[1]].weight \in TextWeights
      <4>1. CASE first = x \/ first[1] = x[1]
        BY <3>1, <4>1
      <4>2. CASE Weightier(page, first[1], x[1])
        <5>1. page[x[1]].weight # REFS
          BY <3>1 DEF TextWeights, REFS
        <5>2. page[first[1]].weight # REFS
          BY <4>2, <5>1 DEF Weightier
        <5>3. first[1] \in DOMAIN page /\ page[first[1]].weight < KEYS
          BY <2>3 DEF Body
        <5> QED
          BY <5>2, <5>3, FieldTypes DEF TITLE, KEYS, REFS, TextWeights
      <4> QED
        BY <3>3, <4>1, <4>2 DEF Precedes
    <3> QED
      BY <2>3, <3>4, BodyLines
  <2> QED
    BY <2>2, <2>3, <2>4, <2>5, <2>6 DEF SnippetSays
<1> QED
  BY <1>1, <1>2

-----------------------------------------------------------------------------
(* Hits *)

LEMMA HitTypes ==
  ASSUME NEW pages \in Seq(SearchPage), NEW terms \in Seq(Word)
  PROVE  /\ \A h \in Hits(pages, terms) :
              /\ h.page \in DOMAIN pages /\ h.page \in Nat
              /\ h.matched \in Nat /\ h.score \in Nat
              /\ h = HitOn(pages, terms, h.page)
              /\ Matched(terms, pages[h.page]) > 0
         /\ \A p \in DOMAIN pages :
              Matched(terms, pages[p]) > 0 =>
                HitOn(pages, terms, p) \in Hits(pages, terms) /\ HitOn(pages, terms, p).page = p
         /\ IsFiniteSet(Hits(pages, terms))
<1>1. ASSUME NEW p \in DOMAIN pages
      PROVE  /\ p \in Nat /\ pages[p] \in SearchPage
             /\ HitOn(pages, terms, p).page = p
             /\ HitOn(pages, terms, p).matched = Matched(terms, pages[p])
             /\ HitOn(pages, terms, p).score = Score(terms, pages[p])
  BY DEF HitOn
<1>2. ASSUME NEW p \in DOMAIN pages
      PROVE  Matched(terms, pages[p]) \in Nat /\ Score(terms, pages[p]) \in Nat
  <2>1. pages[p] \in SearchPage
    BY <1>1
  <2>2. Matched(terms, pages[p]) \in 0..Len(terms) /\ Score(terms, pages[p]) \in Nat
    BY <2>1, MatchesAndScores
  <2> QED
    BY <2>2
<1>3. ASSUME NEW h \in Hits(pages, terms)
      PROVE  /\ h.page \in DOMAIN pages /\ h.page \in Nat
             /\ h.matched \in Nat /\ h.score \in Nat
             /\ h = HitOn(pages, terms, h.page)
             /\ Matched(terms, pages[h.page]) > 0
  <2>1. PICK p \in DOMAIN pages : Matched(terms, pages[p]) > 0 /\ h = HitOn(pages, terms, p)
    BY DEF Hits
  <2>2. h.page = p
    BY <1>1, <2>1
  <2> QED
    BY <1>1, <1>2, <2>1, <2>2
<1>4. \A p \in DOMAIN pages :
        Matched(terms, pages[p]) > 0 => HitOn(pages, terms, p) \in Hits(pages, terms)
  BY DEF Hits
<1>5. IsFiniteSet(Hits(pages, terms))
  <2> DEFINE P == {q \in DOMAIN pages : Matched(terms, pages[q]) > 0}
             f == [p \in P |-> HitOn(pages, terms, p)]
             T == {f[p] : p \in P}
  <2>1. IsFiniteSet(P)
    <3>1. DOMAIN pages = 1..Len(pages) /\ Len(pages) \in Int /\ 1 \in Int
      OBVIOUS
    <3>2. IsFiniteSet(DOMAIN pages)
      BY <3>1, FS_Interval
    <3> QED
      BY <3>2, FS_Subset
  <2>2. f \in [P -> T]
    OBVIOUS
  <2>3. Hits(pages, terms) = T
    BY DEF Hits
  <2> HIDE DEF P, f
  <2>4. \A S : f \in [P -> S] => IsFiniteSet({f[p] : p \in P})
    BY <2>1, FiniteImage
  <2> QED
    BY <2>2, <2>3, <2>4
<1> QED
  BY <1>1, <1>3, <1>4, <1>5

\* Sorted: each hit once, and each before those that are worse.
LEMMA HitsSorted ==
  ASSUME NEW pages \in Seq(SearchPage), NEW terms \in Seq(Word)
  PROVE  LET I == Hits(pages, terms)
             s == Sorted(I, Before)
         IN  /\ s \in [1..Cardinality(I) -> I] /\ Cardinality(I) \in Nat
             /\ \A i, j \in 1..Cardinality(I) : i < j => Before(s[i], s[j])
             /\ \A h \in I : \E k \in 1..Cardinality(I) : s[k] = h
<1> DEFINE I == Hits(pages, terms)
           R == {r \in I \X I : Before(r[1], r[2])}
           n == Cardinality(I)
           Good(s) == \A i, j \in DOMAIN s : i < j => Before(s[i], s[j])
           sorted == Sorted(I, Before)
<1>1. /\ \A h \in I : h.page \in Nat /\ h.matched \in Nat /\ h.score \in Nat
      /\ \A h, g \in I : h.page = g.page => h = g
  <2>1. \A h \in I : h.page \in Nat /\ h.matched \in Nat /\ h.score \in Nat
                     /\ h = HitOn(pages, terms, h.page)
    BY HitTypes
  <2> HIDE DEF I
  <2> QED
    BY <2>1
<1>2. IsFiniteSet(I) /\ n \in Nat
  BY HitTypes, FS_CardinalityType
<1>3. Orders(R, I)
  <2>1. \A h, g : <<h, g>> \in R <=> h \in I /\ g \in I /\ Before(h, g)
    OBVIOUS
  <2>2. \A h \in I : ~Before(h, h)
    BY <1>1 DEF Before
  <2>3. \A h, g \in I : h = g \/ Before(h, g) \/ Before(g, h)
    BY <1>1 DEF Before
  <2>4. \A h, g, k \in I : Before(h, g) /\ Before(g, k) => Before(h, k)
    BY <1>1 DEF Before
  <2> HIDE DEF R, I
  <2> QED
    BY <2>1, <2>2, <2>3, <2>4 DEF Orders
<1>4. PICK s : Enumerates(s, R, I)
  BY <1>2, <1>3, SortedExists
<1>5. s \in [1..n -> I] /\ Good(s)
  <2>1. s \in [1..n -> I] /\ \A i, j \in 1..n : i < j => <<s[i], s[j]>> \in R
    BY <1>4 DEF Enumerates
  <2>2. \A h, g : <<h, g>> \in R => Before(h, g)
    OBVIOUS
  <2> HIDE DEF R, n
  <2> QED
    BY <2>1, <2>2
<1>6. sorted \in [1..n -> I] /\ Good(sorted)
  <2>1. \E f \in [1..n -> I] : Good(f)
    BY <1>5
  <2> HIDE DEF I
  <2> QED
    BY <2>1 DEF Sorted
<1> HIDE DEF sorted
<1>7. \A i, j \in 1..n : i < j => Before(sorted[i], sorted[j])
  BY <1>6
<1>8. \A i, j \in 1..n : i < j => sorted[i] # sorted[j]
  <2>1. \A h \in I : ~Before(h, h)
    BY <1>1 DEF Before
  <2> HIDE DEF I, n
  <2> QED
    BY <1>6, <1>7, <2>1
<1>9. \A h \in I : \E k \in 1..n : sorted[k] = h
  <2> HIDE DEF I
  <2> QED
    BY <1>2, <1>6, <1>8, EnumeratesEach
<1> QED
  BY <1>2, <1>6, <1>7, <1>9 DEF sorted

LEMMA SearchIsRight ==
  ASSUME NEW pages \in Seq(SearchPage), NEW terms \in Seq(Word), NEW limit \in Nat
  PROVE  BestShown(pages, terms, limit, Search(pages, terms, limit))
<1> DEFINE I == Hits(pages, terms)
           n == Cardinality(I)
           s == Sorted(I, Before)
           m == IF limit < n THEN limit ELSE n
           hits == [k \in 1..m |-> s[k]]
           matched(p) == Matched(terms, pages[p])
           whole(p) == Whole(terms, pages[p])
           shown == {hits[k].page : k \in DOMAIN hits}
<1>1. CASE terms = <<>>
  <2>1. Search(pages, terms, limit) = <<>>
    BY <1>1 DEF Search
  <2> DEFINE none == <<>>
  <2>2. Len(none) = 0 /\ DOMAIN none = {}
    OBVIOUS
  <2> HIDE DEF none
  <2>3. {none[k].page : k \in DOMAIN none} = {}
    BY <2>2
  <2>4. Cardinality({none[k].page : k \in DOMAIN none}) = 0
    BY <2>3, FS_EmptySet
  <2>5. BestShown(pages, terms, limit, none)
    BY <1>1, <2>2, <2>4 DEF BestShown
  <2> QED
    BY <2>1, <2>5 DEF none
<1>2. CASE terms # <<>>
  <2>1. /\ s \in [1..n -> I] /\ n \in Nat
        /\ \A i, j \in 1..n : i < j => Before(s[i], s[j])
        /\ \A h \in I : \E k \in 1..n : s[k] = h
    BY HitsSorted
  <2>2. /\ \A h \in I : /\ h.page \in DOMAIN pages /\ h.page \in Nat
                        /\ h.matched = matched(h.page) /\ h.score \in Nat
                        /\ h.snippet = Snippet(terms, pages[h.page])
                        /\ h.matched \in 0..Len(terms) /\ matched(h.page) > 0
        /\ \A p \in DOMAIN pages : matched(p) > 0 => \E h \in I : h.page = p
    <3>1. ASSUME NEW h \in I
          PROVE  /\ h.page \in DOMAIN pages /\ h.page \in Nat
                 /\ h.matched = matched(h.page) /\ h.score \in Nat
                 /\ h.snippet = Snippet(terms, pages[h.page])
                 /\ h.matched \in 0..Len(terms) /\ matched(h.page) > 0
      <4>1. /\ h.page \in DOMAIN pages /\ h.page \in Nat /\ h.score \in Nat
            /\ h = HitOn(pages, terms, h.page) /\ matched(h.page) > 0
        BY HitTypes
      <4>2. \A p : HitOn(pages, terms, p).matched = matched(p)
                   /\ HitOn(pages, terms, p).snippet = Snippet(terms, pages[p])
        BY DEF HitOn
      <4>3. pages[h.page] \in SearchPage
        BY <4>1
      <4>4. matched(h.page) \in 0..Len(terms)
        BY <4>3, MatchesAndScores
      <4> HIDE DEF matched, I
      <4>5. h.matched = matched(h.page) /\ h.snippet = Snippet(terms, pages[h.page])
        BY <4>1, <4>2
      <4> QED
        BY <4>1, <4>4, <4>5
    <3>2. \A p \in DOMAIN pages : matched(p) > 0 => \E h \in I : h.page = p
      BY HitTypes
    <3> QED
      BY <3>1, <3>2
  <2>3. \A p \in DOMAIN pages : /\ Cardinality(whole(p)) <= matched(p)
                                /\ whole(p) = DOMAIN terms => matched(p) = Len(terms)
    <3>1. \A p \in DOMAIN pages : pages[p] \in SearchPage
      OBVIOUS
    <3> QED
      BY <3>1, MatchesAndScores
  <2>4. \A p \in DOMAIN pages : Cardinality(whole(p)) \in Int
    <3> SUFFICES ASSUME NEW p \in DOMAIN pages PROVE Cardinality(whole(p)) \in Int
      OBVIOUS
    <3>1. DOMAIN terms = 1..Len(terms) /\ Len(terms) \in Int /\ 1 \in Int
      OBVIOUS
    <3>2. IsFiniteSet(DOMAIN terms)
      BY <3>1, FS_Interval
    <3>3. whole(p) \subseteq DOMAIN terms
      BY DEF Whole
    <3> HIDE DEF whole
    <3> QED
      BY <3>2, <3>3, FS_Subset, FS_CardinalityType
  <2>5. Search(pages, terms, limit) = hits
    <3>1. Len(s) = n
      <4> HIDE DEF s, n, I
      <4> QED
        BY <2>1
    <3>2. Min({limit, n}) = m
      <4> HIDE DEF n
      <4> QED
        BY <2>1, MinOfTwo
    <3> HIDE DEF n, I
    <3> QED
      BY <1>2, <3>1, <3>2 DEF Search, I
  <2>6. Len(terms) > 0 /\ Len(terms) \in Nat
    BY <1>2, EmptySeq
  <2> HIDE DEF I, n, s
  <2>7. m \in Nat /\ m <= n /\ m <= limit /\ (m = limit \/ m = n)
    BY <2>1
  <2> HIDE DEF m
  <2>8. Len(hits) = m /\ DOMAIN hits = 1..m /\ \A k \in 1..m : hits[k] = s[k] /\ k \in 1..n
    BY <2>1, <2>7
  <2>9. \A i, j \in 1..m : i < j => Before(s[i], s[j])
    BY <2>1, <2>8
  <2>10. \A k \in 1..m : s[k] \in I
    BY <2>1, <2>8
  <2>11. Cardinality(shown) = m
    <3> DEFINE g == [k \in 1..m |-> s[k].page]
    <3>1. \A i, j \in 1..m : i < j => s[i].page # s[j].page
      <4> SUFFICES ASSUME NEW i \in 1..m, NEW j \in 1..m, i < j, s[i].page = s[j].page
                   PROVE  FALSE
        OBVIOUS
      <4>1. s[i] = s[j]
        <5>1. s[i] = HitOn(pages, terms, s[i].page) /\ s[j] = HitOn(pages, terms, s[j].page)
          BY <2>10, HitTypes DEF I
        <5> QED
          BY <5>1
      <4>2. Before(s[i], s[i])
        BY <2>9, <4>1
      <4>3. s[i].matched \in Nat /\ s[i].score \in Nat /\ s[i].page \in Nat
        BY <2>2, <2>10
      <4> QED
        BY <4>2, <4>3 DEF Before
    <3>2. \A i, j \in 1..m : g[i] = g[j] => i = j
      <4>1. \A i, j \in 1..m : i = j \/ i < j \/ j < i
        BY <2>7
      <4> QED
        BY <3>1, <4>1
    <3>3. g \in Injection(1..m, shown)
      <4>1. g \in [1..m -> shown]
        BY <2>8
      <4> QED
        BY <3>2, <4>1 DEF Injection, IsInjective
    <3>4. g \in Surjection(1..m, shown)
      <4>1. \A p \in shown : \E k \in 1..m : g[k] = p
        BY <2>8
      <4>2. g \in [1..m -> shown]
        BY <2>8
      <4> QED
        BY <4>1, <4>2 DEF Surjection
    <3>5. IsFiniteSet(1..m) /\ Cardinality(1..m) = m
      BY <2>7, FS_Interval
    <3> HIDE DEF g, shown
    <3> QED
      BY <3>3, <3>4, <3>5, FS_Surjection
  <2>12. ASSUME NEW p \in (DOMAIN pages) \ shown, whole(p) = DOMAIN terms
         PROVE  m = limit /\ \A q \in shown : matched(q) = Len(terms)
    <3>1. matched(p) = Len(terms)
      BY <2>3, <2>12
    <3>2. PICK h \in I : h.page = p
      BY <2>2, <2>6, <3>1
    <3>3. PICK k \in 1..n : s[k] = h
      BY <2>1
    <3>4. ~(k <= m)
      <4>1. ASSUME k <= m PROVE FALSE
        <5>1. k \in 1..m
          BY <2>1, <2>7, <4>1
        <5>2. hits[k].page = p /\ k \in DOMAIN hits
          BY <2>8, <3>2, <3>3, <5>1
        <5> QED
          BY <5>2
      <4> QED
        BY <4>1
    <3>5. m = limit
      BY <2>1, <2>7, <3>4
    <3>6. ASSUME NEW q \in shown PROVE matched(q) = Len(terms)
      <4>1. PICK j \in 1..m : s[j].page = q
        BY <2>8
      <4>2. Before(s[j], s[k])
        BY <2>1, <2>7, <2>8, <3>4
      <4>3. s[j].matched >= s[k].matched
        BY <2>2, <2>10, <3>3, <4>2 DEF Before
      <4>4. s[j].matched = matched(q) /\ s[k].matched = Len(terms) /\ s[j].matched \in 0..Len(terms)
        BY <2>2, <2>10, <3>1, <3>2, <3>3, <4>1
      <4> QED
        BY <2>6, <4>3, <4>4
    <3> QED
      BY <3>5, <3>6
  <2>13. ASSUME NEW i \in 1..m, NEW j \in 1..m, i < j
         PROVE  /\ Cardinality(whole(s[j].page)) <= matched(s[i].page)
                /\ (matched(s[i].page) = matched(s[j].page) /\ s[i].score = s[j].score)
                     => s[i].page < s[j].page
    <3>1. Before(s[i], s[j]) /\ s[i] \in I /\ s[j] \in I
      BY <2>9, <2>10, <2>13
    <3>2. /\ s[i].matched = matched(s[i].page) /\ s[j].matched = matched(s[j].page)
          /\ s[i].matched \in Nat /\ s[j].matched \in Nat /\ s[j].page \in DOMAIN pages
          /\ s[i].score \in Nat /\ s[j].score \in Nat
      BY <2>2, <3>1
    <3>3. matched(s[i].page) >= matched(s[j].page)
      BY <3>1, <3>2 DEF Before
    <3>4. Cardinality(whole(s[j].page)) <= matched(s[j].page)
          /\ Cardinality(whole(s[j].page)) \in Int
      BY <2>3, <2>4, <3>2
    <3> HIDE DEF matched, whole
    <3>5. Cardinality(whole(s[j].page)) <= matched(s[i].page)
      BY <3>2, <3>3, <3>4
    <3>6. (matched(s[i].page) = matched(s[j].page) /\ s[i].score = s[j].score)
            => s[i].page < s[j].page
      BY <3>1, <3>2 DEF Before
    <3> QED
      BY <3>5, <3>6
  <2>14. \A k \in 1..m : SnippetSays(terms, pages[s[k].page], s[k].snippet)
    <3> SUFFICES ASSUME NEW k \in 1..m
                 PROVE  SnippetSays(terms, pages[s[k].page], s[k].snippet)
      OBVIOUS
    <3>1. pages[s[k].page] \in SearchPage
          /\ s[k].snippet = Snippet(terms, pages[s[k].page])
      BY <2>2, <2>10
    <3> QED
      BY <3>1, SnippetIsRight
  <2> HIDE DEF hits
  <2>15. BestShown(pages, terms, limit, hits)
    BY <2>7, <2>8, <2>11, <2>12, <2>13, <2>14 DEF BestShown
  <2> QED
    BY <2>5, <2>15
<1> QED
  BY <1>1, <1>2

-----------------------------------------------------------------------------
(* What a search shows, for any pages, words and limit: a page with all    *)
(* the words is left out only for others with all of them; the hits are in *)
(* the order of words matched, score and contents; and a snippet is from   *)
(* the text if there is one (search.rs:39-107, 139-152).                   *)
THEOREM SearchShowsBest == CallSpec => []BestHitsShown
<1> DEFINE Asked == call = "search" => input \in Searches
<1>1. CallInit => Asked /\ BestHitsShown
  BY DEF CallInit, BestHitsShown, Returned
<1>2. Asked /\ BestHitsShown /\ [CallNext]_vars => Asked' /\ BestHitsShown'
  <2> SUFFICES ASSUME Asked, BestHitsShown, [CallNext]_vars PROVE Asked' /\ BestHitsShown'
    OBVIOUS
  <2>1. CASE FindClosest
    BY <2>1 DEF FindClosest, Called, BestHitsShown, Returned
  <2>2. CASE FindWords
    <3>1. /\ call = "search" /\ call' = call /\ input' = input
          /\ output' = Search(input.pages, input.terms, input.limit)
      BY <2>2 DEF FindWords, Called
    <3>2. /\ input.pages \in Seq(SearchPage) /\ input.terms \in Seq(Word)
          /\ input.limit \in Nat
      BY <3>1, SearchesAssumption DEF SearchPage
    <3>3. BestShown(input.pages, input.terms, input.limit, output')
      BY <3>1, <3>2, SearchIsRight
    <3> QED
      BY <3>1, <3>3 DEF BestHitsShown
  <2>3. CASE Redact
    BY <2>3 DEF Redact, Called, BestHitsShown, Returned
  <2>4. CASE WrapText
    BY <2>4 DEF WrapText, Called, BestHitsShown, Returned
  <2>5. CASE ReadSections
    BY <2>5 DEF ReadSections, Called, BestHitsShown, Returned
  <2>6. CASE ResolvePath
    BY <2>6 DEF ResolvePath, Called, BestHitsShown, Returned
  <2>7. CASE ReadServer
    BY <2>7 DEF ReadServer, Called, BestHitsShown, Returned
  <2>8. CASE UNCHANGED vars
    BY <2>8 DEF vars, BestHitsShown, Returned
  <2> QED
    BY <2>1, <2>2, <2>3, <2>4, <2>5, <2>6, <2>7, <2>8 DEF CallNext
<1> QED
  BY <1>1, <1>2, PTL DEF CallSpec

-----------------------------------------------------------------------------
(* The table of distance *)

Cells(a, b) == (0..Len(a)) \X (0..Len(b))

\* What a cell that is not on the edge is the least of.
Edits(d, a, b, i, j) ==
  {d[<<i - 1, j>>] + 1, d[<<i, j - 1>>] + 1,
   d[<<i - 1, j - 1>>] + (IF a[i] = b[j] THEN 0 ELSE 1)}
  \cup (IF i > 1 /\ j > 1 /\ a[i] = b[j - 1] /\ a[i - 1] = b[j]
        THEN {d[<<i - 2, j - 2>>] + 1} ELSE {})

LEMMA CellIsLeast ==
  ASSUME NEW a \in Word, NEW b \in Word, NEW d \in [Cells(a, b) -> Nat],
         NEW i \in 0..Len(a), NEW j \in 0..Len(b)
  PROVE  /\ Cell(d, a, b, i, j) \in Nat
         /\ i = 0 => Cell(d, a, b, i, j) = j
         /\ j = 0 => Cell(d, a, b, i, j) = i
         /\ (i # 0 /\ j # 0) =>
              /\ Cell(d, a, b, i, j) \in Edits(d, a, b, i, j)
              /\ \A c \in Edits(d, a, b, i, j) : Cell(d, a, b, i, j) <= c
<1>1. Len(a) \in Nat /\ Len(b) \in Nat
  BY DEF Word
<1>2. i = 0 => Cell(d, a, b, i, j) = j
  BY DEF Cell
<1>3. j = 0 => Cell(d, a, b, i, j) = i
  BY DEF Cell
<1>4. ASSUME i # 0, j # 0
      PROVE  /\ Cell(d, a, b, i, j) \in Edits(d, a, b, i, j)
             /\ \A c \in Edits(d, a, b, i, j) : Cell(d, a, b, i, j) <= c
             /\ Edits(d, a, b, i, j) \subseteq Nat
  <2>1. Cell(d, a, b, i, j) = Min(Edits(d, a, b, i, j))
    BY <1>4 DEF Cell, Edits
  <2>2. \A k \in 0..Len(a), l \in 0..Len(b) : d[<<k, l>>] \in Nat
    BY DEF Cells
  <2>3. Edits(d, a, b, i, j) \subseteq Nat /\ Edits(d, a, b, i, j) # {}
    <3>1. /\ i - 1 \in 0..Len(a) /\ j - 1 \in 0..Len(b)
          /\ i > 1 => i - 2 \in 0..Len(a)
          /\ j > 1 => j - 2 \in 0..Len(b)
      BY <1>1, <1>4
    <3>2. /\ d[<<i - 1, j>>] \in Nat /\ d[<<i, j - 1>>] \in Nat
          /\ d[<<i - 1, j - 1>>] \in Nat
          /\ i > 1 /\ j > 1 => d[<<i - 2, j - 2>>] \in Nat
      BY <2>2, <3>1
    <3>3. d[<<i - 1, j>>] + 1 \in Edits(d, a, b, i, j)
      BY DEF Edits
    <3>4. /\ d[<<i - 1, j>>] + 1 \in Nat /\ d[<<i, j - 1>>] + 1 \in Nat
          /\ d[<<i - 1, j - 1>>] + (IF a[i] = b[j] THEN 0 ELSE 1) \in Nat
          /\ i > 1 /\ j > 1 => d[<<i - 2, j - 2>>] + 1 \in Nat
      <4>1. \A n \in Nat : n + 1 \in Nat /\ n + 0 \in Nat
        OBVIOUS
      <4>2. d[<<i - 1, j - 1>>] + (IF a[i] = b[j] THEN 0 ELSE 1) \in Nat
        BY <3>2, <4>1
      <4> QED
        BY <3>2, <4>1, <4>2
    <3>5. Edits(d, a, b, i, j) \subseteq Nat
      <4> SUFFICES ASSUME NEW c \in Edits(d, a, b, i, j) PROVE c \in Nat
        OBVIOUS
      <4>1. \/ c = d[<<i - 1, j>>] + 1 \/ c = d[<<i, j - 1>>] + 1
            \/ c = d[<<i - 1, j - 1>>] + (IF a[i] = b[j] THEN 0 ELSE 1)
            \/ i > 1 /\ j > 1 /\ c = d[<<i - 2, j - 2>>] + 1
        BY DEF Edits
      <4> QED
        BY <3>4, <4>1
    <3> QED
      BY <3>3, <3>5
  <2> QED
    BY <2>1, <2>3, MinOf
<1>5. Cell(d, a, b, i, j) \in Nat
  BY <1>1, <1>2, <1>3, <1>4
<1> QED
  BY <1>2, <1>3, <1>4, <1>5

\* A cell depends on those of fewer letters.
AgreeBelow(f, g, a, b, n) ==
  \A k \in 0..Len(a), l \in 0..Len(b) : k + l < n => f[<<k, l>>] = g[<<k, l>>]

LEMMA CellDepends ==
  ASSUME NEW a \in Word, NEW b \in Word,
         NEW i \in 0..Len(a), NEW j \in 0..Len(b), NEW f, NEW g,
         AgreeBelow(f, g, a, b, i + j)
  PROVE  Cell(f, a, b, i, j) = Cell(g, a, b, i, j)
<1>1. Len(a) \in Nat /\ Len(b) \in Nat
  BY DEF Word
<1>2. CASE i = 0 \/ j = 0
  BY <1>2 DEF Cell
<1>3. CASE i # 0 /\ j # 0
  <2>1. /\ i - 1 \in 0..Len(a) /\ j - 1 \in 0..Len(b)
        /\ (i - 1) + j < i + j /\ i + (j - 1) < i + j /\ (i - 1) + (j - 1) < i + j
    BY <1>1, <1>3
  <2>4. ASSUME i > 1, j > 1
        PROVE  i - 2 \in 0..Len(a) /\ j - 2 \in 0..Len(b) /\ (i - 2) + (j - 2) < i + j
    BY <1>1, <2>4
  <2>2. /\ f[<<i - 1, j>>] = g[<<i - 1, j>>] /\ f[<<i, j - 1>>] = g[<<i, j - 1>>]
        /\ f[<<i - 1, j - 1>>] = g[<<i - 1, j - 1>>]
        /\ i > 1 /\ j > 1 => f[<<i - 2, j - 2>>] = g[<<i - 2, j - 2>>]
    BY <2>1, <2>4 DEF AgreeBelow
  <2>3. Edits(f, a, b, i, j) = Edits(g, a, b, i, j)
    BY <2>2 DEF Edits
  <2> QED
    BY <1>3, <2>3 DEF Cell, Edits
<1> QED
  BY <1>2, <1>3

\* There is such a table: one that is right up to k letters in all makes one
\* that is right up to k + 1.
LEMMA TableIsFilled ==
  ASSUME NEW a \in Word, NEW b \in Word
  PROVE  /\ Table(a, b) \in [Cells(a, b) -> Nat]
         /\ \A i \in 0..Len(a), j \in 0..Len(b) :
              Table(a, b)[<<i, j>>] = Cell(Table(a, b), a, b, i, j)
<1> DEFINE D == Cells(a, b)
           Right(f, k) ==
             \A i \in 0..Len(a), j \in 0..Len(b) :
               i + j < k => f[<<i, j>>] = Cell(f, a, b, i, j)
           Ks == {k \in Nat : ~ \E f \in [D -> Nat] : Right(f, k)}
<1>1. Len(a) \in Nat /\ Len(b) \in Nat
  BY DEF Word
<1>2. Ks = {}
  <2> SUFFICES ASSUME Ks # {} PROVE FALSE
    OBVIOUS
  <2>1. PICK k \in Ks : \A l \in Ks : k <= l
    <3>1. Ks \subseteq Nat
      OBVIOUS
    <3> HIDE DEF Ks
    <3> QED
      BY <3>1, SmallestNumber
  <2>2. k \in Nat /\ ~ \E f \in [D -> Nat] : Right(f, k)
    OBVIOUS
  <2>3. k # 0
    <3> SUFFICES ASSUME k = 0 PROVE FALSE
      OBVIOUS
    <3>1. [x \in D |-> 0] \in [D -> Nat]
      OBVIOUS
    <3>2. \A f : Right(f, 0)
      BY <1>1
    <3> QED
      BY <2>2, <3>1, <3>2
  <2>4. PICK f \in [D -> Nat] : Right(f, k - 1)
    <3>1. k - 1 \in Nat /\ ~(k <= k - 1)
      BY <2>2, <2>3
    <3>2. k - 1 \notin Ks
      BY <2>1, <3>1
    <3> HIDE DEF Right
    <3> QED
      BY <3>1, <3>2
  <2> DEFINE g == [x \in D |-> Cell(f, a, b, x[1], x[2])]
  <2>5. \A i \in 0..Len(a), j \in 0..Len(b) :
          <<i, j>> \in D /\ g[<<i, j>>] = Cell(f, a, b, i, j)
    BY DEF Cells
  <2>6. g \in [D -> Nat]
    <3>1. \A x \in D : x[1] \in 0..Len(a) /\ x[2] \in 0..Len(b)
      BY DEF Cells
    <3>2. \A i \in 0..Len(a), j \in 0..Len(b) : Cell(f, a, b, i, j) \in Nat
      BY CellIsLeast
    <3> HIDE DEF D
    <3> QED
      BY <3>1, <3>2
  <2> HIDE DEF g
  <2>7. Right(g, k)
    <3> SUFFICES ASSUME NEW i \in 0..Len(a), NEW j \in 0..Len(b), i + j < k
                 PROVE  g[<<i, j>>] = Cell(g, a, b, i, j)
      OBVIOUS
    <3>1. AgreeBelow(f, g, a, b, i + j)
      <4> SUFFICES ASSUME NEW m \in 0..Len(a), NEW l \in 0..Len(b), m + l < i + j
                   PROVE  f[<<m, l>>] = g[<<m, l>>]
        BY DEF AgreeBelow
      <4>1. m + l < k - 1
        BY <1>1, <2>2
      <4>2. f[<<m, l>>] = Cell(f, a, b, m, l)
        BY <2>4, <4>1
      <4> QED
        BY <2>5, <4>2
    <3>2. Cell(f, a, b, i, j) = Cell(g, a, b, i, j)
      BY <3>1, CellDepends
    <3> QED
      BY <2>5, <3>2
  <2> HIDE DEF Right
  <2> QED
    BY <2>2, <2>6, <2>7
<1>3. PICK f \in [D -> Nat] : Right(f, Len(a) + Len(b) + 1)
  <2>1. Len(a) + Len(b) + 1 \in Nat
    BY <1>1
  <2> HIDE DEF Right
  <2> QED
    BY <1>2, <2>1
<1>4. f = [x \in D |-> Cell(f, a, b, x[1], x[2])]
  <2>1. ASSUME NEW x \in D PROVE f[x] = Cell(f, a, b, x[1], x[2])
    <3>1. x = <<x[1], x[2]>> /\ x[1] \in 0..Len(a) /\ x[2] \in 0..Len(b)
      BY DEF Cells
    <3>2. x[1] + x[2] < Len(a) + Len(b) + 1
      BY <1>1, <3>1
    <3>3. f[<<x[1], x[2]>>] = Cell(f, a, b, x[1], x[2])
      BY <1>3, <3>1, <3>2
    <3> QED
      BY <3>1, <3>3
  <2> HIDE DEF D
  <2> QED
    BY <2>1
<1> DEFINE d == Table(a, b)
<1>5. d = [x \in D |-> Cell(d, a, b, x[1], x[2])]
  BY <1>4 DEF Table, Cells
<1> HIDE DEF d
<1>6. \A i \in 0..Len(a), j \in 0..Len(b) : d[<<i, j>>] = Cell(d, a, b, i, j)
  BY <1>5 DEF Cells
\* It is f, since both are filled by the same rule.
<1>7. \A i \in 0..Len(a), j \in 0..Len(b) : d[<<i, j>>] = f[<<i, j>>]
  <2> DEFINE Ls == {n \in Nat : \E i \in 0..Len(a), j \in 0..Len(b) :
                                 n = i + j /\ d[<<i, j>>] # f[<<i, j>>]}
  <2>1. SUFFICES Ls = {}
    <3>1. \A i \in 0..Len(a), j \in 0..Len(b) : i + j \in Nat
      BY <1>1
    <3> QED
      BY <2>1, <3>1
  <2> SUFFICES ASSUME Ls # {} PROVE FALSE
    OBVIOUS
  <2>2. PICK n \in Ls : \A l \in Ls : n <= l
    <3>1. Ls \subseteq Nat
      OBVIOUS
    <3> HIDE DEF Ls
    <3> QED
      BY <3>1, SmallestNumber
  <2>3. PICK i \in 0..Len(a), j \in 0..Len(b) : n = i + j /\ d[<<i, j>>] # f[<<i, j>>]
    OBVIOUS
  <2>4. AgreeBelow(d, f, a, b, i + j)
    <3> SUFFICES ASSUME NEW k \in 0..Len(a), NEW l \in 0..Len(b), k + l < i + j,
                        d[<<k, l>>] # f[<<k, l>>]
                 PROVE  FALSE
      BY DEF AgreeBelow
    <3>1. k + l \in Nat /\ i + j \in Nat
      BY <1>1
    <3>2. k + l \in Ls
      BY <3>1
    <3>3. i + j <= k + l
      <4> HIDE DEF Ls
      <4> QED
        BY <2>2, <2>3, <3>2
    <3> QED
      BY <3>1, <3>3
  <2>5. Cell(d, a, b, i, j) = Cell(f, a, b, i, j)
    BY <2>4, CellDepends
  <2>6. f[<<i, j>>] = Cell(f, a, b, i, j)
    <3>1. i + j < Len(a) + Len(b) + 1
      BY <1>1
    <3> QED
      BY <1>3, <3>1
  <2> QED
    BY <1>6, <2>3, <2>5, <2>6
<1>8. d \in [D -> Nat]
  <2>1. \A x \in D : d[x] \in Nat
    <3> SUFFICES ASSUME NEW x \in D PROVE d[x] \in Nat
      OBVIOUS
    <3>1. x = <<x[1], x[2]>> /\ x[1] \in 0..Len(a) /\ x[2] \in 0..Len(b)
      BY DEF Cells
    <3>2. f[x] \in Nat
      OBVIOUS
    <3> QED
      BY <1>7, <3>1, <3>2
  <2> DEFINE h == [x \in D |-> Cell(d, a, b, x[1], x[2])]
  <2>2. d = h /\ DOMAIN h = D /\ h = [x \in DOMAIN h |-> h[x]]
    BY <1>5
  <2> HIDE DEF D, h
  <2> QED
    BY <2>1, <2>2
<1> QED
  BY <1>6, <1>8 DEF d

LEMMA TableRules ==
  ASSUME NEW a \in Word, NEW b \in Word, NEW i \in 0..Len(a), NEW j \in 0..Len(b)
  PROVE  LET d == Table(a, b)
         IN  /\ d[<<i, j>>] \in Nat
             /\ i = 0 => d[<<i, j>>] = j
             /\ j = 0 => d[<<i, j>>] = i
             /\ (i # 0 /\ j # 0) =>
                  /\ d[<<i, j>>] \in Edits(d, a, b, i, j)
                  /\ \A c \in Edits(d, a, b, i, j) : d[<<i, j>>] <= c
<1> DEFINE d == Table(a, b)
<1>1. d \in [Cells(a, b) -> Nat] /\ d[<<i, j>>] = Cell(d, a, b, i, j)
  BY TableIsFilled
<1> HIDE DEF d
<1> QED
  BY <1>1, CellIsLeast DEF d

LEMMA TableEdge ==
  ASSUME NEW a \in Word, NEW b \in Word, NEW i \in 0..Len(a)
  PROVE  Table(a, b)[<<i, 0>>] = i
<1>1. 0 \in 0..Len(b)
  BY DEF Word
<1> QED
  BY <1>1, TableRules

LEMMA ZeroStep ==
  ASSUME NEW a \in Word, NEW b \in Word, NEW i \in 0..Len(a), NEW j \in 0..Len(b),
         \A k \in 0..Len(a), l \in 0..Len(b) :
           k + l < i + j => (Table(a, b)[<<k, l>>] = 0 <=> SameUpTo(a, b, k, l))
  PROVE  Table(a, b)[<<i, j>>] = 0 <=> SameUpTo(a, b, i, j)
<1> DEFINE d == Table(a, b)
<1>1. Len(a) \in Nat /\ Len(b) \in Nat
  BY DEF Word
<1>2. CASE i = 0
  BY <1>1, <1>2, TableRules DEF SameUpTo
<1>3. CASE i # 0 /\ j = 0
  <2>1. d[<<i, j>>] = i
    BY <1>3, TableRules
  <2> HIDE DEF d
  <2>2. d[<<i, j>>] # 0 /\ ~SameUpTo(a, b, i, j)
    BY <1>1, <1>3, <2>1 DEF SameUpTo
  <2> QED
    BY <2>2 DEF d
<1>4. CASE i # 0 /\ j # 0
  <2>1. /\ i - 1 \in 0..Len(a) /\ j - 1 \in 0..Len(b) /\ (i - 1) + (j - 1) < i + j
        /\ i > 1 => i - 2 \in 0..Len(a)
        /\ j > 1 => j - 2 \in 0..Len(b)
    BY <1>1, <1>4
  <2>2. /\ d[<<i, j>>] \in Nat /\ d[<<i - 1, j>>] \in Nat /\ d[<<i, j - 1>>] \in Nat
        /\ d[<<i - 1, j - 1>>] \in Nat
        /\ (i > 1 /\ j > 1) => d[<<i - 2, j - 2>>] \in Nat
    <3>1. \A k \in 0..Len(a), l \in 0..Len(b) : d[<<k, l>>] \in Nat
      BY TableRules
    <3> HIDE DEF d
    <3> QED
      BY <2>1, <3>1
  <2>3. d[<<i, j>>] \in Edits(d, a, b, i, j) /\ \A c \in Edits(d, a, b, i, j) : d[<<i, j>>] <= c
    BY <1>4, TableRules
  <2>4. d[<<i - 1, j - 1>>] = 0 <=> SameUpTo(a, b, i - 1, j - 1)
    BY <2>1
  <2> HIDE DEF d
  <2>5. d[<<i, j>>] = 0 => a[i] = b[j] /\ d[<<i - 1, j - 1>>] = 0
    <3>1. \/ d[<<i, j>>] = d[<<i - 1, j>>] + 1 \/ d[<<i, j>>] = d[<<i, j - 1>>] + 1
          \/ d[<<i, j>>] = d[<<i - 1, j - 1>>] + (IF a[i] = b[j] THEN 0 ELSE 1)
          \/ i > 1 /\ j > 1 /\ d[<<i, j>>] = d[<<i - 2, j - 2>>] + 1
      BY <2>3 DEF Edits
    <3>2. \A n \in Nat : n + 1 # 0
      OBVIOUS
    <3>3. d[<<i, j>>] = 0 => d[<<i, j>>] = d[<<i - 1, j - 1>>] + (IF a[i] = b[j] THEN 0 ELSE 1)
      BY <2>2, <3>1, <3>2
    <3> QED
      BY <2>2, <3>2, <3>3
  <2>6. a[i] = b[j] /\ d[<<i - 1, j - 1>>] = 0 => d[<<i, j>>] = 0
    <3>1. d[<<i - 1, j - 1>>] + (IF a[i] = b[j] THEN 0 ELSE 1) \in Edits(d, a, b, i, j)
      BY DEF Edits
    <3>2. d[<<i, j>>] <= d[<<i - 1, j - 1>>] + (IF a[i] = b[j] THEN 0 ELSE 1)
      BY <2>3, <3>1
    <3> QED
      BY <2>2, <3>2
  <2>7. SameUpTo(a, b, i, j) <=> SameUpTo(a, b, i - 1, j - 1) /\ a[i] = b[j]
    BY <1>1, <1>4 DEF SameUpTo
  <2> QED
    BY <2>4, <2>5, <2>6, <2>7 DEF d
<1> QED
  BY <1>2, <1>3, <1>4

LEMMA ZeroCells ==
  ASSUME NEW a \in Word, NEW b \in Word
  PROVE  \A i \in 0..Len(a), j \in 0..Len(b) :
           Table(a, b)[<<i, j>>] = 0 <=> SameUpTo(a, b, i, j)
<1> DEFINE Right(i, j) == Table(a, b)[<<i, j>>] = 0 <=> SameUpTo(a, b, i, j)
           Ls == {n \in Nat : \E i \in 0..Len(a), j \in 0..Len(b) : n = i + j /\ ~Right(i, j)}
<1>1. Len(a) \in Nat /\ Len(b) \in Nat
  BY DEF Word
<1>2. Ls = {}
  <2> SUFFICES ASSUME Ls # {} PROVE FALSE
    OBVIOUS
  <2>1. PICK n \in Ls : \A l \in Ls : n <= l
    <3>1. Ls \subseteq Nat
      OBVIOUS
    <3> HIDE DEF Ls
    <3> QED
      BY <3>1, SmallestNumber
  <2>2. PICK i \in 0..Len(a), j \in 0..Len(b) : n = i + j /\ ~Right(i, j)
    OBVIOUS
  <2>3. \A k \in 0..Len(a), l \in 0..Len(b) : k + l < i + j => Right(k, l)
    <3> SUFFICES ASSUME NEW k \in 0..Len(a), NEW l \in 0..Len(b), k + l < i + j, ~Right(k, l)
                 PROVE  FALSE
      OBVIOUS
    <3>1. k + l \in Nat /\ i + j \in Nat
      BY <1>1
    <3> HIDE DEF Right
    <3>2. k + l \in Ls
      BY <3>1
    <3>3. i + j <= k + l
      <4> HIDE DEF Ls
      <4> QED
        BY <2>1, <2>2, <3>2
    <3> QED
      BY <3>1, <3>3
  <2> QED
    BY <2>2, <2>3, ZeroStep
<1>3. \A i \in 0..Len(a), j \in 0..Len(b) : i + j \in Nat
  BY <1>1
<1> HIDE DEF Right
<1>4. \A i \in 0..Len(a), j \in 0..Len(b) : Right(i, j)
  BY <1>2, <1>3
<1> QED
  BY <1>4 DEF Right

LEMMA OneStep ==
  ASSUME NEW a \in Word, NEW b \in Word, NEW i \in 0..Len(a), NEW j \in 0..Len(b),
         \A k \in 0..Len(a), l \in 0..Len(b) :
           k + l < i + j => (Table(a, b)[<<k, l>>] <= 1 <=> EditUpTo(a, b, k, l))
  PROVE  Table(a, b)[<<i, j>>] <= 1 <=> EditUpTo(a, b, i, j)
<1> DEFINE d == Table(a, b)
<1>1. Len(a) \in Nat /\ Len(b) \in Nat /\ i \in Nat /\ j \in Nat
  BY DEF Word
<1>2. CASE i = 0
  <2>1. d[<<i, j>>] = j
    BY <1>2, TableRules
  <2>2. EditUpTo(a, b, i, j) => j = 0 \/ j = 1
    BY <1>1, <1>2 DEF EditUpTo, SameUpTo
  <2>3. j = 0 => EditUpTo(a, b, i, j)
    BY <1>1, <1>2 DEF EditUpTo, SameUpTo
  <2>4. j = 1 => EditUpTo(a, b, i, j)
    <3>1. DroppedAt(b, a, 0, 1) /\ 1 \in 1..1
      BY DEF DroppedAt
    <3> QED
      BY <1>2, <3>1 DEF EditUpTo
  <2> HIDE DEF d
  <2> QED
    BY <1>1, <2>1, <2>2, <2>3, <2>4 DEF d
<1>3. CASE i # 0 /\ j = 0
  <2>1. d[<<i, j>>] = i
    <3>1. Table(a, b)[<<i, 0>>] = i
      BY TableEdge
    <3> QED
      BY <1>3, <3>1
  <2>2. EditUpTo(a, b, i, j) => i = 1
    BY <1>1, <1>3 DEF EditUpTo, SameUpTo
  <2>3. i = 1 => EditUpTo(a, b, i, j)
    <3>1. DroppedAt(a, b, 0, 1) /\ 1 \in 1..1
      BY DEF DroppedAt
    <3> QED
      BY <1>3, <3>1 DEF EditUpTo
  <2> HIDE DEF d
  <2> QED
    BY <1>1, <1>3, <2>1, <2>2, <2>3 DEF d
<1>4. CASE i # 0 /\ j # 0
  <2>1. /\ i - 1 \in 0..Len(a) /\ j - 1 \in 0..Len(b) /\ (i - 1) + (j - 1) < i + j
        /\ i > 1 => i - 2 \in 0..Len(a)
        /\ j > 1 => j - 2 \in 0..Len(b)
    BY <1>1, <1>4
  <2>2. /\ d[<<i, j>>] \in Nat /\ d[<<i - 1, j>>] \in Nat /\ d[<<i, j - 1>>] \in Nat
        /\ d[<<i - 1, j - 1>>] \in Nat
        /\ (i > 1 /\ j > 1) => d[<<i - 2, j - 2>>] \in Nat
    <3>1. \A k \in 0..Len(a), l \in 0..Len(b) : d[<<k, l>>] \in Nat
      BY TableRules
    <3> HIDE DEF d
    <3> QED
      BY <2>1, <3>1
  <2>3. d[<<i, j>>] \in Edits(d, a, b, i, j) /\ \A c \in Edits(d, a, b, i, j) : d[<<i, j>>] <= c
    BY <1>4, TableRules
  <2>4. /\ d[<<i - 1, j - 1>>] = 0 <=> SameUpTo(a, b, i - 1, j - 1)
        /\ d[<<i - 1, j>>] = 0 <=> SameUpTo(a, b, i - 1, j)
        /\ d[<<i, j - 1>>] = 0 <=> SameUpTo(a, b, i, j - 1)
        /\ (i > 1 /\ j > 1) => (d[<<i - 2, j - 2>>] = 0 <=> SameUpTo(a, b, i - 2, j - 2))
    <3>1. \A k \in 0..Len(a), l \in 0..Len(b) : d[<<k, l>>] = 0 <=> SameUpTo(a, b, k, l)
      BY ZeroCells
    <3> HIDE DEF d
    <3> QED
      BY <2>1, <3>1
  <2>5. d[<<i - 1, j - 1>>] <= 1 <=> EditUpTo(a, b, i - 1, j - 1)
    BY <2>1
  <2> HIDE DEF d
  <2>6. \A n \in Nat : /\ n + 1 <= 1 => n = 0
                       /\ n = 0 => n + 1 <= 1
                       /\ n + 0 = n
    OBVIOUS
  <2>7. CASE a[i] = b[j]
    <3>1. d[<<i, j>>] <= d[<<i - 1, j - 1>>]
      <4>1. d[<<i - 1, j - 1>>] + 0 \in Edits(d, a, b, i, j)
        BY <2>7 DEF Edits
      <4> QED
        BY <2>2, <2>3, <2>6, <4>1
    <3>2. ASSUME EditUpTo(a, b, i, j) PROVE d[<<i, j>>] <= 1
      <4>1. EditUpTo(a, b, i - 1, j - 1)
        BY <1>1, <1>4, <2>7, <3>2, EditShrinks
      <4> QED
        BY <2>2, <2>5, <3>1, <4>1
    <3>3. ASSUME d[<<i, j>>] <= 1 PROVE EditUpTo(a, b, i, j)
      <4>1. \/ d[<<i, j>>] = d[<<i - 1, j>>] + 1 \/ d[<<i, j>>] = d[<<i, j - 1>>] + 1
            \/ d[<<i, j>>] = d[<<i - 1, j - 1>>] + 0
            \/ i > 1 /\ j > 1 /\ a[i] = b[j - 1] /\ a[i - 1] = b[j]
               /\ d[<<i, j>>] = d[<<i - 2, j - 2>>] + 1
        BY <2>3, <2>7 DEF Edits
      <4>2. CASE d[<<i, j>>] = d[<<i - 1, j - 1>>] + 0
        <5>1. EditUpTo(a, b, i - 1, j - 1)
          BY <2>2, <2>5, <2>6, <3>3, <4>2
        <5> QED
          BY <1>1, <1>4, <2>7, <5>1, EditExtends
      <4>3. CASE d[<<i, j>>] # d[<<i - 1, j - 1>>] + 0
        <5>1. \/ SameUpTo(a, b, i - 1, j) \/ SameUpTo(a, b, i, j - 1)
              \/ i > 1 /\ j > 1 /\ a[i] = b[j - 1] /\ a[i - 1] = b[j]
                 /\ SameUpTo(a, b, i - 2, j - 2)
          BY <2>2, <2>4, <2>6, <3>3, <4>1, <4>3
        <5> QED
          BY <1>1, <1>4, <5>1, EndsInAnEdit
      <4> QED
        BY <4>2, <4>3
    <3> QED
      BY <3>2, <3>3 DEF d
  <2>8. CASE a[i] # b[j]
    <3>1. ASSUME EditUpTo(a, b, i, j) PROVE d[<<i, j>>] <= 1
      <4>1. \/ SameUpTo(a, b, i - 1, j - 1) \/ SameUpTo(a, b, i - 1, j)
            \/ SameUpTo(a, b, i, j - 1)
            \/ i > 1 /\ j > 1 /\ a[i] = b[j - 1] /\ a[i - 1] = b[j]
               /\ SameUpTo(a, b, i - 2, j - 2)
        BY <1>1, <1>4, <2>8, <3>1, EditAtTheEnd
      <4>2. \E n \in Nat : n = 0 /\ n + 1 \in Edits(d, a, b, i, j)
        BY <2>2, <2>4, <2>8, <4>1 DEF Edits
      <4>3. PICK n \in Nat : n = 0 /\ n + 1 \in Edits(d, a, b, i, j)
        BY <4>2
      <4>4. d[<<i, j>>] <= n + 1
        BY <2>3, <4>3
      <4> QED
        BY <2>2, <4>3, <4>4
    <3>2. ASSUME d[<<i, j>>] <= 1 PROVE EditUpTo(a, b, i, j)
      <4>1. \/ d[<<i, j>>] = d[<<i - 1, j>>] + 1 \/ d[<<i, j>>] = d[<<i, j - 1>>] + 1
            \/ d[<<i, j>>] = d[<<i - 1, j - 1>>] + 1
            \/ i > 1 /\ j > 1 /\ a[i] = b[j - 1] /\ a[i - 1] = b[j]
               /\ d[<<i, j>>] = d[<<i - 2, j - 2>>] + 1
        BY <2>3, <2>8 DEF Edits
      <4>2. \/ SameUpTo(a, b, i - 1, j - 1) \/ SameUpTo(a, b, i - 1, j)
            \/ SameUpTo(a, b, i, j - 1)
            \/ i > 1 /\ j > 1 /\ a[i] = b[j - 1] /\ a[i - 1] = b[j]
               /\ SameUpTo(a, b, i - 2, j - 2)
        BY <2>2, <2>4, <2>6, <3>2, <4>1
      <4> QED
        BY <1>1, <1>4, <4>2, EndsInAnEdit
    <3> QED
      BY <3>1, <3>2 DEF d
  <2> QED
    BY <2>7, <2>8
<1> QED
  BY <1>2, <1>3, <1>4

LEMMA OneCells ==
  ASSUME NEW a \in Word, NEW b \in Word
  PROVE  \A i \in 0..Len(a), j \in 0..Len(b) :
           Table(a, b)[<<i, j>>] <= 1 <=> EditUpTo(a, b, i, j)
<1> DEFINE Right(i, j) == Table(a, b)[<<i, j>>] <= 1 <=> EditUpTo(a, b, i, j)
           Ls == {n \in Nat : \E i \in 0..Len(a), j \in 0..Len(b) : n = i + j /\ ~Right(i, j)}
<1>1. Len(a) \in Nat /\ Len(b) \in Nat
  BY DEF Word
<1>2. Ls = {}
  <2> SUFFICES ASSUME Ls # {} PROVE FALSE
    OBVIOUS
  <2>1. PICK n \in Ls : \A l \in Ls : n <= l
    <3>1. Ls \subseteq Nat
      OBVIOUS
    <3> HIDE DEF Ls
    <3> QED
      BY <3>1, SmallestNumber
  <2>2. PICK i \in 0..Len(a), j \in 0..Len(b) : n = i + j /\ ~Right(i, j)
    OBVIOUS
  <2>3. \A k \in 0..Len(a), l \in 0..Len(b) : k + l < i + j => Right(k, l)
    <3> SUFFICES ASSUME NEW k \in 0..Len(a), NEW l \in 0..Len(b), k + l < i + j, ~Right(k, l)
                 PROVE  FALSE
      OBVIOUS
    <3>1. k + l \in Nat /\ i + j \in Nat
      BY <1>1
    <3> HIDE DEF Right
    <3>2. k + l \in Ls
      BY <3>1
    <3>3. i + j <= k + l
      <4> HIDE DEF Ls
      <4> QED
        BY <2>1, <2>2, <3>2
    <3> QED
      BY <3>1, <3>3
  <2> QED
    BY <2>2, <2>3, OneStep
<1>3. \A i \in 0..Len(a), j \in 0..Len(b) : i + j \in Nat
  BY <1>1
<1> HIDE DEF Right
<1>4. \A i \in 0..Len(a), j \in 0..Len(b) : Right(i, j)
  BY <1>2, <1>3
<1> QED
  BY <1>4 DEF Right

-----------------------------------------------------------------------------
(* The edits by which a word differs from a query *)

LEMMA WithoutIs ==
  ASSUME NEW a \in Word, NEW p \in 1..Len(a)
  PROVE  /\ Without(a, p) \in Word
         /\ Len(Without(a, p)) = Len(a) - 1
         /\ \A k \in 1..(Len(a) - 1) : Without(a, p)[k] = IF k < p THEN a[k] ELSE a[k + 1]
<1> DEFINE s == SubSeq(a, 1, p - 1)
           t == SubSeq(a, p + 1, Len(a))
<1>1. Len(a) \in Nat /\ \A k \in 1..Len(a) : a[k] \in STRING
  BY DEF Word
<1>2. /\ s \in Word /\ Len(s) = p - 1
      /\ \A k \in 1..(p - 1) : s[k] = a[k]
  <2>1. 1 \in Int /\ p - 1 \in Int /\ \A k \in 1..(p - 1) : a[k] \in STRING
    BY <1>1
  <2>2. /\ s \in Seq(STRING) /\ Len(s) = IF 1 <= p - 1 THEN (p - 1) - 1 + 1 ELSE 0
        /\ \A k \in 1..((p - 1) - 1 + 1) : s[k] = a[1 + k - 1]
    BY <2>1, SubSeqProperties
  <2> HIDE DEF s
  <2> QED
    BY <1>1, <2>2 DEF Word
<1>3. /\ t \in Word /\ Len(t) = Len(a) - p
      /\ \A k \in 1..(Len(a) - p) : t[k] = a[p + k]
  <2>1. p + 1 \in Int /\ Len(a) \in Int /\ \A k \in (p + 1)..Len(a) : a[k] \in STRING
    BY <1>1
  <2>2. /\ t \in Seq(STRING) /\ Len(t) = IF p + 1 <= Len(a) THEN Len(a) - (p + 1) + 1 ELSE 0
        /\ \A k \in 1..(Len(a) - (p + 1) + 1) : t[k] = a[(p + 1) + k - 1]
    BY <2>1, SubSeqProperties
  <2> HIDE DEF t
  <2> QED
    BY <1>1, <2>2 DEF Word
<1>4. Without(a, p) = s \o t
  BY DEF Without
<1> HIDE DEF s, t
<1>5. /\ s \o t \in Seq(STRING) /\ Len(s \o t) = Len(s) + Len(t)
      /\ \A k \in 1..(Len(s) + Len(t)) : (s \o t)[k] = IF k <= Len(s) THEN s[k] ELSE t[k - Len(s)]
  BY <1>2, <1>3, ConcatProperties DEF Word
<1>6. Without(a, p) \in Word /\ Len(Without(a, p)) = Len(a) - 1
  BY <1>1, <1>2, <1>3, <1>4, <1>5 DEF Word
<1>7. ASSUME NEW k \in 1..(Len(a) - 1)
      PROVE  Without(a, p)[k] = IF k < p THEN a[k] ELSE a[k + 1]
  <2>1. k \in 1..(Len(s) + Len(t)) /\ Len(s) = p - 1
    BY <1>1, <1>2, <1>3
  <2>2. CASE k < p
    BY <1>1, <1>2, <1>4, <1>5, <2>1, <2>2
  <2>3. CASE ~ (k < p)
    <3>1. k - (p - 1) \in 1..(Len(a) - p) /\ p + (k - (p - 1)) = k + 1 /\ ~ (k <= p - 1)
      BY <1>1, <2>3
    <3>2. (s \o t)[k] = t[k - (p - 1)]
      BY <1>5, <2>1, <3>1
    <3>3. t[k - (p - 1)] = a[k + 1]
      BY <1>3, <3>1
    <3> QED
      BY <1>4, <2>3, <3>2, <3>3
  <2> QED
    BY <2>2, <2>3
<1> QED
  BY <1>6, <1>7

LEMMA DroppedIsWithout ==
  ASSUME NEW a \in Word, NEW b \in Word, Len(a) = Len(b) + 1, NEW p \in 1..Len(a)
  PROVE  DroppedAt(a, b, Len(b), p) <=> Without(a, p) = b
<1>1. Len(b) \in Nat /\ Len(a) - 1 = Len(b)
  BY DEF Word
<1>2. /\ Without(a, p) \in Seq(STRING) /\ b \in Seq(STRING) /\ Len(Without(a, p)) = Len(b)
      /\ \A k \in 1..Len(b) : Without(a, p)[k] = IF k < p THEN a[k] ELSE a[k + 1]
  BY <1>1, WithoutIs DEF Word
<1>3. Without(a, p) = b <=> \A k \in 1..Len(b) : Without(a, p)[k] = b[k]
  BY <1>2, SeqEqual
<1>4. \A k \in 1..Len(b) : k < p \/ k >= p
  BY <1>1
<1>5. \A k \in 1..Len(b) : ~ (k < p /\ k >= p)
  BY <1>1
<1> QED
  BY <1>2, <1>3, <1>4, <1>5 DEF DroppedAt

LEMMA SwappedIs ==
  ASSUME NEW a \in Word, NEW b \in Word, NEW p \in 1..(Len(a) - 1)
  PROVE  Swapped(a, p) = b <=> Len(a) = Len(b) /\ SwappedAt(a, b, Len(a), p)
<1> DEFINE s == Swapped(a, p)
<1>1. Len(a) \in Nat /\ Len(b) \in Nat /\ a \in [1..Len(a) -> STRING] /\ p \in 1..Len(a) /\ p + 1 \in 1..Len(a)
      /\ p # p + 1
  BY DEF Word
<1>2. /\ s \in [1..Len(a) -> STRING]
      /\ \A k \in 1..Len(a) : s[k] = IF k = p + 1 THEN a[p] ELSE IF k = p THEN a[p + 1] ELSE a[k]
  BY <1>1 DEF Swapped
<1>3. s \in Seq(STRING) /\ Len(s) = Len(a)
  BY <1>1, <1>2
<1> HIDE DEF s
<1>4. s = b <=> Len(a) = Len(b) /\ \A k \in 1..Len(a) : s[k] = b[k]
  BY <1>3, SeqEqual DEF Word
<1>5. (\A k \in 1..Len(a) : s[k] = b[k]) <=> SwappedAt(a, b, Len(a), p)
  BY <1>1, <1>2 DEF SwappedAt
<1> QED
  BY <1>4, <1>5 DEF s

LEMMA ReplacedIs ==
  ASSUME NEW a \in Word, NEW b \in Word, Len(a) = Len(b)
  PROVE  (\E p \in 1..Len(a) : ReplacedAt(a, b, Len(a), p)) /\ a # b
           <=> Cardinality({k \in DOMAIN a : a[k] # b[k]}) = 1
<1> DEFINE D == {k \in DOMAIN a : a[k] # b[k]}
<1>1. Len(a) \in Nat /\ DOMAIN a = 1..Len(a) /\ (a = b <=> \A k \in 1..Len(a) : a[k] = b[k])
  BY SeqEqual DEF Word
<1>2. IsFiniteSet(D)
  <2>1. 1 \in Int /\ Len(a) \in Int
    BY <1>1
  <2> QED
    BY <1>1, <2>1, FS_Interval, FS_Subset
<1>3. (\E p \in 1..Len(a) : ReplacedAt(a, b, Len(a), p)) /\ a # b <=> \E p : D = {p}
  <2>1. ASSUME NEW p \in 1..Len(a), ReplacedAt(a, b, Len(a), p), a # b PROVE D = {p}
    <3>1. \A k \in D : k = p
      BY <1>1, <2>1 DEF ReplacedAt
    <3>2. D # {}
      BY <1>1, <2>1
    <3> QED
      BY <3>1, <3>2
  <2>2. ASSUME NEW p, D = {p} PROVE p \in 1..Len(a) /\ ReplacedAt(a, b, Len(a), p) /\ a # b
    <3>1. p \in 1..Len(a) /\ a[p] # b[p] /\ \A k \in 1..Len(a) : a[k] # b[k] => k = p
      BY <1>1, <2>2
    <3> QED
      BY <3>1 DEF ReplacedAt
  <2> HIDE DEF D
  <2> QED
    BY <2>1, <2>2
<1> HIDE DEF D
<1>4. Cardinality(D) = 1 <=> \E p : D = {p}
  BY <1>2, FS_Singleton
<1> QED
  BY <1>3, <1>4 DEF D

(* DistanceIs: what the distance of a word from a query says of its letters: *)
(* that it is the same word, or one edit away.                               *)
LEMMA DistanceIs ==
  ASSUME NEW a \in Word, NEW b \in Word
  PROVE  /\ Distance(a, b) \in Nat
         /\ Distance(a, b) = 0 <=> a = b
         /\ Distance(a, b) <= 1 <=> a = b \/ OneEdit(a, b)
<1>1. Len(a) \in Nat /\ Len(b) \in Nat /\ Len(a) \in 0..Len(a) /\ Len(b) \in 0..Len(b)
      /\ DOMAIN a = 1..Len(a) /\ DOMAIN b = 1..Len(b)
  BY DEF Word
<1>2. a = b <=> SameUpTo(a, b, Len(a), Len(b))
  BY <1>1, SeqEqual DEF Word, SameUpTo
<1>3. Distance(a, b) \in Nat
  BY <1>1, TableRules DEF Distance
<1>4. Distance(a, b) = 0 <=> a = b
  BY <1>1, <1>2, ZeroCells DEF Distance
<1>5. Distance(a, b) <= 1 <=> EditUpTo(a, b, Len(a), Len(b))
  BY <1>1, OneCells DEF Distance
<1>6. Len(a) = Len(b) =>
        ((\E p \in 1..Len(a) : ReplacedAt(a, b, Len(a), p)) /\ a # b
           <=> Cardinality({k \in DOMAIN a : a[k] # b[k]}) = 1)
  BY ReplacedIs
<1>7. \A p \in 1..(Len(a) - 1) : Swapped(a, p) = b <=> Len(a) = Len(b) /\ SwappedAt(a, b, Len(a), p)
  BY SwappedIs
<1>8. Len(a) = Len(b) + 1 =>
        \A p \in 1..Len(a) : DroppedAt(a, b, Len(b), p) <=> Without(a, p) = b
  BY DroppedIsWithout
<1>9. Len(b) = Len(a) + 1 =>
        \A p \in 1..Len(b) : DroppedAt(b, a, Len(a), p) <=> Without(b, p) = a
  BY DroppedIsWithout
<1>10. EditUpTo(a, b, Len(a), Len(b)) <=> a = b \/ OneEdit(a, b)
  BY <1>1, <1>2, <1>6, <1>7, <1>8, <1>9, Zenon DEF EditUpTo, OneEdit
<1> QED
  BY <1>3, <1>4, <1>5, <1>10

-----------------------------------------------------------------------------
(* What a page costs, and where it stands *)

LEMMA MaxCostIs ==
  ASSUME NEW query \in Word
  PROVE  /\ MaxCost(query) \in {1, 2, 3}
         /\ Len(query) <= 4 <=> MaxCost(query) = 1
  BY DEF MaxCost, Word

LEMMA CostsAre ==
  ASSUME NEW query \in Word, NEW keys \in SUBSET Word
  PROVE  LET costs == Costs(query, keys)
             max == MaxCost(query)
         IN  /\ costs \subseteq 0..max
             /\ query \in keys <=> 0 \in costs
             /\ Near(query, keys) => \E c \in costs : c <= 1
             /\ (\E c \in costs : c <= 1) /\ max > 1 => Near(query, keys)
             /\ Near(query, keys) \/ Starts(query, keys) => costs # {}
             /\ costs # {} /\ max = 1 => Near(query, keys) \/ Starts(query, keys)
<1> DEFINE costs == Costs(query, keys)
           max == MaxCost(query)
           Far(k) == Distance(query, k) > max /\ IsPrefix(query, k)
<1>1. max \in {1, 2, 3}
  BY MaxCostIs
<1>2. \A k \in keys : /\ Distance(query, k) \in Nat
                      /\ Distance(query, k) = 0 <=> query = k
                      /\ Distance(query, k) <= 1 <=> query = k \/ OneEdit(query, k)
  BY DistanceIs
<1> HIDE DEF max
<1>3. /\ \A k \in keys : Distance(query, k) <= max => Distance(query, k) \in costs
      /\ \A k \in keys : Far(k) => max \in costs
      /\ \A c \in costs : \/ \E k \in keys : c = Distance(query, k) /\ c <= max
                          \/ c = max /\ \E k \in keys : Far(k)
  BY DEF Costs, max
<1> HIDE DEF costs
<1>4. costs \subseteq 0..max
  BY <1>1, <1>2, <1>3
<1>5. query \in keys <=> 0 \in costs
  BY <1>1, <1>2, <1>3
<1>6. Near(query, keys) => \E c \in costs : c <= 1
  <2> SUFFICES ASSUME NEW k \in keys, Distance(query, k) <= 1
               PROVE  \E c \in costs : c <= 1
    BY <1>2 DEF Near
  <2>1. Distance(query, k) <= max
    BY <1>1, <1>2
  <2> QED
    BY <1>3, <2>1
<1>7. (\E c \in costs : c <= 1) /\ max > 1 => Near(query, keys)
  <2> SUFFICES ASSUME NEW c \in costs, c <= 1, max > 1
               PROVE  Near(query, keys)
    OBVIOUS
  <2>1. PICK k \in keys : c = Distance(query, k)
    BY <1>1, <1>3
  <2> QED
    BY <1>2, <2>1 DEF Near
<1>8. Near(query, keys) \/ Starts(query, keys) => costs # {}
  <2>1. ASSUME NEW k \in keys, IsPrefix(query, k)
        PROVE  costs # {}
    <3>1. Distance(query, k) <= max \/ Distance(query, k) > max
      BY <1>1, <1>2
    <3> QED
      BY <1>3, <2>1, <3>1
  <2> QED
    BY <1>6, <2>1 DEF Starts
<1>9. costs # {} /\ max = 1 => Near(query, keys) \/ Starts(query, keys)
  <2> SUFFICES ASSUME NEW c \in costs, max = 1
               PROVE  Near(query, keys) \/ Starts(query, keys)
    OBVIOUS
  <2>1. CASE \E k \in keys : c = Distance(query, k) /\ c <= max
    BY <1>2, <2>1 DEF Near
  <2>2. CASE \E k \in keys : Far(k)
    BY <2>2 DEF Starts
  <2> QED
    BY <1>3, <2>1, <2>2
<1> QED
  BY <1>4, <1>5, <1>6, <1>7, <1>8, <1>9 DEF costs, max

LEMMA CostIs ==
  ASSUME NEW query \in Word, NEW keys \in SUBSET Word, Costs(query, keys) # {}
  PROVE  LET cost == Min(Costs(query, keys))
         IN  /\ cost \in 0..MaxCost(query)
             /\ query \in keys <=> cost = 0
             /\ Near(query, keys) => cost <= 1
             /\ cost <= 1 /\ MaxCost(query) > 1 => Near(query, keys)
<1> DEFINE costs == Costs(query, keys)
           cost == Min(costs)
           max == MaxCost(query)
<1>1. max \in {1, 2, 3}
  BY MaxCostIs
<1>2. /\ costs \subseteq 0..max
      /\ query \in keys <=> 0 \in costs
      /\ Near(query, keys) => \E c \in costs : c <= 1
      /\ (\E c \in costs : c <= 1) /\ max > 1 => Near(query, keys)
  BY CostsAre
<1> HIDE DEF max, costs
<1>3. costs \subseteq Nat /\ costs # {}
  BY <1>1, <1>2 DEF costs
<1>4. cost \in costs /\ \A c \in costs : cost <= c
  BY <1>3, MinOf
<1> HIDE DEF cost
<1>5. cost \in 0..max
  BY <1>2, <1>4
<1>6. 0 \in costs <=> cost = 0
  BY <1>1, <1>4, <1>5
<1>7. (\E c \in costs : c <= 1) <=> cost <= 1
  BY <1>3, <1>4
<1> QED
  BY <1>2, <1>5, <1>6, <1>7 DEF cost, costs, max

LEMMA PagesInOrder ==
  ASSUME NEW pages \in Seq(QueryPage), InContents(pages)
  PROVE  /\ \A p \in DOMAIN pages : PageOrder(pages[p]) \in Nat
         /\ \A p, q \in DOMAIN pages : p < q => PageOrder(pages[p]) < PageOrder(pages[q])
<1>1. \A p \in DOMAIN pages :
        /\ pages[p].kind \in {"hub", "card"}
        /\ pages[p].chapter \in 1..PACK
        /\ pages[p].kind = "hub" => pages[p].section = 0
        /\ pages[p].kind = "card" => pages[p].section \in 1..PACK
  <2>1. \A page \in QueryPage :
          /\ page.kind \in {"hub", "card"}
          /\ page.chapter \in 1..PACK
          /\ page.kind = "hub" => page.section = 0
          /\ page.kind = "card" => page.section \in 1..PACK
    <3> SUFFICES ASSUME NEW page \in QueryPage
                 PROVE  /\ page.kind \in {"hub", "card"}
                        /\ page.chapter \in 1..PACK
                        /\ page.kind = "hub" => page.section = 0
                        /\ page.kind = "card" => page.section \in 1..PACK
      OBVIOUS
    <3>1. CASE page \in [kind : {"hub"}, chapter : 1..PACK, section : {0}, keys : SUBSET Word]
      BY <3>1
    <3>2. CASE page \in [kind : {"card"}, chapter : 1..PACK, section : 1..PACK, keys : SUBSET Word]
      BY <3>2
    <3> QED
      BY <3>1, <3>2 DEF QueryPage
  <2>2. \A p \in DOMAIN pages : pages[p] \in QueryPage
    OBVIOUS
  <2> QED
    BY <2>1, <2>2
<1>2. \A p \in DOMAIN pages :
        PageOrder(pages[p]) = IF pages[p].kind = "hub" THEN pages[p].chapter
                              ELSE PACK + (pages[p].chapter * PACK + pages[p].section)
  BY DEF PageOrder
<1>3. \A c, s \in 1..PACK : c \in Nat /\ PACK + (c * PACK + s) \in Nat
  BY DEF PACK
<1>4. \A c, s, e, t \in 1..PACK :
        /\ c < PACK + (e * PACK + t)
        /\ c < e \/ (c = e /\ s < t) => PACK + (c * PACK + s) < PACK + (e * PACK + t)
  BY DEF PACK
<1>5. \A p \in DOMAIN pages : PageOrder(pages[p]) \in Nat
  BY <1>1, <1>2, <1>3, Zenon
<1>6. ASSUME NEW p \in DOMAIN pages, NEW q \in DOMAIN pages, p < q
      PROVE  PageOrder(pages[p]) < PageOrder(pages[q])
  <2> DEFINE x == pages[p]
             y == pages[q]
  <2>1. \/ x.kind = "hub" /\ y.kind = "card"
        \/ /\ x.kind = y.kind
           /\ x.chapter < y.chapter \/ (x.chapter = y.chapter /\ x.section < y.section)
    BY <1>6 DEF InContents
  <2>2. /\ x.kind \in {"hub", "card"}
        /\ x.chapter \in 1..PACK /\ y.chapter \in 1..PACK
        /\ x.kind = "hub" => x.section = 0
        /\ y.kind = "hub" => y.section = 0
        /\ x.kind = "card" => x.section \in 1..PACK
        /\ y.kind = "card" => y.section \in 1..PACK
    BY <1>1, Zenon
  <2>3. /\ x.kind = "hub" => PageOrder(x) = x.chapter
        /\ y.kind = "hub" => PageOrder(y) = y.chapter
        /\ x.kind = "card" => PageOrder(x) = PACK + (x.chapter * PACK + x.section)
        /\ y.kind = "card" => PageOrder(y) = PACK + (y.chapter * PACK + y.section)
    <3>1. "card" # "hub"
      OBVIOUS
    <3> QED
      BY <1>2, <3>1, Zenon
  <2> HIDE DEF x, y
  <2>4. ASSUME x.kind = "hub" /\ y.kind = "card"
       PROVE  PageOrder(x) < PageOrder(y)
    <3>1. x.chapter < PACK + (y.chapter * PACK + y.section)
      BY <1>4, <2>2, <2>4, Zenon
    <3> QED
      BY <2>3, <2>4, <3>1
  <2>5. ASSUME x.kind = "hub" /\ y.kind = "hub"
       PROVE  PageOrder(x) < PageOrder(y)
    <3>1. x.chapter < y.chapter
      BY <2>1, <2>2, <2>5
    <3> QED
      BY <2>3, <2>5, <3>1
  <2>6. ASSUME x.kind = "card" /\ y.kind = "card"
       PROVE  PageOrder(x) < PageOrder(y)
    <3>1. x.chapter < y.chapter \/ (x.chapter = y.chapter /\ x.section < y.section)
      BY <2>1, <2>6
    <3>2. PACK + (x.chapter * PACK + x.section) < PACK + (y.chapter * PACK + y.section)
      BY <1>4, <2>2, <2>6, <3>1, Zenon
    <3> QED
      BY <2>3, <2>6, <3>2
  <2>7. PageOrder(x) < PageOrder(y)
    <3>1. \/ x.kind = "hub" /\ y.kind = "card"
          \/ x.kind = "hub" /\ y.kind = "hub"
          \/ x.kind = "card" /\ y.kind = "card"
      BY <2>1, <2>2, Zenon
    <3> QED
      BY <2>4, <2>5, <2>6, <3>1, Zenon
  <2> QED
    BY <2>7 DEF x, y
<1> QED
  BY <1>5, <1>6

-----------------------------------------------------------------------------
(* The pages in the order of their costs *)

CostOf(query, page) == Min(Costs(query, page.keys))
Suggested(query, page) == Costs(query, page.keys) # {}
ScoredPage(pages, query, p) ==
  [page |-> p, cost |-> CostOf(query, pages[p]), order |-> PageOrder(pages[p])]

LEMMA ScoredTypes ==
  ASSUME NEW pages \in Seq(QueryPage), InContents(pages), NEW query \in Word
  PROVE  /\ \A s \in Scored(pages, query) :
              /\ s.page \in DOMAIN pages /\ s.page \in Nat
              /\ s.cost \in Nat /\ s.order \in Nat
              /\ s.cost = CostOf(query, pages[s.page])
              /\ s.order = PageOrder(pages[s.page])
              /\ Suggested(query, pages[s.page])
         /\ \A s, t \in Scored(pages, query) : s.page = t.page => s = t
         /\ \A p \in DOMAIN pages :
              Suggested(query, pages[p]) => \E s \in Scored(pages, query) : s.page = p
         /\ IsFiniteSet(Scored(pages, query))
<1> DEFINE P == {q \in DOMAIN pages : Suggested(query, pages[q])}
           I == {ScoredPage(pages, query, p) : p \in P}
<1>1. Scored(pages, query) = I
  BY DEF Scored, ScoredPage, CostOf, Suggested
<1>2. ASSUME NEW p
      PROVE  /\ ScoredPage(pages, query, p).page = p
             /\ ScoredPage(pages, query, p).cost = CostOf(query, pages[p])
             /\ ScoredPage(pages, query, p).order = PageOrder(pages[p])
  BY DEF ScoredPage
<1>3. ASSUME NEW p \in P
      PROVE  /\ p \in DOMAIN pages /\ p \in Nat /\ Suggested(query, pages[p])
             /\ CostOf(query, pages[p]) \in Nat /\ PageOrder(pages[p]) \in Nat
  <2>1. p \in DOMAIN pages /\ p \in Nat /\ Suggested(query, pages[p])
    OBVIOUS
  <2>2. pages[p].keys \in SUBSET Word
    <3>1. \A page \in QueryPage : page.keys \in SUBSET Word
      BY DEF QueryPage
    <3>2. pages[p] \in QueryPage
      BY <2>1
    <3> QED
      BY <3>1, <3>2
  <2>3. CostOf(query, pages[p]) \in 0..MaxCost(query)
    BY <2>1, <2>2, CostIs DEF CostOf, Suggested
  <2>4. CostOf(query, pages[p]) \in Nat
    BY <2>3, MaxCostIs
  <2>5. PageOrder(pages[p]) \in Nat
    BY <2>1, PagesInOrder
  <2> QED
    BY <2>1, <2>4, <2>5
<1>4. IsFiniteSet(I)
  <2> DEFINE f == [p \in P |-> ScoredPage(pages, query, p)]
             T == {f[p] : p \in P}
  <2>1. IsFiniteSet(P)
    <3>1. DOMAIN pages = 1..Len(pages) /\ Len(pages) \in Int /\ 1 \in Int
      OBVIOUS
    <3>2. IsFiniteSet(DOMAIN pages)
      BY <3>1, FS_Interval
    <3> QED
      BY <3>2, FS_Subset
  <2>2. f \in [P -> T] /\ I = T
    OBVIOUS
  <2> HIDE DEF P, f, I
  <2>3. \A S : f \in [P -> S] => IsFiniteSet({f[p] : p \in P})
    BY <2>1, FiniteImage
  <2> QED
    BY <2>2, <2>3
<1>5. /\ \A s \in I : \E p \in P : s = ScoredPage(pages, query, p)
      /\ \A p \in P : ScoredPage(pages, query, p) \in I
      /\ \A p \in DOMAIN pages : Suggested(query, pages[p]) => p \in P
  OBVIOUS
<1> HIDE DEF P, I
<1> QED
  BY <1>1, <1>2, <1>3, <1>4, <1>5

\* Sorted: each page once, and each before those that cost more.
LEMMA ScoredSorted ==
  ASSUME NEW pages \in Seq(QueryPage), InContents(pages), NEW query \in Word
  PROVE  LET I == Scored(pages, query)
             s == Sorted(I, Closer)
         IN  /\ s \in [1..Cardinality(I) -> I] /\ Cardinality(I) \in Nat
             /\ \A i, j \in 1..Cardinality(I) : i < j => Closer(s[i], s[j])
             /\ \A x \in I : \E k \in 1..Cardinality(I) : s[k] = x
<1> DEFINE I == Scored(pages, query)
           R == {r \in I \X I : Closer(r[1], r[2])}
           n == Cardinality(I)
           Good(s) == \A i, j \in DOMAIN s : i < j => Closer(s[i], s[j])
           sorted == Sorted(I, Closer)
<1>1. /\ \A s \in I : s.page \in Nat /\ s.cost \in Nat /\ s.order \in Nat
      /\ \A s, t \in I : s.page = t.page => s = t
  BY ScoredTypes
<1>2. IsFiniteSet(I) /\ n \in Nat
  BY ScoredTypes, FS_CardinalityType
<1> HIDE DEF I
<1>3. /\ \A s \in I : ~Closer(s, s)
      /\ \A s, t \in I : s = t \/ Closer(s, t) \/ Closer(t, s)
      /\ \A s, t, u \in I : Closer(s, t) /\ Closer(t, u) => Closer(s, u)
  <2>1. \A s \in I : ~Closer(s, s)
    BY <1>1 DEF Closer
  <2>2. \A s, t \in I : s = t \/ Closer(s, t) \/ Closer(t, s)
    BY <1>1 DEF Closer
  <2>3. \A s, t, u \in I : Closer(s, t) /\ Closer(t, u) => Closer(s, u)
    BY <1>1 DEF Closer
  <2> QED
    BY <2>1, <2>2, <2>3
<1>4. Orders(R, I)
  <2>1. \A s, t : <<s, t>> \in R <=> s \in I /\ t \in I /\ Closer(s, t)
    OBVIOUS
  <2> HIDE DEF R
  <2> QED
    BY <1>3, <2>1 DEF Orders
<1>5. PICK s : Enumerates(s, R, I)
  BY <1>2, <1>4, SortedExists
<1>6. s \in [1..n -> I] /\ Good(s)
  <2>1. s \in [1..n -> I] /\ \A i, j \in 1..n : i < j => <<s[i], s[j]>> \in R
    BY <1>5 DEF Enumerates
  <2>2. \A h, g : <<h, g>> \in R => Closer(h, g)
    OBVIOUS
  <2> HIDE DEF R, n
  <2> QED
    BY <2>1, <2>2
<1>7. sorted \in [1..n -> I] /\ Good(sorted)
  <2>1. \E f \in [1..n -> I] : Good(f)
    BY <1>6
  <2> QED
    BY <2>1 DEF Sorted
<1> HIDE DEF sorted
<1>8. \A i, j \in 1..n : i < j => Closer(sorted[i], sorted[j])
  BY <1>7
<1>9. \A i, j \in 1..n : i < j => sorted[i] # sorted[j]
  <2> HIDE DEF n
  <2> QED
    BY <1>3, <1>7, <1>8
<1>10. \A x \in I : \E k \in 1..n : sorted[k] = x
  BY <1>2, <1>7, <1>9, EnumeratesEach
<1> QED
  BY <1>2, <1>7, <1>8, <1>10 DEF sorted, I

LEMMA RankIs ==
  ASSUME NEW query \in Word, NEW page \in QueryPage, Suggested(query, page)
  PROVE  /\ CostOf(query, page) \in 0..MaxCost(query)
         /\ Rank(query, page.keys) =
              IF CostOf(query, page) <= 1 THEN CostOf(query, page) ELSE MaxCost(query)
<1> DEFINE cost == CostOf(query, page)
           max == MaxCost(query)
<1>1. page.keys \in SUBSET Word
  BY DEF QueryPage
<1>2. /\ cost \in 0..max
      /\ query \in page.keys <=> cost = 0
      /\ Near(query, page.keys) => cost <= 1
      /\ cost <= 1 /\ max > 1 => Near(query, page.keys)
  BY <1>1, CostIs DEF CostOf, Suggested
<1>3. max \in {1, 2, 3}
  BY MaxCostIs
<1> HIDE DEF cost, max
<1>4. CASE query \in page.keys
  BY <1>2, <1>4 DEF Rank, max, cost
<1>5. CASE query \notin page.keys /\ Near(query, page.keys)
  <2>1. cost = 1
    BY <1>2, <1>3, <1>5
  <2> QED
    BY <1>2, <1>5, <2>1 DEF Rank, cost, max
<1>6. CASE query \notin page.keys /\ ~Near(query, page.keys)
  <2>1. cost = max \/ cost > 1
    BY <1>2, <1>3, <1>6
  <2>2. Rank(query, page.keys) = max
    BY <1>6 DEF Rank, max
  <2> QED
    BY <1>2, <1>3, <2>1, <2>2 DEF cost, max
<1> QED
  BY <1>4, <1>5, <1>6

\* A function without repetitions has as many values as arguments.
LEMMA ValuesCounted ==
  ASSUME NEW n \in Nat, NEW S, NEW f \in [1..n -> S],
         \A i, j \in 1..n : i # j => f[i] # f[j],
         NEW T, \A x : x \in T <=> \E i \in 1..n : f[i] = x
  PROVE  Cardinality(T) = n
<1>1. f \in [1..n -> T]
  OBVIOUS
<1>2. f \in Injection(1..n, T)
  BY <1>1 DEF Injection, IsInjective
<1>3. f \in Surjection(1..n, T)
  BY <1>1 DEF Surjection
<1>4. ExistsBijection(1..n, T)
  BY <1>2, <1>3 DEF ExistsBijection, Bijection
<1> QED
  BY <1>4, FS_CountingElements

LEMMA FuzzyIsRight ==
  ASSUME NEW pages \in Seq(QueryPage), InContents(pages), NEW query \in Word
  PROVE  ClosestFirst(pages, query, Fuzzy(pages, query))
<1> DEFINE I == Scored(pages, query)
           n == Cardinality(I)
           s == Sorted(I, Closer)
           list == [k \in 1..n |-> s[k].page]
           cost(p) == CostOf(query, pages[p])
           rank(p) == Rank(query, pages[p].keys)
           shown == {list[i] : i \in 1..n}
<1>1. CASE Len(query) < 3
  <2>1. Fuzzy(pages, query) = <<>>
    BY <1>1 DEF Fuzzy
  <2> DEFINE none == <<>>
  <2>2. Len(none) = 0 /\ DOMAIN none = {}
    OBVIOUS
  <2>3. Len(query) \in Nat
    BY DEF Word
  <2> HIDE DEF none
  <2>4. Cardinality({none[k] : k \in DOMAIN none}) = 0
    <3>1. {none[k] : k \in DOMAIN none} = {}
      BY <2>2
    <3> QED
      BY <3>1, FS_EmptySet
  <2>5. none = <<>>
    BY DEF none
  <2>6. ClosestFirst(pages, query, none)
    BY <1>1, <2>2, <2>3, <2>4, <2>5 DEF ClosestFirst
  <2> QED
    BY <2>1, <2>6 DEF none
<1>2. CASE ~ (Len(query) < 3)
  <2>1. /\ s \in [1..n -> I] /\ n \in Nat
        /\ \A i, j \in 1..n : i < j => Closer(s[i], s[j])
        /\ \A x \in I : \E k \in 1..n : s[k] = x
    BY ScoredSorted
  <2>2. /\ \A x \in I : /\ x.page \in DOMAIN pages /\ x.page \in Nat
                        /\ x.cost \in Nat /\ x.order \in Nat
                        /\ x.cost = cost(x.page) /\ x.order = PageOrder(pages[x.page])
                        /\ Suggested(query, pages[x.page])
        /\ \A p \in DOMAIN pages : Suggested(query, pages[p]) => \E x \in I : x.page = p
    BY ScoredTypes
  <2>3. Fuzzy(pages, query) = list
    BY <1>2, <2>1 DEF Fuzzy
  <2>4. \A p \in DOMAIN pages : pages[p] \in QueryPage /\ pages[p].keys \in SUBSET Word
    <3>1. \A page \in QueryPage : page.keys \in SUBSET Word
      BY DEF QueryPage
    <3> QED
      BY <3>1
  <2>5. \A p \in DOMAIN pages : Suggested(query, pages[p]) =>
           /\ cost(p) \in 0..MaxCost(query)
           /\ rank(p) = IF cost(p) <= 1 THEN cost(p) ELSE MaxCost(query)
    BY <2>4, RankIs
  <2>6. \A p \in DOMAIN pages :
          /\ Near(query, pages[p].keys) \/ Starts(query, pages[p].keys) => Suggested(query, pages[p])
          /\ Suggested(query, pages[p]) /\ MaxCost(query) = 1 =>
               Near(query, pages[p].keys) \/ Starts(query, pages[p].keys)
    BY <2>4, CostsAre DEF Suggested
  <2>7. \A p, q \in DOMAIN pages :
          PageOrder(pages[p]) < PageOrder(pages[q]) \/ PageOrder(pages[p]) = PageOrder(pages[q])
            => p <= q
    <3>1. \A p \in DOMAIN pages : PageOrder(pages[p]) \in Nat /\ p \in Nat
      BY PagesInOrder
    <3>2. \A p, q \in DOMAIN pages : q < p => PageOrder(pages[q]) < PageOrder(pages[p])
      BY PagesInOrder
    <3> QED
      BY <3>1, <3>2
  <2>8. MaxCost(query) \in {1, 2, 3} /\ (Len(query) <= 4 <=> MaxCost(query) = 1)
    BY MaxCostIs
  <2>9. \A i \in 1..n :
          /\ s[i] \in I /\ list[i] = s[i].page
          /\ list[i] \in DOMAIN pages /\ list[i] \in Nat /\ Suggested(query, pages[list[i]])
    <3> HIDE DEF I, n, s
    <3> QED
      BY <2>1, <2>2
  <2> HIDE DEF list, I, s
  <2>10. \A i, j \in 1..n : i < j =>
           \/ cost(list[i]) < cost(list[j])
           \/ cost(list[i]) = cost(list[j]) /\ list[i] < list[j]
    <3> SUFFICES ASSUME NEW i \in 1..n, NEW j \in 1..n, i < j
                 PROVE  \/ cost(list[i]) < cost(list[j])
                        \/ cost(list[i]) = cost(list[j]) /\ list[i] < list[j]
      OBVIOUS
    <3> DEFINE x == s[i]
               y == s[j]
    <3>1. Closer(x, y)
      BY <2>1
    <3>2. /\ x \in I /\ y \in I /\ list[i] = x.page /\ list[j] = y.page
      BY <2>9
    <3>3. /\ x.page \in Nat /\ y.page \in Nat /\ x.page \in DOMAIN pages /\ y.page \in DOMAIN pages
          /\ x.cost = cost(x.page) /\ y.cost = cost(y.page)
          /\ x.order = PageOrder(pages[x.page]) /\ y.order = PageOrder(pages[y.page])
      BY <2>2, <3>2
    <3> HIDE DEF x, y
    <3>4. \/ x.cost < y.cost
          \/ x.cost = y.cost /\ x.order < y.order
          \/ x.cost = y.cost /\ x.order = y.order /\ x.page < y.page
      BY <3>1 DEF Closer
    <3>5. ASSUME x.order < y.order PROVE x.page < y.page
      <4>1. x.page <= y.page
        BY <2>7, <3>3, <3>5
      <4>2. x.page # y.page
        <5>1. x.order \in Nat
          BY <2>2, <3>2
        <5> QED
          BY <3>3, <3>5, <5>1
      <4> QED
        BY <3>3, <4>1, <4>2
    <3> HIDE DEF cost
    <3> QED
      BY <3>2, <3>3, <3>4, <3>5
  <2>11. \A i, j \in 1..n : i # j => list[i] # list[j]
    <3>1. ASSUME NEW i \in 1..n, NEW j \in 1..n, i < j
          PROVE  list[i] # list[j]
      <4>1. cost(list[i]) \in Nat /\ list[i] \in Nat
        BY <2>5, <2>8, <2>9
      <4> HIDE DEF cost, n
      <4> QED
        BY <2>10, <3>1, <4>1
    <3> HIDE DEF n
    <3> QED
      BY <2>1, <3>1
  <2>12. list \in [1..n -> DOMAIN pages] /\ Len(list) = n /\ DOMAIN list = 1..n
    <3> HIDE DEF n
    <3> QED
      BY <2>1, <2>9 DEF list
  <2>13. Cardinality(shown) = Len(list)
    <3> HIDE DEF n
    <3>1. \A x : x \in shown <=> \E i \in 1..n : list[i] = x
      OBVIOUS
    <3>2. n \in Nat /\ list \in [1..n -> DOMAIN pages]
      BY <2>1, <2>12
    <3> HIDE DEF shown
    <3>3. Cardinality(shown) = n
      BY <2>11, <3>1, <3>2, ValuesCounted
    <3> QED
      BY <2>12, <3>3
  <2>14. \A p \in DOMAIN pages : p \in shown <=> Suggested(query, pages[p])
    <3>1. ASSUME NEW p \in DOMAIN pages, Suggested(query, pages[p])
          PROVE  p \in shown
      <4>1. PICK x \in I : x.page = p
        BY <2>2, <3>1
      <4>2. PICK k \in 1..n : s[k] = x
        BY <2>1
      <4>3. list[k] = p
        BY <2>9, <4>1, <4>2
      <4> QED
        BY <4>3
    <3> QED
      BY <2>9, <3>1
  <2>15. \A i, j \in 1..n : i < j =>
           \/ rank(list[i]) < rank(list[j])
           \/ rank(list[i]) = rank(list[j]) /\ (list[i] < list[j] \/ rank(list[i]) = 3)
    <3> SUFFICES ASSUME NEW i \in 1..n, NEW j \in 1..n, i < j
                 PROVE  \/ rank(list[i]) < rank(list[j])
                        \/ rank(list[i]) = rank(list[j]) /\ (list[i] < list[j] \/ rank(list[i]) = 3)
      OBVIOUS
    <3> DEFINE c == cost(list[i])
               e == cost(list[j])
               max == MaxCost(query)
    <3>1. /\ c \in 0..max /\ rank(list[i]) = IF c <= 1 THEN c ELSE max
          /\ e \in 0..max /\ rank(list[j]) = IF e <= 1 THEN e ELSE max
      BY <2>5, <2>9
    <3>2. c < e \/ (c = e /\ list[i] < list[j])
      BY <2>10
    <3>3. max \in {1, 2, 3}
      BY <2>8
    <3> HIDE DEF c, e, max, rank
    <3> QED
      BY <3>1, <3>2, <3>3
  <2>16. ClosestFirst(pages, query, list)
    <3>1. Len(query) \in Nat /\ Len(query) >= 3
      BY <1>2 DEF Word
    <3> HIDE DEF n
    <3>2. {list[i] : i \in DOMAIN list} = shown
      BY <2>12
    <3> HIDE DEF shown
    <3> QED
      BY <1>2, <2>6, <2>8, <2>12, <2>13, <2>14, <2>15, <3>2 DEF ClosestFirst
  <2> QED
    BY <2>3, <2>16 DEF list
<1> QED
  BY <1>1, <1>2

(* What a query without a page of its own is answered with, for any words   *)
(* and any pages in the order of the contents: each page that the query is  *)
(* an edit away from or the beginning of, each once, the closest first, and *)
(* of two as close the one that the contents list first (resolve.rs:109-146, *)
(* 149-193).                                                                *)
THEOREM ClosestCorrect == CallSpec => []ClosestComesFirst
<1> DEFINE Asked == call = "fuzzy" => input \in Queries
<1>1. CallInit => Asked /\ ClosestComesFirst
  BY DEF CallInit, ClosestComesFirst, Returned
<1>2. Asked /\ ClosestComesFirst /\ [CallNext]_vars => Asked' /\ ClosestComesFirst'
  <2> SUFFICES ASSUME Asked, ClosestComesFirst, [CallNext]_vars
               PROVE  Asked' /\ ClosestComesFirst'
    OBVIOUS
  <2>1. CASE FindClosest
    <3>1. /\ call = "fuzzy" /\ call' = call /\ input' = input
          /\ output' = Fuzzy(input.pages, input.query)
      BY <2>1 DEF FindClosest, Called
    <3>2. /\ input.pages \in Seq(QueryPage) /\ input.query \in Word
          /\ InContents(input.pages)
      BY <3>1, QueriesAssumption
    <3>3. ClosestFirst(input.pages, input.query, output')
      BY <3>1, <3>2, FuzzyIsRight
    <3> QED
      BY <3>1, <3>3 DEF ClosestComesFirst
  <2>2. CASE FindWords
    BY <2>2 DEF FindWords, Called, ClosestComesFirst, Returned
  <2>3. CASE Redact
    BY <2>3 DEF Redact, Called, ClosestComesFirst, Returned
  <2>4. CASE WrapText
    BY <2>4 DEF WrapText, Called, ClosestComesFirst, Returned
  <2>5. CASE ReadSections
    BY <2>5 DEF ReadSections, Called, ClosestComesFirst, Returned
  <2>6. CASE ResolvePath
    BY <2>6 DEF ResolvePath, Called, ClosestComesFirst, Returned
  <2>7. CASE ReadServer
    BY <2>7 DEF ReadServer, Called, ClosestComesFirst, Returned
  <2>8. CASE UNCHANGED vars
    BY <2>8 DEF vars, ClosestComesFirst, Returned
  <2> QED
    BY <2>1, <2>2, <2>3, <2>4, <2>5, <2>6, <2>7, <2>8 DEF CallNext
<1> QED
  BY <1>1, <1>2, PTL DEF CallSpec

-----------------------------------------------------------------------------
(* Texts written from others *)

\* Each place of a text of n letters has a step, which goes on to the right.
Steps(step, n, S) ==
  /\ step \in [1..n -> [says : Seq(S), next : 1..(n + 1)]]
  /\ \A i \in 1..n : i < step[i].next

\* What is written from each place on.
WrittenFrom(from, step, n) ==
  /\ Written(step) = from[1] /\ from[n + 1] = <<>>
  /\ \A i \in 1..n : from[i] = step[i].says \o from[step[i].next]

LEMMA WrittenIs ==
  ASSUME NEW S, NEW n \in Nat, NEW step, Steps(step, n, S)
  PROVE  \E from \in [1..(n + 1) -> Seq(S)] : WrittenFrom(from, step, n)
<1> DEFINE D == 1..(n + 1)
           At1(f, i) == IF i \in 1..n THEN step[i].says \o f[step[i].next] ELSE <<>>
           Right(f, k) == \A i \in D : n + 1 - i < k => f[i] = At1(f, i)
           Ks == {k \in Nat : ~ \E f \in [D -> Seq(S)] : Right(f, k)}
<1>1. \A i \in 1..n : /\ step[i].says \in Seq(S) /\ step[i].next \in D
                      /\ i < step[i].next
  BY DEF Steps
<1>2. Len(step) = n /\ DOMAIN step = 1..n
  BY DEF Steps
<1>3. \A f \in [D -> Seq(S)], i \in D : At1(f, i) \in Seq(S)
  <2> SUFFICES ASSUME NEW f \in [D -> Seq(S)], NEW i \in D PROVE At1(f, i) \in Seq(S)
    OBVIOUS
  <2>1. CASE i \in 1..n
    <3>1. step[i].says \in Seq(S) /\ f[step[i].next] \in Seq(S)
      BY <1>1, <2>1
    <3>2. step[i].says \o f[step[i].next] \in Seq(S)
      BY <3>1, ConcatProperties
    <3> QED
      BY <2>1, <3>2
  <2>2. CASE i \notin 1..n
    BY <2>2, EmptySeq
  <2> QED
    BY <2>1, <2>2
<1>4. Ks = {}
  <2> SUFFICES ASSUME Ks # {} PROVE FALSE
    OBVIOUS
  <2>1. PICK k \in Ks : \A l \in Ks : k <= l
    <3>1. Ks \subseteq Nat
      OBVIOUS
    <3> HIDE DEF Ks
    <3> QED
      BY <3>1, SmallestNumber
  <2>2. k \in Nat /\ ~ \E f \in [D -> Seq(S)] : Right(f, k)
    OBVIOUS
  <2>3. k # 0
    <3> SUFFICES ASSUME k = 0 PROVE FALSE
      OBVIOUS
    <3> DEFINE none == [x \in D |-> <<>>]
    <3>1. none \in [D -> Seq(S)]
      BY EmptySeq
    <3>2. \A f : Right(f, 0)
      OBVIOUS
    <3> QED
      BY <2>2, <3>1, <3>2
  <2>4. PICK f \in [D -> Seq(S)] : Right(f, k - 1)
    <3>1. k - 1 \in Nat /\ ~(k <= k - 1)
      BY <2>2, <2>3
    <3>2. k - 1 \notin Ks
      BY <2>1, <3>1
    <3> HIDE DEF Right
    <3> QED
      BY <3>1, <3>2
  <2> DEFINE g == [i \in D |-> At1(f, i)]
  <2>5. g \in [D -> Seq(S)] /\ \A i \in D : g[i] = At1(f, i)
    <3> HIDE DEF At1, D
    <3> QED
      BY <1>3
  <2> HIDE DEF g
  <2>6. Right(g, k)
    <3> SUFFICES ASSUME NEW i \in D, n + 1 - i < k PROVE g[i] = At1(g, i)
      OBVIOUS
    <3>1. CASE i \in 1..n
      <4> DEFINE j == step[i].next
      <4>1. j \in D /\ i < j
        BY <1>1, <3>1
      <4> HIDE DEF j
      <4>2. n + 1 - j < k - 1
        BY <2>2, <4>1
      <4>3. g[j] = f[j]
        BY <2>4, <2>5, <4>1, <4>2
      <4> QED
        BY <2>5, <4>3 DEF j
    <3>2. CASE i \notin 1..n
      BY <2>5, <3>2
    <3> QED
      BY <3>1, <3>2
  <2> HIDE DEF Right
  <2> QED
    BY <2>2, <2>5, <2>6
<1>5. PICK f \in [D -> Seq(S)] : Right(f, n + 1)
  <2>1. n + 1 \in Nat
    OBVIOUS
  <2> HIDE DEF Right
  <2> QED
    BY <1>4, <2>1
<1> DEFINE d == CHOOSE d : d = [i \in D |-> At1(d, i)]
<1>6. f = [i \in D |-> At1(f, i)]
  <2>1. \A i \in D : n + 1 - i < n + 1
    OBVIOUS
  <2>2. \A i \in D : f[i] = At1(f, i)
    BY <1>5, <2>1
  <2> HIDE DEF At1, D
  <2> QED
    BY <2>2
<1>7. d = [i \in D |-> At1(d, i)]
  BY <1>6
<1>8. Written(step) = d[1]
  BY <1>2 DEF Written
<1> HIDE DEF d
<1>9. \A i \in D : d[i] = At1(d, i)
  <2> HIDE DEF At1, D
  <2> QED
    BY <1>7
<1>10. \A i \in D : d[i] \in Seq(S)
  <2> DEFINE Ls == {l \in Nat : \E i \in D : l = n + 1 - i /\ d[i] \notin Seq(S)}
  <2>1. SUFFICES Ls = {}
    <3>1. \A i \in D : n + 1 - i \in Nat
      OBVIOUS
    <3> QED
      BY <2>1, <3>1
  <2> SUFFICES ASSUME Ls # {} PROVE FALSE
    OBVIOUS
  <2>2. PICK l \in Ls : \A k \in Ls : l <= k
    <3>1. Ls \subseteq Nat
      OBVIOUS
    <3> HIDE DEF Ls
    <3> QED
      BY <3>1, SmallestNumber
  <2>3. PICK i \in D : l = n + 1 - i /\ d[i] \notin Seq(S)
    OBVIOUS
  <2>4. CASE i \in 1..n
    <3> DEFINE j == step[i].next
    <3>1. j \in D /\ i < j /\ step[i].says \in Seq(S)
      BY <1>1, <2>4
    <3>2. d[j] \in Seq(S)
      <4> SUFFICES ASSUME d[j] \notin Seq(S) PROVE FALSE
        OBVIOUS
      <4> HIDE DEF j
      <4>1. n + 1 - j \in Ls /\ n + 1 - j < n + 1 - i
        BY <3>1
      <4>2. n + 1 - i <= n + 1 - j
        <5> HIDE DEF Ls
        <5> QED
          BY <2>2, <2>3, <4>1
      <4> HIDE DEF Ls
      <4>3. n + 1 - j \in Int /\ n + 1 - i \in Int
        BY <3>1
      <4> QED
        BY <4>1, <4>2, <4>3
    <3>3. step[i].says \o d[j] \in Seq(S)
      BY <3>1, <3>2, ConcatProperties
    <3> QED
      BY <1>9, <2>3, <2>4, <3>3
  <2>5. CASE i \notin 1..n
    BY <1>9, <2>3, <2>5, EmptySeq
  <2> QED
    BY <2>4, <2>5
<1>11. d \in [D -> Seq(S)]
  <2> DEFINE h == [i \in D |-> At1(d, i)]
  <2>1. d = h /\ DOMAIN h = D /\ h = [i \in DOMAIN h |-> h[i]]
    BY <1>7
  <2> HIDE DEF h, D
  <2> QED
    BY <1>10, <2>1
<1>12. 1 \in D /\ n + 1 \in D /\ n + 1 \notin 1..n /\ \A i \in 1..n : i \in D
  OBVIOUS
<1>13. WrittenFrom(d, step, n)
  BY <1>8, <1>9, <1>12 DEF WrittenFrom
<1> QED
  BY <1>11, <1>13

LEMMA WrittenType ==
  ASSUME NEW S, NEW n \in Nat, NEW step, Steps(step, n, S)
  PROVE  Written(step) \in Seq(S)
<1>1. PICK from \in [1..(n + 1) -> Seq(S)] : WrittenFrom(from, step, n)
  BY WrittenIs
<1>2. 1 \in 1..(n + 1)
  OBVIOUS
<1>3. from[1] \in Seq(S)
  BY <1>2
<1>4. Written(step) = from[1]
  BY <1>1 DEF WrittenFrom
<1> QED
  BY <1>3, <1>4

\* A text of which every step writes what is there is written as it is.
LEMMA WrittenAsItIs ==
  ASSUME NEW S, NEW s \in Seq(S), NEW step, Steps(step, Len(s), S),
         \A i \in 1..Len(s) : step[i].says = SubSeq(s, i, step[i].next - 1)
  PROVE  Written(step) = s
<1> DEFINE n == Len(s)
<1>1. n \in Nat
  OBVIOUS
<1>2. PICK from \in [1..(n + 1) -> Seq(S)] : WrittenFrom(from, step, n)
  BY <1>1, WrittenIs
<1> DEFINE Ls == {l \in Nat : \E i \in 1..(n + 1) : l = n + 1 - i /\ from[i] # SubSeq(s, i, n)}
<1>3. Ls = {}
  <2> SUFFICES ASSUME Ls # {} PROVE FALSE
    OBVIOUS
  <2>2. PICK l \in Ls : \A k \in Ls : l <= k
    <3>1. Ls \subseteq Nat
      OBVIOUS
    <3> HIDE DEF Ls
    <3> QED
      BY <3>1, SmallestNumber
  <2>3. PICK i \in 1..(n + 1) : l = n + 1 - i /\ from[i] # SubSeq(s, i, n)
    OBVIOUS
  <2>4. CASE i \in 1..n
    <3> DEFINE j == step[i].next
    <3>1. j \in 1..(n + 1) /\ i < j /\ step[i].says = SubSeq(s, i, j - 1)
      BY <2>4 DEF Steps
    <3> HIDE DEF j
    <3>2. from[j] = SubSeq(s, j, n)
      <4> SUFFICES ASSUME from[j] # SubSeq(s, j, n) PROVE FALSE
        OBVIOUS
      <4>1. n + 1 - j \in Ls /\ n + 1 - j < n + 1 - i
        BY <1>1, <3>1
      <4>2. n + 1 - i <= n + 1 - j
        <5> HIDE DEF Ls
        <5> QED
          BY <2>2, <2>3, <4>1
      <4> HIDE DEF Ls
      <4>3. n + 1 - j \in Int /\ n + 1 - i \in Int
        BY <1>1, <3>1
      <4> QED
        BY <4>1, <4>2, <4>3
    <3>3. SubSeq(s, i, j - 1) \o SubSeq(s, (j - 1) + 1, n) = SubSeq(s, i, n)
      <4>1. i \in 1..(Len(s) + 1) /\ j - 1 \in (i - 1)..Len(s) /\ n \in (j - 1)..Len(s)
        BY <1>1, <3>1
      <4> HIDE DEF n
      <4> QED
        BY <4>1, ConcatAdjacentSubSeq
    <3>4. (j - 1) + 1 = j
      BY <3>1
    <3>5. from[i] = SubSeq(s, i, j - 1) \o from[j]
      BY <1>2, <2>4, <3>1 DEF WrittenFrom, j
    <3> QED
      BY <2>3, <3>2, <3>3, <3>4, <3>5
  <2>5. CASE i \notin 1..n
    <3>1. i = n + 1 /\ n < i /\ i \in Int /\ n \in Int
      BY <1>1, <2>5
    <3>2. SubSeq(s, i, n) = <<>>
      BY <3>1, SubSeqEmpty
    <3> QED
      BY <1>2, <2>3, <3>1, <3>2 DEF WrittenFrom
  <2> QED
    BY <2>4, <2>5
<1>4. from[1] = SubSeq(s, 1, n)
  <2>1. n + 1 - 1 \in Nat /\ 1 \in 1..(n + 1)
    BY <1>1
  <2> HIDE DEF n
  <2> QED
    BY <1>3, <2>1
<1> QED
  BY <1>2, <1>4, SubSeqFull DEF WrittenFrom

-----------------------------------------------------------------------------
(* One name after another *)

Letter == InWord \cup Between \cup Marks

LEMMA AtIs ==
  ASSUME NEW s \in Seq(Letter), NEW word \in Seq(Letter), NEW i \in Nat \ {0}
  PROVE  At(s, i, word) <=> /\ i + Len(word) - 1 <= Len(s)
                            /\ \A k \in 1..Len(word) : s[i + k - 1] = word[k]
<1> DEFINE e == i + Len(word) - 1
           t == SubSeq(s, i, e)
<1>1. Len(s) \in Nat /\ Len(word) \in Nat
  OBVIOUS
<1>2. CASE e <= Len(s)
  <2>1. i \in Int /\ e \in Int /\ \A k \in i..e : s[k] \in Letter
    BY <1>1, <1>2
  <2> HIDE DEF e
  <2>2. /\ t \in Seq(Letter) /\ Len(t) = IF i <= e THEN e - i + 1 ELSE 0
        /\ \A k \in 1..(e - i + 1) : t[k] = s[i + k - 1]
    BY <2>1, SubSeqProperties
  <2>3. Len(t) = Len(word) /\ e - i + 1 = Len(word)
    BY <1>1, <2>2 DEF e
  <2> HIDE DEF t
  <2>4. t = word <=> \A k \in 1..Len(word) : t[k] = word[k]
    BY <2>2, <2>3, SeqEqual
  <2>5. t = word <=> \A k \in 1..Len(word) : s[i + k - 1] = word[k]
    BY <2>2, <2>3, <2>4
  <2> QED
    BY <1>2, <2>5 DEF At, e, t
<1>3. CASE ~(e <= Len(s))
  BY <1>3 DEF At
<1> QED
  BY <1>2, <1>3

\* A step copies what is there, or writes something else and goes on after it.
LEMMA ReplacingSteps ==
  ASSUME NEW s \in Seq(Letter), NEW word \in Seq(Letter), word # <<>>, NEW with \in Letter,
         NEW whole \in BOOLEAN
  PROVE  LET step == Replacing(s, word, with, whole)
         IN  /\ Steps(step, Len(s), Letter)
             /\ \A i \in 1..Len(s) :
                  /\ ~At(s, i, word) => step[i].says = <<s[i]>> /\ step[i].next = i + 1
                  /\ At(s, i, word) =>
                       /\ step[i].next = i + Len(word)
                       /\ step[i].says = IF whole => IsWhole(s, i, word) THEN <<with>> ELSE word
<1> DEFINE step == Replacing(s, word, with, whole)
           n == Len(s)
           Step(i) == IF ~At(s, i, word) THEN [says |-> <<s[i]>>, next |-> i + 1]
                      ELSE [says |-> IF whole => IsWhole(s, i, word) THEN <<with>> ELSE word,
                            next |-> i + Len(word)]
<1>1. n \in Nat /\ DOMAIN s = 1..n /\ Len(word) \in Nat \ {0} /\ \A i \in 1..n : s[i] \in Letter
  OBVIOUS
<1>2. step = [i \in 1..n |-> Step(i)]
  BY <1>1 DEF Replacing
<1>3. ASSUME NEW i \in 1..n
      PROVE  /\ ~At(s, i, word) => Step(i).says = <<s[i]>> /\ Step(i).next = i + 1
             /\ At(s, i, word) =>
                  /\ Step(i).next = i + Len(word)
                  /\ Step(i).says = IF whole => IsWhole(s, i, word) THEN <<with>> ELSE word
             /\ Step(i) \in [says : Seq(Letter), next : 1..(n + 1)]
             /\ i < Step(i).next
  <2>1. CASE ~At(s, i, word)
    <3>1. <<s[i]>> \in Seq(Letter) /\ i + 1 \in 1..(n + 1) /\ i < i + 1
      BY <1>1
    <3>2. Step(i) = [says |-> <<s[i]>>, next |-> i + 1]
      BY <2>1
    <3> QED
      BY <2>1, <3>1, <3>2
  <2>2. CASE At(s, i, word)
    <3> DEFINE w == IF whole => IsWhole(s, i, word) THEN <<with>> ELSE word
    <3>1. i + Len(word) - 1 <= n
      BY <1>1, <2>2, AtIs
    <3>2. i + Len(word) \in 1..(n + 1) /\ i < i + Len(word)
      BY <1>1, <3>1
    <3>3. w \in Seq(Letter)
      OBVIOUS
    <3>4. Step(i) = [says |-> w, next |-> i + Len(word)]
      BY <2>2
    <3> HIDE DEF w, Step
    <3>5. Step(i).says = w /\ Step(i).next = i + Len(word)
          /\ Step(i) \in [says : Seq(Letter), next : 1..(n + 1)]
      BY <3>2, <3>3, <3>4
    <3> QED
      BY <2>2, <3>2, <3>5 DEF w
  <2> QED
    BY <2>1, <2>2
<1> HIDE DEF step, Step
<1>4. \A i \in 1..n : step[i] = Step(i)
  BY <1>2
<1>5. Steps(step, n, Letter)
  BY <1>2, <1>3, <1>4 DEF Steps
<1> QED
  BY <1>3, <1>4, <1>5 DEF step

\* What a step that copies writes.
LEMMA CopyIs ==
  ASSUME NEW s \in Seq(Letter), NEW i \in 1..Len(s)
  PROVE  /\ <<s[i]>> = SubSeq(s, i, (i + 1) - 1)
         /\ \A word \in Seq(Letter) : word # <<>> /\ At(s, i, word) =>
              word = SubSeq(s, i, (i + Len(word)) - 1)
<1>1. SubSeq(s, i, i) = <<s[i]>>
  <2>1. i \in Int /\ \A k \in i..i : s[k] \in Letter
    OBVIOUS
  <2>2. SubSeq(s, i, i) \in Seq(Letter) /\ Len(SubSeq(s, i, i)) = i - i + 1
        /\ \A k \in 1..(i - i + 1) : SubSeq(s, i, i)[k] = s[i + k - 1]
    BY <2>1, SubSeqProperties
  <2> DEFINE t == SubSeq(s, i, i)
  <2> HIDE DEF t
  <2>3. t \in Seq(Letter) /\ Len(t) = 1 /\ t[1] = s[i]
    BY <2>2 DEF t
  <2>4. <<s[i]>> \in Seq(Letter) /\ Len(<<s[i]>>) = 1 /\ <<s[i]>>[1] = s[i]
    OBVIOUS
  <2>5. t = <<s[i]>>
    BY <2>3, <2>4, SeqEqual
  <2> QED
    BY <2>5 DEF t
<1>2. (i + 1) - 1 = i
  OBVIOUS
<1> QED
  BY <1>1, <1>2 DEF At

LEMMA ReplaceIs ==
  ASSUME NEW s \in Seq(Letter), NEW word \in Seq(Letter), NEW with \in Letter
  PROVE  /\ Replace(s, word, with) \in Seq(Letter)
         /\ ~Holds(s, word) => Replace(s, word, with) = s
<1> DEFINE n == Len(s)
           step == Replacing(s, word, with, FALSE)
<1>1. CASE word = <<>>
  <2> DEFINE t == [k \in 1..(2 * n + 1) |-> IF k % 2 = 1 THEN with ELSE s[k \div 2]]
  <2>1. n \in Nat /\ 2 * n + 1 \in Nat
    OBVIOUS
  <2>2. ASSUME NEW k \in 1..(2 * n + 1), k % 2 # 1 PROVE s[k \div 2] \in Letter
    <3>1. k \div 2 \in 1..n
      BY <2>1, <2>2
    <3> QED
      BY <3>1
  <2>3. t \in [1..(2 * n + 1) -> Letter]
    BY <2>2
  <2>4. t \in Seq(Letter)
    BY <2>1, <2>3
  <2>5. Replace(s, word, with) = t
    BY <1>1 DEF Replace
  <2> QED
    BY <1>1, <2>4, <2>5 DEF Holds
<1>2. CASE word # <<>>
  <2>1. n \in Nat /\ DOMAIN s = 1..n
    OBVIOUS
  <2>2. Steps(step, n, Letter)
    BY <1>2, ReplacingSteps
  <2>3. Replace(s, word, with) = Written(step)
    BY <1>2 DEF Replace
  <2>4. Written(step) \in Seq(Letter)
    BY <2>1, <2>2, WrittenType
  <2>5. ASSUME ~Holds(s, word) PROVE Written(step) = s
    <3>1. \A i \in 1..n : ~At(s, i, word)
      BY <2>1, <2>5 DEF Holds
    <3>2. \A i \in 1..n : step[i].says = <<s[i]>> /\ step[i].next = i + 1
      BY <1>2, <3>1, ReplacingSteps
    <3> HIDE DEF step
    <3>3. \A i \in 1..n : step[i].says = SubSeq(s, i, step[i].next - 1)
      BY <3>2, CopyIs
    <3> QED
      BY <2>2, <3>3, WrittenAsItIs
  <2> QED
    BY <2>3, <2>4, <2>5
<1> QED
  BY <1>1, <1>2

\* A whole one as the property sees it, and as the code does.
WholeAt(s, i, word) == At(s, i, word) /\ IsWhole(s, i, word)

LEMMA HoldsWholeIs ==
  ASSUME NEW s \in Seq(Letter), NEW word \in Seq(Letter)
  PROVE  HoldsWhole(s, word) <=> word # <<>> /\ \E i \in 1..Len(s) : WholeAt(s, i, word)
<1>1. DOMAIN s = 1..Len(s) /\ Len(s) \in Nat /\ Len(word) \in Nat
  OBVIOUS
<1>2. ASSUME NEW i \in 1..Len(s)
      PROVE  Beside(s, i, word) \cap InWord = {} <=> IsWhole(s, i, word)
  <2>1. i - 1 \in DOMAIN s <=> i > 1
    BY <1>1
  <2>2. i + Len(word) \in DOMAIN s <=> i + Len(word) <= Len(s)
    BY <1>1
  <2>3. Beside(s, i, word) \cap InWord = {} <=>
          \A j \in {i - 1, i + Len(word)} \cap DOMAIN s : s[j] \notin InWord
    BY DEF Beside
  <2> DEFINE a == i - 1
             b == i + Len(word)
  <2> HIDE DEF a, b
  <2>4. (\A j \in {a, b} \cap DOMAIN s : s[j] \notin InWord) <=>
          (a \in DOMAIN s => s[a] \notin InWord) /\ (b \in DOMAIN s => s[b] \notin InWord)
    OBVIOUS
  <2> QED
    BY <2>1, <2>2, <2>3, <2>4 DEF a, b, IsWhole
<1> QED
  BY <1>1, <1>2 DEF HoldsWhole, WholeAt

LEMMA NameIs ==
  ASSUME NEW word \in Name
  PROVE  /\ word \in Seq(Letter)
         /\ \A k \in 1..Len(word) : word[k] \notin Marks
         /\ word # <<>> =>
              /\ Len(word) \in Nat \ {0}
              /\ word[1] \in InWord /\ word[Len(word)] \in InWord
<1>1. word \in Seq(InWord \cup {"-"})
  BY DEF Name
<1>2. InWord \cup {"-"} \subseteq Letter /\ (InWord \cup {"-"}) \cap Marks = {}
  BY LettersAssumption DEF Letter, InWord, Marks, Between
<1> QED
  BY <1>1, <1>2 DEF Name

\* A name does not begin within itself, but in the middle of a word.
LEMMA NoRestart ==
  ASSUME NEW s \in Seq(Letter), NEW word \in Name, word # <<>>,
         NEW i \in Nat \ {0}, NEW j \in Nat \ {0},
         At(s, i, word), WholeAt(s, j, word), i < j
  PROVE  i + Len(word) <= j
<1> SUFFICES ASSUME j < i + Len(word) PROVE FALSE
  <2>1. Len(word) \in Nat
    BY NameIs
  <2> QED
    BY <2>1
<1> DEFINE l == Len(word)
           n == j - i + 1
           a == SubSeq(word, n, l)
           b == SubSeq(word, 1, l - n + 1)
<1>1. word \in Seq(Letter) /\ l \in Nat
  BY NameIs
<1>2. /\ j + l - 1 <= Len(s)
      /\ \A k \in 1..l : s[j + k - 1] = word[k]
  BY AtIs, <1>1 DEF WholeAt
<1>3. \A k \in 1..l : s[i + k - 1] = word[k]
  BY AtIs, <1>1
<1>4. n \in 2..l /\ n - 1 \in 1..l /\ i + (n - 1) - 1 = j - 1
  BY <1>1
<1>5. word[n - 1] \notin InWord
  <2>1. word[n - 1] = s[j - 1]
    BY <1>3, <1>4
  <2> QED
    BY <2>1 DEF WholeAt, IsWhole
<1>6. a = b
  <2> HIDE DEF n
  <2>1. \A k \in n..l : word[k] \in Letter
    BY <1>1, <1>4
  <2>2. \A k \in 1..(l - n + 1) : word[k] \in Letter
    BY <1>1, <1>4
  <2>3. /\ a \in Seq(Letter) /\ Len(a) = l - n + 1
        /\ \A k \in 1..(l - n + 1) : a[k] = word[n + k - 1]
    BY <1>1, <1>4, <2>1, SubSeqProperties
  <2>4. /\ b \in Seq(Letter) /\ Len(b) = l - n + 1
        /\ \A k \in 1..(l - n + 1) : b[k] = word[1 + k - 1]
    <3> DEFINE e == l - n + 1
    <3>1. 1 \in Int /\ e \in Int /\ 1 <= e /\ e - 1 + 1 = e
      BY <1>1, <1>4
    <3> HIDE DEF e
    <3>2. /\ SubSeq(word, 1, e) \in Seq(Letter) /\ Len(SubSeq(word, 1, e)) = e - 1 + 1
          /\ \A k \in 1..(e - 1 + 1) : SubSeq(word, 1, e)[k] = word[1 + k - 1]
      BY <2>2, <3>1, SubSeqProperties DEF e
    <3> QED
      BY <3>1, <3>2 DEF e
  <2>5. ASSUME NEW k \in 1..(l - n + 1) PROVE a[k] = b[k]
    <3>1. n + k - 1 \in 1..l /\ k \in 1..l /\ 1 + k - 1 = k
      BY <1>1, <1>4
    <3>2. s[i + (n + k - 1) - 1] = word[n + k - 1] /\ s[j + k - 1] = word[k]
      BY <1>2, <1>3, <3>1
    <3>3. i + (n + k - 1) - 1 = j + k - 1
      BY DEF n
    <3> QED
      BY <2>3, <2>4, <3>1, <3>2, <3>3
  <2> HIDE DEF a, b
  <2> QED
    BY <2>3, <2>4, <2>5, SeqEqual
<1> QED
  BY <1>4, <1>5, <1>6 DEF Name

\* Where each letter of what is written comes from: place m[k] of the text is
\* copied, or a whole name there is hidden.
CopiedAt(s, word, m, out, k) ==
  out[k] = s[m[k]] /\ m[k + 1] = m[k] + 1 /\ ~WholeAt(s, m[k], word)
HiddenAt(s, word, with, m, out, k) ==
  out[k] = with /\ m[k + 1] = m[k] + Len(word) /\ WholeAt(s, m[k], word)
Traced(s, word, with, m, out, i) ==
  /\ m \in [1..(Len(out) + 1) -> 1..(Len(s) + 1)]
  /\ m[1] = i /\ m[Len(out) + 1] = Len(s) + 1
  /\ \A k \in 1..Len(out) :
       /\ m[k] \in 1..Len(s)
       /\ CopiedAt(s, word, m, out, k) \/ HiddenAt(s, word, with, m, out, k)

\* What one step writes can be traced if what is written after it can.
LEMMA TracedStep ==
  ASSUME NEW s \in Seq(Letter), NEW word \in Seq(Letter), NEW with \in Letter,
         NEW i \in 1..Len(s), NEW j \in 1..(Len(s) + 1),
         NEW a \in Seq(Letter), NEW b \in Seq(Letter), NEW m, Traced(s, word, with, m, b, j),
         \/ /\ Len(a) >= 1 /\ j = i + Len(a)
            /\ \A k \in 1..Len(a) : a[k] = s[i + k - 1] /\ ~WholeAt(s, i + k - 1, word)
         \/ Len(a) = 1 /\ a[1] = with /\ j = i + Len(word) /\ WholeAt(s, i, word)
  PROVE  \E r : Traced(s, word, with, r, a \o b, i)
<1> DEFINE n == Len(s)
           c == Len(a)
           d == Len(b)
           out == a \o b
           r == [k \in 1..(c + d + 1) |-> IF k <= c THEN i + k - 1 ELSE m[k - c]]
<1>1. n \in Nat /\ c \in Nat \ {0} /\ d \in Nat
  OBVIOUS
<1>2. /\ m \in [1..(d + 1) -> 1..(n + 1)] /\ m[1] = j /\ m[d + 1] = n + 1
      /\ \A k \in 1..d : m[k] \in 1..n
      /\ \A k \in 1..d : CopiedAt(s, word, m, b, k) \/ HiddenAt(s, word, with, m, b, k)
  BY DEF Traced
<1>3. Len(out) = c + d /\ out \in Seq(Letter)
  BY ConcatProperties
<1>4. /\ \A k \in 1..c : out[k] = a[k]
      /\ \A k \in (c + 1)..(c + d) : out[k] = b[k - c]
  <2>1. \A k \in 1..(c + d) : out[k] = IF k <= c THEN a[k] ELSE b[k - c]
    BY ConcatProperties
  <2> HIDE DEF out
  <2> QED
    BY <1>1, <2>1
<1>5. /\ \A k \in 1..c : r[k] = i + k - 1
      /\ \A k \in (c + 1)..(c + d + 1) : r[k] = m[k - c]
  BY <1>1
<1>6. \A k \in 1..c : i + k - 1 \in 1..n
  <2>1. c = 1 \/ j = i + c
    OBVIOUS
  <2>2. CASE c = 1
    BY <2>2
  <2>3. CASE j = i + c
    BY <1>1, <2>3
  <2> QED
    BY <2>1, <2>2, <2>3
<1>7. \A k \in (c + 1)..(c + d + 1) : k - c \in 1..(d + 1)
  BY <1>1
<1>8. r \in [1..(c + d + 1) -> 1..(n + 1)]
  <2>1. ASSUME NEW k \in 1..(c + d + 1)
        PROVE  (IF k <= c THEN i + k - 1 ELSE m[k - c]) \in 1..(n + 1)
    <3>1. CASE k <= c
      <4>1. i + k - 1 \in 1..n
        BY <1>1, <1>6, <3>1
      <4> QED
        BY <1>1, <3>1, <4>1
    <3>2. CASE ~(k <= c)
      <4>1. k - c \in 1..(d + 1)
        BY <1>1, <3>2
      <4>2. m[k - c] \in 1..(n + 1)
        BY <1>2, <4>1
      <4> QED
        BY <3>2, <4>2
    <3> QED
      BY <3>1, <3>2
  <2> QED
    BY <2>1
<1> HIDE DEF r, out
<1>9. r[c + 1] = j
  <2>1. c + 1 \in (c + 1)..(c + d + 1) /\ (c + 1) - c = 1
    BY <1>1
  <2>2. r[c + 1] = m[(c + 1) - c]
    BY <1>5, <2>1
  <2> QED
    BY <1>2, <2>1, <2>2
<1>10. ASSUME NEW k \in 1..(c + d)
       PROVE  /\ r[k] \in 1..n
              /\ CopiedAt(s, word, r, out, k) \/ HiddenAt(s, word, with, r, out, k)
  <2>1. CASE k \in 1..c
    <3>1. r[k] = i + k - 1 /\ r[k] \in 1..n /\ out[k] = a[k]
      BY <1>4, <1>5, <1>6, <2>1
    <3>2. CASE /\ j = i + c
               /\ \A h \in 1..c : a[h] = s[i + h - 1] /\ ~WholeAt(s, i + h - 1, word)
      <4>1. r[k + 1] = r[k] + 1
        <5>1. CASE k = c
          BY <1>9, <3>1, <3>2, <5>1
        <5>2. CASE k # c
          <6>1. k + 1 \in 1..c
            BY <1>1, <2>1, <5>2
          <6> QED
            BY <1>5, <3>1, <6>1
        <5> QED
          BY <5>1, <5>2
      <4>2. a[k] = s[i + k - 1] /\ ~WholeAt(s, i + k - 1, word)
        BY <2>1, <3>2
      <4> QED
        BY <3>1, <4>1, <4>2 DEF CopiedAt
    <3>3. CASE c = 1 /\ a[1] = with /\ j = i + Len(word) /\ WholeAt(s, i, word)
      <4>1. k = 1 /\ r[1] = i /\ r[k + 1] = j
        BY <1>1, <1>9, <2>1, <3>1, <3>3
      <4> QED
        BY <3>1, <3>3, <4>1 DEF HiddenAt
    <3> QED
      BY <3>2, <3>3
  <2>2. CASE k \notin 1..c
    <3> DEFINE h == k - c
    <3>1. h \in 1..d /\ k \in (c + 1)..(c + d) /\ k \in (c + 1)..(c + d + 1)
          /\ k + 1 \in (c + 1)..(c + d + 1) /\ (k + 1) - c = h + 1
      BY <1>1, <2>2
    <3>2. r[k] = m[h] /\ r[k + 1] = m[h + 1] /\ out[k] = b[h]
      BY <1>4, <1>5, <3>1
    <3>3. m[h] \in 1..n /\ (CopiedAt(s, word, m, b, h) \/ HiddenAt(s, word, with, m, b, h))
      BY <1>2, <3>1
    <3> QED
      BY <3>2, <3>3 DEF CopiedAt, HiddenAt
  <2> QED
    BY <2>1, <2>2
<1>11. r[1] = i
  <2>1. 1 \in 1..c /\ i + 1 - 1 = i
    BY <1>1
  <2> QED
    BY <1>5, <2>1
<1>12. r[c + d + 1] = n + 1
  <2>1. c + d + 1 \in (c + 1)..(c + d + 1) /\ (c + d + 1) - c = d + 1
    BY <1>1
  <2>2. r[c + d + 1] = m[(c + d + 1) - c]
    BY <1>5, <2>1
  <2> QED
    BY <1>2, <2>1, <2>2
<1>13. Traced(s, word, with, r, out, i)
  BY <1>3, <1>8, <1>10, <1>11, <1>12 DEF Traced
<1> QED
  BY <1>13 DEF out

\* The steps of replace_word, and what each writes can be traced.
LEMMA ReplaceWordTraced ==
  ASSUME NEW s \in Seq(Letter), NEW word \in Name, word # <<>>, NEW with \in Letter
  PROVE  /\ ReplaceWord(s, word, with) \in Seq(Letter)
         /\ \E m : Traced(s, word, with, m, ReplaceWord(s, word, with), 1)
         /\ ~HoldsWhole(s, word) => ReplaceWord(s, word, with) = s
<1> DEFINE n == Len(s)
           step == Replacing(s, word, with, TRUE)
<1>1. word \in Seq(Letter) /\ Len(word) \in Nat \ {0} /\ n \in Nat
  BY NameIs
<1>2. Steps(step, n, Letter)
  BY <1>1, ReplacingSteps
<1>3. \A i \in 1..n :
        /\ ~At(s, i, word) => step[i].says = <<s[i]>> /\ step[i].next = i + 1
        /\ At(s, i, word) =>
             /\ step[i].next = i + Len(word)
             /\ step[i].says = IF IsWhole(s, i, word) THEN <<with>> ELSE word
  <2>1. \A i \in 1..n :
          /\ ~At(s, i, word) => step[i].says = <<s[i]>> /\ step[i].next = i + 1
          /\ At(s, i, word) =>
               /\ step[i].next = i + Len(word)
               /\ step[i].says = IF TRUE => IsWhole(s, i, word) THEN <<with>> ELSE word
    BY <1>1, ReplacingSteps
  <2>2. \A i : (TRUE => IsWhole(s, i, word)) <=> IsWhole(s, i, word)
    OBVIOUS
  <2> HIDE DEF step
  <2> QED
    BY <2>1, <2>2
<1>4. ReplaceWord(s, word, with) = Written(step)
  BY DEF ReplaceWord
<1> HIDE DEF step
<1>5. PICK from \in [1..(n + 1) -> Seq(Letter)] : WrittenFrom(from, step, n)
  BY <1>1, <1>2, WrittenIs
<1> DEFINE Fine(i) == \E m : Traced(s, word, with, m, from[i], i)
           Ls == {l \in Nat : \E i \in 1..(n + 1) : l = n + 1 - i /\ ~Fine(i)}
<1>6. Ls = {}
  <2> SUFFICES ASSUME Ls # {} PROVE FALSE
    OBVIOUS
  <2>2. PICK l \in Ls : \A k \in Ls : l <= k
    <3>1. Ls \subseteq Nat
      OBVIOUS
    <3> HIDE DEF Ls
    <3> QED
      BY <3>1, SmallestNumber
  <2>3. PICK i \in 1..(n + 1) : l = n + 1 - i /\ ~Fine(i)
    OBVIOUS
  <2>4. CASE i \in 1..n
    <3> DEFINE j == step[i].next
               a == step[i].says
    <3>1. j \in 1..(n + 1) /\ i < j /\ a \in Seq(Letter)
      BY <1>2, <2>4 DEF Steps
    <3>2. from[i] = a \o from[j]
      BY <1>5, <2>4 DEF WrittenFrom
    <3>3. /\ ~At(s, i, word) => a = <<s[i]>> /\ j = i + 1
          /\ At(s, i, word) =>
             /\ j = i + Len(word)
             /\ a = IF IsWhole(s, i, word) THEN <<with>> ELSE word
      BY <1>3, <2>4
    <3> HIDE DEF j, a
    <3>4. Fine(j)
      <4> SUFFICES ASSUME ~Fine(j) PROVE FALSE
        OBVIOUS
      <4> HIDE DEF Fine
      <4>1. n + 1 - j \in Ls /\ n + 1 - j < n + 1 - i
        BY <1>1, <3>1
      <4>2. n + 1 - i <= n + 1 - j
        <5> HIDE DEF Ls
        <5> QED
          BY <2>2, <2>3, <4>1
      <4> HIDE DEF Ls
      <4>3. n + 1 - j \in Int /\ n + 1 - i \in Int
        BY <1>1, <3>1
      <4> QED
        BY <4>1, <4>2, <4>3
    <3>5. PICK m : Traced(s, word, with, m, from[j], j)
      BY <3>4
    <3>6. from[j] \in Seq(Letter)
      BY <3>1
    <3>7. \/ /\ Len(a) >= 1 /\ j = i + Len(a)
             /\ \A k \in 1..Len(a) : a[k] = s[i + k - 1] /\ ~WholeAt(s, i + k - 1, word)
          \/ Len(a) = 1 /\ a[1] = with /\ j = i + Len(word) /\ WholeAt(s, i, word)
      <4>1. CASE ~At(s, i, word)
        <5>1. Len(a) = 1 /\ a[1] = s[i] /\ j = i + 1
          BY <3>3, <4>1
        <5>2. ~WholeAt(s, i, word)
          BY <4>1 DEF WholeAt
        <5>3. \A k \in 1..1 : i + k - 1 = i /\ k = 1
          BY <2>4
        <5> QED
          BY <5>1, <5>2, <5>3
      <4>2. CASE At(s, i, word) /\ IsWhole(s, i, word)
        BY <3>3, <4>2 DEF WholeAt
      <4>3. CASE At(s, i, word) /\ ~IsWhole(s, i, word)
        <5>1. a = word /\ j = i + Len(a)
          BY <3>3, <4>3
        <5>2. \A k \in 1..Len(word) : s[i + k - 1] = word[k]
          BY <1>1, <2>4, <4>3, AtIs
        <5>3. ASSUME NEW k \in 1..Len(word) PROVE ~WholeAt(s, i + k - 1, word)
          <6>1. CASE k = 1
            BY <4>3, <6>1, <2>4 DEF WholeAt
          <6>2. CASE k # 1
            <7>1. i + k - 1 \in Nat \ {0} /\ i < i + k - 1 /\ i \in Nat \ {0}
                  /\ ~(i + Len(word) <= i + k - 1)
              BY <1>1, <2>4, <6>2
            <7> QED
              BY <4>3, <7>1, NoRestart
          <6> QED
            BY <6>1, <6>2
        <5>4. Len(a) >= 1
          BY <1>1, <5>1
        <5> QED
          BY <5>1, <5>2, <5>3, <5>4
      <4> QED
        BY <4>1, <4>2, <4>3
    <3>8. \E r : Traced(s, word, with, r, a \o from[j], i)
      BY <1>1, <2>4, <3>1, <3>5, <3>6, <3>7, TracedStep
    <3> QED
      BY <2>3, <3>2, <3>8
  <2>5. CASE i \notin 1..n
    <3> DEFINE m == [k \in 1..1 |-> n + 1]
    <3>1. i = n + 1 /\ from[i] = <<>>
      BY <1>1, <1>5, <2>5 DEF WrittenFrom
    <3>2. Len(<<>>) = 0 /\ 1..(Len(<<>>) + 1) = 1..1 /\ m \in [1..1 -> 1..(n + 1)]
          /\ m[1] = n + 1 /\ 1..Len(<<>>) = {}
      BY <1>1
    <3> HIDE DEF m
    <3>3. Traced(s, word, with, m, <<>>, n + 1)
      BY <3>2 DEF Traced
    <3> QED
      BY <2>3, <3>1, <3>3
  <2> QED
    BY <2>4, <2>5
<1>7. Written(step) = from[1]
  BY <1>5 DEF WrittenFrom
<1>8. Fine(1)
  <2>1. n + 1 - 1 \in Nat /\ 1 \in 1..(n + 1)
    BY <1>1
  <2> HIDE DEF Fine
  <2> QED
    BY <1>6, <2>1
<1>9. Written(step) \in Seq(Letter)
  BY <1>1, <1>2, WrittenType
<1>10. ASSUME ~HoldsWhole(s, word) PROVE Written(step) = s
  <2>1. \A i \in 1..n : ~WholeAt(s, i, word)
    BY <1>1, <1>10, HoldsWholeIs
  <2>2. \A i \in 1..n : step[i].says = SubSeq(s, i, step[i].next - 1)
    <3> SUFFICES ASSUME NEW i \in 1..n PROVE step[i].says = SubSeq(s, i, step[i].next - 1)
      OBVIOUS
    <3>1. CASE ~At(s, i, word)
      BY <1>3, <3>1, CopyIs
    <3>2. CASE At(s, i, word)
      <4>1. ~IsWhole(s, i, word)
        BY <2>1, <3>2 DEF WholeAt
      <4>2. step[i].says = word /\ step[i].next = i + Len(word)
        BY <1>3, <3>2, <4>1
      <4>3. word = SubSeq(s, i, (i + Len(word)) - 1)
        BY <1>1, <3>2, CopyIs
      <4> QED
        BY <4>2, <4>3
    <3> QED
      BY <3>1, <3>2
  <2> QED
    BY <1>2, <2>2, WrittenAsItIs
<1> QED
  BY <1>4, <1>7, <1>8, <1>9, <1>10

\* A name that is whole in what is written is copied, and was whole before.
LEMMA TracedWhole ==
  ASSUME NEW s \in Seq(Letter), NEW word \in Name, word # <<>>, NEW with \in Marks,
         NEW out \in Seq(Letter), NEW m, Traced(s, word, with, m, out, 1),
         NEW v \in Name, v # <<>>, NEW k \in 1..Len(out), WholeAt(out, k, v)
  PROVE  m[k] \in 1..Len(s) /\ WholeAt(s, m[k], v) /\ ~WholeAt(s, m[k], word)
<1> DEFINE n == Len(s)
           d == Len(out)
           l == Len(v)
<1>1. n \in Nat /\ d \in Nat /\ k \in Nat \ {0}
  OBVIOUS
<1>2. /\ v \in Seq(Letter) /\ l \in Nat \ {0} /\ \A t \in 1..l : v[t] \notin Marks
      /\ v[1] \in InWord /\ v[l] \in InWord
  BY NameIs
<1>3. /\ word \in Seq(Letter) /\ Len(word) \in Nat \ {0}
      /\ word[1] \in InWord /\ word[Len(word)] \in InWord
  BY NameIs
<1>4. /\ m \in [1..(d + 1) -> 1..(n + 1)] /\ m[1] = 1 /\ m[d + 1] = n + 1
      /\ \A h \in 1..d : m[h] \in 1..n
      /\ \A h \in 1..d : CopiedAt(s, word, m, out, h) \/ HiddenAt(s, word, with, m, out, h)
  BY DEF Traced
<1>5. k + l - 1 <= d /\ \A t \in 1..l : out[k + t - 1] = v[t]
  BY <1>1, <1>2, AtIs DEF WholeAt
<1>6. /\ k > 1 => out[k - 1] \notin InWord
      /\ k + l <= d => out[k + l] \notin InWord
  BY DEF WholeAt, IsWhole
<1>7. \A t \in 1..l : k + t - 1 \in 1..d
  BY <1>1, <1>2, <1>5
<1>8. ASSUME NEW t \in 1..l PROVE CopiedAt(s, word, m, out, k + t - 1)
  <2>1. out[k + t - 1] # with
    BY <1>2, <1>5
  <2> QED
    BY <1>4, <1>7, <2>1 DEF HiddenAt
<1>9. \A t \in 1..l : m[k + t - 1] = m[k] + t - 1
  <2> DEFINE Ts == {t \in 1..l : m[k + t - 1] # m[k] + t - 1}
  <2> SUFFICES ASSUME Ts # {} PROVE FALSE
    OBVIOUS
  <2>1. PICK t \in Ts : \A h \in Ts : t <= h
    <3>1. Ts \subseteq Nat
      OBVIOUS
    <3> HIDE DEF Ts
    <3> QED
      BY <3>1, SmallestNumber
  <2>2. t \in 1..l /\ m[k + t - 1] # m[k] + t - 1
    OBVIOUS
  <2>3. m[k] \in 1..n
    BY <1>4
  <2>4. t # 1
    <3>1. k + 1 - 1 = k /\ m[k] + 1 - 1 = m[k]
      BY <1>1, <2>3
    <3> QED
      BY <2>2, <3>1
  <2> DEFINE u == t - 1
  <2>5. u \in 1..l /\ ~(t <= u) /\ (k + u - 1) + 1 = k + t - 1
    BY <1>1, <1>2, <2>2, <2>4
  <2>6. m[k + u - 1] = m[k] + u - 1
    <3>1. u \notin Ts
      <4> HIDE DEF Ts, u
      <4> QED
        BY <2>1, <2>5
    <3> HIDE DEF u
    <3> QED
      BY <2>5, <3>1
  <2>7. m[k + t - 1] = m[k + u - 1] + 1
    <3>1. CopiedAt(s, word, m, out, k + u - 1)
      BY <1>8, <2>5
    <3> HIDE DEF u
    <3> QED
      BY <2>5, <3>1 DEF CopiedAt
  <2>8. (m[k] + u - 1) + 1 = m[k] + t - 1
    BY <2>2, <2>3
  <2> QED
    BY <2>2, <2>6, <2>7, <2>8
<1> DEFINE p == m[k]
<1>10. p \in 1..n /\ p \in Nat \ {0}
  BY <1>4
<1> HIDE DEF p
<1>11. ASSUME NEW t \in 1..l PROVE p + t - 1 \in 1..n /\ s[p + t - 1] = v[t]
  <2>1. m[k + t - 1] = p + t - 1 /\ m[k + t - 1] \in 1..n
    BY <1>4, <1>7, <1>9 DEF p
  <2>2. out[k + t - 1] = s[m[k + t - 1]]
    BY <1>8 DEF CopiedAt
  <2> QED
    BY <1>5, <2>1, <2>2
<1>12. m[k + l] = p + l
  <2>1. l \in 1..l /\ (k + l - 1) + 1 = k + l
    BY <1>1, <1>2
  <2>2. m[(k + l - 1) + 1] = m[k + l - 1] + 1
    BY <1>8, <2>1 DEF CopiedAt
  <2>3. m[k + l - 1] = p + l - 1
    BY <1>9, <2>1 DEF p
  <2>4. (p + l - 1) + 1 = p + l
    BY <1>2, <1>10
  <2> QED
    BY <2>1, <2>2, <2>3, <2>4
<1>13. At(s, p, v)
  <2>1. l \in 1..l
    BY <1>2
  <2>2. p + l - 1 <= n
    BY <1>1, <1>2, <1>10, <1>11, <2>1
  <2> QED
    BY <1>2, <1>10, <1>11, <2>2, AtIs
<1>14. s[p] = v[1] /\ s[p + l - 1] = v[l]
  <2>1. 1 \in 1..l /\ l \in 1..l /\ p + 1 - 1 = p
    BY <1>2, <1>10
  <2> QED
    BY <1>11, <2>1
<1>15. p > 1 => s[p - 1] \notin InWord
  <2> SUFFICES ASSUME p > 1 PROVE s[p - 1] \notin InWord
    OBVIOUS
  <2>1. k > 1
    BY <1>1, <1>4 DEF p
  <2> DEFINE h == k - 1
  <2>2. h \in 1..d /\ h + 1 = k
    BY <1>1, <2>1
  <2>3. out[h] \notin InWord
    BY <1>6, <2>1
  <2> HIDE DEF h
  <2>4. CASE CopiedAt(s, word, m, out, h)
    <3>1. p = m[h] + 1 /\ out[h] = s[m[h]] /\ m[h] \in 1..n
      BY <1>4, <2>2, <2>4 DEF CopiedAt, p
    <3>2. p - 1 = m[h]
      BY <3>1
    <3> QED
      BY <2>3, <3>1, <3>2
  <2>5. CASE HiddenAt(s, word, with, m, out, h)
    <3>1. p = m[h] + Len(word) /\ WholeAt(s, m[h], word)
      BY <2>2, <2>5 DEF HiddenAt, p
    <3>2. p <= n => s[p] \notin InWord
      BY <3>1 DEF WholeAt, IsWhole
    <3> QED
      BY <1>2, <1>10, <1>14, <3>2
  <2> QED
    BY <1>4, <2>2, <2>4, <2>5
<1>16. p + l <= n => s[p + l] \notin InWord
  <2> SUFFICES ASSUME p + l <= n PROVE s[p + l] \notin InWord
    OBVIOUS
  <2> DEFINE h == k + l
  <2>1. h \in 1..(d + 1) /\ m[h] = p + l
    BY <1>1, <1>2, <1>5, <1>12
  <2>2. h # d + 1
    BY <1>1, <1>2, <1>4, <1>10, <2>1
  <2>3. h \in 1..d
    BY <1>1, <2>1, <2>2
  <2>4. out[h] \notin InWord
    BY <1>6, <2>3
  <2> HIDE DEF h
  <2>5. CASE CopiedAt(s, word, m, out, h)
    BY <2>1, <2>4, <2>5 DEF CopiedAt
  <2>6. CASE HiddenAt(s, word, with, m, out, h)
    <3>1. IsWhole(s, p + l, word)
      BY <2>1, <2>6 DEF HiddenAt, WholeAt
    <3>2. p + l > 1 /\ (p + l) - 1 = p + l - 1
      BY <1>2, <1>10
    <3> QED
      BY <1>2, <1>14, <3>1, <3>2 DEF IsWhole
  <2> QED
    BY <1>4, <2>3, <2>5, <2>6
<1>17. WholeAt(s, p, v)
  BY <1>13, <1>15, <1>16 DEF WholeAt, IsWhole
<1>18. ~WholeAt(s, p, word)
  <2>1. 1 \in 1..l /\ k + 1 - 1 = k
    BY <1>1, <1>2
  <2> QED
    BY <1>8, <2>1 DEF CopiedAt, p
<1> QED
  BY <1>10, <1>17, <1>18 DEF p

\* The folders of /home in a text, and what may follow "/home/".
HomeHere(s, i) == i + 2 <= Len(s) /\ s[i] = "/" /\ s[i + 1] = "home" /\ s[i + 2] = "/"
AfterHome == {"<user>", "/", " "}
HomesHidden(s) ==
  \A i \in 1..Len(s) : HomeHere(s, i) /\ i + 3 <= Len(s) => s[i + 3] \in AfterHome

LEMMA HomeIs ==
  /\ Home \in Seq(Letter) /\ Len(Home) = 3
  /\ \A s \in Seq(Letter), i \in Nat \ {0} : At(s, i, Home) <=> HomeHere(s, i)
<1>1. Home = <<"/", "home", "/">> /\ {"/", "home"} \subseteq Letter
  BY DEF Home, Letter, InWord, Between
<1>2. Home \in Seq(Letter) /\ Len(Home) = 3 /\ Home[1] = "/" /\ Home[2] = "home" /\ Home[3] = "/"
  BY <1>1
<1>3. ASSUME NEW s \in Seq(Letter), NEW i \in Nat \ {0}
      PROVE  At(s, i, Home) <=> HomeHere(s, i)
  <2>1. At(s, i, Home) <=> i + 3 - 1 <= Len(s) /\ \A k \in 1..3 : s[i + k - 1] = Home[k]
    BY <1>2, AtIs
  <2>2. i + 3 - 1 = i + 2 /\ i + 1 - 1 = i /\ i + 2 - 1 = i + 1 /\ 1..3 = {1, 2, 3}
    OBVIOUS
  <2>3. (\A k \in {1, 2, 3} : s[i + k - 1] = Home[k]) <=>
          s[i + 1 - 1] = Home[1] /\ s[i + 2 - 1] = Home[2] /\ s[i + 3 - 1] = Home[3]
    OBVIOUS
  <2> QED
    BY <1>2, <2>1, <2>2, <2>3 DEF HomeHere
<1> QED
  BY <1>2, <1>3

LEMMA LettersApart ==
  /\ \A x \in InWord : x \notin Marks /\ x \notin Between /\ x \notin AfterHome
  /\ "home" \in InWord
  /\ Marks \cap {"/", "home"} = {}
  /\ Marks \subseteq Letter /\ "<user>" \in Marks
BY LettersAssumption DEF InWord, Marks, Between, AfterHome, Letter

\* What hiding a name leaves: neither that name, nor one that was not there,
\* nor a folder of /home that was not there.
LEMMA ReplaceWordHides ==
  ASSUME NEW s \in Seq(Letter), NEW word \in Name, NEW with \in Marks
  PROVE  LET out == ReplaceWord(s, word, with)
         IN  /\ out \in Seq(Letter)
             /\ ~HoldsWhole(out, word)
             /\ \A v \in Name : ~HoldsWhole(s, v) => ~HoldsWhole(out, v)
             /\ HomesHidden(s) => HomesHidden(out)
             /\ ~HoldsWhole(s, word) => out = s
<1> DEFINE out == ReplaceWord(s, word, with)
<1>1. CASE word = <<>>
  <2>1. out = s
    BY <1>1 DEF ReplaceWord
  <2>2. ~HoldsWhole(out, word)
    BY <1>1 DEF HoldsWhole
  <2> QED
    BY <2>1, <2>2
<1>2. CASE word # <<>>
  <2>1. with \in Letter
    BY LettersApart
  <2>2. /\ out \in Seq(Letter)
        /\ \E m : Traced(s, word, with, m, out, 1)
        /\ ~HoldsWhole(s, word) => out = s
    BY <1>2, <2>1, ReplaceWordTraced
  <2>3. PICK m : Traced(s, word, with, m, out, 1)
    BY <2>2
  <2> HIDE DEF out
  <2>4. ASSUME NEW v \in Name, HoldsWhole(out, v)
        PROVE  HoldsWhole(s, v) /\ v # word
    <3>1. v \in Seq(Letter) /\ v # <<>>
      BY <2>4, NameIs DEF HoldsWhole
    <3>2. PICK k \in 1..Len(out) : WholeAt(out, k, v)
      BY <2>2, <2>4, <3>1, HoldsWholeIs
    <3>3. m[k] \in 1..Len(s) /\ WholeAt(s, m[k], v) /\ ~WholeAt(s, m[k], word)
      BY <1>2, <2>2, <2>3, <3>1, <3>2, TracedWhole
    <3> QED
      BY <3>1, <3>3, HoldsWholeIs
  <2>5. ASSUME HomesHidden(s), NEW i \in 1..Len(out), HomeHere(out, i), i + 3 <= Len(out)
        PROVE  out[i + 3] \in AfterHome
    <3> DEFINE n == Len(s)
               d == Len(out)
               p == m[i]
    <3>1. n \in Nat /\ d \in Nat
      BY <2>2
    <3>2. /\ \A h \in 1..d : m[h] \in 1..n
          /\ \A h \in 1..d : CopiedAt(s, word, m, out, h) \/ HiddenAt(s, word, with, m, out, h)
      BY <2>3 DEF Traced
    <3>3. i \in 1..d /\ i + 1 \in 1..d /\ i + 2 \in 1..d /\ i + 3 \in 1..d
          /\ (i + 1) + 1 = i + 2 /\ (i + 2) + 1 = i + 3
      BY <2>5, <3>1
    <3>4. out[i] = "/" /\ out[i + 1] = "home" /\ out[i + 2] = "/"
      BY <2>5 DEF HomeHere
    <3>5. with # "/" /\ with # "home"
      BY LettersApart
    <3>6. CopiedAt(s, word, m, out, i) /\ CopiedAt(s, word, m, out, i + 1)
          /\ CopiedAt(s, word, m, out, i + 2)
      BY <3>2, <3>3, <3>4, <3>5 DEF HiddenAt
    <3>7. p \in 1..n /\ m[i + 1] = p + 1 /\ m[i + 2] = (p + 1) + 1 /\ m[i + 3] = ((p + 1) + 1) + 1
      BY <3>2, <3>3, <3>6 DEF CopiedAt
    <3>8. s[p] = "/" /\ s[p + 1] = "home" /\ s[(p + 1) + 1] = "/"
      BY <3>4, <3>6, <3>7 DEF CopiedAt
    <3>9. m[i + 3] \in 1..n
      BY <3>2, <3>3
    <3> HIDE DEF p
    <3>10. (p + 1) + 1 = p + 2 /\ ((p + 1) + 1) + 1 = p + 3 /\ p + 3 <= n /\ p + 2 <= n
      BY <3>1, <3>7, <3>9
    <3>11. s[p + 3] \in AfterHome
      BY <2>5, <3>7, <3>8, <3>10 DEF HomesHidden, HomeHere
    <3>12. CASE CopiedAt(s, word, m, out, i + 3)
      BY <3>7, <3>10, <3>11, <3>12 DEF CopiedAt
    <3>13. CASE HiddenAt(s, word, with, m, out, i + 3)
      <4>1. At(s, p + 3, word)
        BY <3>7, <3>10, <3>13 DEF HiddenAt, WholeAt
      <4>2. /\ word \in Seq(Letter) /\ Len(word) \in Nat \ {0} /\ word[1] \in InWord
        BY <1>2, NameIs
      <4>3. p + 3 \in Nat \ {0} /\ 1 \in 1..Len(word) /\ (p + 3) + 1 - 1 = p + 3
        BY <3>7, <4>2
      <4>4. s[(p + 3) + 1 - 1] = word[1]
        BY <4>1, <4>2, <4>3, AtIs
      <4> QED
        BY <3>11, <4>2, <4>3, <4>4, LettersApart
    <3> QED
      BY <3>2, <3>3, <3>12, <3>13
  <2>6. HomesHidden(s) => HomesHidden(out)
    BY <2>5 DEF HomesHidden
  <2> QED
    BY <2>2, <2>4, <2>6 DEF out
<1> QED
  BY <1>1, <1>2

-----------------------------------------------------------------------------
(* The folders of /home *)

LEMMA NameEndIs ==
  ASSUME NEW s \in Seq(Letter), NEW start \in 1..(Len(s) + 1)
  PROVE  /\ NameEnd(s, start) \in start..(Len(s) + 1)
         /\ NameEnd(s, start) <= Len(s) => s[NameEnd(s, start)] \in {"/", " "}
<1> DEFINE n == Len(s)
           ends == {k \in start..n : s[k] \in {"/", " "}} \cup {n + 1}
<1>1. n \in Nat
  OBVIOUS
<1>2. ends \subseteq Nat /\ n + 1 \in ends
  <2>1. start..n \subseteq Nat /\ n + 1 \in Nat
    BY <1>1
  <2> QED
    BY <2>1
<1>3. Min(ends) \in ends
  <2> HIDE DEF ends
  <2> QED
    BY <1>2, MinOf
<1>4. NameEnd(s, start) = Min(ends)
  BY DEF NameEnd
<1> DEFINE e == NameEnd(s, start)
<1>5. e \in ends
  BY <1>3, <1>4
<1> HIDE DEF e
<1>6. (e \in start..n /\ s[e] \in {"/", " "}) \/ e = n + 1
  BY <1>5
<1> HIDE DEF n, ends
<1>7. start \in Nat /\ start <= n + 1 /\ ~(n + 1 <= n)
  BY <1>1 DEF n
<1>8. e \in start..(n + 1)
  <2>1. CASE e = n + 1
    BY <1>1, <1>7, <2>1
  <2>2. CASE e \in start..n
    BY <1>1, <1>7, <2>2
  <2> QED
    BY <1>6, <2>1, <2>2
<1>9. e <= n => s[e] \in {"/", " "}
  BY <1>6, <1>7
<1> QED
  BY <1>8, <1>9 DEF e, n

LEMMA HomeDirsSteps ==
  ASSUME NEW s \in Seq(Letter)
  PROVE  /\ Steps(HomeDirs(s), Len(s), Letter)
         /\ \A i \in 1..Len(s) :
              LET end == NameEnd(s, i + 3)
              IN  /\ ~HomeHere(s, i) => HomeDirs(s)[i].says = <<s[i]>> /\ HomeDirs(s)[i].next = i + 1
                  /\ HomeHere(s, i) =>
                       /\ HomeDirs(s)[i].next = end
                       /\ HomeDirs(s)[i].says =
                            IF end > i + 3 THEN Append(Home, "<user>") ELSE Home
<1> DEFINE step == HomeDirs(s)
           n == Len(s)
           Says(i) == IF NameEnd(s, i + 3) > i + 3 THEN Append(Home, "<user>") ELSE Home
           Step(i) == IF ~HomeHere(s, i) THEN [says |-> <<s[i]>>, next |-> i + 1]
                      ELSE [says |-> Says(i), next |-> NameEnd(s, i + 3)]
<1>1. n \in Nat /\ DOMAIN s = 1..n /\ \A i \in 1..n : s[i] \in Letter
  OBVIOUS
<1>2. step = [i \in 1..n |-> Step(i)]
  <2>1. \A i \in 1..n : At(s, i, Home) <=> HomeHere(s, i)
    BY HomeIs
  <2>2. Len(Home) = 3
    BY HomeIs
  <2> QED
    BY <1>1, <2>1, <2>2 DEF HomeDirs
<1>3. ASSUME NEW i \in 1..n
      PROVE  /\ ~HomeHere(s, i) => Step(i).says = <<s[i]>> /\ Step(i).next = i + 1
             /\ HomeHere(s, i) => Step(i).says = Says(i) /\ Step(i).next = NameEnd(s, i + 3)
             /\ Step(i) \in [says : Seq(Letter), next : 1..(n + 1)]
             /\ i < Step(i).next
  <2>1. CASE ~HomeHere(s, i)
    <3>1. <<s[i]>> \in Seq(Letter) /\ i + 1 \in 1..(n + 1) /\ i < i + 1
      BY <1>1
    <3>2. Step(i) = [says |-> <<s[i]>>, next |-> i + 1]
      BY <2>1
    <3> QED
      BY <2>1, <3>1, <3>2
  <2>2. CASE HomeHere(s, i)
    <3> DEFINE end == NameEnd(s, i + 3)
    <3>1. i + 3 \in 1..(n + 1)
      BY <1>1, <2>2 DEF HomeHere
    <3>2. end \in (i + 3)..(n + 1)
      BY <3>1, NameEndIs
    <3>3. Says(i) \in Seq(Letter)
      <4>1. Home \in Seq(Letter) /\ "<user>" \in Letter
        BY HomeIs, LettersApart
      <4>2. Append(Home, "<user>") \in Seq(Letter)
        BY <4>1, AppendProperties
      <4> QED
        BY <4>1, <4>2
    <3>4. Step(i) = [says |-> Says(i), next |-> end]
      BY <2>2
    <3> HIDE DEF end, Says, Step
    <3>5. end \in 1..(n + 1) /\ i < end
      BY <1>1, <3>2
    <3>6. Step(i).says = Says(i) /\ Step(i).next = end
          /\ Step(i) \in [says : Seq(Letter), next : 1..(n + 1)]
      BY <3>3, <3>4, <3>5
    <3> QED
      BY <2>2, <3>5, <3>6 DEF end
  <2> QED
    BY <2>1, <2>2
<1> HIDE DEF step, Step
<1>4. \A i \in 1..n : step[i] = Step(i)
  BY <1>2
<1>5. Steps(step, n, Letter)
  BY <1>2, <1>3, <1>4 DEF Steps
<1> QED
  BY <1>3, <1>4, <1>5 DEF step

LEMMA ConcatIs ==
  ASSUME NEW a \in Seq(Letter), NEW b \in Seq(Letter)
  PROVE  /\ a \o b \in Seq(Letter) /\ Len(a \o b) = Len(a) + Len(b)
         /\ \A k \in 1..Len(a) : (a \o b)[k] = a[k]
         /\ \A k \in 1..Len(b) : (a \o b)[Len(a) + k] = b[k]
<1> DEFINE o == a \o b
<1>1. /\ Len(a) \in Nat /\ Len(b) \in Nat
      /\ o \in Seq(Letter) /\ Len(o) = Len(a) + Len(b)
      /\ \A k \in 1..(Len(a) + Len(b)) : o[k] = IF k <= Len(a) THEN a[k] ELSE b[k - Len(a)]
  BY ConcatProperties
<1> HIDE DEF o
<1>2. \A k \in 1..Len(a) : o[k] = a[k]
  BY <1>1
<1>3. \A k \in 1..Len(b) : o[Len(a) + k] = b[k]
  <2> SUFFICES ASSUME NEW k \in 1..Len(b) PROVE o[Len(a) + k] = b[k]
    OBVIOUS
  <2>1. /\ Len(a) + k \in 1..(Len(a) + Len(b)) /\ ~(Len(a) + k <= Len(a))
        /\ (Len(a) + k) - Len(a) = k
    BY <1>1
  <2> QED
    BY <1>1, <2>1
<1> QED
  BY <1>1, <1>2, <1>3 DEF o

LEMMA RedactHomeDirsHides ==
  ASSUME NEW s \in Seq(Letter)
  PROVE  /\ RedactHomeDirs(s) \in Seq(Letter)
         /\ HomesHidden(RedactHomeDirs(s))
         /\ ~Holds(s, Home) => RedactHomeDirs(s) = s
<1> DEFINE n == Len(s)
           step == HomeDirs(s)
<1>1. n \in Nat /\ DOMAIN s = 1..n /\ \A i \in 1..n : s[i] \in Letter
  OBVIOUS
<1>2. Steps(step, n, Letter)
  BY HomeDirsSteps
<1>3. \A i \in 1..n :
        /\ ~HomeHere(s, i) => step[i].says = <<s[i]>> /\ step[i].next = i + 1
        /\ HomeHere(s, i) =>
             /\ step[i].next = NameEnd(s, i + 3)
             /\ step[i].says =
                  IF NameEnd(s, i + 3) > i + 3 THEN Append(Home, "<user>") ELSE Home
  BY HomeDirsSteps
<1>4. RedactHomeDirs(s) = Written(step)
  BY DEF RedactHomeDirs
<1> HIDE DEF step
<1>5. PICK from \in [1..(n + 1) -> Seq(Letter)] : WrittenFrom(from, step, n)
  BY <1>1, <1>2, WrittenIs
<1>6. \A i \in 1..n : /\ step[i].says \in Seq(Letter) /\ step[i].next \in 1..(n + 1)
                      /\ i < step[i].next
                      /\ from[i] = step[i].says \o from[step[i].next]
  BY <1>2, <1>5 DEF Steps, WrittenFrom
<1>7. from[n + 1] = <<>> /\ Written(step) = from[1]
  BY <1>5 DEF WrittenFrom
<1>8. /\ Home[1] = "/" /\ Home[2] = "home" /\ Home[3] = "/"
      /\ Home \in Seq(Letter) /\ Len(Home) = 3
  BY HomeIs DEF Home
<1> DEFINE UserHome == Append(Home, "<user>")
<1>9. /\ UserHome[1] = "/" /\ UserHome[2] = "home" /\ UserHome[3] = "/" /\ UserHome[4] = "<user>"
      /\ UserHome \in Seq(Letter) /\ Len(UserHome) = 4
  <2>1. "<user>" \in Letter
    BY LettersApart
  <2>2. /\ UserHome \in Seq(Letter) /\ Len(UserHome) = Len(Home) + 1
        /\ \A k \in 1..Len(Home) : UserHome[k] = Home[k]
        /\ UserHome[Len(Home) + 1] = "<user>"
    <3>1. \A home \in Seq(Letter) :
            LET whole == Append(home, "<user>")
            IN  /\ whole \in Seq(Letter) /\ Len(whole) = Len(home) + 1
                /\ \A k \in 1..Len(home) : whole[k] = home[k]
                /\ whole[Len(home) + 1] = "<user>"
      BY <2>1, AppendProperties
    <3> QED
      BY <1>8, <3>1
  <2> HIDE DEF UserHome
  <2>3. 1 \in 1..3 /\ 2 \in 1..3 /\ 3 \in 1..3 /\ 3 + 1 = 4
    OBVIOUS
  <2> QED
    BY <1>8, <2>2, <2>3
<1> HIDE DEF UserHome
<1>10. ASSUME NEW i \in 1..n PROVE Len(from[i]) >= 1 /\ from[i][1] = s[i]
  <2> DEFINE a == step[i].says
             b == from[step[i].next]
  <2>1. a \in Seq(Letter) /\ b \in Seq(Letter) /\ from[i] = a \o b
    BY <1>6
  <2>2. Len(a) >= 1 /\ a[1] = s[i]
    <3>1. CASE ~HomeHere(s, i)
      <4>1. a = <<s[i]>>
        BY <1>3, <3>1
      <4> HIDE DEF a
      <4> QED
        BY <4>1
    <3>2. CASE HomeHere(s, i)
      <4>1. s[i] = "/"
        BY <3>2 DEF HomeHere
      <4>2. a = UserHome \/ a = Home
        BY <1>3, <3>2 DEF UserHome
      <4> QED
        BY <1>8, <1>9, <4>1, <4>2
    <3> QED
      BY <3>1, <3>2
  <2> HIDE DEF a, b
  <2>3. Len(a) \in Nat /\ Len(b) \in Nat /\ 1 \in 1..Len(a)
    BY <2>1, <2>2
  <2>4. Len(a \o b) = Len(a) + Len(b) /\ (a \o b)[1] = a[1]
    BY <2>1, <2>3, ConcatIs
  <2> QED
    BY <2>1, <2>2, <2>3, <2>4
<1> DEFINE Fine(i) == HomesHidden(from[i])
           Ls == {l \in Nat : \E i \in 1..(n + 1) : l = n + 1 - i /\ ~Fine(i)}
<1>11. Ls = {}
  <2> SUFFICES ASSUME Ls # {} PROVE FALSE
    OBVIOUS
  <2>2. PICK l \in Ls : \A k \in Ls : l <= k
    <3>1. Ls \subseteq Nat
      OBVIOUS
    <3> HIDE DEF Ls
    <3> QED
      BY <3>1, SmallestNumber
  <2>3. PICK i \in 1..(n + 1) : l = n + 1 - i /\ ~Fine(i)
    OBVIOUS
  <2>4. CASE i \in 1..n
    <3> DEFINE j == step[i].next
               a == step[i].says
               b == from[j]
               o == a \o b
               c == Len(a)
    <3>1. j \in 1..(n + 1) /\ i < j /\ a \in Seq(Letter) /\ from[i] = o
      BY <1>6, <2>4
    <3>2. Fine(j)
      <4> SUFFICES ASSUME ~Fine(j) PROVE FALSE
        OBVIOUS
      <4> HIDE DEF Fine, j
      <4>1. n + 1 - j \in Ls /\ n + 1 - j < n + 1 - i
        BY <1>1, <3>1
      <4>2. n + 1 - i <= n + 1 - j
        <5> HIDE DEF Ls
        <5> QED
          BY <2>2, <2>3, <4>1
      <4> HIDE DEF Ls
      <4>3. n + 1 - j \in Int /\ n + 1 - i \in Int
        BY <1>1, <3>1
      <4> QED
        BY <4>1, <4>2, <4>3
    <3>3. HomesHidden(b) /\ b \in Seq(Letter)
      BY <3>1, <3>2
    <3>4. /\ ~HomeHere(s, i) => a = <<s[i]>> /\ j = i + 1
          /\ HomeHere(s, i) =>
               /\ j = NameEnd(s, i + 3)
               /\ a = IF j > i + 3 THEN UserHome ELSE Home
      BY <1>3, <2>4 DEF UserHome
    <3>5. j = n + 1 => b = <<>>
      BY <1>7
    <3>6. j <= n => Len(b) >= 1 /\ b[1] = s[j]
      <4>1. j <= n => j \in 1..n
        BY <1>1, <3>1
      <4> QED
        BY <1>10, <4>1
    <3> HIDE DEF j, a, b
    <3>7. /\ o \in Seq(Letter) /\ Len(o) = c + Len(b)
          /\ \A k \in 1..c : o[k] = a[k]
          /\ \A k \in 1..Len(b) : o[c + k] = b[k]
      BY <3>1, <3>3, ConcatIs
    <3>8. c \in Nat /\ Len(b) \in Nat
      BY <3>1, <3>3
    <3> HIDE DEF o
    <3>9. ASSUME NEW h \in 1..Len(o), HomeHere(o, h), h + 3 <= Len(o), h > c
          PROVE  o[h + 3] \in AfterHome
      <4> DEFINE k == h - c
      <4>1. h \in Nat /\ h > c /\ h + 3 <= c + Len(b)
        BY <3>7, <3>9
      <4> HIDE DEF c
      <4>2. k \in 1..Len(b) /\ k + 1 \in 1..Len(b) /\ k + 2 \in 1..Len(b) /\ k + 3 \in 1..Len(b)
        BY <3>8, <4>1
      <4>3. c + k = h /\ c + (k + 1) = h + 1 /\ c + (k + 2) = h + 2 /\ c + (k + 3) = h + 3
        BY <3>8, <4>1
      <4> HIDE DEF k
      <4>4. o[h] = b[k] /\ o[h + 1] = b[k + 1] /\ o[h + 2] = b[k + 2] /\ o[h + 3] = b[k + 3]
        BY <3>7, <4>2, <4>3
      <4>5. k + 2 <= Len(b) /\ k + 3 <= Len(b)
        BY <3>8, <4>2
      <4>6. HomeHere(b, k)
        BY <3>9, <4>4, <4>5 DEF HomeHere
      <4> QED
        BY <3>3, <4>2, <4>4, <4>5, <4>6 DEF HomesHidden
    <3>10. ASSUME NEW h \in 1..c, HomeHere(o, h), h + 3 <= Len(o)
           PROVE  o[h + 3] \in AfterHome
      <4>1. o[h] = "/" /\ o[h + 1] = "home" /\ o[h + 2] = "/"
        BY <3>10 DEF HomeHere
      <4>2. CASE ~HomeHere(s, i)
        <5>1. c = 1 /\ h = 1 /\ j = i + 1 /\ s[i] = "/"
          <6>1. a = <<s[i]>> /\ j = i + 1
            BY <3>4, <4>2
          <6>2. c = 1 /\ a[1] = s[i]
            BY <6>1
          <6> HIDE DEF c
          <6> QED
            BY <3>7, <4>1, <6>1, <6>2
        <5>2. Len(b) >= 3 /\ 1 \in 1..Len(b) /\ 2 \in 1..Len(b)
          BY <3>7, <3>8, <3>10, <5>1
        <5>3. b[1] = "home" /\ b[2] = "/"
          BY <3>7, <4>1, <5>1, <5>2
        <5>4. j <= n
          <6> SUFFICES ASSUME j = n + 1 PROVE FALSE
            BY <1>1, <3>1
          <6>1. Len(b) = 0
            BY <3>5
          <6> QED
            BY <5>2, <6>1
        <5>5. j \in 1..n /\ s[j] = "home"
          BY <1>1, <3>1, <3>6, <5>3, <5>4
        <5>6. step[j].says = <<s[j]>> /\ step[j].next = j + 1
          BY <1>3, <5>5 DEF HomeHere
        <5> DEFINE d == from[j + 1]
        <5>7. j + 1 \in 1..(n + 1) /\ d \in Seq(Letter) /\ b = <<s[j]>> \o d
          BY <1>1, <1>6, <5>5, <5>6 DEF b
        <5> HIDE DEF d
        <5>8. <<s[j]>> \in Seq(Letter) /\ Len(<<s[j]>>) = 1
          BY <1>1, <5>5
        <5>9. Len(b) = 1 + Len(d) /\ \A k \in 1..Len(d) : b[1 + k] = d[k]
          BY <5>7, <5>8, ConcatIs
        <5>10. Len(d) \in Nat /\ 1 \in 1..Len(d)
          BY <5>2, <5>7, <5>9
        <5>11. d[1] = "/"
          BY <5>3, <5>9, <5>10
        <5>12. j + 1 <= n
          <6> SUFFICES ASSUME j + 1 = n + 1 PROVE FALSE
            BY <1>1, <5>7
          <6>1. d = <<>>
            BY <1>7 DEF d
          <6> QED
            BY <5>10, <6>1
        <5>13. s[j + 1] = "/"
          <6>1. j + 1 \in 1..n
            BY <1>1, <5>7, <5>12
          <6> QED
            BY <1>10, <5>11, <6>1 DEF d
        <5>14. HomeHere(s, i)
          <6>1. i + 1 = j /\ i + 2 = j + 1
            BY <5>1
          <6> QED
            BY <5>1, <5>5, <5>12, <5>13, <6>1 DEF HomeHere
        <5> QED
          BY <4>2, <5>14
      <4>3. CASE HomeHere(s, i) /\ j > i + 3
        <5>1. a = UserHome /\ c = 4
          BY <1>9, <3>4, <4>3
        <5>2. o[1] = "/" /\ o[2] = "home" /\ o[3] = "/" /\ o[4] = "<user>"
          <6>1. 1 \in 1..4 /\ 2 \in 1..4 /\ 3 \in 1..4 /\ 4 \in 1..4
            OBVIOUS
          <6>2. \A k \in 1..4 : o[k] = UserHome[k]
            BY <3>7, <5>1
          <6> QED
            BY <1>9, <6>1, <6>2
        <5>3. h = 1 \/ h = 2 \/ h = 3 \/ h = 4
          BY <3>10, <5>1
        <5>4. h = 1
          <6>1. 2 + 2 = 4 /\ 3 + 1 = 4
            OBVIOUS
          <6> QED
            BY <4>1, <5>2, <5>3, <6>1
        <5>5. h + 3 = 4
          BY <5>4
        <5> QED
          BY <5>2, <5>5 DEF AfterHome
      <4>4. CASE HomeHere(s, i) /\ ~(j > i + 3)
        <5>1. a = Home /\ c = 3
          BY <1>8, <3>4, <4>4
        <5>2. o[1] = "/" /\ o[2] = "home" /\ o[3] = "/"
          <6>1. 1 \in 1..3 /\ 2 \in 1..3 /\ 3 \in 1..3
            OBVIOUS
          <6>2. \A k \in 1..3 : o[k] = Home[k]
            BY <3>7, <5>1
          <6> QED
            BY <1>8, <6>1, <6>2
        <5>3. 1 \in 1..Len(b) /\ o[4] = b[1]
          <6>1. Len(b) >= 1
            BY <3>7, <3>8, <3>10, <5>1
          <6>2. 1 \in 1..Len(b)
            BY <3>8, <6>1
          <6> QED
            BY <3>7, <5>1, <6>2
        <5>4. j <= n
          <6> SUFFICES ASSUME j = n + 1 PROVE FALSE
            BY <1>1, <3>1
          <6>1. Len(b) = 0
            BY <3>5
          <6> QED
            BY <5>3, <6>1
        <5>5. s[j] \in {"/", " "}
          <6>1. i + 3 \in 1..(n + 1) /\ j = NameEnd(s, i + 3)
            BY <1>1, <2>4, <3>4, <4>4 DEF HomeHere
          <6> QED
            BY <5>4, <6>1, NameEndIs
        <5>6. o[4] \in {"/", " "}
          BY <3>6, <5>3, <5>4, <5>5
        <5>7. h = 1 \/ h = 2 \/ h = 3
          BY <3>10, <5>1
        <5>8. h = 1
          <6>1. 2 + 2 = 4 /\ 3 + 1 = 4
            OBVIOUS
          <6> QED
            BY <4>1, <5>2, <5>6, <5>7, <6>1
        <5>9. h + 3 = 4
          BY <5>8
        <5> QED
          BY <5>6, <5>9 DEF AfterHome
      <4> QED
        BY <4>2, <4>3, <4>4
    <3>11. HomesHidden(o)
      <4>1. \A h \in 1..Len(o) : h \in 1..c \/ h > c
        BY <3>8
      <4> QED
        BY <3>9, <3>10, <4>1 DEF HomesHidden
    <3> QED
      BY <2>3, <3>1, <3>11
  <2>5. CASE i \notin 1..n
    <3>1. from[i] = <<>>
      BY <1>1, <1>7, <2>5
    <3> QED
      BY <2>3, <3>1 DEF HomesHidden
  <2> QED
    BY <2>4, <2>5
<1>12. Fine(1)
  <2>1. n + 1 - 1 \in Nat /\ 1 \in 1..(n + 1)
    BY <1>1
  <2> HIDE DEF Fine
  <2> QED
    BY <1>11, <2>1
<1>13. Written(step) \in Seq(Letter)
  BY <1>1, <1>2, WrittenType
<1>14. ASSUME ~Holds(s, Home) PROVE Written(step) = s
  <2>1. \A i \in 1..n : ~At(s, i, Home)
    BY <1>1, <1>14 DEF Holds
  <2>2. \A i \in 1..n : ~HomeHere(s, i)
    BY <2>1, HomeIs
  <2>3. \A i \in 1..n : step[i].says = SubSeq(s, i, step[i].next - 1)
    BY <1>3, <2>2, CopyIs
  <2> QED
    BY <1>2, <2>3, WrittenAsItIs
<1> QED
  BY <1>4, <1>7, <1>12, <1>13, <1>14

-----------------------------------------------------------------------------
(* The four replacements *)

LEMMA WithoutHomeIs ==
  ASSUME NEW text \in Seq(Letter), NEW home \in Seq(Letter)
  PROVE  /\ WithoutHome(text, home) \in Seq(Letter)
         /\ (Len(home) > 1 => ~Holds(text, Trimmed(home))) => WithoutHome(text, home) = text
<1> DEFINE n == Len(home)
           kept == {i \in DOMAIN home : home[i] # "/"} \cup {0}
           m == Max(kept)
<1>1. n \in Nat /\ DOMAIN home = 1..n /\ kept \subseteq 0..n /\ 0 \in kept
  OBVIOUS
<1>2. m \in 0..n
  <2> HIDE DEF kept
  <2>1. 0 \in Int /\ n \in Int
    BY <1>1
  <2>2. IsFiniteSet(kept)
    BY <1>1, <2>1, FS_Interval, FS_Subset
  <2>3. kept \subseteq Nat /\ kept # {}
    BY <1>1
  <2>4. m \in kept
    BY <2>2, <2>3, MaxOf
  <2> QED
    BY <1>1, <2>4
<1>3. Trimmed(home) = SubSeq(home, 1, m)
  BY DEF Trimmed
<1> HIDE DEF m
<1>4. SubSeq(home, 1, m) \in Seq(Letter)
  <2>1. 1 \in Int /\ m \in Int /\ \A k \in 1..m : home[k] \in Letter
    BY <1>1, <1>2
  <2> QED
    BY <2>1, SubSeqProperties
<1>5. "~" \in Letter
  BY DEF Letter, Between
<1>6. /\ Replace(text, Trimmed(home), "~") \in Seq(Letter)
      /\ ~Holds(text, Trimmed(home)) => Replace(text, Trimmed(home), "~") = text
  BY <1>3, <1>4, <1>5, ReplaceIs
<1> QED
  BY <1>6 DEF WithoutHome

LEMMA RedactTextHides ==
  ASSUME NEW text \in Text, NEW sys, sys.home \in Text,
         sys.user \in Name, sys.hostname \in Name
  PROVE  HiddenIn(text, sys, RedactText(text, sys))
<1> DEFINE user == sys.user
           hostname == sys.hostname
           t1 == WithoutHome(text, sys.home)
           t2 == RedactHomeDirs(t1)
           t3 == ReplaceWord(t2, hostname, "<hostname>")
           t4 == ReplaceWord(t3, user, "<user>")
<1>1. text \in Seq(Letter) /\ sys.home \in Seq(Letter)
  BY DEF Text, Letter
<1>2. /\ t1 \in Seq(Letter)
      /\ (Len(sys.home) > 1 => ~Holds(text, Trimmed(sys.home))) => t1 = text
  BY <1>1, WithoutHomeIs
<1>3. RedactText(text, sys) = t4
  BY DEF RedactText
<1> HIDE DEF t1
<1>4. /\ t2 \in Seq(Letter) /\ HomesHidden(t2)
      /\ ~Holds(t1, Home) => t2 = t1
  BY <1>2, RedactHomeDirsHides
<1> HIDE DEF t2
<1>5. "<hostname>" \in Marks /\ "<user>" \in Marks
  BY DEF Marks
<1>6. /\ t3 \in Seq(Letter) /\ ~HoldsWhole(t3, hostname) /\ HomesHidden(t3)
      /\ ~HoldsWhole(t2, hostname) => t3 = t2
  BY <1>4, <1>5, ReplaceWordHides
<1> HIDE DEF t3
<1>7. /\ t4 \in Seq(Letter) /\ ~HoldsWhole(t4, user) /\ ~HoldsWhole(t4, hostname)
      /\ HomesHidden(t4)
      /\ ~HoldsWhole(t3, user) => t4 = t3
  BY <1>5, <1>6, ReplaceWordHides
<1> HIDE DEF t4
<1>8. ASSUME NEW i \in DOMAIN t4, At(t4, i, Home), i + Len(Home) <= Len(t4)
      PROVE  t4[i + Len(Home)] \in {"<user>", "/", " "}
  <2>1. i \in 1..Len(t4) /\ i \in Nat \ {0} /\ Len(Home) = 3
    BY <1>7, HomeIs
  <2>2. HomeHere(t4, i)
    BY <1>7, <1>8, <2>1, HomeIs
  <2> QED
    BY <1>7, <1>8, <2>1, <2>2 DEF HomesHidden, AfterHome
<1>9. ASSUME ~HoldsWhole(text, user), ~HoldsWhole(text, hostname), ~Holds(text, Home),
             Len(sys.home) > 1 => ~Holds(text, Trimmed(sys.home))
      PROVE  t4 = text
  BY <1>2, <1>4, <1>6, <1>7, <1>9
<1> QED
  BY <1>3, <1>7, <1>8, <1>9 DEF HiddenIn

(* A prompt names neither the user nor the machine, as whole words, nor a   *)
(* folder of /home, whatever the text, the home and the names, though each  *)
(* of the four replacements works on what the one before has left; and a    *)
(* text that has none of them is given as it is (prompt.rs:137-197).        *)
THEOREM NamesAreHidden == CallSpec => []NamesHidden
<1> DEFINE Asked == call = "redact_text" => input \in Prompts
<1>1. CallInit => Asked /\ NamesHidden
  BY DEF CallInit, NamesHidden, Returned
<1>2. Asked /\ NamesHidden /\ [CallNext]_vars => Asked' /\ NamesHidden'
  <2> SUFFICES ASSUME Asked, NamesHidden, [CallNext]_vars
               PROVE  Asked' /\ NamesHidden'
    OBVIOUS
  <2>1. CASE FindClosest
    BY <2>1 DEF FindClosest, Called, NamesHidden, Returned
  <2>2. CASE FindWords
    BY <2>2 DEF FindWords, Called, NamesHidden, Returned
  <2>3. CASE Redact
    <3>1. /\ call = "redact_text" /\ call' = call /\ input' = input
          /\ output' = RedactText(input.text, input.sys)
      BY <2>3 DEF Redact, Called
    <3>2. /\ input.text \in Text /\ input.sys.home \in Text
          /\ input.sys.user \in Name /\ input.sys.hostname \in Name
      BY <3>1, PromptsAssumption
    <3>3. HiddenIn(input.text, input.sys, output')
      BY <3>1, <3>2, RedactTextHides
    <3> QED
      BY <3>1, <3>3 DEF NamesHidden
  <2>4. CASE WrapText
    BY <2>4 DEF WrapText, Called, NamesHidden, Returned
  <2>5. CASE ReadSections
    BY <2>5 DEF ReadSections, Called, NamesHidden, Returned
  <2>6. CASE ResolvePath
    BY <2>6 DEF ResolvePath, Called, NamesHidden, Returned
  <2>7. CASE ReadServer
    BY <2>7 DEF ReadServer, Called, NamesHidden, Returned
  <2>8. CASE UNCHANGED vars
    BY <2>8 DEF vars, NamesHidden, Returned
  <2> QED
    BY <2>1, <2>2, <2>3, <2>4, <2>5, <2>6, <2>7, <2>8 DEF CallNext
<1> QED
  BY <1>1, <1>2, PTL DEF CallSpec

-----------------------------------------------------------------------------
(* Words *)

LineChar == [at : Nat, blank : BOOLEAN, style : Style, link : STRING \cup {NoLink}]

LEMMA PlacedIs ==
  ASSUME NEW spans \in Seq(SpanChar)
  PROVE  /\ Placed(spans) \in Seq(LineChar) /\ Len(Placed(spans)) = Len(spans)
         /\ \A i \in 1..Len(spans) :
              /\ Placed(spans)[i].at = i /\ ~IsSpace(Placed(spans)[i])
              /\ Placed(spans)[i].blank = spans[i].blank
              /\ Placed(spans)[i].link = spans[i].link
<1> DEFINE n == Len(spans)
           P(i) == [at |-> i, blank |-> spans[i].blank, style |-> spans[i].style, link |-> spans[i].link]
<1>1. n \in Nat /\ DOMAIN spans = 1..n /\ \A i \in 1..n : spans[i] \in SpanChar
  OBVIOUS
<1>2. Placed(spans) = [i \in 1..n |-> P(i)]
  BY <1>1 DEF Placed
<1>3. \A i \in 1..n : P(i) \in LineChar /\ P(i).at = i /\ P(i).blank = spans[i].blank /\ P(i).link = spans[i].link
  BY <1>1 DEF SpanChar, LineChar
<1> HIDE DEF P
<1>4. \A i \in 1..n : Placed(spans)[i] = P(i)
  BY <1>2
<1>5. Placed(spans) \in [1..n -> LineChar]
  BY <1>2, <1>3
<1>6. Placed(spans) \in Seq(LineChar) /\ Len(Placed(spans)) = n
  BY <1>1, <1>5
<1>7. \A i \in 1..n : i # 0
  OBVIOUS
<1> QED
  BY <1>3, <1>4, <1>6, <1>7 DEF IsSpace

\* The word of a place reaches as far as its characters do.
LEMMA WordAtIs ==
  ASSUME NEW spans \in Seq(SpanChar), NEW at \in 1..Len(spans)
  PROVE  /\ WordAt(spans, at) \subseteq 1..Len(spans)
         /\ \A k \in 1..Len(spans) :
              k \in WordAt(spans, at) <=>
                /\ k <= at => \A j \in k..at : OfAWord(spans[j])
                /\ at <= k => \A j \in at..k : OfAWord(spans[j])
<1> DEFINE n == Len(spans)
<1>1. DOMAIN spans = 1..n /\ n \in Nat
  OBVIOUS
<1>2. ASSUME NEW k \in 1..n
      PROVE  k \in WordAt(spans, at) <=>
                /\ k <= at => \A j \in k..at : OfAWord(spans[j])
                /\ at <= k => \A j \in at..k : OfAWord(spans[j])
  <2>1. k \in WordAt(spans, at) <=> \A j \in Min({k, at})..Max({k, at}) : OfAWord(spans[j])
    BY <1>1 DEF WordAt
  <2>2. k \in Nat /\ at \in Nat
    OBVIOUS
  <2>3. Max({k, at}) = IF k <= at THEN at ELSE k
    BY <2>2, MaxOfTwo
  <2>4. Min({k, at}) = IF k <= at THEN k ELSE at
    BY <2>2, MinOfTwo
  <2>5. CASE k <= at
    <3>1. k = at \/ ~(at <= k)
      BY <2>2, <2>5
    <3> QED
      BY <2>1, <2>3, <2>4, <2>5, <3>1
  <2>6. CASE ~(k <= at)
    <3>1. at <= k
      BY <2>2, <2>6
    <3> QED
      BY <2>1, <2>3, <2>4, <2>6, <3>1
  <2> QED
    BY <2>5, <2>6
<1> QED
  BY <1>1, <1>2 DEF WordAt

LEMMA SameWord ==
  ASSUME NEW spans \in Seq(SpanChar), NEW at \in 1..Len(spans), NEW k \in WordAt(spans, at)
  PROVE  /\ k \in 1..Len(spans) /\ OfAWord(spans[k]) /\ OfAWord(spans[at])
         /\ at \in WordAt(spans, k)
         /\ WordAt(spans, k) = WordAt(spans, at) /\ WordOf(spans, k) = WordOf(spans, at)
<1> DEFINE n == Len(spans)
           Filled(a, b) == \A j \in a..b : OfAWord(spans[j])
<1>1. k \in 1..n /\ at \in 1..n /\ n \in Nat
  BY WordAtIs
<1>2. \A a, b \in 1..n : b \in WordAt(spans, a) <=> (b <= a => Filled(b, a)) /\ (a <= b => Filled(a, b))
  BY WordAtIs
<1>3. \A a \in 1..n : WordAt(spans, a) \subseteq 1..n
  BY WordAtIs
<1>4. \A a, b, c \in 1..n : Filled(a, b) /\ Filled(b, c) => Filled(a, c)
  <2> SUFFICES ASSUME NEW a \in 1..n, NEW b \in 1..n, NEW c \in 1..n, Filled(a, b), Filled(b, c),
                      NEW j \in a..c
               PROVE  OfAWord(spans[j])
    OBVIOUS
  <2>1. j \in a..b \/ j \in b..c
    BY <1>1
  <2> QED
    BY <2>1
<1>5. \A a, b, c, d \in 1..n : Filled(a, b) /\ a <= c /\ d <= b => Filled(c, d)
  <2> SUFFICES ASSUME NEW a \in 1..n, NEW b \in 1..n, NEW c \in 1..n, NEW d \in 1..n,
                      Filled(a, b), a <= c, d <= b, NEW j \in c..d
               PROVE  OfAWord(spans[j])
    OBVIOUS
  <2>1. j \in a..b
    BY <1>1
  <2> QED
    BY <2>1
<1>6. \A a \in 1..n : Filled(a, a) => OfAWord(spans[a])
  <2>1. \A a \in 1..n : a \in a..a
    OBVIOUS
  <2> QED
    BY <2>1
<1> HIDE DEF Filled
<1>7. \A a, b \in 1..n : b \in WordAt(spans, a) <=> a \in WordAt(spans, b)
  BY <1>2
<1>8. \A a, b, c \in 1..n : b \in WordAt(spans, a) /\ c \in WordAt(spans, b) => c \in WordAt(spans, a)
  <2> SUFFICES ASSUME NEW a \in 1..n, NEW b \in 1..n, NEW c \in 1..n,
                      b \in WordAt(spans, a), c \in WordAt(spans, b)
               PROVE  c \in WordAt(spans, a)
    OBVIOUS
  <2>1. (b <= a => Filled(b, a)) /\ (a <= b => Filled(a, b))
    BY <1>2
  <2>2. (c <= b => Filled(c, b)) /\ (b <= c => Filled(b, c))
    BY <1>2
  <2>3. a \in Nat /\ b \in Nat /\ c \in Nat
    OBVIOUS
  <2>4. c <= a => Filled(c, a)
    <3> HAVE c <= a
    <3>1. CASE b <= c
      BY <2>1, <2>3, <3>1, <1>5
    <3>2. CASE c <= b /\ b <= a
      BY <2>1, <2>2, <3>2, <1>4
    <3>3. CASE a <= b /\ c <= b
      BY <2>2, <2>3, <3>3, <1>5
    <3> QED
      BY <2>3, <3>1, <3>2, <3>3
  <2>5. a <= c => Filled(a, c)
    <3> HAVE a <= c
    <3>1. CASE c <= b
      BY <2>1, <2>3, <3>1, <1>5
    <3>2. CASE a <= b /\ b <= c
      BY <2>1, <2>2, <3>2, <1>4
    <3>3. CASE b <= a /\ b <= c
      BY <2>2, <2>3, <3>3, <1>5
    <3> QED
      BY <2>3, <3>1, <3>2, <3>3
  <2> QED
    BY <1>2, <2>4, <2>5
<1>9. k \in WordAt(spans, k) /\ at \in WordAt(spans, at)
  BY <1>1, <1>7, <1>8
<1>10. OfAWord(spans[k]) /\ OfAWord(spans[at])
  <2>1. k <= k /\ at <= at
    BY <1>1
  <2> QED
    BY <1>1, <1>2, <1>6, <1>9, <2>1
<1>11. WordAt(spans, k) = WordAt(spans, at)
  BY <1>1, <1>3, <1>7, <1>8
<1> QED
  BY <1>1, <1>7, <1>10, <1>11 DEF WordOf

LEMMA WordOfIs ==
  ASSUME NEW spans \in Seq(SpanChar), NEW at \in 1..Len(spans), OfAWord(spans[at])
  PROVE  /\ at \in WordAt(spans, at)
         /\ \E lo, hi \in 1..Len(spans) :
              /\ lo <= at /\ at <= hi
              /\ \A k \in WordAt(spans, at) : lo <= k /\ k <= hi
              /\ Len(WordOf(spans, at)) = hi - lo + 1
              /\ \A k \in lo..hi : /\ k - lo + 1 \in DOMAIN WordOf(spans, at)
                                   /\ WordOf(spans, at)[k - lo + 1] = spans[k]
<1> DEFINE n == Len(spans)
           W == WordAt(spans, at)
           lo == Min(W)
           hi == Max(W)
<1>1. W \subseteq 1..n /\ n \in Nat
  BY WordAtIs
<1>2. at \in W
  <2>1. \A j \in at..at : j = at
    OBVIOUS
  <2> QED
    BY <2>1, WordAtIs
<1>3. W \subseteq Nat /\ W # {} /\ IsFiniteSet(W)
  <2>1. IsFiniteSet(1..n)
    <3>1. 1 \in Int /\ n \in Int
      BY <1>1
    <3> QED
      BY <3>1, FS_Interval
  <2>2. IsFiniteSet(W)
    BY <1>1, <2>1, FS_Subset
  <2> QED
    BY <1>1, <1>2, <2>2
<1>4. lo \in W /\ \A k \in W : lo <= k
  <2> HIDE DEF W
  <2> QED
    BY <1>3, MinOf
<1>5. hi \in W /\ \A k \in W : k <= hi
  <2> HIDE DEF W
  <2> QED
    BY <1>3, MaxOf
<1>6. WordOf(spans, at) = SubSeq(spans, lo, hi)
  BY DEF WordOf
<1> HIDE DEF lo, hi, W
<1>7. lo \in 1..n /\ hi \in 1..n /\ lo <= at /\ at <= hi /\ lo <= hi
  BY <1>1, <1>2, <1>4, <1>5
<1> DEFINE s == SubSeq(spans, lo, hi)
<1>8. Len(s) = hi - lo + 1 /\ DOMAIN s = 1..(hi - lo + 1) /\ \A i \in 1..(hi - lo + 1) : s[i] = spans[lo + i - 1]
  BY <1>7
<1>9. \A k \in lo..hi : k - lo + 1 \in 1..(hi - lo + 1) /\ lo + (k - lo + 1) - 1 = k
  BY <1>7
<1> HIDE DEF s
<1>10. \A k \in lo..hi : k - lo + 1 \in DOMAIN s /\ s[k - lo + 1] = spans[k]
  BY <1>8, <1>9
<1>11. WordOf(spans, at) = s
  BY <1>6 DEF s
<1> QED
  BY <1>2, <1>4, <1>5, <1>7, <1>8, <1>10, <1>11 DEF W

\* A word that can be cut has no code, and none of its places is blank.
LEMMA CutsNoCode ==
  ASSUME NEW spans \in Seq(SpanChar), NEW at \in 1..Len(spans), NEW k \in WordAt(spans, at),
         CanBeCut(WordOf(spans, at))
  PROVE  ~spans[k].blank
<1>1. OfAWord(spans[k]) /\ OfAWord(spans[at])
  BY SameWord
<1>2. PICK lo \in 1..Len(spans), hi \in 1..Len(spans) :
        /\ lo <= k /\ k <= hi
        /\ \A j \in lo..hi : /\ j - lo + 1 \in DOMAIN WordOf(spans, at)
                             /\ WordOf(spans, at)[j - lo + 1] = spans[j]
  BY <1>1, WordOfIs
<1>3. k \in lo..hi
  <2>1. k \in 1..Len(spans)
    BY SameWord
  <2> QED
    BY <1>2, <2>1
<1>4. spans[k].style # "code"
  BY <1>2, <1>3 DEF CanBeCut
<1> QED
  BY <1>1, <1>4 DEF OfAWord

-----------------------------------------------------------------------------
(* Pieces *)

PieceRule(spans, room, piece) ==
  /\ piece \in [0..Len(spans) -> Nat] /\ piece[0] = 0
  /\ \A i \in 1..Len(spans) :
       piece[i] = IF ~OfAWord(spans[i]) THEN 0
                  ELSE IF piece[i - 1] = 0
                            \/ (i - piece[i - 1] = room /\ IsCut(WordOf(spans, i), room))
                       THEN i ELSE piece[i - 1]

LEMMA PieceIs ==
  ASSUME NEW spans \in Seq(SpanChar), NEW room \in Nat
  PROVE  PieceRule(spans, room, PieceOf(spans, room))
<1> DEFINE n == Len(spans)
           D == 0..n
           Next1(i, b) == IF ~OfAWord(spans[i]) THEN 0
                          ELSE IF b = 0 \/ (i - b = room /\ IsCut(WordOf(spans, i), room))
                               THEN i ELSE b
           At1(d, i) == IF i = 0 \/ ~OfAWord(spans[i]) THEN 0
                        ELSE LET before == d[i - 1]
                             IN  IF before = 0 \/ (i - before = room /\ IsCut(WordOf(spans, i), room))
                                 THEN i ELSE before
           step == [x \in (1..n) \X Nat |-> Next1(x[1], x[2])]
<1>1. n \in Nat /\ 0 \in D /\ \A i \in 1..n : i \in D /\ i - 1 \in D /\ i # 0
  OBVIOUS
<1>a. \A i \in 1..n, b \in Nat : Next1(i, b) \in Nat
  OBVIOUS
<1>b. \A i \in 1..n, b \in Nat : step[<<i, b>>] = Next1(i, b)
  <2> HIDE DEF Next1
  <2> QED
    BY <1>a
<1>2. \A i \in 1..n, b \in Nat : step[<<i, b>>] \in Nat
  <2> HIDE DEF Next1, step
  <2> QED
    BY <1>a, <1>b
<1>3. \A d : At1(d, 0) = 0 /\ \A i \in 1..n : At1(d, i) = Next1(i, d[i - 1])
  BY <1>1
<1> HIDE DEF step, Next1
<1>4. PICK f \in [D -> Nat] : f[0] = 0 /\ \A i \in 1..n : f[i] = step[<<i, f[i - 1]>>]
  <2>1. LoopOf(n, Nat, 0, step)
    BY <1>1, <1>2, LoopIs
  <2> QED
    BY <2>1 DEF LoopOf
<1>5. \A i \in D : f[i] = At1(f, i)
  <2>1. \A i \in 1..n : f[i] = At1(f, i)
    <3>1. \A i \in 1..n : f[i - 1] \in Nat
      BY <1>1, <1>4
    <3> HIDE DEF At1
    <3> QED
      BY <1>3, <1>4, <1>b, <3>1
  <2>2. \A i \in D : i = 0 \/ i \in 1..n
    BY <1>1
  <2> HIDE DEF At1
  <2> QED
    BY <1>3, <1>4, <2>1, <2>2
<1> DEFINE d == CHOOSE d : d = [i \in D |-> At1(d, i)]
<1>6. f = [i \in D |-> At1(f, i)]
  <2> HIDE DEF At1, D
  <2> QED
    BY <1>5
<1>7. d = [i \in D |-> At1(d, i)]
  BY <1>6
<1>8. PieceOf(spans, room) = d
  BY DEF PieceOf
<1> HIDE DEF d
<1>9. \A i \in D : d[i] = At1(d, i)
  <2> HIDE DEF At1, D
  <2> QED
    BY <1>7
<1>10. d[0] = 0 /\ \A i \in 1..n : d[i] = Next1(i, d[i - 1])
  <2> HIDE DEF At1
  <2> QED
    BY <1>1, <1>3, <1>9
<1>11. \A i \in D : d[i] \in Nat
  <2> DEFINE T == {i \in D : d[i] \in Nat}
  <2>1. 0 \in T
    BY <1>1, <1>10
  <2>2. \A i \in 1..n : i - 1 \in T => i \in T
    BY <1>1, <1>a, <1>10
  <2>3. \A i \in 0..n : i \in T
    <3> HIDE DEF T
    <3> QED
      BY <1>1, <2>1, <2>2, Upward
  <2> QED
    BY <2>3
<1>12. d \in [D -> Nat]
  <2>1. d = [i \in D |-> d[i]]
    BY <1>7, <1>9
  <2> QED
    BY <1>11, <2>1
<1> QED
  BY <1>8, <1>10, <1>12 DEF PieceRule, Next1

LEMMA PieceHolds ==
  ASSUME NEW spans \in Seq(SpanChar), NEW room \in Nat, NEW piece, PieceRule(spans, room, piece)
  PROVE  \A i \in 1..Len(spans) :
           /\ ~OfAWord(spans[i]) => piece[i] = 0
           /\ OfAWord(spans[i]) =>
                /\ piece[i] \in 1..i /\ piece[piece[i]] = piece[i]
                /\ \A j \in piece[i]..i : OfAWord(spans[j]) /\ piece[j] = piece[i]
<1> DEFINE n == Len(spans)
           Held(i) == /\ piece[i] \in 1..i /\ piece[piece[i]] = piece[i]
                      /\ \A j \in piece[i]..i : OfAWord(spans[j]) /\ piece[j] = piece[i]
           T == {i \in 0..n : i \in 1..n /\ OfAWord(spans[i]) => Held(i)}
<1>1. 0 \in T /\ n \in Nat
  OBVIOUS
<1>2. ASSUME NEW i \in 1..n, i - 1 \in T PROVE i \in T
  <2>1. i \in 0..n /\ i - 1 \in 0..n
    OBVIOUS
  <2> SUFFICES ASSUME OfAWord(spans[i]) PROVE Held(i)
    BY <2>1
  <2>2. piece[i] = IF piece[i - 1] = 0
                        \/ (i - piece[i - 1] = room /\ IsCut(WordOf(spans, i), room))
                   THEN i ELSE piece[i - 1]
    BY DEF PieceRule
  <2>3. CASE piece[i] = i
    <3>1. i \in 1..i /\ \A j \in i..i : j = i
      OBVIOUS
    <3> QED
      BY <2>3, <3>1
  <2>4. CASE piece[i] # i
    <3>1. piece[i] = piece[i - 1] /\ piece[i - 1] # 0
      BY <2>2, <2>4
    <3>2. i - 1 \in 1..n
      <4>1. i - 1 # 0
        BY <3>1 DEF PieceRule
      <4> QED
        BY <2>1, <4>1
    <3>3. OfAWord(spans[i - 1])
      BY <3>1, <3>2 DEF PieceRule
    <3>4. Held(i - 1)
      BY <1>2, <3>2, <3>3
    <3>5. \A j \in piece[i]..i : j = i \/ j \in piece[i]..(i - 1)
      BY <3>1, <3>4
    <3> QED
      BY <3>1, <3>4, <3>5
  <2> QED
    BY <2>3, <2>4
<1>3. \A i \in 0..n : i \in T
  <2> HIDE DEF T
  <2> QED
    BY <1>1, <1>2, Upward
<1>4. \A i \in 1..n : i \in 0..n
  OBVIOUS
<1>5. \A i \in 1..n : ~OfAWord(spans[i]) => piece[i] = 0
  BY DEF PieceRule
<1> QED
  BY <1>3, <1>4, <1>5

\* A piece of a word that is cut is no wider than a line.
LEMMA PieceFits ==
  ASSUME NEW spans \in Seq(SpanChar), NEW room \in Nat \ {0}, NEW piece, PieceRule(spans, room, piece)
  PROVE  \A i \in 1..Len(spans) :
           OfAWord(spans[i]) /\ IsCut(WordOf(spans, i), room) => i - piece[i] < room
<1> DEFINE n == Len(spans)
           T == {i \in 0..n : i \in 1..n /\ OfAWord(spans[i]) /\ IsCut(WordOf(spans, i), room)
                                => i - piece[i] < room}
<1>1. 0 \in T /\ n \in Nat
  OBVIOUS
<1>2. ASSUME NEW i \in 1..n, i - 1 \in T PROVE i \in T
  <2>1. i \in 0..n /\ i - 1 \in 0..n
    OBVIOUS
  <2> SUFFICES ASSUME OfAWord(spans[i]), IsCut(WordOf(spans, i), room) PROVE i - piece[i] < room
    BY <2>1
  <2>2. piece[i] = IF piece[i - 1] = 0 \/ i - piece[i - 1] = room THEN i ELSE piece[i - 1]
    BY DEF PieceRule
  <2>3. CASE piece[i] = i
    BY <2>3
  <2>4. CASE piece[i] # i
    <3>1. piece[i] = piece[i - 1] /\ piece[i - 1] # 0 /\ i - piece[i - 1] # room
      BY <2>2, <2>4
    <3>2. i - 1 \in 1..n
      <4>1. i - 1 # 0
        BY <3>1 DEF PieceRule
      <4> QED
        BY <2>1, <4>1
    <3>3. OfAWord(spans[i - 1])
      BY <3>1, <3>2 DEF PieceRule
    <3>4. i - 1 \in WordAt(spans, i)
      <4>1. (i - 1 <= i => \A j \in (i - 1)..i : OfAWord(spans[j]))
        <5>1. \A j \in (i - 1)..i : j = i - 1 \/ j = i
          OBVIOUS
        <5> QED
          BY <3>3, <5>1
      <4>2. ~(i <= i - 1)
        OBVIOUS
      <4> QED
        BY <3>2, <4>1, <4>2, WordAtIs
    <3>5. WordOf(spans, i - 1) = WordOf(spans, i)
      BY <3>4, SameWord
    <3>6. (i - 1) - piece[i - 1] < room
      BY <1>2, <3>2, <3>3, <3>5
    <3>7. piece[i - 1] \in Nat
      BY <2>1 DEF PieceRule
    <3> QED
      BY <3>1, <3>6, <3>7
  <2> QED
    BY <2>3, <2>4
<1>3. \A i \in 0..n : i \in T
  <2> HIDE DEF T
  <2> QED
    BY <1>1, <1>2, Upward
<1>4. \A i \in 1..n : i \in 0..n
  OBVIOUS
<1> QED
  BY <1>3, <1>4

\* What is before the first place of a piece: nothing, a blank, or as much of
\* a word that is cut as fits on a line.
LEMMA PieceBegins ==
  ASSUME NEW spans \in Seq(SpanChar), NEW room \in Nat \ {0}, NEW piece, PieceRule(spans, room, piece),
         NEW a \in 1..Len(spans), piece[a] = a
  PROVE  /\ OfAWord(spans[a])
         /\ a = 1 \/ ~OfAWord(spans[a - 1]) \/ IsCut(WordOf(spans, a), room)
<1>1. OfAWord(spans[a])
  BY DEF PieceRule
<1>2. ASSUME a # 1, OfAWord(spans[a - 1]) PROVE IsCut(WordOf(spans, a), room)
  <2>1. a - 1 \in 1..Len(spans)
    BY <1>2
  <2>2. piece[a - 1] \in 1..(a - 1)
    BY <1>2, <2>1, PieceHolds
  <2>3. piece[a - 1] # 0 /\ piece[a - 1] # a
    BY <2>2
  <2> QED
    BY <1>1, <2>3 DEF PieceRule
<1> QED
  BY <1>1, <1>2

\* Between the end of a piece and the beginning of the next are only blanks.
LEMMA NoneBetween ==
  ASSUME NEW spans \in Seq(SpanChar), NEW room \in Nat, NEW piece, PieceRule(spans, room, piece),
         NEW e \in 0..Len(spans), NEW b \in e..Len(spans),
         \A j \in (e + 1)..b : ~EndsPiece(spans, piece, j),
         b = Len(spans) \/ piece[b + 1] = b + 1
  PROVE  \A j \in (e + 1)..b : ~OfAWord(spans[j])
<1> DEFINE n == Len(spans)
           Left == {j \in (e + 1)..b : OfAWord(spans[j])}
<1>0. n \in Nat /\ e \in Nat /\ b \in Nat /\ b <= n
  OBVIOUS
<1> SUFFICES ASSUME Left # {} PROVE FALSE
  OBVIOUS
<1>1. Left \subseteq (e + 1)..b /\ Left \subseteq Nat /\ IsFiniteSet(Left)
  <2>1. Left \subseteq (e + 1)..b /\ (e + 1)..b \subseteq Nat
    BY <1>0
  <2>2. IsFiniteSet((e + 1)..b)
    <3>1. e + 1 \in Int /\ b \in Int
      BY <1>0
    <3> QED
      BY <3>1, FS_Interval
  <2>3. IsFiniteSet(Left)
    BY <2>1, <2>2, FS_Subset
  <2> QED
    BY <2>1, <2>3
<1> DEFINE k == Max(Left)
<1>2. k \in Left /\ \A j \in Left : j <= k
  <2> HIDE DEF Left
  <2> QED
    BY <1>1, MaxOf
<1> HIDE DEF k
<1>3. k \in (e + 1)..b /\ OfAWord(spans[k]) /\ k \in 1..n /\ k \in Nat
  BY <1>0, <1>2
<1>4. k # n /\ piece[k + 1] = piece[k]
  BY <1>3 DEF EndsPiece
<1>5. k + 1 \in 1..n /\ piece[k] \in 1..k
  BY <1>0, <1>3, <1>4, PieceHolds
<1>6. OfAWord(spans[k + 1])
  <2>1. piece[k + 1] # 0
    BY <1>4, <1>5
  <2> QED
    BY <1>5, <2>1 DEF PieceRule
<1>7. CASE k = b
  <2>1. piece[k + 1] = k + 1
    BY <1>4, <1>7
  <2> QED
    BY <1>3, <1>4, <1>5, <2>1
<1>8. CASE k # b
  <2>1. k + 1 \in (e + 1)..b /\ ~(k + 1 <= k)
    BY <1>0, <1>3, <1>8
  <2>2. k + 1 \in Left
    BY <1>6, <2>1
  <2> QED
    BY <1>2, <2>1, <2>2
<1> QED
  BY <1>7, <1>8

-----------------------------------------------------------------------------
(* Lines *)

\* What is lost at the end of a line is blank.
LEMMA TrimIs ==
  ASSUME NEW x \in Seq(LineChar)
  PROVE  /\ TrimEnd(x) \in Seq(LineChar) /\ Len(TrimEnd(x)) \in 0..Len(x)
         /\ \A k \in 1..Len(TrimEnd(x)) : k \in 1..Len(x) /\ TrimEnd(x)[k] = x[k]
         /\ \A k \in 1..Len(x) : k > Len(TrimEnd(x)) => x[k].blank
         /\ TrimEnd(x) # <<>> => /\ ~x[Len(TrimEnd(x))].blank
                                 /\ 1 \in 1..Len(TrimEnd(x))
                                 /\ Len(TrimEnd(x)) \in 1..Len(TrimEnd(x))
<1> DEFINE n == Len(x)
           S == {i \in DOMAIN x : ~x[i].blank}
           M == S \cup {0}
           m == Max(M)
           t == SubSeq(x, 1, m)
<1>1. n \in Nat /\ DOMAIN x = 1..n
  OBVIOUS
<1>2. S \subseteq 1..n
  BY <1>1
<1>3. M # {} /\ M \subseteq Nat /\ IsFiniteSet(M)
  <2>1. IsFiniteSet(1..n)
    <3>1. 1 \in Int /\ n \in Int
      BY <1>1
    <3> QED
      BY <3>1, FS_Interval
  <2>2. IsFiniteSet(S)
    BY <1>2, <2>1, FS_Subset
  <2>3. IsFiniteSet(M)
    <3> HIDE DEF S
    <3> QED
      BY <2>2, FS_AddElement
  <2>4. M \subseteq Nat /\ M # {}
    <3> HIDE DEF S
    <3> QED
      BY <1>1, <1>2
  <2> QED
    BY <2>3, <2>4
<1>4. m \in M /\ \A i \in M : i <= m
  <2> HIDE DEF M
  <2> QED
    BY <1>3, MaxOf
<1>5. TrimEnd(x) = t
  BY DEF TrimEnd
<1> HIDE DEF m
<1>6. m \in 0..n
  <2> HIDE DEF S
  <2> QED
    BY <1>1, <1>2, <1>4
<1>7. \A k \in 1..n : k > m => x[k].blank
  <2> SUFFICES ASSUME NEW k \in 1..n, k > m, ~x[k].blank PROVE FALSE
    OBVIOUS
  <2>1. k \in S
    BY <1>1
  <2>2. k <= m /\ k \in Nat
    <3> HIDE DEF S
    <3> QED
      BY <1>4, <2>1
  <2> QED
    BY <1>6, <2>2
<1>8. m # 0 => ~x[m].blank
  BY <1>4
<1>9. t \in Seq(LineChar) /\ Len(t) = m /\ \A k \in 1..m : k \in 1..n /\ t[k] = x[k]
  BY <1>1, <1>6
<1>10. t # <<>> => m # 0 /\ 1 \in 1..m /\ m \in 1..m
  BY <1>6, <1>9
<1> HIDE DEF t, S, M
<1> QED
  BY <1>5, <1>6, <1>7, <1>8, <1>9, <1>10

\* All of the text up to a place is on the lines, in its order.
ShownTo(spans, lines, e) ==
  /\ \A i \in 1..e : ~spans[i].blank =>
       \E n \in 1..Len(lines) : \E k \in 1..Len(lines[n]) : lines[n][k] = Placed(spans)[i]
  /\ \A n \in 1..Len(lines) : \A k \in 1..Len(lines[n]) : lines[n][k].at <= e
  /\ \A n, m \in 1..Len(lines) : \A k \in 1..Len(lines[n]), l \in 1..Len(lines[m]) :
       (n < m \/ (n = m /\ k < l)) /\ ~IsSpace(lines[n][k]) /\ ~IsSpace(lines[m][l]) =>
         lines[n][k].at < lines[m][l].at

\* The lines of which each is as long as before, or has lost blanks at its end.
Carried(L, M) ==
  /\ \A n \in 1..Len(M) : \A k \in 1..Len(M[n]) :
       n \in 1..Len(L) /\ k \in 1..Len(L[n]) /\ M[n][k] = L[n][k]
  /\ \A n \in 1..Len(L) : \A k \in 1..Len(L[n]) :
       (n \in 1..Len(M) /\ k \in 1..Len(M[n]) /\ M[n][k] = L[n][k]) \/ L[n][k].blank

LEMMA ShownKept ==
  ASSUME NEW spans \in Seq(SpanChar), NEW e \in 0..Len(spans), NEW L, NEW M, Carried(L, M), ShownTo(spans, L, e)
  PROVE  ShownTo(spans, M, e)
<1>1. ASSUME NEW i \in 1..e, ~spans[i].blank
      PROVE  \E n \in 1..Len(M) : \E k \in 1..Len(M[n]) : M[n][k] = Placed(spans)[i]
  <2>0. PICK n \in 1..Len(L) : \E k \in 1..Len(L[n]) : L[n][k] = Placed(spans)[i]
    BY <1>1 DEF ShownTo
  <2>1. PICK k \in 1..Len(L[n]) : L[n][k] = Placed(spans)[i]
    BY <2>0
  <2>2. ~L[n][k].blank
    <3>1. i \in 1..Len(spans)
      OBVIOUS
    <3> QED
      BY <1>1, <2>1, <3>1, PlacedIs
  <2> QED
    BY <2>1, <2>2 DEF Carried
<1>2. \A n \in 1..Len(M) : \A k \in 1..Len(M[n]) : M[n][k].at <= e
  BY DEF Carried, ShownTo
<1>3. ASSUME NEW n \in 1..Len(M), NEW m \in 1..Len(M),
             NEW k \in 1..Len(M[n]), NEW l \in 1..Len(M[m]),
             n < m \/ (n = m /\ k < l), ~IsSpace(M[n][k]), ~IsSpace(M[m][l])
      PROVE  M[n][k].at < M[m][l].at
  <2>1. n \in 1..Len(L) /\ k \in 1..Len(L[n]) /\ M[n][k] = L[n][k]
    BY DEF Carried
  <2>2. m \in 1..Len(L) /\ l \in 1..Len(L[m]) /\ M[m][l] = L[m][l]
    BY DEF Carried
  <2>3. L[n][k].at < L[m][l].at
    BY <1>3, <2>1, <2>2 DEF ShownTo
  <2> QED
    BY <2>1, <2>2, <2>3
<1> QED
  BY <1>1, <1>2, <1>3 DEF ShownTo

LEMMA NewLineKept ==
  ASSUME NEW lines \in Seq(Seq(LineChar))
  PROVE  Carried(lines, Append(lines, <<>>))
<1> DEFINE c == Len(lines)
           M == Append(lines, <<>>)
<1>1. c \in Nat /\ Len(M) = c + 1 /\ M[c + 1] = <<>> /\ \A n \in 1..c : M[n] = lines[n]
  OBVIOUS
<1>2. Len(<<>>) = 0 /\ \A n \in 1..(c + 1) : n \in 1..c \/ n = c + 1
  BY <1>1
<1>3. \A n \in 1..c : n \in 1..(c + 1)
  BY <1>1
<1> HIDE DEF M
<1>4. \A k : k \notin 1..0
  OBVIOUS
<1> QED
  BY <1>1, <1>2, <1>3, <1>4 DEF Carried

LEMMA TrimmedKept ==
  ASSUME NEW lines \in Seq(Seq(LineChar)), NEW x \in Seq(LineChar)
  PROVE  Carried(Append(lines, x), Append(lines, TrimEnd(x)))
<1> DEFINE c == Len(lines)
           t == TrimEnd(x)
           L == Append(lines, x)
           M == Append(lines, t)
<1>1. t \in Seq(LineChar) /\ Len(t) \in 0..Len(x) /\ Len(x) \in Nat
  BY TrimIs
<1>2. c \in Nat /\ Len(L) = c + 1 /\ L[c + 1] = x /\ \A n \in 1..c : L[n] = lines[n]
  OBVIOUS
<1>3. Len(M) = c + 1 /\ M[c + 1] = t /\ \A n \in 1..c : M[n] = lines[n]
  <2> HIDE DEF t
  <2> QED
    BY <1>1
<1>4. \A n \in 1..(c + 1) : n \in 1..c \/ n = c + 1
  BY <1>2
<1>5. \A k \in 1..Len(t) : k \in 1..Len(x) /\ t[k] = x[k]
  BY TrimIs
<1>6. \A k \in 1..Len(x) : k \in 1..Len(t) \/ x[k].blank
  <2>1. \A k \in 1..Len(x) : k > Len(t) => x[k].blank
    BY TrimIs
  <2>2. \A k \in 1..Len(x) : k > Len(t) \/ k \in 1..Len(t)
    BY <1>1
  <2> QED
    BY <2>1, <2>2
<1> HIDE DEF L, M, t, c
<1>7. \A n \in 1..Len(M) : \A k \in 1..Len(M[n]) :
        n \in 1..Len(L) /\ k \in 1..Len(L[n]) /\ M[n][k] = L[n][k]
  BY <1>2, <1>3, <1>4, <1>5
<1>8. \A n \in 1..Len(L) : \A k \in 1..Len(L[n]) :
        (n \in 1..Len(M) /\ k \in 1..Len(M[n]) /\ M[n][k] = L[n][k]) \/ L[n][k].blank
  BY <1>2, <1>3, <1>4, <1>5, <1>6
<1>9. Carried(L, M)
  BY <1>7, <1>8 DEF Carried
<1> QED
  BY <1>9 DEF L, M, t

\* What is put at the end of a line that shows the text up to a place.
LEMMA ShownMore ==
  ASSUME NEW spans \in Seq(SpanChar), NEW e \in 0..Len(spans), NEW f \in e..Len(spans),
         NEW lines \in Seq(Seq(LineChar)), NEW x \in Seq(LineChar), NEW y \in Seq(LineChar),
         ShownTo(spans, Append(lines, x), e),
         \A k \in 1..Len(y) : y[k].at <= f /\ (IsSpace(y[k]) \/ e < y[k].at),
         \A k, l \in 1..Len(y) : k < l /\ ~IsSpace(y[k]) /\ ~IsSpace(y[l]) => y[k].at < y[l].at,
         \A i \in (e + 1)..f : ~spans[i].blank => \E k \in 1..Len(y) : y[k] = Placed(spans)[i]
  PROVE  ShownTo(spans, Append(lines, x \o y), f)
<1> DEFINE c == Len(lines)
           z == x \o y
           L == Append(lines, x)
           M == Append(lines, z)
           a == Len(x)
           b == Len(y)
<1>1. z \in Seq(LineChar) /\ a \in Nat /\ b \in Nat /\ Len(z) = a + b
  OBVIOUS
<1>2. \A k \in 1..a : z[k] = x[k]
  OBVIOUS
<1>3. \A k \in 1..b : z[a + k] = y[k]
  OBVIOUS
<1>4. c \in Nat /\ Len(L) = c + 1 /\ L[c + 1] = x /\ \A n \in 1..c : L[n] = lines[n]
  OBVIOUS
<1>5. Len(M) = c + 1 /\ M[c + 1] = z /\ \A n \in 1..c : M[n] = lines[n]
  <2> HIDE DEF z
  <2> QED
    BY <1>1
<1>6. ShownTo(spans, L, e)
  OBVIOUS
<1>7. /\ \A k \in 1..b : y[k].at <= f /\ (IsSpace(y[k]) \/ e < y[k].at)
      /\ \A k, l \in 1..b : k < l /\ ~IsSpace(y[k]) /\ ~IsSpace(y[l]) => y[k].at < y[l].at
      /\ \A i \in (e + 1)..f : ~spans[i].blank => \E k \in 1..b : y[k] = Placed(spans)[i]
  OBVIOUS
<1>8. \A n \in 1..(c + 1) : \A k \in 1..Len(M[n]) : M[n][k].at \in Nat
  <2>1. \A n \in 1..(c + 1) : M[n] \in Seq(LineChar)
    <3>1. \A n \in 1..(c + 1) : n \in 1..c \/ n = c + 1
      BY <1>4
    <3>2. \A n \in 1..c : lines[n] \in Seq(LineChar)
      OBVIOUS
    <3> HIDE DEF M, z, c
    <3> QED
      BY <1>1, <1>5, <3>1, <3>2
  <2>2. \A n \in 1..(c + 1) : \A k \in 1..Len(M[n]) : M[n][k] \in LineChar
    <3> HIDE DEF M, c
    <3> QED
      BY <2>1
  <2>3. \A r \in LineChar : r.at \in Nat
    BY DEF LineChar
  <2> HIDE DEF M
  <2> QED
    BY <2>2, <2>3
<1> HIDE DEF L, M, z, a, b, c
<1>9. \A n \in 1..(c + 1) : n \in 1..c \/ n = c + 1
  BY <1>4
<1>10. \A k \in 1..(a + b) : k \in 1..a \/ (k - a \in 1..b /\ a + (k - a) = k /\ a < k)
  BY <1>1
\* A place of the lines is one they had, or one of what is put on the last.
<1>11. \A n \in 1..Len(M) : \A k \in 1..Len(M[n]) :
         \/ n \in 1..Len(L) /\ k \in 1..Len(L[n]) /\ M[n][k] = L[n][k]
         \/ n = c + 1 /\ k - a \in 1..b /\ M[n][k] = y[k - a]
  <2> SUFFICES ASSUME NEW n \in 1..(c + 1), NEW k \in 1..Len(M[n])
               PROVE  \/ n \in 1..Len(L) /\ k \in 1..Len(L[n]) /\ M[n][k] = L[n][k]
                      \/ n = c + 1 /\ k - a \in 1..b /\ M[n][k] = y[k - a]
    BY <1>5
  <2>1. CASE n \in 1..c
    BY <1>4, <1>5, <2>1
  <2>2. CASE n = c + 1
    <3>1. k \in 1..(a + b) /\ M[n][k] = z[k]
      BY <1>1, <1>5, <2>2
    <3>2. CASE k \in 1..a
      BY <1>2, <1>4, <2>2, <3>1, <3>2 DEF a
    <3>3. CASE k - a \in 1..b /\ a + (k - a) = k
      BY <1>3, <2>2, <3>1, <3>3
    <3> QED
      BY <1>10, <3>1, <3>2, <3>3
  <2> QED
    BY <1>9, <2>1, <2>2
<1>12. \A n \in 1..Len(L) : \A k \in 1..Len(L[n]) :
         n \in 1..Len(M) /\ k \in 1..Len(M[n]) /\ M[n][k] = L[n][k]
  <2> SUFFICES ASSUME NEW n \in 1..(c + 1), NEW k \in 1..Len(L[n])
               PROVE  n \in 1..Len(M) /\ k \in 1..Len(M[n]) /\ M[n][k] = L[n][k]
    BY <1>4
  <2>1. CASE n \in 1..c
    BY <1>4, <1>5, <2>1
  <2>2. CASE n = c + 1
    <3>1. k \in 1..a
      BY <1>4, <2>2 DEF a
    <3>2. k \in 1..(a + b)
      BY <1>1, <3>1
    <3> QED
      BY <1>1, <1>2, <1>4, <1>5, <2>2, <3>1, <3>2
  <2> QED
    BY <1>9, <2>1, <2>2
<1>13. \A k \in 1..b : a + k \in 1..Len(M[c + 1]) /\ M[c + 1][a + k] = y[k]
  <2>1. \A k \in 1..b : a + k \in 1..(a + b)
    BY <1>1
  <2> QED
    BY <1>1, <1>3, <1>5, <2>1
<1>14. e \in Nat /\ f \in Nat /\ e <= f
  OBVIOUS
<1>15. ASSUME NEW i \in 1..f, ~spans[i].blank
       PROVE  \E n \in 1..Len(M) : \E k \in 1..Len(M[n]) : M[n][k] = Placed(spans)[i]
  <2>1. CASE i \in 1..e
    BY <1>6, <1>12, <1>15, <2>1 DEF ShownTo
  <2>2. CASE i \in (e + 1)..f
    <3>1. PICK k \in 1..b : y[k] = Placed(spans)[i]
      BY <1>7, <1>15, <2>2
    <3>2. c + 1 \in 1..Len(M)
      BY <1>4, <1>5
    <3> QED
      BY <1>13, <3>1, <3>2
  <2> QED
    BY <1>14, <2>1, <2>2
<1>16. ASSUME NEW n \in 1..Len(M), NEW k \in 1..Len(M[n]) PROVE M[n][k].at <= f
  <2>1. M[n][k].at \in Nat
    BY <1>5, <1>8
  <2>2. CASE n \in 1..Len(L) /\ k \in 1..Len(L[n]) /\ M[n][k] = L[n][k]
    <3>1. M[n][k].at <= e
      BY <1>6, <2>2 DEF ShownTo
    <3> QED
      BY <1>14, <2>1, <3>1
  <2>3. CASE n = c + 1 /\ k - a \in 1..b /\ M[n][k] = y[k - a]
    BY <1>7, <2>3
  <2> QED
    BY <1>11, <2>2, <2>3
<1>17. ASSUME NEW n \in 1..Len(M), NEW m \in 1..Len(M),
              NEW k \in 1..Len(M[n]), NEW l \in 1..Len(M[m]),
              n < m \/ (n = m /\ k < l), ~IsSpace(M[n][k]), ~IsSpace(M[m][l])
       PROVE  M[n][k].at < M[m][l].at
  <2>1. M[n][k].at \in Nat /\ M[m][l].at \in Nat
    BY <1>5, <1>8
  <2>2. CASE /\ n \in 1..Len(L) /\ k \in 1..Len(L[n]) /\ M[n][k] = L[n][k]
             /\ m \in 1..Len(L) /\ l \in 1..Len(L[m]) /\ M[m][l] = L[m][l]
    <3>1. L[n][k].at < L[m][l].at
      BY <1>6, <1>17, <2>2 DEF ShownTo
    <3> QED
      BY <2>2, <3>1
  <2>3. CASE /\ n \in 1..Len(L) /\ k \in 1..Len(L[n]) /\ M[n][k] = L[n][k]
             /\ m = c + 1 /\ l - a \in 1..b /\ M[m][l] = y[l - a]
    <3>1. M[n][k].at <= e
      BY <1>6, <2>3 DEF ShownTo
    <3>2. e < M[m][l].at
      BY <1>7, <1>17, <2>3
    <3> QED
      BY <1>14, <2>1, <3>1, <3>2
  <2>4. CASE /\ n = c + 1 /\ k - a \in 1..b /\ M[n][k] = y[k - a]
             /\ m = c + 1 /\ l - a \in 1..b /\ M[m][l] = y[l - a]
    <3>1. k < l /\ k \in Nat /\ l \in Nat
      BY <1>4, <1>17, <2>4
    <3>2. k - a < l - a
      BY <1>1, <3>1
    <3> QED
      BY <1>7, <1>17, <2>4, <3>2
  <2>5. CASE /\ n = c + 1 /\ k - a \in 1..b
             /\ m \in 1..Len(L) /\ l \in 1..Len(L[m])
    <3>1. m = n /\ k < l
      BY <1>4, <1>17, <2>5
    <3>2. l \in 1..a /\ k \in Nat
      BY <1>4, <2>5, <3>1 DEF a
    <3> QED
      BY <1>1, <2>5, <3>1, <3>2
  <2> QED
    BY <1>11, <2>2, <2>3, <2>4, <2>5
<1>18. ShownTo(spans, M, f)
  BY <1>15, <1>16, <1>17 DEF ShownTo
<1> QED
  BY <1>18 DEF M, z

LEMMA Offsets ==
  ASSUME NEW a \in Nat, NEW i \in Nat, NEW n \in Nat, 1 <= a, a <= i, i <= n
  PROVE  /\ \A k \in 1..(i - a + 1) : a + k - 1 \in a..i /\ a + k - 1 \in 1..n
         /\ \A j \in a..i : j - a + 1 \in 1..(i - a + 1) /\ a + (j - a + 1) - 1 = j
         /\ i - a + 1 \in Nat \ {0}
OBVIOUS

\* The piece that ends at a place.
WordFacts(spans, room, piece, i, a, w) ==
  /\ a \in 1..i /\ piece[a] = a /\ \A j \in a..i : OfAWord(spans[j]) /\ piece[j] = a
  /\ w \in Seq(LineChar) /\ Len(w) = i - a + 1 /\ Len(w) \in Nat \ {0} /\ w # <<>>
  /\ \A k \in 1..Len(w) : /\ a + k - 1 \in a..i /\ w[k] = Placed(spans)[a + k - 1]
                          /\ w[k].at = a + k - 1 /\ ~IsSpace(w[k])
  /\ \A j \in a..i : j - a + 1 \in 1..Len(w) /\ w[j - a + 1] = Placed(spans)[j]
  /\ WordOf(spans, i) = WordOf(spans, a)
  /\ Len(w) <= Len(WordOf(spans, a))
  /\ IsCut(WordOf(spans, a), room) => Len(w) <= room

LEMMA WordIs ==
  ASSUME NEW spans \in Seq(SpanChar), NEW room \in Nat \ {0}, NEW piece, PieceRule(spans, room, piece),
         NEW i \in 1..Len(spans), EndsPiece(spans, piece, i),
         NEW a, a = piece[i], NEW w, w = SubSeq(Placed(spans), a, i)
  PROVE  WordFacts(spans, room, piece, i, a, w)
<1> DEFINE n == Len(spans)
           p == Placed(spans)
<1>1. OfAWord(spans[i])
  BY DEF EndsPiece
<1>2. a \in 1..i /\ piece[a] = a /\ \A j \in a..i : OfAWord(spans[j]) /\ piece[j] = a
  BY <1>1, PieceHolds
<1>3. p \in Seq(LineChar) /\ Len(p) = n /\ n \in Nat /\ i \in 1..n
  BY PlacedIs
<1>4. \A j \in 1..n : p[j].at = j /\ ~IsSpace(p[j])
  BY PlacedIs
<1>5. w \in Seq(LineChar) /\ Len(w) = i - a + 1 /\ \A k \in 1..(i - a + 1) : w[k] = p[a + k - 1]
  <2>1. w = SubSeq(p, a, i)
    OBVIOUS
  <2>2. a \in 1..n /\ i \in 1..n /\ a <= i
    BY <1>2, <1>3
  <2> HIDE DEF p
  <2> QED
    BY <1>3, <2>1, <2>2
<1>6. /\ \A k \in 1..(i - a + 1) : a + k - 1 \in a..i /\ a + k - 1 \in 1..n
      /\ \A j \in a..i : j - a + 1 \in 1..(i - a + 1) /\ a + (j - a + 1) - 1 = j
      /\ i - a + 1 \in Nat \ {0}
  <2>1. a \in Nat /\ i \in Nat /\ n \in Nat /\ 1 <= a /\ a <= i /\ i <= n
    BY <1>2, <1>3
  <2> HIDE DEF n
  <2> QED
    BY <2>1, Offsets
<1>7. w # <<>>
  <2>1. Len(w) # 0
    BY <1>5, <1>6
  <2> QED
    BY <2>1
<1> HIDE DEF p, n
<1>8. \A k \in 1..Len(w) : a + k - 1 \in a..i /\ w[k] = p[a + k - 1] /\ w[k].at = a + k - 1 /\ ~IsSpace(w[k])
  <2> SUFFICES ASSUME NEW k \in 1..(i - a + 1)
               PROVE  a + k - 1 \in a..i /\ w[k] = p[a + k - 1] /\ w[k].at = a + k - 1 /\ ~IsSpace(w[k])
    BY <1>5
  <2>1. a + k - 1 \in a..i /\ a + k - 1 \in 1..n
    BY <1>6
  <2>2. w[k] = p[a + k - 1]
    BY <1>5
  <2> QED
    BY <1>4, <2>1, <2>2
<1>9. \A j \in a..i : j - a + 1 \in 1..Len(w) /\ w[j - a + 1] = p[j]
  BY <1>5, <1>6
<1>10. i \in WordAt(spans, a) /\ a \in 1..n
  <2>1. a \in 1..Len(spans) /\ a <= i
    BY <1>2, <1>3 DEF n
  <2>2. i <= a => \A j \in i..a : OfAWord(spans[j])
    <3>1. i <= a => i = a
      BY <1>2
    <3> QED
      BY <1>2, <3>1
  <2> QED
    BY <1>2, <2>1, <2>2, WordAtIs DEF n
<1>11. WordOf(spans, i) = WordOf(spans, a)
  BY <1>10, SameWord DEF n
<1>12. i - a + 1 <= Len(WordOf(spans, a))
  <2>1. OfAWord(spans[a])
    BY <1>10, SameWord DEF n
  <2>2. /\ a \in WordAt(spans, a)
        /\ \E lo, hi \in 1..Len(spans) :
             /\ lo <= a /\ a <= hi
             /\ \A k \in WordAt(spans, a) : lo <= k /\ k <= hi
             /\ Len(WordOf(spans, a)) = hi - lo + 1
    BY <1>10, <2>1, WordOfIs DEF n
  <2>3. PICK lo \in 1..Len(spans), hi \in 1..Len(spans) :
          /\ lo <= a /\ i <= hi /\ Len(WordOf(spans, a)) = hi - lo + 1
    BY <1>10, <2>2
  <2> QED
    BY <1>2, <2>3
<1>13. IsCut(WordOf(spans, a), room) => i - a < room
  <2>1. IsCut(WordOf(spans, i), room) => i - piece[i] < room
    BY <1>1, PieceFits
  <2> QED
    BY <1>11, <2>1
<1>14. IsCut(WordOf(spans, a), room) => Len(w) <= room
  BY <1>2, <1>5, <1>13
<1> QED
  BY <1>2, <1>5, <1>6, <1>7, <1>8, <1>9, <1>11, <1>12, <1>14 DEF p, WordFacts

\* A word on a line of its own.
LEMMA FollowsWord ==
  ASSUME NEW spans \in Seq(SpanChar), NEW a \in 1..Len(spans), NEW w \in Seq(LineChar),
         \A k \in 1..Len(w) : /\ a + k - 1 \in 1..Len(spans) /\ w[k] = Placed(spans)[a + k - 1]
                              /\ w[k].at = a + k - 1 /\ ~IsSpace(w[k])
  PROVE  LineFollows(spans, w)
<1>1. DOMAIN w = 1..Len(w) /\ Len(w) \in Nat /\ DOMAIN spans = 1..Len(spans)
  OBVIOUS
<1>2. \A k \in 1..Len(w) : w[k].at \in DOMAIN spans /\ w[k] = Placed(spans)[w[k].at]
  BY <1>1
<1>3. ASSUME NEW k \in 1..(Len(w) - 1) PROVE w[k + 1].at = w[k].at + 1
  <2>1. k \in 1..Len(w) /\ k + 1 \in 1..Len(w)
    BY <1>1
  <2>2. w[k].at = a + k - 1 /\ w[k + 1].at = a + (k + 1) - 1
    BY <2>1
  <2> QED
    BY <2>2
<1> QED
  BY <1>1, <1>2, <1>3 DEF LineFollows

LEMMA FollowsTrim ==
  ASSUME NEW spans \in Seq(SpanChar), NEW x \in Seq(LineChar), LineFollows(spans, x)
  PROVE  LineFollows(spans, TrimEnd(x))
<1> DEFINE t == TrimEnd(x)
<1>1. t \in Seq(LineChar) /\ Len(t) \in 0..Len(x) /\ \A k \in 1..Len(t) : k \in 1..Len(x) /\ t[k] = x[k]
  BY TrimIs
<1>2. t # <<>> => ~x[Len(t)].blank
  BY TrimIs
<1>3. DOMAIN x = 1..Len(x) /\ DOMAIN t = 1..Len(t) /\ Len(x) \in Nat /\ Len(t) \in Nat
  <2> HIDE DEF t
  <2> QED
    BY <1>1
<1> HIDE DEF t
<1>4. ASSUME NEW i \in 1..Len(t), IsSpace(t[i])
      PROVE  /\ i - 1 \in 1..Len(t) /\ i + 1 \in 1..Len(t)
             /\ ~IsSpace(t[i - 1]) /\ ~IsSpace(t[i + 1])
             /\ t[i + 1].at \notin WordAt(spans, t[i - 1].at)
             /\ t[i] = Space(IF t[i - 1].link = t[i + 1].link THEN t[i + 1].link ELSE NoLink)
  <2>1. i \in 1..Len(x) /\ t[i] = x[i]
    BY <1>1
  <2>2. /\ i - 1 \in 1..Len(x) /\ i + 1 \in 1..Len(x)
        /\ ~IsSpace(x[i - 1]) /\ ~IsSpace(x[i + 1])
        /\ x[i + 1].at \notin WordAt(spans, x[i - 1].at)
        /\ x[i] = Space(IF x[i - 1].link = x[i + 1].link THEN x[i + 1].link ELSE NoLink)
    BY <1>3, <1>4, <2>1 DEF LineFollows
  <2>3. x[i].blank
    BY <2>2 DEF Space
  <2>4. i # Len(t)
    <3>1. t # <<>>
      BY <1>3
    <3> QED
      BY <1>2, <2>3, <3>1
  <2>5. i - 1 \in 1..Len(t) /\ i + 1 \in 1..Len(t)
    <3>1. i - 1 \in 1..Len(x)
      BY <2>2
    <3>2. i \in 1..Len(t) /\ Len(t) \in Nat /\ Len(x) \in Nat
      BY <1>3
    <3> DEFINE lt == Len(t)
               lx == Len(x)
    <3>3. i \in 1..lt /\ lt \in Nat /\ lx \in Nat /\ i - 1 \in 1..lx /\ i # lt
      BY <2>4, <3>1, <3>2
    <3> HIDE DEF lt, lx
    <3>4. i - 1 \in 1..lt /\ i + 1 \in 1..lt
      BY <3>3
    <3> QED
      BY <3>4 DEF lt
  <2> QED
    BY <1>1, <2>1, <2>2, <2>5
<1>5. ASSUME NEW i \in 1..Len(t), ~IsSpace(t[i])
      PROVE  t[i].at \in DOMAIN spans /\ t[i] = Placed(spans)[t[i].at]
  <2>1. i \in 1..Len(x) /\ t[i] = x[i]
    BY <1>1
  <2> QED
    BY <1>3, <1>5, <2>1 DEF LineFollows
<1>6. ASSUME NEW i \in 1..(Len(t) - 1), ~IsSpace(t[i]), ~IsSpace(t[i + 1])
      PROVE  t[i + 1].at = t[i].at + 1
  <2>1. i \in 1..Len(t) /\ i + 1 \in 1..Len(t) /\ i \in 1..(Len(x) - 1)
    BY <1>1, <1>3
  <2>2. t[i] = x[i] /\ t[i + 1] = x[i + 1]
    BY <1>1, <2>1
  <2> QED
    BY <1>6, <2>1, <2>2 DEF LineFollows
<1>7. LineFollows(spans, t)
  BY <1>3, <1>4, <1>5, <1>6 DEF LineFollows
<1> QED
  BY <1>7 DEF t

\* A word after another on a line, with a space between them.
LEMMA FollowsMore ==
  ASSUME NEW spans \in Seq(SpanChar), NEW x \in Seq(LineChar), NEW w \in Seq(LineChar), x # <<>>, w # <<>>,
         LineFollows(spans, x), LineFollows(spans, w),
         ~IsSpace(x[Len(x)]), ~IsSpace(w[1]), w[1].at \notin WordAt(spans, x[Len(x)].at),
         NEW link \in STRING \cup {NoLink},
         link = IF w[1].link = x[Len(x)].link THEN x[Len(x)].link ELSE NoLink
  PROVE  /\ x \o <<Space(link)>> \o w \in Seq(LineChar)
         /\ LineFollows(spans, x \o <<Space(link)>> \o w)
<1> DEFINE a == Len(x)
           b == Len(w)
           sp == Space(link)
           z == x \o <<sp>> \o w
<1>1. sp \in LineChar /\ IsSpace(sp)
  <2>1. sp \in LineChar
    <3>a. 0 \in Nat /\ TRUE \in BOOLEAN
      OBVIOUS
    <3>b. "plain" \in Style
      BY DEF Style
    <3>1. 0 \in Nat /\ TRUE \in BOOLEAN /\ "plain" \in Style
      BY <3>a, <3>b
    <3> DEFINE Ls == STRING \cup {NoLink}
    <3>2. link \in Ls
      OBVIOUS
    <3> HIDE DEF Ls
    <3>3. sp \in [at : Nat, blank : BOOLEAN, style : Style, link : Ls]
      BY <3>1, <3>2 DEF Space
    <3> QED
      BY <3>3 DEF LineChar, Ls
  <2>2. sp.at = 0
    BY DEF Space
  <2> QED
    BY <2>1, <2>2 DEF IsSpace
<1>2. a \in Nat /\ b \in Nat /\ a # 0 /\ b # 0 /\ DOMAIN x = 1..a /\ DOMAIN w = 1..b
  OBVIOUS
<1>3. /\ z \in Seq(LineChar) /\ Len(z) = a + 1 + b /\ DOMAIN z = 1..(a + 1 + b)
      /\ z[a + 1] = sp
      /\ \A k \in 1..a : z[k] = x[k]
      /\ \A k \in 1..b : z[a + 1 + k] = w[k]
  <2> HIDE DEF sp
  <2> DEFINE u == x \o <<sp>>
  <2>1. u \in Seq(LineChar) /\ Len(u) = a + 1 /\ u[a + 1] = sp /\ \A k \in 1..a : u[k] = x[k]
    BY <1>1, <1>2
  <2>2. a + 1 \in 1..(a + 1) /\ \A k \in 1..a : k \in 1..(a + 1)
    BY <1>2
  <2> HIDE DEF u
  <2>3. u \o w \in Seq(LineChar) /\ Len(u \o w) = a + 1 + b
    <3>1. u \in Seq(LineChar) /\ w \in Seq(LineChar)
      BY <2>1
    <3>2. u \o w \in Seq(LineChar) /\ Len(u \o w) = Len(u) + Len(w)
      BY <3>1
    <3> QED
      BY <2>1, <3>2
  <2>4. \A k \in 1..(a + 1) : (u \o w)[k] = u[k]
    BY <2>1
  <2>5. \A k \in 1..b : (u \o w)[a + 1 + k] = w[k]
    BY <2>1, <1>2
  <2>6. z = u \o w
    BY DEF u
  <2> HIDE DEF z
  <2>7. DOMAIN z = 1..Len(z)
    BY <2>3, <2>6
  <2> QED
    BY <2>1, <2>2, <2>3, <2>4, <2>5, <2>6, <2>7
<1>a. /\ \A i \in DOMAIN x :
           IF IsSpace(x[i])
           THEN /\ i - 1 \in DOMAIN x /\ i + 1 \in DOMAIN x
                /\ ~IsSpace(x[i - 1]) /\ ~IsSpace(x[i + 1])
                /\ x[i + 1].at \notin WordAt(spans, x[i - 1].at)
                /\ x[i] = Space(IF x[i - 1].link = x[i + 1].link THEN x[i + 1].link ELSE NoLink)
           ELSE x[i].at \in DOMAIN spans /\ x[i] = Placed(spans)[x[i].at]
      /\ \A i \in 1..(a - 1) : ~IsSpace(x[i]) /\ ~IsSpace(x[i + 1]) => x[i + 1].at = x[i].at + 1
  BY DEF LineFollows
<1>b. /\ \A i \in DOMAIN w :
           IF IsSpace(w[i])
           THEN /\ i - 1 \in DOMAIN w /\ i + 1 \in DOMAIN w
                /\ ~IsSpace(w[i - 1]) /\ ~IsSpace(w[i + 1])
                /\ w[i + 1].at \notin WordAt(spans, w[i - 1].at)
                /\ w[i] = Space(IF w[i - 1].link = w[i + 1].link THEN w[i + 1].link ELSE NoLink)
           ELSE w[i].at \in DOMAIN spans /\ w[i] = Placed(spans)[w[i].at]
      /\ \A i \in 1..(b - 1) : ~IsSpace(w[i]) /\ ~IsSpace(w[i + 1]) => w[i + 1].at = w[i].at + 1
  BY DEF LineFollows
<1>c. ~IsSpace(x[a]) /\ ~IsSpace(w[1]) /\ w[1].at \notin WordAt(spans, x[a].at)
      /\ sp = Space(IF x[a].link = w[1].link THEN w[1].link ELSE NoLink)
  OBVIOUS
<1> HIDE DEF z, sp, a, b
<1>4. \A i \in 1..(a + 1 + b) : i \in 1..a \/ i = a + 1 \/ (i - (a + 1) \in 1..b /\ a + 1 + (i - (a + 1)) = i)
  BY <1>2
<1>5. ASSUME NEW i \in 1..(a + 1 + b), IsSpace(z[i])
      PROVE  /\ i - 1 \in DOMAIN z /\ i + 1 \in DOMAIN z
             /\ ~IsSpace(z[i - 1]) /\ ~IsSpace(z[i + 1])
             /\ z[i + 1].at \notin WordAt(spans, z[i - 1].at)
             /\ z[i] = Space(IF z[i - 1].link = z[i + 1].link THEN z[i + 1].link ELSE NoLink)
  <2>1. CASE i \in 1..a
    <3>1. z[i] = x[i] /\ i \in DOMAIN x
      BY <1>2, <1>3, <2>1
    <3>2. i - 1 \in 1..a /\ i + 1 \in 1..a
      BY <1>2, <1>5, <1>a, <3>1
    <3>3. z[i - 1] = x[i - 1] /\ z[i + 1] = x[i + 1] /\ i - 1 \in DOMAIN z /\ i + 1 \in DOMAIN z
      BY <1>2, <1>3, <3>2
    <3> QED
      BY <1>5, <1>a, <3>1, <3>3
  <2>2. CASE i = a + 1
    <3>1. i - 1 = a /\ i + 1 = a + 1 + 1 /\ a \in 1..a /\ 1 \in 1..b
      BY <1>2, <2>2
    <3>2. z[i - 1] = x[a] /\ z[i + 1] = w[1] /\ z[i] = sp
      BY <1>3, <2>2, <3>1
    <3>3. i - 1 \in DOMAIN z /\ i + 1 \in DOMAIN z
      BY <1>2, <1>3, <3>1
    <3> QED
      BY <1>c, <3>2, <3>3
  <2>3. CASE i - (a + 1) \in 1..b /\ a + 1 + (i - (a + 1)) = i
    <3> DEFINE j == i - (a + 1)
    <3>1. j \in DOMAIN w /\ z[i] = w[j]
      BY <1>2, <1>3, <2>3
    <3>2. j - 1 \in 1..b /\ j + 1 \in 1..b
      BY <1>2, <1>5, <1>b, <3>1
    <3>3. a + 1 + (j - 1) = i - 1 /\ a + 1 + (j + 1) = i + 1
      BY <1>2
    <3>4. i - 1 \in 1..(a + 1 + b) /\ i + 1 \in 1..(a + 1 + b)
      BY <1>2, <3>2, <3>3
    <3> HIDE DEF j
    <3>5. z[i - 1] = w[j - 1] /\ z[i + 1] = w[j + 1] /\ i - 1 \in DOMAIN z /\ i + 1 \in DOMAIN z
      BY <1>3, <3>2, <3>3, <3>4
    <3> QED
      BY <1>5, <1>b, <3>1, <3>5
  <2> QED
    BY <1>4, <2>1, <2>2, <2>3
<1>6. ASSUME NEW i \in 1..(a + 1 + b), ~IsSpace(z[i])
      PROVE  z[i].at \in DOMAIN spans /\ z[i] = Placed(spans)[z[i].at]
  <2>1. CASE i \in 1..a
    BY <1>2, <1>3, <1>6, <1>a, <2>1
  <2>2. CASE i = a + 1
    BY <1>1, <1>3, <1>6, <2>2
  <2>3. CASE i - (a + 1) \in 1..b /\ a + 1 + (i - (a + 1)) = i
    <3>1. z[i] = w[i - (a + 1)] /\ i - (a + 1) \in DOMAIN w
      BY <1>2, <1>3, <2>3
    <3> QED
      BY <1>6, <1>b, <3>1
  <2> QED
    BY <1>4, <2>1, <2>2, <2>3
<1>7. ASSUME NEW i \in 1..(Len(z) - 1), ~IsSpace(z[i]), ~IsSpace(z[i + 1])
      PROVE  z[i + 1].at = z[i].at + 1
  <2>1. i \in 1..(a + 1 + b) /\ i + 1 \in 1..(a + 1 + b) /\ i # a + 1 /\ i + 1 # a + 1
    BY <1>1, <1>2, <1>3, <1>7
  <2>2. CASE i \in 1..a
    <3>1. i + 1 \in 1..a /\ i \in 1..(a - 1)
      BY <1>2, <2>1, <2>2
    <3> QED
      BY <1>3, <1>7, <1>a, <2>2, <3>1
  <2>3. CASE i - (a + 1) \in 1..b /\ a + 1 + (i - (a + 1)) = i
    <3> DEFINE j == i - (a + 1)
    <3>1. j \in 1..b /\ j + 1 \in 1..b /\ j \in 1..(b - 1) /\ a + 1 + (j + 1) = i + 1
      BY <1>2, <2>1, <2>3
    <3> HIDE DEF j
    <3>2. a + 1 + j = i
      BY <2>3 DEF j
    <3>3. z[i] = w[j] /\ z[i + 1] = w[j + 1]
      BY <1>3, <3>1, <3>2
    <3> QED
      BY <1>7, <1>b, <3>1, <3>3
  <2> QED
    BY <1>4, <2>1, <2>2, <2>3
<1>8. LineFollows(spans, z)
  BY <1>3, <1>5, <1>6, <1>7 DEF LineFollows
<1> QED
  BY <1>3, <1>8 DEF z, sp

-----------------------------------------------------------------------------
(* Where lines end *)

\* What a line has no room for may be in the word of what it ends with only if
\* that word is cut.
BeforeFacts(spans, room, piece, a, e, d) ==
  /\ a = e + 1 /\ IsCut(WordOf(spans, a), room) /\ e \in WordAt(spans, a)
  /\ WordOf(spans, e) = WordOf(spans, a) /\ WordOf(spans, d) = WordOf(spans, a)
  /\ e - piece[e] + 1 = room

LEMMA BeforeIs ==
  ASSUME NEW spans \in Seq(SpanChar), NEW room \in Nat \ {0}, NEW piece, PieceRule(spans, room, piece),
         NEW a \in 1..Len(spans), piece[a] = a, NEW e \in 1..Len(spans), e < a,
         \A j \in (e + 1)..(a - 1) : ~OfAWord(spans[j]),
         NEW d \in 1..e, a \in WordAt(spans, d)
  PROVE  BeforeFacts(spans, room, piece, a, e, d)
<1> DEFINE n == Len(spans)
<1>1. d \in 1..n /\ d <= a /\ a \in Nat /\ e \in Nat /\ n \in Nat /\ 1 <= e
  OBVIOUS
<1>2. \A j \in d..a : OfAWord(spans[j])
  BY <1>1, WordAtIs
<1>3. OfAWord(spans[a - 1]) /\ OfAWord(spans[e]) /\ OfAWord(spans[a])
  <2>1. a - 1 \in d..a /\ e \in d..a /\ a \in d..a
    BY <1>1
  <2> QED
    BY <1>2, <2>1
<1>4. a = e + 1
  <2>1. a - 1 \notin (e + 1)..(a - 1)
    BY <1>3
  <2> QED
    BY <1>1, <2>1
<1>5. a # 1 /\ a - 1 = e
  BY <1>1, <1>4
<1>6. IsCut(WordOf(spans, a), room)
  BY <1>3, <1>5, PieceBegins
<1>7. e \in WordAt(spans, a)
  <2>1. e <= a => \A j \in e..a : OfAWord(spans[j])
    <3>1. \A j \in e..a : j \in d..a
      BY <1>1
    <3> QED
      BY <1>2, <3>1
  <2>2. ~(a <= e)
    BY <1>1
  <2> QED
    BY <2>1, <2>2, WordAtIs
<1>8. WordOf(spans, e) = WordOf(spans, a)
  BY <1>7, SameWord
<1>9. WordOf(spans, d) = WordOf(spans, a)
  BY <1>1, SameWord
<1>10. piece[e] \in 1..e
  BY <1>3, PieceHolds
<1>11. a - piece[e] = room
  <2>1. piece[a] = IF piece[a - 1] = 0 \/ (a - piece[a - 1] = room /\ IsCut(WordOf(spans, a), room))
                   THEN a ELSE piece[a - 1]
    BY <1>3 DEF PieceRule
  <2>2. piece[e] # 0 /\ piece[e] # a
    BY <1>1, <1>10
  <2> QED
    BY <1>5, <2>1, <2>2
<1>12. e - piece[e] + 1 = room
  BY <1>1, <1>4, <1>10, <1>11
<1> QED
  BY <1>4, <1>6, <1>7, <1>8, <1>9, <1>12 DEF BeforeFacts

RoomIs(room, rest, max) == room \in Nat \ {0} /\ rest + room >= max

LEMMA RoomForIs ==
  ASSUME NEW rest \in Nat, NEW max \in Nat
  PROVE  RoomIs(RoomFor(rest, max), rest, max)
BY DEF RoomFor, RoomIs

LEMMA FitsTrim ==
  ASSUME NEW spans \in Seq(SpanChar), NEW x \in Seq(LineChar), TrimEnd(x) # <<>>,
         NEW from \in Nat, NEW room \in Nat, NEW max \in Nat, FitsOrMust(spans, x, from, room, max)
  PROVE  FitsOrMust(spans, TrimEnd(x), from, room, max)
<1> DEFINE t == TrimEnd(x)
<1>1. /\ t \in Seq(LineChar) /\ Len(t) \in 0..Len(x)
      /\ \A k \in 1..Len(t) : k \in 1..Len(x) /\ t[k] = x[k]
      /\ 1 \in 1..Len(t)
  BY TrimIs
<1> HIDE DEF t
<1>2. DOMAIN t = 1..Len(t) /\ DOMAIN x = 1..Len(x) /\ Len(t) \in Nat /\ Len(x) \in Nat /\ Len(t) <= Len(x)
  BY <1>1
<1>3. t[1] = x[1]
  BY <1>1
<1>4. CASE from + Len(x) <= max
  <2>1. from + Len(t) <= max
    BY <1>2, <1>4
  <2> QED
    BY <2>1 DEF FitsOrMust, t
<1>5. CASE /\ \A i \in DOMAIN x : ~IsSpace(x[i])
           /\ Len(x) <= room \/ ~CanBeCut(WordOf(spans, x[1].at))
  <2>1. \A i \in DOMAIN t : ~IsSpace(t[i])
    BY <1>1, <1>2, <1>5
  <2>2. Len(x) <= room => Len(t) <= room
    BY <1>2
  <2>3. FitsOrMust(spans, t, from, room, max)
    BY <1>3, <1>5, <2>1, <2>2 DEF FitsOrMust
  <2> QED
    BY <2>3 DEF t
<1> QED
  BY <1>4, <1>5 DEF FitsOrMust

LEMMA FitsWord ==
  ASSUME NEW spans \in Seq(SpanChar), NEW room \in Nat \ {0}, NEW piece, PieceRule(spans, room, piece),
         NEW i \in 1..Len(spans), EndsPiece(spans, piece, i),
         NEW w, w = SubSeq(Placed(spans), piece[i], i), NEW from \in Nat, NEW max \in Nat
  PROVE  FitsOrMust(spans, w, from, room, max)
<1> DEFINE a == piece[i]
           word == WordOf(spans, a)
<1>1. /\ w \in Seq(LineChar) /\ Len(w) \in Nat \ {0}
      /\ \A k \in 1..Len(w) : w[k].at = a + k - 1 /\ ~IsSpace(w[k])
      /\ Len(w) <= Len(word)
      /\ IsCut(word, room) => Len(w) <= room
      /\ a \in 1..i /\ \A j \in a..i : OfAWord(spans[j])
  <2>1. WordFacts(spans, room, piece, i, a, w)
    BY WordIs
  <2> HIDE DEF a
  <2> QED
    BY <2>1 DEF WordFacts
<1>2. DOMAIN w = 1..Len(w) /\ 1 \in 1..Len(w)
  BY <1>1
<1>3. w[1].at = a
  <2>1. w[1].at = a + 1 - 1
    BY <1>1, <1>2
  <2> QED
    BY <1>1, <2>1
<1>4. CanBeCut(word) => Len(w) <= room
  <2>1. Len(word) \in Nat
    <3> HIDE DEF a
    <3>1. OfAWord(spans[a])
      <4>1. a \in a..i
        BY <1>1
      <4> QED
        BY <1>1, <4>1
    <3>2. a \in 1..Len(spans)
      BY <1>1
    <3>3. PICK lo \in 1..Len(spans), hi \in 1..Len(spans) :
            lo <= a /\ a <= hi /\ Len(word) = hi - lo + 1
      BY <3>1, <3>2, WordOfIs
    <3> QED
      BY <3>3
  <2> HIDE DEF word, a
  <2>2. CASE Len(word) > room
    BY <1>1, <2>2 DEF IsCut
  <2>3. CASE Len(word) <= room
    BY <1>1, <2>1, <2>3
  <2>4. Len(word) > room \/ Len(word) <= room
    BY <2>1
  <2> QED
    BY <2>2, <2>3, <2>4
<1> HIDE DEF a
<1> QED
  BY <1>1, <1>2, <1>3, <1>4 DEF FitsOrMust

Ends(spans, line, b, from, room, max) ==
  BreaksRightly(spans, line[Len(line)], b, room) /\ BreaksLate(spans, line, b, from, room, max)

\* A line ends before a word that it has no room for.
LEMMA EndsIs ==
  ASSUME NEW spans \in Seq(SpanChar), NEW room \in Nat \ {0}, NEW piece, PieceRule(spans, room, piece),
         NEW i \in 1..Len(spans), EndsPiece(spans, piece, i),
         NEW w, w = SubSeq(Placed(spans), piece[i], i),
         NEW e \in 1..Len(spans), OfAWord(spans[e]), e < piece[i],
         \A j \in (e + 1)..(piece[i] - 1) : ~OfAWord(spans[j]),
         NEW x \in Seq(LineChar), TrimEnd(x) # <<>>, LineFollows(spans, x),
         x[Len(x)] = Placed(spans)[e], \A k \in 1..Len(x) : x[k].at <= e,
         NEW from \in Nat, NEW max \in Nat, from + Len(x) + 1 + Len(w) > max
  PROVE  Ends(spans, TrimEnd(x), w[1], from, room, max)
<1> DEFINE a == piece[i]
           t == TrimEnd(x)
           word == WordOf(spans, a)
           d == t[Len(t)].at
<1>1. /\ t \in Seq(LineChar) /\ Len(t) \in 0..Len(x)
      /\ \A k \in 1..Len(t) : k \in 1..Len(x) /\ t[k] = x[k]
      /\ \A k \in 1..Len(x) : k > Len(t) => x[k].blank
      /\ ~x[Len(t)].blank /\ Len(t) \in 1..Len(t)
  BY TrimIs
<1>2. /\ w \in Seq(LineChar) /\ Len(w) \in Nat \ {0} /\ Len(w) <= Len(word)
      /\ \A k \in 1..Len(w) : w[k].at = a + k - 1
      /\ IsCut(word, room) => Len(w) <= room
      /\ a \in 1..i /\ piece[a] = a /\ \A j \in a..i : OfAWord(spans[j])
  <2>1. WordFacts(spans, room, piece, i, a, w)
    BY WordIs
  <2> HIDE DEF a
  <2> QED
    BY <2>1 DEF WordFacts
<1>3. w[1].at = a
  <2>1. 1 \in 1..Len(w)
    BY <1>2
  <2>2. w[1].at = a + 1 - 1 /\ a \in Nat
    BY <1>2, <2>1
  <2> QED
    BY <2>2
<1>4. a \in 1..Len(spans) /\ OfAWord(spans[a]) /\ e < a /\ \A j \in (e + 1)..(a - 1) : ~OfAWord(spans[j])
  <2>1. e < a /\ \A j \in (e + 1)..(a - 1) : ~OfAWord(spans[j])
    OBVIOUS
  <2> HIDE DEF a
  <2>2. a \in a..i /\ a \in 1..Len(spans)
    BY <1>2
  <2> QED
    BY <1>2, <2>1, <2>2
<1>5. Len(x) \in Nat /\ Len(t) \in Nat /\ Len(t) <= Len(x) /\ Len(x) \in 1..Len(x)
  <2> HIDE DEF t
  <2> QED
    BY <1>1
<1>6. x[Len(x)].at = e /\ x[Len(x)].blank = spans[e].blank
  BY PlacedIs
<1>7. d \in 1..Len(spans) /\ d <= e /\ d \in 1..e
  <2>1. Len(t) \in 1..Len(x) /\ d = x[Len(t)].at
    BY <1>1
  <2>2. ~IsSpace(x[Len(t)])
    <3>1. IsSpace(x[Len(t)]) => x[Len(t)].blank
      <4> SUFFICES ASSUME IsSpace(x[Len(t)]) PROVE x[Len(t)].blank
        OBVIOUS
      <4>1. Len(t) \in DOMAIN x
        BY <2>1
      <4> DEFINE k == Len(t)
      <4>2. x[k] = Space(IF x[k - 1].link = x[k + 1].link THEN x[k + 1].link ELSE NoLink)
        BY <4>1 DEF LineFollows
      <4> QED
        BY <4>2 DEF Space
    <3> QED
      BY <1>1, <3>1
  <2>3. x[Len(t)].at \in DOMAIN spans
    BY <2>1, <2>2 DEF LineFollows
  <2>4. x[Len(t)].at <= e
    BY <2>1
  <2> HIDE DEF d
  <2> QED
    BY <2>1, <2>3, <2>4
<1> HIDE DEF t, a, word, d
<1>8. ASSUME a \in WordAt(spans, d) PROVE BreaksRightly(spans, t[Len(t)], w[1], room)
  <2>1. /\ a = e + 1 /\ IsCut(word, room) /\ e \in WordAt(spans, a) /\ WordOf(spans, d) = word
    <3>1. /\ a \in 1..Len(spans) /\ piece[a] = a /\ e < a /\ d \in 1..e
          /\ \A j \in (e + 1)..(a - 1) : ~OfAWord(spans[j])
      BY <1>2, <1>4, <1>7
    <3>2. BeforeFacts(spans, room, piece, a, e, d)
      BY <1>8, <3>1, BeforeIs
    <3> QED
      BY <3>2 DEF word, BeforeFacts
  <2>2. ~spans[e].blank
    <3>1. CanBeCut(WordOf(spans, a))
      BY <2>1 DEF IsCut, word
    <3> QED
      BY <1>4, <2>1, <3>1, CutsNoCode
  <2>3. Len(t) = Len(x)
    <3>1. ~(Len(x) > Len(t))
      BY <1>1, <1>5, <1>6, <2>2
    <3> QED
      BY <1>5, <3>1
  <2>4. d = e
    BY <1>1, <1>6, <2>3 DEF d
  <2>5. w[1].at = d + 1 /\ IsCut(WordOf(spans, t[Len(t)].at), room)
    BY <1>3, <2>1, <2>4 DEF d
  <2> QED
    BY <2>5 DEF BreaksRightly, d
<1>9. BreaksRightly(spans, t[Len(t)], w[1], room)
  BY <1>3, <1>8 DEF BreaksRightly, d
<1>10. Len(word) \in Nat
  <2>1. PICK lo \in 1..Len(spans), hi \in 1..Len(spans) :
          lo <= a /\ a <= hi /\ Len(word) = hi - lo + 1
    BY <1>4, WordOfIs DEF word
  <2> QED
    BY <2>1
<1> DEFINE nxt == IF CanBeCut(word) THEN Min({Len(word), room}) ELSE Len(word)
<1>11. nxt \in Nat /\ Len(w) <= nxt
  <2>1. CASE ~CanBeCut(word)
    BY <1>2, <1>10, <2>1
  <2>2. CASE CanBeCut(word)
    <3>1. Min({Len(word), room}) = IF Len(word) < room THEN Len(word) ELSE room
      BY <1>10, MinOfTwo
    <3>2. Len(word) > room => Len(w) <= room
      BY <1>2, <2>2 DEF IsCut
    <3>3. CASE Len(word) < room
      BY <1>2, <1>10, <2>2, <3>1, <3>3
    <3>4. CASE ~(Len(word) < room)
      <4>1. Len(w) <= room
        BY <1>2, <1>10, <3>2, <3>4
      <4> QED
        BY <2>2, <3>1, <3>4, <4>1
    <3> QED
      BY <3>3, <3>4
  <2> QED
    BY <2>1, <2>2
<1>12. BreaksLate(spans, t, w[1], from, room, max)
  <2>1. CASE Len(t) = Len(x)
    <3>1. from + Len(t) + 1 + nxt > max
      <4> HIDE DEF nxt
      <4> QED
        BY <1>2, <1>5, <1>11, <2>1
    <3> QED
      BY <1>3, <3>1 DEF BreaksLate, word
  <2>2. CASE Len(t) # Len(x)
    <3>1. spans[e].blank
      <4>1. Len(x) > Len(t)
        BY <1>5, <2>2
      <4>2. x[Len(x)].blank
        BY <1>1, <1>5, <4>1
      <4> QED
        BY <1>6, <4>2
    <3>2. e \in DOMAIN spans
      OBVIOUS
    <3>3. \E j \in DOMAIN spans : spans[j].blank /\ OfAWord(spans[j])
      BY <3>1, <3>2
    <3> QED
      BY <3>3 DEF BreaksLate
  <2> QED
    BY <2>1, <2>2
<1> QED
  BY <1>9, <1>12 DEF Ends, t

LeftOf(first, rest, n) == IF n = 1 THEN first ELSE rest

\* The lines that are ended are as they should be.
GoodLines(spans, first, rest, room, max, lines) ==
  /\ \A n \in 1..Len(lines) : lines[n] # <<>> =>
       /\ LineFollows(spans, lines[n])
       /\ FitsOrMust(spans, lines[n], LeftOf(first, rest, n), room, max)
  /\ \A n \in 1..(Len(lines) - 1) : lines[n] # <<>> /\ lines[n + 1] # <<>> =>
       Ends(spans, lines[n], lines[n + 1][1], LeftOf(first, rest, n), room, max)

\* The last of them ends where one that begins with b may follow.
EndBefore(spans, first, rest, room, max, lines, b) ==
  lines # <<>> => (lines[Len(lines)] # <<>> =>
    Ends(spans, lines[Len(lines)], b, LeftOf(first, rest, Len(lines)), room, max))

LEMMA GoodAppend ==
  ASSUME NEW spans, NEW first, NEW rest, NEW room, NEW max,
         NEW lines \in Seq(Seq(LineChar)), NEW x \in Seq(LineChar),
         GoodLines(spans, first, rest, room, max, lines),
         x # <<>> => /\ LineFollows(spans, x)
                     /\ FitsOrMust(spans, x, LeftOf(first, rest, Len(lines) + 1), room, max)
                     /\ EndBefore(spans, first, rest, room, max, lines, x[1])
  PROVE  GoodLines(spans, first, rest, room, max, Append(lines, x))
<1> DEFINE M == Append(lines, x)
           c == Len(lines)
<1>1. c \in Nat /\ Len(M) = c + 1 /\ M[c + 1] = x /\ \A n \in 1..c : M[n] = lines[n]
  OBVIOUS
<1>2. lines # <<>> <=> c # 0
  OBVIOUS
<1> HIDE DEF M
<1>3. ASSUME NEW n \in 1..(c + 1), M[n] # <<>>
      PROVE  LineFollows(spans, M[n]) /\ FitsOrMust(spans, M[n], LeftOf(first, rest, n), room, max)
  <2>1. CASE n \in 1..c
    <3>1. M[n] = lines[n]
      BY <1>1, <2>1
    <3> QED
      BY <1>3, <2>1, <3>1 DEF GoodLines
  <2>2. CASE n = c + 1
    BY <1>1, <1>3, <2>2
  <2>3. n \in 1..c \/ n = c + 1
    BY <1>1
  <2> QED
    BY <2>1, <2>2, <2>3
<1>4. ASSUME NEW n \in 1..c, M[n] # <<>>, M[n + 1] # <<>>
      PROVE  Ends(spans, M[n], M[n + 1][1], LeftOf(first, rest, n), room, max)
  <2>1. CASE n = c
    <3>0. c # 0 /\ M[c] = lines[c] /\ M[c + 1] = x
      BY <1>1, <2>1
    <3>1. lines[c] # <<>> /\ x # <<>> /\ lines # <<>>
      BY <1>2, <1>4, <2>1, <3>0
    <3>2. EndBefore(spans, first, rest, room, max, lines, x[1])
      BY <3>1
    <3>3. Ends(spans, lines[c], x[1], LeftOf(first, rest, c), room, max)
      BY <3>1, <3>2 DEF EndBefore
    <3>4. M[n] = lines[c] /\ M[n + 1] = x
      BY <1>1, <2>1
    <3> QED
      BY <2>1, <3>3, <3>4
  <2>2. CASE n # c
    <3>1. n \in 1..(c - 1) /\ n + 1 \in 1..c
      BY <1>1, <2>2
    <3>2. M[n] = lines[n] /\ M[n + 1] = lines[n + 1]
      BY <1>1, <3>1
    <3> QED
      BY <1>4, <3>1, <3>2 DEF GoodLines
  <2> QED
    BY <2>1, <2>2
<1>5. (c + 1) - 1 = c
  BY <1>1
<1>6. GoodLines(spans, first, rest, room, max, M)
  BY <1>1, <1>3, <1>4, <1>5 DEF GoodLines
<1> QED
  BY <1>6 DEF M

-----------------------------------------------------------------------------
(* The words, one after another *)

LineState ==
  [lines : Seq(Seq(LineChar)), line : Seq(LineChar), len : Nat, prev : STRING \cup {NoLink}]

AddFacts(s, w, rest, max, r) ==
  /\ r \in LineState /\ r.prev = w[Len(w)].link
  /\ s.line = <<>> => r.lines = s.lines /\ r.line = w /\ r.len = s.len + Len(w)
  /\ s.line # <<>> /\ TooLong(s.len, Len(w), max) =>
       r.lines = Append(s.lines, TrimEnd(s.line)) /\ r.line = w /\ r.len = rest + Len(w)
  /\ s.line # <<>> /\ ~TooLong(s.len, Len(w), max) =>
       \E link \in STRING \cup {NoLink} :
         /\ link = IF w[1].link = s.prev THEN s.prev ELSE NoLink
         /\ r.lines = s.lines /\ r.line = s.line \o <<Space(link)>> \o w
         /\ r.len = s.len + Len(w) + 1

LEMMA AddWordIs ==
  ASSUME NEW s \in LineState, NEW w \in Seq(LineChar), w # <<>>, NEW rest \in Nat, NEW max \in Nat,
         NEW r, r = AddWord(s, w, rest, max)
  PROVE  AddFacts(s, w, rest, max, r)
<1> DEFINE Ls == STRING \cup {NoLink}
           link == IF w[1].link = s.prev THEN s.prev ELSE NoLink
           breaks == s.line # <<>> /\ TooLong(s.len, Len(w), max)
           L == IF breaks THEN Append(s.lines, TrimEnd(s.line)) ELSE s.lines
           x == IF breaks THEN <<>> ELSE s.line
           from == IF breaks THEN rest ELSE s.len
           z == IF x = <<>> THEN w ELSE x \o <<Space(link)>> \o w
           b == from + Len(w) + (IF x = <<>> THEN 0 ELSE 1)
           p == w[Len(w)].link
<1>1. s.lines \in Seq(Seq(LineChar)) /\ s.line \in Seq(LineChar) /\ s.len \in Nat /\ s.prev \in Ls
  BY DEF LineState
<1>2. r = [lines |-> L, line |-> z, len |-> b, prev |-> p]
  BY DEF AddWord
<1>3. link \in Ls
  BY <1>1
<1>4. Space(link) \in LineChar
  <2>1. 0 \in Nat /\ TRUE \in BOOLEAN
    OBVIOUS
  <2>2. "plain" \in Style
    BY DEF Style
  <2> HIDE DEF Ls, link
  <2>3. Space(link) \in [at : Nat, blank : BOOLEAN, style : Style, link : Ls]
    BY <1>3, <2>1, <2>2 DEF Space
  <2> QED
    BY <2>3 DEF LineChar, Ls
<1>5. TrimEnd(s.line) \in Seq(LineChar)
  BY <1>1, TrimIs
<1>6. L \in Seq(Seq(LineChar))
  <2>1. Append(s.lines, TrimEnd(s.line)) \in Seq(Seq(LineChar))
    BY <1>1, <1>5
  <2> HIDE DEF breaks
  <2> QED
    BY <1>1, <2>1
<1>7. z \in Seq(LineChar)
  <2>1. x \in Seq(LineChar)
    BY <1>1
  <2> HIDE DEF x, link
  <2>2. x \o <<Space(link)>> \in Seq(LineChar)
    BY <1>4, <2>1
  <2>3. x \o <<Space(link)>> \o w \in Seq(LineChar)
    BY <2>2
  <2> QED
    BY <2>3
<1>8. b \in Nat /\ Len(w) \in Nat
  BY <1>1
<1>9. p \in Ls
  <2>1. Len(w) \in 1..Len(w)
    OBVIOUS
  <2>2. w[Len(w)] \in LineChar
    BY <2>1
  <2>3. \A c \in LineChar : c.link \in Ls
    BY DEF LineChar
  <2> QED
    BY <2>2, <2>3
<1>10. /\ s.line = <<>> => L = s.lines /\ z = w /\ b = s.len + Len(w)
       /\ s.line # <<>> /\ TooLong(s.len, Len(w), max) =>
            L = Append(s.lines, TrimEnd(s.line)) /\ z = w /\ b = rest + Len(w)
       /\ s.line # <<>> /\ ~TooLong(s.len, Len(w), max) =>
            L = s.lines /\ z = s.line \o <<Space(link)>> \o w /\ b = s.len + Len(w) + 1
  <2> DEFINE d == TrimEnd(s.line)
             u == s.line \o <<Space(link)>> \o w
             v == Len(w)
  <2> HIDE DEF link, d, u
  <2>1. v \in Nat /\ s.len \in Nat /\ rest \in Nat
    BY <1>1
  <2> HIDE DEF v
  <2>2. CASE s.line = <<>>
    <3>1. ~breaks /\ x = <<>>
      BY <2>2
    <3> QED
      BY <1>1, <1>8, <2>2, <3>1
  <2>3. CASE s.line # <<>> /\ TooLong(s.len, Len(w), max)
    <3>1. breaks /\ x = <<>>
      BY <2>3
    <3> QED
      BY <1>8, <2>3, <3>1
  <2>4. CASE s.line # <<>> /\ ~TooLong(s.len, Len(w), max)
    <3>1. ~breaks /\ x = s.line
      BY <2>4
    <3> QED
      BY <1>1, <1>8, <2>4, <3>1
  <2> QED
    BY <2>2, <2>3, <2>4
<1> HIDE DEF L, z, b, p, link
<1>11. r.lines = L /\ r.line = z /\ r.len = b /\ r.prev = p
  BY <1>2
<1>12. r \in LineState
  BY <1>2, <1>6, <1>7, <1>8, <1>9 DEF LineState
<1>13. s.line # <<>> /\ ~TooLong(s.len, Len(w), max) =>
         \E k \in Ls :
            /\ k = IF w[1].link = s.prev THEN s.prev ELSE NoLink
            /\ r.lines = s.lines /\ r.line = s.line \o <<Space(k)>> \o w
            /\ r.len = s.len + Len(w) + 1
  BY <1>3, <1>10, <1>11 DEF link
<1> QED
  BY <1>10, <1>11, <1>12, <1>13 DEF p, AddFacts

\* A word is shown on the line that it is put on, with a space or without.
LEMMA ShownWord ==
  ASSUME NEW spans \in Seq(SpanChar), NEW room, NEW piece, NEW i \in 1..Len(spans), NEW a, NEW w,
         WordFacts(spans, room, piece, i, a, w),
         NEW e \in 0..Len(spans), e < a, \A j \in (e + 1)..(a - 1) : ~OfAWord(spans[j]),
         NEW lines \in Seq(Seq(LineChar)), NEW x \in Seq(LineChar), ShownTo(spans, Append(lines, x), e)
  PROVE  ShownTo(spans, Append(lines, x \o w), i)
<1>1. /\ w \in Seq(LineChar) /\ Len(w) \in Nat /\ a \in 1..i
      /\ \A k \in 1..Len(w) : a + k - 1 \in a..i /\ w[k].at = a + k - 1 /\ ~IsSpace(w[k])
      /\ \A j \in a..i : j - a + 1 \in 1..Len(w) /\ w[j - a + 1] = Placed(spans)[j]
  BY DEF WordFacts
<1>2. i \in e..Len(spans) /\ e \in Nat /\ a \in Nat
  BY <1>1
<1>3. \A k \in 1..Len(w) : w[k].at <= i /\ (IsSpace(w[k]) \/ e < w[k].at)
  <2> SUFFICES ASSUME NEW k \in 1..Len(w) PROVE w[k].at <= i /\ e < w[k].at
    OBVIOUS
  <2>1. w[k].at \in a..i
    BY <1>1
  <2> QED
    BY <1>1, <1>2, <2>1
<1>4. \A k, l \in 1..Len(w) : k < l /\ ~IsSpace(w[k]) /\ ~IsSpace(w[l]) => w[k].at < w[l].at
  <2> SUFFICES ASSUME NEW k \in 1..Len(w), NEW l \in 1..Len(w), k < l PROVE w[k].at < w[l].at
    OBVIOUS
  <2>1. w[k].at = a + k - 1 /\ w[l].at = a + l - 1
    BY <1>1
  <2> QED
    BY <1>1, <1>2, <2>1
<1>5. \A j \in (e + 1)..i : ~spans[j].blank => \E k \in 1..Len(w) : w[k] = Placed(spans)[j]
  <2> SUFFICES ASSUME NEW j \in (e + 1)..i, ~spans[j].blank
               PROVE  \E k \in 1..Len(w) : w[k] = Placed(spans)[j]
    OBVIOUS
  <2>1. j \notin (e + 1)..(a - 1)
    BY DEF OfAWord
  <2>2. j \in a..i
    BY <1>1, <1>2, <2>1
  <2> QED
    BY <1>1, <2>2
<1> QED
  BY <1>1, <1>2, <1>3, <1>4, <1>5, ShownMore

LEMMA ShownSpace ==
  ASSUME NEW spans \in Seq(SpanChar), NEW e \in 0..Len(spans), NEW link, Space(link) \in LineChar,
         NEW lines \in Seq(Seq(LineChar)), NEW x \in Seq(LineChar), ShownTo(spans, Append(lines, x), e)
  PROVE  ShownTo(spans, Append(lines, x \o <<Space(link)>>), e)
<1> DEFINE y == <<Space(link)>>
<1>1. y \in Seq(LineChar) /\ Len(y) = 1 /\ y[1] = Space(link)
  OBVIOUS
<1>2. y[1].at = 0
  BY <1>1 DEF Space
<1>3. \A k \in 1..1 : k = 1
  OBVIOUS
<1>4. e \in e..Len(spans) /\ 0 <= e
  OBVIOUS
<1> HIDE DEF y
<1>5. \A k \in 1..Len(y) : y[k].at <= e /\ (IsSpace(y[k]) \/ e < y[k].at)
  BY <1>1, <1>2, <1>3, <1>4 DEF IsSpace
<1>6. \A k, l \in 1..Len(y) : ~(k < l)
  BY <1>1, <1>3
<1>7. \A j \in (e + 1)..e : FALSE
  OBVIOUS
<1>8. ShownTo(spans, Append(lines, x \o y), e)
  BY <1>1, <1>4, <1>5, <1>6, <1>7, ShownMore
<1> QED
  BY <1>8 DEF y

\* The state of the loop after the piece that ends at a place.
Current(spans, piece, first, rest, room, max, s, e) ==
  LET from == LeftOf(first, rest, Len(s.lines) + 1)
  IN  /\ s \in LineState /\ EndsPiece(spans, piece, e)
      /\ s.line # <<>> /\ ~IsSpace(s.line[1])
      /\ s.line[Len(s.line)] = Placed(spans)[e] /\ s.prev = spans[e].link
      /\ s.len = from + Len(s.line) /\ Len(s.line) >= e - piece[e] + 1
      /\ ShownTo(spans, Append(s.lines, s.line), e)
      /\ LineFollows(spans, s.line)
      /\ FitsOrMust(spans, s.line, from, room, max)
      /\ GoodLines(spans, first, rest, room, max, s.lines)
      /\ EndBefore(spans, first, rest, room, max, s.lines, s.line[1])

LEMMA FirstWord ==
  ASSUME NEW spans \in Seq(SpanChar), NEW first \in Nat, NEW rest \in Nat, NEW max \in Nat,
         NEW room, RoomIs(room, rest, max), NEW piece, PieceRule(spans, room, piece),
         NEW i \in 1..Len(spans), EndsPiece(spans, piece, i),
         \A j \in 1..(piece[i] - 1) : ~OfAWord(spans[j])
  PROVE  Current(spans, piece, first, rest, room, max,
                 AddWord(NoWords(first), SubSeq(Placed(spans), piece[i], i), rest, max), i)
<1> DEFINE a == piece[i]
           w == SubSeq(Placed(spans), a, i)
           s == NoWords(first)
           r == AddWord(s, w, rest, max)
           n == Len(spans)
<1>1. room \in Nat \ {0} /\ n \in Nat /\ 0 \in 0..n
  BY DEF RoomIs
<1>2. WordFacts(spans, room, piece, i, a, w)
  BY <1>1, WordIs
<1>3. FitsOrMust(spans, w, first, room, max)
  BY <1>1, FitsWord
<1>4. s \in LineState /\ s.lines = <<>> /\ s.line = <<>> /\ s.len = first
  <2>1. <<>> \in Seq(Seq(LineChar)) /\ <<>> \in Seq(LineChar) /\ NoLink \in STRING \cup {NoLink}
    OBVIOUS
  <2> QED
    BY <2>1 DEF NoWords, LineState
<1>5. \A j \in (0 + 1)..(a - 1) : ~OfAWord(spans[j])
  <2>1. 0 + 1 = 1
    OBVIOUS
  <2> QED
    BY <2>1
<1> HIDE DEF a, w, s
<1>6. /\ w \in Seq(LineChar) /\ w # <<>> /\ Len(w) = i - a + 1 /\ Len(w) \in Nat \ {0}
      /\ a \in 1..i /\ a \in 1..n /\ 0 < a
      /\ \A k \in 1..Len(w) : w[k] = Placed(spans)[a + k - 1] /\ ~IsSpace(w[k])
      /\ \A k \in 1..Len(w) : /\ a + k - 1 \in a..i /\ w[k] = Placed(spans)[a + k - 1]
                              /\ w[k].at = a + k - 1 /\ ~IsSpace(w[k])
  BY <1>2 DEF WordFacts
<1>7. r \in LineState /\ r.prev = w[Len(w)].link /\ r.lines = <<>> /\ r.line = w /\ r.len = first + Len(w)
  <2>1. AddFacts(s, w, rest, max, r)
    BY <1>4, <1>6, AddWordIs
  <2> QED
    BY <1>4, <2>1 DEF AddFacts
<1> HIDE DEF r
<1>8. 1 \in 1..Len(w) /\ Len(w) \in 1..Len(w)
  BY <1>6
<1>9. w[Len(w)] = Placed(spans)[i] /\ ~IsSpace(w[1]) /\ r.prev = spans[i].link
  <2>1. a + Len(w) - 1 = i
    BY <1>6
  <2>2. w[Len(w)] = Placed(spans)[i]
    BY <1>6, <1>8, <2>1
  <2>3. Placed(spans)[i].link = spans[i].link
    BY PlacedIs
  <2> QED
    BY <1>6, <1>7, <1>8, <2>2, <2>3
<1>10. LineFollows(spans, w)
  <2>1. \A k \in 1..Len(w) : a + k - 1 \in 1..n
    <3>1. \A j \in a..i : j \in 1..n
      BY <1>6
    <3> QED
      BY <1>6, <3>1
  <2> QED
    BY <1>6, <2>1, FollowsWord
<1>11. ShownTo(spans, Append(<<>>, w), i)
  <2> DEFINE e == <<>>
             x == <<>>
             L == <<>>
  <2>1. L \in Seq(Seq(LineChar)) /\ x \in Seq(LineChar)
    OBVIOUS
  <2>2. ShownTo(spans, L, 0)
    <3>1. Len(L) = 0 /\ \A k : k \notin 1..0
      OBVIOUS
    <3> QED
      BY <3>1 DEF ShownTo
  <2>3. ShownTo(spans, Append(L, <<>>), 0)
    BY <1>1, <2>1, <2>2, NewLineKept, ShownKept
  <2>4. ShownTo(spans, Append(L, x \o w), i)
    BY <1>1, <1>2, <1>5, <1>6, <2>1, <2>3, ShownWord
  <2>5. x \o w = w
    BY <1>6
  <2> QED
    BY <2>4, <2>5
<1>12. LeftOf(first, rest, Len(<<>>) + 1) = first
  BY DEF LeftOf
<1>13. /\ GoodLines(spans, first, rest, room, max, <<>>)
       /\ EndBefore(spans, first, rest, room, max, <<>>, w[1])
  <2>1. \A k : k \notin 1..Len(<<>>) /\ k \notin 1..(Len(<<>>) - 1)
    OBVIOUS
  <2> QED
    BY <2>1 DEF GoodLines, EndBefore
<1>14. i - a + 1 <= Len(w)
  BY <1>6
<1>15. Current(spans, piece, first, rest, room, max, r, i)
  <2>1. Len(w) >= i - piece[i] + 1
    BY <1>6 DEF a
  <2> QED
    BY <1>3, <1>6, <1>7, <1>9, <1>10, <1>11, <1>12, <1>13, <2>1 DEF Current
<1> QED
  BY <1>15 DEF r, s, w, a

LEMMA NextWord ==
  ASSUME NEW spans \in Seq(SpanChar), NEW first \in Nat, NEW rest \in Nat, NEW max \in Nat, first >= rest,
         NEW room, RoomIs(room, rest, max), NEW piece, PieceRule(spans, room, piece),
         NEW i \in 1..Len(spans), EndsPiece(spans, piece, i),
         NEW e \in 1..Len(spans), e < piece[i], \A j \in (e + 1)..(piece[i] - 1) : ~OfAWord(spans[j]),
         NEW s, Current(spans, piece, first, rest, room, max, s, e)
  PROVE  Current(spans, piece, first, rest, room, max,
                 AddWord(s, SubSeq(Placed(spans), piece[i], i), rest, max), i)
<1> DEFINE a == piece[i]
           w == SubSeq(Placed(spans), a, i)
           r == AddWord(s, w, rest, max)
           n == Len(spans)
           from == LeftOf(first, rest, Len(s.lines) + 1)
           x == s.line
           t == TrimEnd(x)
<1>1. room \in Nat \ {0} /\ n \in Nat /\ e \in 0..n /\ rest + room >= max
  BY DEF RoomIs
<1>2. WordFacts(spans, room, piece, i, a, w)
  BY <1>1, WordIs
<1>3. /\ s \in LineState /\ s.lines \in Seq(Seq(LineChar)) /\ x \in Seq(LineChar) /\ s.len \in Nat
      /\ OfAWord(spans[e])
      /\ x # <<>> /\ ~IsSpace(x[1])
      /\ x[Len(x)] = Placed(spans)[e] /\ s.prev = spans[e].link
      /\ s.len = from + Len(x) /\ Len(x) >= e - piece[e] + 1
      /\ ShownTo(spans, Append(s.lines, x), e)
      /\ LineFollows(spans, x)
      /\ FitsOrMust(spans, x, from, room, max)
      /\ GoodLines(spans, first, rest, room, max, s.lines)
      /\ EndBefore(spans, first, rest, room, max, s.lines, x[1])
  BY DEF Current, LineState, EndsPiece
<1>4. from \in Nat /\ from >= rest /\ Len(s.lines) \in Nat
  <2>1. Len(s.lines) \in Nat
    BY <1>3
  <2> QED
    BY <2>1 DEF LeftOf
<1>5. FitsOrMust(spans, w, rest, room, max)
  BY <1>1, FitsWord
<1>6. \A k \in 1..Len(x) : x[k].at <= e
  <2> DEFINE M == Append(s.lines, x)
             c == Len(s.lines) + 1
  <2>1. Len(M) = c /\ M[c] = x /\ c \in 1..c
    BY <1>3, <1>4
  <2> HIDE DEF M, c
  <2>2. ShownTo(spans, M, e)
    BY <1>3 DEF M
  <2> QED
    BY <2>1, <2>2 DEF ShownTo
<1>7. e < a /\ \A j \in (e + 1)..(a - 1) : ~OfAWord(spans[j])
  OBVIOUS
\* Where the line ends before the word.
<1>8. ASSUME t # <<>>, s.len + 1 + Len(w) > max
      PROVE  Ends(spans, t, w[1], from, room, max)
  <2> HIDE DEF from
  <2>1. Len(w) \in Nat /\ Len(x) \in Nat
    <3>1. Len(w) \in Nat
      <4> HIDE DEF w
      <4> QED
        BY <1>2 DEF WordFacts
    <3>2. Len(x) \in Nat
      <4> HIDE DEF x
      <4> QED
        BY <1>3
    <3> QED
      BY <3>1, <3>2
  <2>2. from + Len(x) + 1 + Len(w) > max
    BY <1>3, <1>4, <1>8, <2>1
  <2> HIDE DEF x
  <2> QED
    BY <1>1, <1>3, <1>4, <1>6, <1>8, <2>2, EndsIs
<1> HIDE DEF a, w
<1>9. /\ w \in Seq(LineChar) /\ w # <<>> /\ Len(w) = i - a + 1 /\ Len(w) \in Nat \ {0}
      /\ a \in 1..i /\ a \in 1..n /\ piece[a] = a
      /\ \A k \in 1..Len(w) : /\ a + k - 1 \in a..i /\ w[k] = Placed(spans)[a + k - 1]
                              /\ w[k].at = a + k - 1 /\ ~IsSpace(w[k])
  BY <1>2 DEF WordFacts
<1>10. /\ r \in LineState /\ r.prev = w[Len(w)].link
       /\ TooLong(s.len, Len(w), max) =>
            r.lines = Append(s.lines, t) /\ r.line = w /\ r.len = rest + Len(w)
       /\ ~TooLong(s.len, Len(w), max) =>
            \E link \in STRING \cup {NoLink} :
              /\ link = IF w[1].link = s.prev THEN s.prev ELSE NoLink
              /\ r.lines = s.lines /\ r.line = x \o <<Space(link)>> \o w
              /\ r.len = s.len + Len(w) + 1
  <2>1. AddFacts(s, w, rest, max, r)
    BY <1>3, <1>9, AddWordIs
  <2> HIDE DEF r, t
  <2> QED
    BY <1>3, <2>1 DEF AddFacts, t
<1> HIDE DEF r
<1>11. 1 \in 1..Len(w) /\ Len(w) \in 1..Len(w)
  BY <1>9
<1>12. w[Len(w)] = Placed(spans)[i] /\ ~IsSpace(w[1]) /\ r.prev = spans[i].link /\ w[1].at = a
  <2>1. a + Len(w) - 1 = i /\ a + 1 - 1 = a
    BY <1>9
  <2>2. w[Len(w)] = Placed(spans)[i] /\ w[1].at = a
    BY <1>9, <1>11, <2>1
  <2>3. Placed(spans)[i].link = spans[i].link
    BY PlacedIs
  <2> QED
    BY <1>9, <1>10, <1>11, <2>2, <2>3
<1>13. LineFollows(spans, w)
  <2>1. \A k \in 1..Len(w) : a + k - 1 \in 1..n
    <3>1. \A j \in a..i : j \in 1..n
      BY <1>9
    <3> QED
      BY <1>9, <3>1
  <2> QED
    BY <1>9, <2>1, FollowsWord
<1>14. CASE TooLong(s.len, Len(w), max)
  <2> DEFINE L == Append(s.lines, t)
             c == Len(s.lines) + 1
  <2>1. r.lines = L /\ r.line = w /\ r.len = rest + Len(w)
    BY <1>10, <1>14
  <2>2. t \in Seq(LineChar)
    BY <1>3, TrimIs
  <2>3. L \in Seq(Seq(LineChar)) /\ Len(L) = c /\ L[c] = t /\ L # <<>>
    <3> HIDE DEF t
    <3>1. s.lines \in Seq(Seq(LineChar))
      BY <1>3
    <3> DEFINE ls == s.lines
    <3> HIDE DEF ls
    <3>2. ls \in Seq(Seq(LineChar)) /\ Len(ls) \in Nat
      BY <3>1 DEF ls
    <3>3. Append(ls, t) \in Seq(Seq(LineChar)) /\ Len(Append(ls, t)) = Len(ls) + 1
      BY <2>2, <3>2
    <3>4. Append(ls, t)[Len(ls) + 1] = t
      BY <2>2, <3>2
    <3>5. Len(Append(ls, t)) # 0
      BY <3>2, <3>3
    <3>6. Append(ls, t) # <<>>
      <4> DEFINE q == Append(ls, t)
      <4>1. Len(q) # 0
        BY <3>5
      <4> HIDE DEF q
      <4>2. q # <<>>
        BY <4>1
      <4> QED
        BY <4>2 DEF q
    <3> QED
      BY <3>3, <3>4, <3>6 DEF ls
  <2>4. t # <<>> => /\ LineFollows(spans, t) /\ FitsOrMust(spans, t, from, room, max)
                    /\ EndBefore(spans, first, rest, room, max, s.lines, t[1])
    <3> SUFFICES ASSUME t # <<>>
                 PROVE  /\ LineFollows(spans, t) /\ FitsOrMust(spans, t, from, room, max)
                        /\ EndBefore(spans, first, rest, room, max, s.lines, t[1])
      OBVIOUS
    <3>1. LineFollows(spans, t)
      BY <1>3, FollowsTrim
    <3>2. FitsOrMust(spans, t, from, room, max)
      <4> HIDE DEF from
      <4> QED
        BY <1>1, <1>3, <1>4, FitsTrim
    <3>3. t[1] = x[1]
      BY <1>3, TrimIs
    <3> QED
      BY <1>3, <3>1, <3>2, <3>3
  <2>5. GoodLines(spans, first, rest, room, max, L)
    <3> HIDE DEF t
    <3> QED
      BY <1>3, <2>2, <2>4, GoodAppend
  <2>6. EndBefore(spans, first, rest, room, max, L, w[1])
    <3>1. t # <<>> => Ends(spans, t, w[1], LeftOf(first, rest, c), room, max)
      BY <1>8, <1>14 DEF TooLong
    <3> HIDE DEF L, c, t
    <3> QED
      BY <2>3, <3>1 DEF EndBefore
  <2>7. ShownTo(spans, Append(L, w), i)
    <3>1. ShownTo(spans, L, e)
      <4>1. Carried(Append(s.lines, x), L)
        BY <1>3, TrimmedKept
      <4> HIDE DEF L
      <4> QED
        BY <1>1, <1>3, <4>1, ShownKept
    <3> DEFINE y == <<>>
    <3> HIDE DEF L
    <3>2. ShownTo(spans, Append(L, y), e)
      BY <1>1, <2>3, <3>1, NewLineKept, ShownKept
    <3>3. y \in Seq(LineChar) /\ y \o w = w
      BY <1>9
    <3> HIDE DEF y
    <3>4. ShownTo(spans, Append(L, y \o w), i)
      BY <1>1, <1>2, <1>7, <2>3, <3>2, <3>3, ShownWord
    <3> QED
      BY <3>3, <3>4
  <2>8. LeftOf(first, rest, Len(L) + 1) = rest
    <3>1. Len(L) + 1 # 1
      BY <1>4, <2>3
    <3> QED
      BY <3>1 DEF LeftOf
  <2>9. Len(w) >= i - piece[i] + 1
    BY <1>9 DEF a
  <2> HIDE DEF L, t
  <2> QED
    BY <1>5, <1>9, <1>10, <1>12, <1>13, <2>1, <2>5, <2>6, <2>7, <2>8, <2>9 DEF Current, r, w, a
<1>15. CASE ~TooLong(s.len, Len(w), max)
  <2>1. PICK link \in STRING \cup {NoLink} :
          /\ link = IF w[1].link = s.prev THEN s.prev ELSE NoLink
          /\ r.lines = s.lines /\ r.line = x \o <<Space(link)>> \o w
          /\ r.len = s.len + Len(w) + 1
    BY <1>10, <1>15
  <2> DEFINE sp == Space(link)
             u == x \o <<sp>>
             z == u \o w
  <2>2. s.len + 1 + Len(w) <= max
    BY <1>3, <1>9, <1>15 DEF TooLong
  <2>3. a \notin WordAt(spans, e)
    <3> SUFFICES ASSUME a \in WordAt(spans, e) PROVE FALSE
      OBVIOUS
    <3>1. BeforeFacts(spans, room, piece, a, e, e)
      <4>1. e \in 1..e
        OBVIOUS
      <4> QED
        BY <1>1, <1>7, <1>9, <4>1, BeforeIs
    <3>2. Len(x) >= room
      BY <1>3, <3>1 DEF BeforeFacts
    <3> HIDE DEF x, from
    <3>3. Len(x) \in Nat
      BY <1>3
    <3>4. s.len >= rest + room
      BY <1>1, <1>3, <1>4, <3>2, <3>3
    <3> QED
      BY <1>1, <1>3, <1>9, <2>2, <3>4
  <2>4. z \in Seq(LineChar) /\ LineFollows(spans, z)
    <3>1. x[Len(x)].at = e /\ ~IsSpace(x[Len(x)]) /\ x[Len(x)].link = spans[e].link
      BY <1>3, PlacedIs
    <3>2. w[1].at \notin WordAt(spans, x[Len(x)].at)
      BY <1>12, <2>3, <3>1
    <3>3. link = IF w[1].link = x[Len(x)].link THEN x[Len(x)].link ELSE NoLink
      BY <1>3, <2>1, <3>1
    <3> HIDE DEF x
    <3> QED
      BY <1>3, <1>9, <1>12, <1>13, <3>1, <3>2, <3>3, FollowsMore
  <2>5. sp \in LineChar
    <3>1. 0 \in Nat /\ TRUE \in BOOLEAN
      OBVIOUS
    <3>2. "plain" \in Style
      BY DEF Style
    <3> DEFINE Ls == STRING \cup {NoLink}
    <3>3. link \in Ls
      OBVIOUS
    <3> HIDE DEF Ls
    <3>4. Space(link) \in [at : Nat, blank : BOOLEAN, style : Style, link : Ls]
      BY <3>1, <3>2, <3>3 DEF Space
    <3> QED
      BY <3>4 DEF LineChar, Ls
  <2>6. /\ u \in Seq(LineChar) /\ Len(u) = Len(x) + 1 /\ u[1] = x[1] /\ Len(x) \in Nat /\ 1 \in 1..Len(u)
    <3> HIDE DEF sp, x
    <3>1. Len(x) \in Nat /\ Len(x) # 0
      BY <1>3
    <3>2. 1 \in 1..Len(x)
      BY <3>1
    <3> QED
      BY <1>3, <2>5, <3>1, <3>2
  <2>7. ShownTo(spans, Append(s.lines, z), i)
    <3>1. ShownTo(spans, Append(s.lines, u), e)
      <4> HIDE DEF x
      <4> QED
        BY <1>1, <1>3, <2>5, ShownSpace
    <3> HIDE DEF u
    <3> QED
      BY <1>1, <1>2, <1>3, <1>7, <2>6, <3>1, ShownWord
  <2>8. /\ Len(z) = Len(x) + 1 + Len(w) /\ z[1] = x[1] /\ z[Len(z)] = w[Len(w)] /\ z # <<>>
    <3> HIDE DEF u, x
    <3>1. Len(z) = Len(u) + Len(w)
      <4>1. u \in Seq(LineChar) /\ w \in Seq(LineChar)
        BY <1>9, <2>6
      <4> QED
        BY <4>1
    <3>2. z[1] = u[1]
      BY <1>9, <2>6
    <3>3. z[Len(u) + Len(w)] = w[Len(w)]
      BY <1>9, <1>11, <2>6
    <3>4. Len(z) # 0
      BY <1>9, <2>6, <3>1
    <3> QED
      BY <2>6, <3>1, <3>2, <3>3, <3>4
  <2>9. FitsOrMust(spans, z, from, room, max) /\ r.len = from + Len(z)
    <3> HIDE DEF from, x, z
    <3> DEFINE lx == Len(x)
               lw == Len(w)
               lz == Len(z)
               ls == s.len
               lr == r.len
    <3>0. /\ lx \in Nat /\ lw \in Nat /\ from \in Nat /\ lz = lx + 1 + lw
          /\ ls = from + lx /\ ls + 1 + lw <= max /\ lr = ls + lw + 1
      BY <1>3, <1>4, <1>9, <2>1, <2>2, <2>6, <2>8
    <3> HIDE DEF lx, lw, lz, ls, lr
    <3>a. lr = from + lz /\ from + lz <= max
      BY <3>0
    <3>1. r.len = from + Len(z) /\ from + Len(z) <= max
      BY <3>a DEF lr, lz
    <3> QED
      BY <3>1 DEF FitsOrMust
  <2>10. Len(z) >= i - piece[i] + 1
    <3>1. Len(w) = i - piece[i] + 1
      BY <1>9 DEF a
    <3> HIDE DEF z, x
    <3> QED
      BY <1>9, <2>6, <2>8, <3>1
  <2>11. r.line = z /\ r.lines = s.lines
    BY <2>1
  <2> HIDE DEF z, u
  <2> QED
    BY <1>3, <1>10, <1>12, <2>4, <2>7, <2>8, <2>9, <2>10, <2>11 DEF Current, r, w, a
<1> QED
  BY <1>14, <1>15

\* After a place: no piece has ended yet, or one has and none since.
AfterPlace(spans, piece, first, rest, room, max, s, i) ==
  \/ s = NoWords(first) /\ \A j \in 1..i : ~EndsPiece(spans, piece, j)
  \/ \E e \in 1..i : /\ Current(spans, piece, first, rest, room, max, s, e)
                     /\ \A j \in (e + 1)..i : ~EndsPiece(spans, piece, j)

LEMMA StepHolds ==
  ASSUME NEW spans \in Seq(SpanChar), NEW first \in Nat, NEW rest \in Nat, NEW max \in Nat, first >= rest,
         NEW room, RoomIs(room, rest, max), NEW piece, PieceRule(spans, room, piece),
         NEW i \in 1..Len(spans), NEW s, AfterPlace(spans, piece, first, rest, room, max, s, i - 1),
         NEW r, r = IF EndsPiece(spans, piece, i)
                    THEN AddWord(s, SubSeq(Placed(spans), piece[i], i), rest, max) ELSE s
  PROVE  AfterPlace(spans, piece, first, rest, room, max, r, i)
<1> DEFINE n == Len(spans)
           E(j) == EndsPiece(spans, piece, j)
           a == piece[i]
<1>1. n \in Nat /\ i \in Nat /\ room \in Nat \ {0}
  BY DEF RoomIs
<1>2. CASE ~E(i)
  <2>1. r = s
    BY <1>2
  <2>2. \A e \in 0..(i - 1) : \A j \in (e + 1)..i : j = i \/ j \in (e + 1)..(i - 1)
    BY <1>1
  <2>3. 0 + 1 = 1 /\ 0 \in 0..(i - 1) /\ \A e \in 1..(i - 1) : e \in 0..(i - 1) /\ e \in 1..i
    BY <1>1
  <2>4. \A j \in 1..i : j = i \/ j \in 1..(i - 1)
    BY <1>1
  <2>5. CASE s = NoWords(first) /\ \A j \in 1..(i - 1) : ~E(j)
    <3>1. \A j \in 1..i : ~E(j)
      BY <1>2, <2>4, <2>5
    <3> QED
      BY <2>1, <2>5, <3>1 DEF AfterPlace
  <2>6. CASE \E e \in 1..(i - 1) : /\ Current(spans, piece, first, rest, room, max, s, e)
                                   /\ \A j \in (e + 1)..(i - 1) : ~E(j)
    <3>1. PICK e \in 1..(i - 1) : /\ Current(spans, piece, first, rest, room, max, s, e)
                                  /\ \A j \in (e + 1)..(i - 1) : ~E(j)
      BY <2>6
    <3>2. \A j \in (e + 1)..i : ~E(j)
      BY <1>2, <2>2, <2>3, <3>1
    <3> QED
      BY <2>1, <2>3, <3>1, <3>2 DEF AfterPlace
  <2> QED
    BY <2>5, <2>6 DEF AfterPlace
<1>3. CASE E(i)
  <2>1. r = AddWord(s, SubSeq(Placed(spans), piece[i], i), rest, max)
    BY <1>3
  <2>2. a \in 1..i /\ piece[a] = a /\ \A j \in a..i : piece[j] = a
    BY <1>1, <1>3, PieceHolds DEF EndsPiece
  <2>3. ASSUME NEW e \in 0..n, e < a, \A j \in (e + 1)..(i - 1) : ~E(j)
        PROVE  \A j \in (e + 1)..(a - 1) : ~OfAWord(spans[j])
    <3> DEFINE b == a - 1
    <3> HIDE DEF a
    <3>1. b \in e..n /\ b + 1 = a
      BY <1>1, <2>2, <2>3
    <3>2. \A j \in (e + 1)..b : ~E(j)
      <4>1. \A j \in (e + 1)..b : j \in (e + 1)..(i - 1)
        BY <1>1, <2>2, <2>3
      <4> QED
        BY <2>3, <4>1
    <3>3. piece[b + 1] = b + 1
      BY <2>2, <3>1
    <3> HIDE DEF b
    <3>4. \A j \in (e + 1)..b : ~OfAWord(spans[j])
      BY <1>1, <3>1, <3>2, <3>3, NoneBetween
    <3> QED
      BY <3>4 DEF b
  <2>4. CASE s = NoWords(first) /\ \A j \in 1..(i - 1) : ~E(j)
    <3>1. 0 \in 0..n /\ 0 < a /\ 0 + 1 = 1
      BY <1>1, <2>2
    <3>2. \A j \in 1..(a - 1) : ~OfAWord(spans[j])
      BY <2>3, <2>4, <3>1
    <3>3. Current(spans, piece, first, rest, room, max, r, i)
      BY <1>3, <2>1, <2>4, <3>2, FirstWord
    <3>4. i \in 1..i /\ \A j \in (i + 1)..i : FALSE
      BY <1>1
    <3> QED
      BY <3>3, <3>4 DEF AfterPlace
  <2>5. CASE \E e \in 1..(i - 1) : /\ Current(spans, piece, first, rest, room, max, s, e)
                                   /\ \A j \in (e + 1)..(i - 1) : ~E(j)
    <3>1. PICK e \in 1..(i - 1) : /\ Current(spans, piece, first, rest, room, max, s, e)
                                  /\ \A j \in (e + 1)..(i - 1) : ~E(j)
      BY <2>5
    <3>2. E(e)
      BY <3>1 DEF Current
    <3>3. e \in 1..n /\ e \in 0..n /\ e # n
      BY <1>1
    <3>4. e < a
      <4> SUFFICES ASSUME ~(e < a) PROVE FALSE
        OBVIOUS
      <4>1. e \in a..i /\ e + 1 \in a..i
        BY <1>1, <2>2
      <4>2. piece[e + 1] = piece[e]
        BY <2>2, <4>1
      <4> QED
        BY <3>2, <3>3, <4>2 DEF EndsPiece
    <3>5. \A j \in (e + 1)..(a - 1) : ~OfAWord(spans[j])
      BY <2>3, <3>1, <3>3, <3>4
    <3>6. Current(spans, piece, first, rest, room, max, r, i)
      BY <1>3, <2>1, <3>1, <3>3, <3>4, <3>5, NextWord
    <3>7. i \in 1..i /\ \A j \in (i + 1)..i : FALSE
      BY <1>1
    <3> QED
      BY <3>6, <3>7 DEF AfterPlace
  <2> QED
    BY <2>4, <2>5 DEF AfterPlace
<1> QED
  BY <1>2, <1>3

LEMMA WrapIs ==
  ASSUME NEW spans \in Seq(SpanChar), NEW first \in Nat, NEW rest \in Nat, NEW max \in Nat, first >= rest,
         NEW room, room = RoomFor(rest, max), NEW piece, piece = PieceOf(spans, room)
  PROVE  \E s : /\ AfterPlace(spans, piece, first, rest, room, max, s, Len(spans))
                /\ Wrap(spans, first, rest, max) =
                     IF s.line = <<>> THEN s.lines ELSE Append(s.lines, TrimEnd(s.line))
<1> DEFINE n == Len(spans)
           D == 0..n
           w(i) == SubSeq(Placed(spans), piece[i], i)
           Next1(i, s) == IF EndsPiece(spans, piece, i) THEN AddWord(s, w(i), rest, max) ELSE s
           At1(d, i) == IF i = 0 THEN NoWords(first)
                        ELSE LET s == d[i - 1]
                             IN  IF EndsPiece(spans, piece, i)
                                 THEN AddWord(s, SubSeq(Placed(spans), piece[i], i), rest, max) ELSE s
           step == [y \in (1..n) \X LineState |-> Next1(y[1], y[2])]
<1>1. n \in Nat /\ 0 \in D /\ n \in D /\ \A i \in 1..n : i \in D /\ i - 1 \in D /\ i # 0
  OBVIOUS
<1>2. RoomIs(room, rest, max) /\ room \in Nat \ {0}
  BY RoomForIs DEF RoomIs
<1>3. PieceRule(spans, room, piece)
  BY <1>2, PieceIs
<1>4. NoWords(first) \in LineState
  <2>1. <<>> \in Seq(Seq(LineChar)) /\ <<>> \in Seq(LineChar) /\ NoLink \in STRING \cup {NoLink}
    OBVIOUS
  <2> QED
    BY <2>1 DEF NoWords, LineState
<1>5. \A i \in 1..n, s \in LineState : Next1(i, s) \in LineState
  <2> SUFFICES ASSUME NEW i \in 1..n, NEW s \in LineState, EndsPiece(spans, piece, i)
               PROVE  AddWord(s, w(i), rest, max) \in LineState
    OBVIOUS
  <2>1. WordFacts(spans, room, piece, i, piece[i], w(i))
    BY <1>2, <1>3, WordIs
  <2> HIDE DEF w
  <2>2. w(i) \in Seq(LineChar) /\ w(i) # <<>>
    BY <2>1 DEF WordFacts
  <2>3. AddFacts(s, w(i), rest, max, AddWord(s, w(i), rest, max))
    BY <2>2, AddWordIs
  <2> QED
    BY <2>3 DEF AddFacts
<1>6. \A d : At1(d, 0) = NoWords(first) /\ \A i \in 1..n : At1(d, i) = Next1(i, d[i - 1])
  BY <1>1
<1> HIDE DEF Next1
<1>7. \A i \in 1..n, s \in LineState : step[<<i, s>>] = Next1(i, s)
  BY <1>5
<1>8. \A i \in 1..n, s \in LineState : step[<<i, s>>] \in LineState
  <2> HIDE DEF step
  <2> QED
    BY <1>5, <1>7
<1> HIDE DEF step
<1>9. PICK f \in [D -> LineState] : f[0] = NoWords(first) /\ \A i \in 1..n : f[i] = step[<<i, f[i - 1]>>]
  <2>1. LoopOf(n, LineState, NoWords(first), step)
    BY <1>1, <1>4, <1>8, LoopIs
  <2> QED
    BY <2>1 DEF LoopOf
<1>10. \A i \in D : f[i] = At1(f, i)
  <2>1. \A i \in 1..n : f[i] = At1(f, i)
    <3>1. \A i \in 1..n : f[i - 1] \in LineState
      BY <1>1, <1>9
    <3> HIDE DEF At1
    <3> QED
      BY <1>6, <1>7, <1>9, <3>1
  <2>2. \A i \in D : i = 0 \/ i \in 1..n
    BY <1>1
  <2> HIDE DEF At1
  <2> QED
    BY <1>6, <1>9, <2>1, <2>2
<1> DEFINE d == CHOOSE d : d = [i \in D |-> At1(d, i)]
<1>11. f = [i \in D |-> At1(f, i)]
  <2> HIDE DEF At1, D
  <2> QED
    BY <1>10
<1>12. d = [i \in D |-> At1(d, i)]
  BY <1>11
<1>13. Wrap(spans, first, rest, max) =
         IF d[n].line = <<>> THEN d[n].lines ELSE Append(d[n].lines, TrimEnd(d[n].line))
  BY DEF Wrap
<1> HIDE DEF d
<1>14. \A i \in D : d[i] = At1(d, i)
  <2> HIDE DEF At1, D
  <2> QED
    BY <1>12
<1>15. d[0] = NoWords(first) /\ \A i \in 1..n : d[i] = Next1(i, d[i - 1])
  <2> HIDE DEF At1
  <2> QED
    BY <1>1, <1>6, <1>14
<1>16. AfterPlace(spans, piece, first, rest, room, max, d[n], n)
  <2> DEFINE T == {i \in D : AfterPlace(spans, piece, first, rest, room, max, d[i], i)}
  <2>1. 0 \in T
    <3>1. \A j \in 1..0 : FALSE
      OBVIOUS
    <3> QED
      BY <1>1, <1>15, <3>1 DEF AfterPlace
  <2>2. ASSUME NEW i \in 1..n, i - 1 \in T PROVE i \in T
    <3>1. AfterPlace(spans, piece, first, rest, room, max, d[i - 1], i - 1)
      BY <2>2
    <3>2. d[i] = IF EndsPiece(spans, piece, i)
                 THEN AddWord(d[i - 1], SubSeq(Placed(spans), piece[i], i), rest, max) ELSE d[i - 1]
      BY <1>15 DEF Next1
    <3>3. AfterPlace(spans, piece, first, rest, room, max, d[i], i)
      BY <1>2, <1>3, <3>1, <3>2, StepHolds
    <3> QED
      BY <1>1, <3>3
  <2>3. \A i \in 0..n : i \in T
    <3> HIDE DEF T
    <3> QED
      BY <1>1, <2>1, <2>2, Upward
  <2> QED
    BY <1>1, <2>3
<1> QED
  BY <1>13, <1>16

LEMMA WrapIsRight ==
  ASSUME NEW spans \in Seq(SpanChar), NEW first \in Nat, NEW rest \in Nat, NEW max \in Nat, first >= rest
  PROVE  Wrapped(spans, first, rest, max, Wrap(spans, first, rest, max))
<1> DEFINE n == Len(spans)
           room == RoomFor(rest, max)
           piece == PieceOf(spans, room)
           lines == Wrap(spans, first, rest, max)
<1>1. n \in Nat /\ n \in 0..n /\ 0 \in 0..n /\ DOMAIN spans = 1..n
  OBVIOUS
<1>2. RoomIs(room, rest, max) /\ room \in Nat \ {0}
  BY RoomForIs DEF RoomIs
<1>3. PieceRule(spans, room, piece)
  BY <1>2, PieceIs
<1>4. PICK s : /\ AfterPlace(spans, piece, first, rest, room, max, s, n)
               /\ lines = IF s.line = <<>> THEN s.lines ELSE Append(s.lines, TrimEnd(s.line))
  BY WrapIs
<1> SUFFICES Wrapped(spans, first, rest, max, lines)
  OBVIOUS
<1> HIDE DEF lines, piece
<1>5. ASSUME NEW e \in 0..n, \A j \in (e + 1)..n : ~EndsPiece(spans, piece, j), ShownTo(spans, lines, e),
             lines \in Seq(Seq(LineChar)), GoodLines(spans, first, rest, room, max, lines)
      PROVE  Wrapped(spans, first, rest, max, lines)
  <2>1. \A j \in (e + 1)..n : ~OfAWord(spans[j])
    <3>1. n \in e..n
      BY <1>1
    <3> QED
      BY <1>2, <1>3, <1>5, <3>1, NoneBetween
  <2>2. ASSUME NEW i \in 1..n, ~spans[i].blank
        PROVE  \E m \in 1..Len(lines) : \E k \in 1..Len(lines[m]) : lines[m][k] = Placed(spans)[i]
    <3>1. i \notin (e + 1)..n
      BY <2>1, <2>2 DEF OfAWord
    <3>2. i \in 1..e
      BY <1>1, <3>1
    <3> QED
      BY <1>5, <2>2, <3>2 DEF ShownTo
  <2>3. DOMAIN lines = 1..Len(lines) /\ Len(lines) \in Nat /\ \A m \in 1..Len(lines) : DOMAIN lines[m] = 1..Len(lines[m])
    <3>1. \A m \in 1..Len(lines) : lines[m] \in Seq(LineChar)
      BY <1>5
    <3>2. DOMAIN lines = 1..Len(lines) /\ Len(lines) \in Nat
      BY <1>5
    <3> QED
      BY <3>1, <3>2
  <2>4. AllShown(spans, lines)
    <3>1. \A i \in DOMAIN spans : ~spans[i].blank =>
            \E m \in DOMAIN lines : \E k \in DOMAIN lines[m] : lines[m][k] = Placed(spans)[i]
      BY <1>1, <2>2, <2>3
    <3>2. \A m, l \in DOMAIN lines : \A k \in DOMAIN lines[m], h \in DOMAIN lines[l] :
            (m < l \/ (m = l /\ k < h)) /\ ~IsSpace(lines[m][k]) /\ ~IsSpace(lines[l][h]) =>
              lines[m][k].at < lines[l][h].at
      BY <1>5, <2>3 DEF ShownTo
    <3> QED
      BY <3>1, <3>2 DEF AllShown
  <2>5. ASSUME NEW m \in 1..Len(lines), lines[m] # <<>>
        PROVE  LineFollows(spans, lines[m]) /\ FitsOrMust(spans, lines[m], LeftOf(first, rest, m), room, max)
    BY <1>5, <2>5 DEF GoodLines
  <2>6. ASSUME NEW m \in 1..Len(lines), lines[m] # <<>>, m + 1 \in 1..Len(lines), lines[m + 1] # <<>>
        PROVE  Ends(spans, lines[m], lines[m + 1][1], LeftOf(first, rest, m), room, max)
    <3>1. m \in 1..(Len(lines) - 1)
      BY <2>3, <2>6
    <3> QED
      BY <1>5, <2>6, <3>1 DEF GoodLines
  <2> HIDE DEF room
  <2>7. \A m \in DOMAIN lines : lines[m] # <<>> =>
          /\ LineFollows(spans, lines[m])
          /\ FitsOrMust(spans, lines[m], IF m = 1 THEN first ELSE rest, room, max)
    BY <2>3, <2>5 DEF LeftOf
  <2>8. \A m \in DOMAIN lines : lines[m] # <<>> /\ m + 1 \in DOMAIN lines /\ lines[m + 1] # <<>> =>
          /\ BreaksRightly(spans, lines[m][Len(lines[m])], lines[m + 1][1], room)
          /\ BreaksLate(spans, lines[m], lines[m + 1][1], IF m = 1 THEN first ELSE rest, room, max)
    BY <2>3, <2>6 DEF LeftOf, Ends
  <2> QED
    BY <2>4, <2>7, <2>8 DEF Wrapped, room
<1>6. CASE s = NoWords(first) /\ \A j \in 1..n : ~EndsPiece(spans, piece, j)
  <2>1. lines = <<>>
    <3>1. s.line = <<>> /\ s.lines = <<>>
      BY <1>6 DEF NoWords
    <3> QED
      BY <1>4, <3>1
  <2>2. ShownTo(spans, <<>>, 0)
    <3> DEFINE L == <<>>
    <3>1. Len(L) = 0 /\ \A k : k \notin 1..0
      OBVIOUS
    <3> QED
      BY <3>1 DEF ShownTo
  <2>3. GoodLines(spans, first, rest, room, max, <<>>)
    <3>1. \A k : k \notin 1..Len(<<>>) /\ k \notin 1..(Len(<<>>) - 1)
      OBVIOUS
    <3> QED
      BY <3>1 DEF GoodLines
  <2>4. <<>> \in Seq(Seq(LineChar)) /\ 0 + 1 = 1
    OBVIOUS
  <2> DEFINE e == 0
  <2>5. /\ e \in 0..n /\ \A j \in (e + 1)..n : ~EndsPiece(spans, piece, j)
        /\ ShownTo(spans, lines, e) /\ lines \in Seq(Seq(LineChar))
        /\ GoodLines(spans, first, rest, room, max, lines)
    BY <1>1, <1>6, <2>1, <2>2, <2>3, <2>4
  <2> HIDE DEF e, room, n
  <2> QED
    BY <1>5, <2>5
<1>7. CASE \E e \in 1..n : /\ Current(spans, piece, first, rest, room, max, s, e)
                           /\ \A j \in (e + 1)..n : ~EndsPiece(spans, piece, j)
  <2>1. PICK e \in 1..n : /\ Current(spans, piece, first, rest, room, max, s, e)
                          /\ \A j \in (e + 1)..n : ~EndsPiece(spans, piece, j)
    BY <1>7
  <2> DEFINE x == s.line
             t == TrimEnd(x)
             from == LeftOf(first, rest, Len(s.lines) + 1)
  <2>2. /\ s.lines \in Seq(Seq(LineChar)) /\ x \in Seq(LineChar) /\ x # <<>>
        /\ ShownTo(spans, Append(s.lines, x), e)
        /\ LineFollows(spans, x)
        /\ FitsOrMust(spans, x, from, room, max)
        /\ GoodLines(spans, first, rest, room, max, s.lines)
        /\ EndBefore(spans, first, rest, room, max, s.lines, x[1])
    BY <2>1 DEF Current, LineState
  <2>3. t \in Seq(LineChar) /\ (t # <<>> => t[1] = x[1])
    BY <2>2, TrimIs
  <2>4. lines = Append(s.lines, t)
    BY <1>4, <2>2
  <2>5. ShownTo(spans, Append(s.lines, t), e)
    <3>1. Carried(Append(s.lines, x), Append(s.lines, t))
      BY <2>2, TrimmedKept
    <3>2. e \in 0..n
      BY <1>1
    <3> HIDE DEF t
    <3> QED
      BY <2>2, <3>1, <3>2, ShownKept
  <2>6. from \in Nat
    BY DEF LeftOf
  <2>7. t # <<>> => LineFollows(spans, t) /\ FitsOrMust(spans, t, from, room, max)
    <3> HIDE DEF from
    <3> QED
      BY <1>2, <2>2, <2>6, FollowsTrim, FitsTrim
  <2> HIDE DEF t
  <2>8. GoodLines(spans, first, rest, room, max, Append(s.lines, t))
    BY <2>2, <2>3, <2>7, GoodAppend
  <2>9. Append(s.lines, t) \in Seq(Seq(LineChar)) /\ e \in 0..n
    BY <1>1, <2>2, <2>3
  <2>10. /\ e \in 0..n /\ \A j \in (e + 1)..n : ~EndsPiece(spans, piece, j)
         /\ ShownTo(spans, lines, e) /\ lines \in Seq(Seq(LineChar))
         /\ GoodLines(spans, first, rest, room, max, lines)
    BY <2>1, <2>4, <2>5, <2>8, <2>9
  <2> HIDE DEF room, n
  <2> QED
    BY <1>5, <2>10
<1> HIDE DEF room, n
<1>8. AfterPlace(spans, piece, first, rest, room, max, s, n)
  BY <1>4
<1> QED
  BY <1>6, <1>7, <1>8 DEF AfterPlace

(* A text that is broken into lines is shown whole and in its order, with code *)
(* and links kept, lines in their width and as full as they may be            *)
(* (text.rs:163-203), for any spans and widths.                               *)
THEOREM TextIsWrapped == CallSpec => []WrapsWhole
<1> DEFINE Asked == call = "wrap" => input \in Wraps
<1>1. CallInit => Asked /\ WrapsWhole
  BY DEF CallInit, WrapsWhole, Returned
<1>2. Asked /\ WrapsWhole /\ [CallNext]_vars => Asked' /\ WrapsWhole'
  <2> SUFFICES ASSUME Asked, WrapsWhole, [CallNext]_vars
               PROVE  Asked' /\ WrapsWhole'
    OBVIOUS
  <2>1. CASE FindClosest
    BY <2>1 DEF FindClosest, Called, WrapsWhole, Returned
  <2>2. CASE FindWords
    BY <2>2 DEF FindWords, Called, WrapsWhole, Returned
  <2>3. CASE Redact
    BY <2>3 DEF Redact, Called, WrapsWhole, Returned
  <2>4. CASE WrapText
    <3>1. /\ call = "wrap" /\ call' = call /\ input' = input
          /\ output' = Wrap(input.spans, input.first, input.rest, input.max)
      BY <2>4 DEF WrapText, Called
    <3>2. /\ input.spans \in Seq(SpanChar) /\ input.first \in Nat /\ input.rest \in Nat
          /\ input.max \in Nat /\ input.first >= input.rest
      BY <3>1, WrapsAssumption
    <3>3. Wrapped(input.spans, input.first, input.rest, input.max, output')
      BY <3>1, <3>2, WrapIsRight
    <3> QED
      BY <3>1, <3>3 DEF WrapsWhole
  <2>5. CASE ReadSections
    BY <2>5 DEF ReadSections, Called, WrapsWhole, Returned
  <2>6. CASE ResolvePath
    BY <2>6 DEF ResolvePath, Called, WrapsWhole, Returned
  <2>7. CASE ReadServer
    BY <2>7 DEF ReadServer, Called, WrapsWhole, Returned
  <2>8. CASE UNCHANGED vars
    BY <2>8 DEF vars, WrapsWhole, Returned
  <2> QED
    BY <2>1, <2>2, <2>3, <2>4, <2>5, <2>6, <2>7, <2>8 DEF CallNext
<1> QED
  BY <1>1, <1>2, PTL DEF CallSpec

-----------------------------------------------------------------------------
(* The sections of a card *)

\* The first line of such a kind, or the end.
IsNext(body, kinds, from, m) ==
  /\ m \in from..(Len(body) + 1)
  /\ m <= Len(body) => body[m] \in kinds
  /\ \A k \in from..(m - 1) : body[k] \notin kinds

LEMMA NextIs ==
  ASSUME NEW body \in Seq(Lines), NEW kinds, NEW from \in 1..(Len(body) + 1)
  PROVE  /\ IsNext(body, kinds, from, NextOf(body, kinds, from))
         /\ \A m : IsNext(body, kinds, from, m) => m = NextOf(body, kinds, from)
<1> DEFINE S == {k \in from..Len(body) : body[k] \in kinds} \cup {Len(body) + 1}
           n == Len(body)
           next == NextOf(body, kinds, from)
<1>1. n \in Nat
  OBVIOUS
<1>2. S \subseteq from..(n + 1) /\ S \subseteq Nat /\ n + 1 \in S /\ S # {}
  OBVIOUS
<1>3. \A k \in from..n : body[k] \in kinds => k \in S
  OBVIOUS
<1>4. \A k \in S : k <= n => body[k] \in kinds
  BY <1>1
<1>5. next = Min(S)
  BY DEF NextOf
<1> HIDE DEF S, next
<1>6. next \in S /\ \A k \in S : next <= k
  BY <1>2, <1>5, MinOf
<1>7. next \in from..(n + 1)
  BY <1>2, <1>6
<1>8. IsNext(body, kinds, from, next)
  <2>1. \A k \in from..(next - 1) : body[k] \notin kinds
    <3>1. \A k \in from..(next - 1) : k \in from..n /\ ~(next <= k)
      BY <1>1, <1>7
    <3> QED
      BY <3>1, <1>3, <1>6
  <2> QED
    BY <2>1, <1>4, <1>6, <1>7 DEF IsNext
<1>9. ASSUME NEW m, IsNext(body, kinds, from, m) PROVE m = next
  <2>1. /\ m \in from..(n + 1)
        /\ m <= n => body[m] \in kinds
        /\ \A k \in from..(m - 1) : body[k] \notin kinds
    BY <1>9 DEF IsNext
  <2>2. ~(next < m)
    <3>1. next < m => next \in from..(m - 1) /\ next <= n
      BY <1>1, <1>7, <2>1
    <3> QED
      BY <3>1, <2>1, <1>4, <1>6
  <2>3. ~(m < next)
    <3>1. m < next => m <= n /\ m \in from..n /\ ~(next <= m)
      BY <1>1, <1>7, <2>1
    <3> QED
      BY <3>1, <2>1, <1>3, <1>6
  <2> QED
    BY <1>7, <2>1, <2>2, <2>3
<1> QED
  BY <1>8, <1>9 DEF next

\* The place of a section, from one.
PlaceNo(name) == CASE name = TLDR -> 1 [] name = PITFALLS -> 2 [] name = DEEP_DIVE -> 3 [] OTHER -> 0

PlaceOf(name) == {p \in DOMAIN Order : Order[p] = name}

LEMMA PlaceRanks ==
  ASSUME NEW name \in Names
  PROVE  /\ PlaceOf(name) = {} <=> name = "other"
         /\ name # "other" => Max(PlaceOf(name)) = PlaceNo(name) /\ PlaceNo(name) \in 1..3
<1>1. DOMAIN Order = 1..3 /\ Order[1] = TLDR /\ Order[2] = PITFALLS /\ Order[3] = DEEP_DIVE
  BY DEF Order
<1>2. name \in {TLDR, PITFALLS, DEEP_DIVE, "other"}
  BY DEF Names
<1>3. \A p \in 1..3 : p = 1 \/ p = 2 \/ p = 3
  OBVIOUS
<1>4. PlaceOf(name) = IF name = "other" THEN {} ELSE {PlaceNo(name)}
  <2>1. CASE name = TLDR
    <3>1. PlaceNo(name) = 1 /\ name # "other" /\ name # PITFALLS /\ name # DEEP_DIVE
      BY <2>1 DEF PlaceNo, TLDR, PITFALLS, DEEP_DIVE
    <3> QED
      BY <2>1, <3>1, <1>1, <1>3 DEF PlaceOf
  <2>2. CASE name = PITFALLS
    <3>1. PlaceNo(name) = 2 /\ name # "other" /\ name # TLDR /\ name # DEEP_DIVE
      BY <2>2 DEF PlaceNo, TLDR, PITFALLS, DEEP_DIVE
    <3> QED
      BY <2>2, <3>1, <1>1, <1>3 DEF PlaceOf
  <2>3. CASE name = DEEP_DIVE
    <3>1. PlaceNo(name) = 3 /\ name # "other" /\ name # TLDR /\ name # PITFALLS
      BY <2>3 DEF PlaceNo, TLDR, PITFALLS, DEEP_DIVE
    <3> QED
      BY <2>3, <3>1, <1>1, <1>3 DEF PlaceOf
  <2>4. CASE name = "other"
    <3>1. name # TLDR /\ name # PITFALLS /\ name # DEEP_DIVE
      BY <2>4 DEF TLDR, PITFALLS, DEEP_DIVE
    <3> QED
      BY <2>4, <3>1, <1>1, <1>3 DEF PlaceOf
  <2> QED
    BY <1>2, <2>1, <2>2, <2>3, <2>4
<1>5. name # "other" => PlaceNo(name) \in 1..3
  <2>1. name = TLDR => PlaceNo(name) = 1
    BY DEF PlaceNo, TLDR, PITFALLS, DEEP_DIVE
  <2>2. name = PITFALLS => PlaceNo(name) = 2
    BY DEF PlaceNo, TLDR, PITFALLS, DEEP_DIVE
  <2>3. name = DEEP_DIVE => PlaceNo(name) = 3
    BY DEF PlaceNo, TLDR, PITFALLS, DEEP_DIVE
  <2> QED
    BY <1>2, <2>1, <2>2, <2>3
<1>6. ASSUME name # "other" PROVE Max(PlaceOf(name)) = PlaceNo(name)
  <2>1. PlaceOf(name) = {PlaceNo(name)} /\ PlaceNo(name) \in Nat
    BY <1>4, <1>5, <1>6
  <2>2. Max({PlaceNo(name)}) \in {PlaceNo(name)}
    <3>1. IsFiniteSet({PlaceNo(name)})
      BY FS_Singleton
    <3> QED
      BY <2>1, <3>1, MaxOf
  <2> QED
    BY <2>1, <2>2
<1> QED
  BY <1>4, <1>5, <1>6

ProblemName == {"unknown", "order", "question", "empty", "long", "intro", "no question"}

SectionState ==
  [tldr : SUBSET Nat, pitfalls : SUBSET Nat, deep_dive : SUBSET [title : Nat, text : SUBSET Nat],
   expected : Nat, found_tldr : BOOLEAN, problems : SUBSET ProblemName]

\* A section without problems of its own.
WellMade(body, k) ==
  CASE body[k] = TLDR ->
         Misplaced(body, k) = {} /\ EmptySection(body, k) = {} /\ LongSection(body, k) = {}
    [] body[k] = PITFALLS -> Misplaced(body, k) = {} /\ EmptySection(body, k) = {}
    [] OTHER -> DeepDiveProblems(body, k) = {}

LEMMA SectionParts ==
  ASSUME NEW body \in Seq(Lines), NEW i \in DOMAIN body
  PROVE  /\ SectionText(body, i) \in SUBSET Nat
         /\ DeepDive(body, i) \in SUBSET [title : Nat, text : SUBSET Nat]
         /\ Misplaced(body, i) \in SUBSET ProblemName
         /\ EmptySection(body, i) \in SUBSET ProblemName
         /\ LongSection(body, i) \in SUBSET ProblemName
         /\ DeepDiveProblems(body, i) \in SUBSET ProblemName
<1>1. i \in 1..Len(body) /\ i + 1 \in 1..(Len(body) + 1) /\ i + 1 \in Nat
  OBVIOUS
<1>2. SectionEnd(body, i) \in (i + 1)..(Len(body) + 1)
  BY <1>1, NextIs DEF SectionEnd, IsNext
<1>3. \A a \in Nat : \A b : TextIn(body, a, b) \subseteq Nat
  BY DEF TextIn
<1>4. SectionText(body, i) \in SUBSET Nat
  BY <1>1, <1>3 DEF SectionText
<1>5. QuestionsIn(body, i) \subseteq (i + 1)..Len(body)
  BY <1>1, <1>2 DEF QuestionsIn
<1>6. DeepDive(body, i) \in SUBSET [title : Nat, text : SUBSET Nat]
  <2>1. \A q \in QuestionsIn(body, i) : q \in Nat /\ q + 1 \in Nat
    BY <1>1, <1>5
  <2> QED
    BY <2>1, <1>3 DEF DeepDive
<1>7. Misplaced(body, i) \in SUBSET ProblemName /\ EmptySection(body, i) \in SUBSET ProblemName
  BY DEF Misplaced, EmptySection, ProblemName
<1>8. LongSection(body, i) \in SUBSET ProblemName
  BY DEF LongSection, ProblemName
<1>9. DeepDiveProblems(body, i) \in SUBSET ProblemName
  BY DEF DeepDiveProblems, ProblemName
<1> QED
  BY <1>4, <1>6, <1>7, <1>8, <1>9

\* What a heading of level 2 adds to what was read before.
Adds(body, i, s, t) ==
  /\ t \in SectionState
  /\ t.problems = {} <=> /\ s.problems = {} /\ body[i] # "other"
                         /\ s.expected <= PlaceNo(body[i]) /\ WellMade(body, i)
  /\ t.problems = {} =>
       /\ t.expected = PlaceNo(body[i]) + 1
       /\ t.found_tldr = (s.found_tldr \/ body[i] = TLDR)
       /\ t.tldr = IF body[i] = TLDR THEN SectionText(body, i) ELSE s.tldr
       /\ t.pitfalls = IF body[i] = PITFALLS THEN SectionText(body, i) ELSE s.pitfalls
       /\ t.deep_dive = IF body[i] = DEEP_DIVE THEN DeepDive(body, i) ELSE s.deep_dive

LEMMA SectionIs ==
  ASSUME NEW body \in Seq(Lines), NEW i \in DOMAIN body, body[i] \in Names \ {"other"},
         NEW s \in SectionState, s.expected = PlaceNo(body[i]) + 1
  PROVE  LET t == Section(s, body, i)
         IN  /\ t \in SectionState
             /\ t.problems = {} <=> s.problems = {} /\ WellMade(body, i)
             /\ t.expected = s.expected
             /\ t.found_tldr = (s.found_tldr \/ body[i] = TLDR)
             /\ t.tldr = IF body[i] = TLDR THEN SectionText(body, i) ELSE s.tldr
             /\ t.pitfalls = IF body[i] = PITFALLS THEN SectionText(body, i) ELSE s.pitfalls
             /\ t.deep_dive = IF body[i] = DEEP_DIVE THEN DeepDive(body, i) ELSE s.deep_dive
<1> DEFINE t == Section(s, body, i)
           text == SectionText(body, i)
           deep == DeepDive(body, i)
           misplaced == Misplaced(body, i)
           empty == EmptySection(body, i)
           long == LongSection(body, i)
           intro == DeepDiveProblems(body, i)
<1>1. /\ text \in SUBSET Nat /\ deep \in SUBSET [title : Nat, text : SUBSET Nat]
      /\ misplaced \in SUBSET ProblemName /\ empty \in SUBSET ProblemName
      /\ long \in SUBSET ProblemName /\ intro \in SUBSET ProblemName
  BY SectionParts
<1>2. CASE body[i] = TLDR
  <2>1. body[i] # PITFALLS /\ body[i] # DEEP_DIVE
    BY <1>2 DEF TLDR, PITFALLS, DEEP_DIVE
  <2>2. WellMade(body, i) <=> misplaced = {} /\ empty = {} /\ long = {}
    BY <1>2, <2>1 DEF WellMade
  <2>3. t = [s EXCEPT !.tldr = text, !.found_tldr = TRUE,
                      !.problems = @ \cup misplaced \cup empty \cup long]
    BY <1>2, <2>1 DEF Section
  <2> HIDE DEF t, text, deep, misplaced, empty, long, intro
  <2>4. /\ t.problems = s.problems \cup misplaced \cup empty \cup long
        /\ t.tldr = text /\ t.found_tldr = TRUE /\ t.pitfalls = s.pitfalls
        /\ t.deep_dive = s.deep_dive /\ t.expected = s.expected
    BY <2>3 DEF SectionState
  <2>5. t \in SectionState
    BY <2>3, <1>1 DEF SectionState
  <2>6. t.problems = {} <=> s.problems = {} /\ WellMade(body, i)
    BY <2>2, <2>4
  <2> QED
    BY <1>2, <2>1, <2>4, <2>5, <2>6 DEF t, text, deep
<1>3. CASE body[i] = PITFALLS
  <2>1. body[i] # TLDR /\ body[i] # DEEP_DIVE
    BY <1>3 DEF TLDR, PITFALLS, DEEP_DIVE
  <2>2. WellMade(body, i) <=> misplaced = {} /\ empty = {}
    BY <1>3, <2>1 DEF WellMade
  <2>3. t = [s EXCEPT !.pitfalls = text, !.problems = @ \cup misplaced \cup empty]
    BY <1>3, <2>1 DEF Section
  <2> HIDE DEF t, text, deep, misplaced, empty, long, intro
  <2>4. /\ t.problems = s.problems \cup misplaced \cup empty
        /\ t.tldr = s.tldr /\ t.found_tldr = s.found_tldr /\ t.pitfalls = text
        /\ t.deep_dive = s.deep_dive /\ t.expected = s.expected
    BY <2>3 DEF SectionState
  <2>5. t \in SectionState
    BY <2>3, <1>1 DEF SectionState
  <2>6. t.problems = {} <=> s.problems = {} /\ WellMade(body, i)
    BY <2>2, <2>4
  <2>7. s.found_tldr \in BOOLEAN
    BY DEF SectionState
  <2> QED
    BY <1>3, <2>1, <2>4, <2>5, <2>6, <2>7 DEF t, text, deep
<1>4. CASE body[i] = DEEP_DIVE
  <2>1. body[i] # TLDR /\ body[i] # PITFALLS
    BY <1>4 DEF TLDR, PITFALLS, DEEP_DIVE
  <2>2. WellMade(body, i) <=> intro = {}
    BY <1>4, <2>1 DEF WellMade
  <2>3. t = [s EXCEPT !.deep_dive = deep, !.problems = @ \cup intro]
    BY <1>4, <2>1 DEF Section
  <2> HIDE DEF t, text, deep, misplaced, empty, long, intro
  <2>4. /\ t.problems = s.problems \cup intro
        /\ t.tldr = s.tldr /\ t.found_tldr = s.found_tldr /\ t.pitfalls = s.pitfalls
        /\ t.deep_dive = deep /\ t.expected = s.expected
    BY <2>3 DEF SectionState
  <2>5. t \in SectionState
    BY <2>3, <1>1 DEF SectionState
  <2>6. t.problems = {} <=> s.problems = {} /\ WellMade(body, i)
    BY <2>2, <2>4
  <2>7. s.found_tldr \in BOOLEAN
    BY DEF SectionState
  <2> QED
    BY <1>4, <2>1, <2>4, <2>5, <2>6, <2>7 DEF t, text, deep
<1>5. body[i] = TLDR \/ body[i] = PITFALLS \/ body[i] = DEEP_DIVE
  BY DEF Names
<1> QED
  BY <1>2, <1>3, <1>4, <1>5

LEMMA AddIs ==
  ASSUME NEW body \in Seq(Lines), NEW i \in DOMAIN body, body[i] \in Names,
         NEW s \in SectionState
  PROVE  Adds(body, i, s, AddSection(s, body, i))
<1> DEFINE t == AddSection(s, body, i)
           name == body[i]
           place == PlaceOf(name)
<1>1. /\ place = {} <=> name = "other"
      /\ name # "other" => Max(place) = PlaceNo(name) /\ PlaceNo(name) \in 1..3
  BY PlaceRanks
<1>2. t = IF place = {} THEN Problem(s, "unknown")
          ELSE IF OutOfOrder(Max(place), s) THEN Problem(s, "order")
          ELSE Section([s EXCEPT !.expected = Max(place) + 1], body, i)
  BY DEF AddSection, PlaceOf
<1>3. s.expected \in Nat /\ s.problems \in SUBSET ProblemName
  BY DEF SectionState
<1>4. \A what \in ProblemName :
        Problem(s, what) \in SectionState /\ Problem(s, what).problems # {}
  <2> TAKE what \in ProblemName
  <2>1. Problem(s, what).problems = s.problems \cup {what}
    BY DEF Problem, SectionState
  <2>2. Problem(s, what) \in SectionState
    BY <1>3 DEF Problem, SectionState
  <2> QED
    BY <2>1, <2>2
<1>5. "unknown" \in ProblemName /\ "order" \in ProblemName
  BY DEF ProblemName
<1> SUFFICES Adds(body, i, s, t)
  OBVIOUS
<1>6. CASE name = "other"
  <2>1. t = Problem(s, "unknown")
    BY <1>1, <1>2, <1>6
  <2> QED
    BY <2>1, <1>4, <1>5, <1>6 DEF Adds
<1>7. CASE name # "other" /\ OutOfOrder(Max(place), s)
  <2>1. t = Problem(s, "order")
    BY <1>1, <1>2, <1>7
  <2>2. ~(s.expected <= PlaceNo(name))
    BY <1>1, <1>3, <1>7 DEF OutOfOrder
  <2> QED
    BY <2>1, <2>2, <1>4, <1>5, <1>7 DEF Adds
<1>8. CASE name # "other" /\ ~OutOfOrder(Max(place), s)
  <2> DEFINE r == [s EXCEPT !.expected = PlaceNo(name) + 1]
  <2>1. t = Section(r, body, i)
    BY <1>1, <1>2, <1>8
  <2>2. s.expected <= PlaceNo(name)
    BY <1>1, <1>3, <1>8 DEF OutOfOrder
  <2>3. r \in SectionState /\ r.expected = PlaceNo(name) + 1
    <3>1. PlaceNo(name) + 1 \in Nat
      BY <1>1, <1>8
    <3> QED
      BY <3>1 DEF SectionState
  <2>4. /\ r.problems = s.problems /\ r.tldr = s.tldr /\ r.pitfalls = s.pitfalls
        /\ r.deep_dive = s.deep_dive /\ r.found_tldr = s.found_tldr
    BY DEF SectionState
  <2> HIDE DEF r
  <2>5. name \in Names \ {"other"}
    BY <1>8
  <2>6. /\ t \in SectionState
        /\ t.problems = {} <=> r.problems = {} /\ WellMade(body, i)
        /\ t.expected = r.expected
        /\ t.found_tldr = (r.found_tldr \/ body[i] = TLDR)
        /\ t.tldr = IF body[i] = TLDR THEN SectionText(body, i) ELSE r.tldr
        /\ t.pitfalls = IF body[i] = PITFALLS THEN SectionText(body, i) ELSE r.pitfalls
        /\ t.deep_dive = IF body[i] = DEEP_DIVE THEN DeepDive(body, i) ELSE r.deep_dive
    BY <2>1, <2>3, <2>5, SectionIs
  <2> HIDE DEF t
  <2> QED
    BY <1>8, <2>2, <2>3, <2>4, <2>6 DEF Adds
<1> QED
  BY <1>6, <1>7, <1>8

LEMMA SectionsAfterIs ==
  ASSUME NEW body \in Seq(Lines), NEW after, after = SectionsAfter(body)
  PROVE  /\ after[0] = NoSections
         /\ \A i \in 1..Len(body) :
              after[i] = IF body[i] \in Names THEN AddSection(after[i - 1], body, i) ELSE after[i - 1]
<1> DEFINE n == Len(body)
           D == 0..n
           Next1(i, s) == IF body[i] \in Names THEN AddSection(s, body, i) ELSE s
           At1(d, i) == IF i = 0 THEN NoSections
                        ELSE LET s == d[i - 1]
                             IN  IF body[i] \in Names THEN AddSection(s, body, i) ELSE s
           step == [y \in (1..n) \X SectionState |-> Next1(y[1], y[2])]
<1>1. n \in Nat /\ 0 \in D /\ n \in D /\ \A i \in 1..n : i \in D /\ i - 1 \in D /\ i # 0
  OBVIOUS
<1>2. NoSections \in SectionState
  BY DEF NoSections, SectionState
<1>3. \A i \in 1..n, s \in SectionState : Next1(i, s) \in SectionState
  <2> SUFFICES ASSUME NEW i \in 1..n, NEW s \in SectionState, body[i] \in Names
               PROVE  AddSection(s, body, i) \in SectionState
    OBVIOUS
  <2>1. Adds(body, i, s, AddSection(s, body, i))
    BY AddIs
  <2> QED
    BY <2>1 DEF Adds
<1>4. \A d : At1(d, 0) = NoSections /\ \A i \in 1..n : At1(d, i) = Next1(i, d[i - 1])
  BY <1>1
<1> HIDE DEF Next1
<1>5. \A i \in 1..n, s \in SectionState : step[<<i, s>>] = Next1(i, s)
  BY <1>3
<1>6. \A i \in 1..n, s \in SectionState : step[<<i, s>>] \in SectionState
  <2> HIDE DEF step
  <2> QED
    BY <1>3, <1>5
<1> HIDE DEF step
<1>7. PICK f \in [D -> SectionState] : f[0] = NoSections /\ \A i \in 1..n : f[i] = step[<<i, f[i - 1]>>]
  <2>1. LoopOf(n, SectionState, NoSections, step)
    BY <1>1, <1>2, <1>6, LoopIs
  <2> QED
    BY <2>1 DEF LoopOf
<1>8. \A i \in D : f[i] = At1(f, i)
  <2>1. \A i \in 1..n : f[i] = At1(f, i)
    <3>1. \A i \in 1..n : f[i - 1] \in SectionState
      BY <1>1, <1>7
    <3> HIDE DEF At1
    <3> QED
      BY <1>4, <1>5, <1>7, <3>1
  <2>2. \A i \in D : i = 0 \/ i \in 1..n
    BY <1>1
  <2> HIDE DEF At1
  <2> QED
    BY <1>4, <1>7, <2>1, <2>2
<1> DEFINE d == CHOOSE d : d = [i \in D |-> At1(d, i)]
<1>9. f = [i \in D |-> At1(f, i)]
  <2> HIDE DEF At1, D
  <2> QED
    BY <1>8
<1>10. d = [i \in D |-> At1(d, i)]
  BY <1>9
<1>11. after = d
  BY DEF SectionsAfter
<1> HIDE DEF d
<1>12. \A i \in D : d[i] = At1(d, i)
  <2> HIDE DEF At1, D
  <2> QED
    BY <1>10
<1>13. d[0] = NoSections /\ \A i \in 1..n : d[i] = Next1(i, d[i - 1])
  <2> HIDE DEF At1
  <2> QED
    BY <1>1, <1>4, <1>12
<1> QED
  BY <1>11, <1>13 DEF Next1

\* The sections up to a line come in their order, each well made.
InOrder(body, i) ==
  /\ \A k \in 1..i : body[k] \in Names => body[k] # "other" /\ WellMade(body, k)
  /\ \A j, k \in 1..i : j < k /\ body[j] \in Names /\ body[k] \in Names =>
       PlaceNo(body[j]) < PlaceNo(body[k])

\* What has been read by then, if nothing is wrong: the expected section is
\* the one after the last.
SoFar(body, s, i) ==
  /\ s \in SectionState
  /\ s.problems = {} <=> InOrder(body, i)
  /\ s.problems = {} =>
       /\ \A k \in 1..i : body[k] \in Names => PlaceNo(body[k]) < s.expected
       /\ s.expected <= 1 \/ \E k \in 1..i : body[k] \in Names /\ s.expected = PlaceNo(body[k]) + 1
       /\ s.found_tldr <=> \E k \in 1..i : body[k] = TLDR
       /\ \A k \in 1..i : body[k] = TLDR => s.tldr = SectionText(body, k)
       /\ \A k \in 1..i : body[k] = PITFALLS => s.pitfalls = SectionText(body, k)
       /\ (\A k \in 1..i : body[k] # PITFALLS) => s.pitfalls = {}
       /\ \A k \in 1..i : body[k] = DEEP_DIVE => s.deep_dive = DeepDive(body, k)
       /\ (\A k \in 1..i : body[k] # DEEP_DIVE) => s.deep_dive = {}

LEMMA LineRead ==
  ASSUME NEW body \in Seq(Lines), NEW i \in DOMAIN body, NEW s, SoFar(body, s, i - 1), NEW t,
         t = IF body[i] \in Names THEN AddSection(s, body, i) ELSE s
  PROVE  SoFar(body, t, i)
<1>1. /\ i \in 1..Len(body) /\ i \in 1..i /\ 1..(i - 1) \subseteq 1..i
      /\ \A k \in 1..i : k = i \/ k \in 1..(i - 1)
      /\ \A k \in 1..(i - 1) : k < i /\ ~(i < k)
      /\ ~(i < i)
  OBVIOUS
<1>2. TLDR \in Names /\ PITFALLS \in Names /\ DEEP_DIVE \in Names
  BY DEF Names
<1>3. CASE body[i] \notin Names
  <2>1. t = s
    BY <1>3
  <2>2. InOrder(body, i) <=> InOrder(body, i - 1)
    BY <1>1, <1>3 DEF InOrder
  <2>3. body[i] # TLDR /\ body[i] # PITFALLS /\ body[i] # DEEP_DIVE
    BY <1>2, <1>3
  <2> QED
    BY <2>1, <2>2, <2>3, <1>1, <1>3 DEF SoFar
<1>4. CASE body[i] \in Names
  <2> DEFINE name == body[i]
  <2>1. s \in SectionState /\ Adds(body, i, s, t)
    BY <1>4, AddIs DEF SoFar
  <2>2. s.problems = {} <=> InOrder(body, i - 1)
    BY DEF SoFar
  <2>3. /\ s.expected \in Nat
        /\ \A k \in 1..i : body[k] \in Names /\ body[k] # "other" => PlaceNo(body[k]) \in 1..3
    <3>1. \A m \in Names : m # "other" => PlaceNo(m) \in 1..3
      BY PlaceRanks
    <3> QED
      BY <2>1, <3>1 DEF SectionState
  <2>4. /\ t \in SectionState
        /\ t.problems = {} <=> /\ s.problems = {} /\ name # "other"
                               /\ s.expected <= PlaceNo(name) /\ WellMade(body, i)
    BY <2>1 DEF Adds
  <2>5. ASSUME t.problems = {} PROVE InOrder(body, i)
    <3>1. /\ InOrder(body, i - 1) /\ name # "other" /\ s.expected <= PlaceNo(name) /\ WellMade(body, i)
      BY <2>2, <2>4, <2>5
    <3>2. \A k \in 1..(i - 1) : body[k] \in Names => PlaceNo(body[k]) < s.expected
      BY <2>4, <2>5 DEF SoFar
    <3>3. \A k \in 1..(i - 1) : body[k] \in Names => body[k] # "other" /\ PlaceNo(body[k]) \in 1..3
      BY <1>1, <2>3, <3>1 DEF InOrder
    <3>4. PlaceNo(name) \in 1..3
      BY <1>1, <1>4, <2>3, <3>1
    <3>5. \A k \in 1..(i - 1) : body[k] \in Names => PlaceNo(body[k]) < PlaceNo(name)
      BY <2>3, <3>1, <3>2, <3>3, <3>4
    <3> QED
      BY <1>1, <3>1, <3>5 DEF InOrder
  <2>6. ASSUME InOrder(body, i) PROVE t.problems = {}
    <3>1. InOrder(body, i - 1) /\ name # "other" /\ WellMade(body, i)
      BY <1>1, <1>4, <2>6 DEF InOrder
    <3>2. s.expected <= 1 \/ \E k \in 1..(i - 1) : body[k] \in Names /\ s.expected = PlaceNo(body[k]) + 1
      BY <2>2, <3>1 DEF SoFar
    <3>3. PlaceNo(name) \in 1..3
      BY <1>1, <1>4, <2>3, <3>1
    <3>4. s.expected <= PlaceNo(name)
      <4>1. CASE s.expected <= 1
        BY <4>1, <2>3, <3>3
      <4>2. ASSUME NEW k \in 1..(i - 1), body[k] \in Names, s.expected = PlaceNo(body[k]) + 1
            PROVE  s.expected <= PlaceNo(name)
        <5>1. PlaceNo(body[k]) < PlaceNo(name)
          BY <1>1, <1>4, <2>6, <4>2 DEF InOrder
        <5>2. PlaceNo(body[k]) \in 1..3
          BY <1>1, <2>3, <2>6, <4>2 DEF InOrder
        <5> QED
          BY <5>1, <5>2, <3>3, <4>2
      <4> QED
        BY <3>2, <4>1, <4>2
    <3> QED
      BY <2>2, <2>4, <3>1, <3>4
  <2>7. ASSUME t.problems = {}
        PROVE  /\ \A k \in 1..i : body[k] \in Names => PlaceNo(body[k]) < t.expected
               /\ t.expected <= 1 \/ \E k \in 1..i : body[k] \in Names /\ t.expected = PlaceNo(body[k]) + 1
               /\ t.found_tldr <=> \E k \in 1..i : body[k] = TLDR
               /\ \A k \in 1..i : body[k] = TLDR => t.tldr = SectionText(body, k)
               /\ \A k \in 1..i : body[k] = PITFALLS => t.pitfalls = SectionText(body, k)
               /\ (\A k \in 1..i : body[k] # PITFALLS) => t.pitfalls = {}
               /\ \A k \in 1..i : body[k] = DEEP_DIVE => t.deep_dive = DeepDive(body, k)
               /\ (\A k \in 1..i : body[k] # DEEP_DIVE) => t.deep_dive = {}
    <3>1. InOrder(body, i) /\ s.problems = {} /\ name # "other"
      BY <2>4, <2>5, <2>7
    <3>2. /\ t.expected = PlaceNo(name) + 1
          /\ t.found_tldr = (s.found_tldr \/ name = TLDR)
          /\ t.tldr = IF name = TLDR THEN SectionText(body, i) ELSE s.tldr
          /\ t.pitfalls = IF name = PITFALLS THEN SectionText(body, i) ELSE s.pitfalls
          /\ t.deep_dive = IF name = DEEP_DIVE THEN DeepDive(body, i) ELSE s.deep_dive
      BY <2>1, <2>7 DEF Adds
    <3>3. \A k \in 1..(i - 1) : body[k] \in Names => PlaceNo(body[k]) < PlaceNo(name)
      BY <1>1, <1>4, <3>1 DEF InOrder
    <3>4. \A k \in 1..i : body[k] \in Names => PlaceNo(body[k]) \in 1..3
      BY <2>3, <3>1 DEF InOrder
    <3>5. \A k \in 1..(i - 1) : body[k] \in Names => body[k] # name
      BY <1>1, <1>4, <3>3, <3>4
    <3>6. \A k \in 1..i : body[k] \in Names => PlaceNo(body[k]) < t.expected
      <4>1. PlaceNo(name) < t.expected
        BY <1>1, <1>4, <3>2, <3>4
      <4>2. \A k \in 1..(i - 1) : body[k] \in Names => PlaceNo(body[k]) < t.expected
        BY <1>1, <1>4, <3>2, <3>3, <3>4
      <4> QED
        BY <1>1, <4>1, <4>2
    <3>7. \E k \in 1..i : body[k] \in Names /\ t.expected = PlaceNo(body[k]) + 1
      BY <1>1, <1>4, <3>2
    <3>8. /\ s.found_tldr <=> \E k \in 1..(i - 1) : body[k] = TLDR
          /\ \A k \in 1..(i - 1) : body[k] = TLDR => s.tldr = SectionText(body, k)
          /\ \A k \in 1..(i - 1) : body[k] = PITFALLS => s.pitfalls = SectionText(body, k)
          /\ (\A k \in 1..(i - 1) : body[k] # PITFALLS) => s.pitfalls = {}
          /\ \A k \in 1..(i - 1) : body[k] = DEEP_DIVE => s.deep_dive = DeepDive(body, k)
          /\ (\A k \in 1..(i - 1) : body[k] # DEEP_DIVE) => s.deep_dive = {}
      BY <3>1 DEF SoFar
    <3>9. t.found_tldr <=> \E k \in 1..i : body[k] = TLDR
      BY <1>1, <3>2, <3>8
    <3>10. \A k \in 1..i : body[k] = TLDR => t.tldr = SectionText(body, k)
      BY <1>1, <1>2, <3>2, <3>5, <3>8
    <3>11. /\ \A k \in 1..i : body[k] = PITFALLS => t.pitfalls = SectionText(body, k)
           /\ (\A k \in 1..i : body[k] # PITFALLS) => t.pitfalls = {}
      BY <1>1, <1>2, <3>2, <3>5, <3>8
    <3>12. /\ \A k \in 1..i : body[k] = DEEP_DIVE => t.deep_dive = DeepDive(body, k)
           /\ (\A k \in 1..i : body[k] # DEEP_DIVE) => t.deep_dive = {}
      BY <1>1, <1>2, <3>2, <3>5, <3>8
    <3> QED
      BY <3>6, <3>7, <3>9, <3>10, <3>11, <3>12
  <2> QED
    BY <2>4, <2>5, <2>6, <2>7 DEF SoFar
<1> QED
  BY <1>3, <1>4

LEMMA AllRead ==
  ASSUME NEW body \in Seq(Lines)
  PROVE  SoFar(body, SectionsAfter(body)[Len(body)], Len(body))
<1> DEFINE n == Len(body)
           after == SectionsAfter(body)
           T == {i \in 0..n : SoFar(body, after[i], i)}
<1>1. n \in Nat /\ n \in 0..n /\ 0 \in 0..n /\ \A i \in 1..n : i \in 0..n /\ i \in DOMAIN body
  OBVIOUS
<1>2. /\ after[0] = NoSections
      /\ \A i \in 1..n :
           after[i] = IF body[i] \in Names THEN AddSection(after[i - 1], body, i) ELSE after[i - 1]
  BY SectionsAfterIs
<1> HIDE DEF after
<1>3. 0 \in T
  <2>1. NoSections \in SectionState
    BY DEF NoSections, SectionState
  <2>2. \A k \in 1..0 : FALSE
    OBVIOUS
  <2>3. InOrder(body, 0)
    BY <2>2 DEF InOrder
  <2>4. SoFar(body, NoSections, 0)
    BY <2>1, <2>2, <2>3 DEF SoFar, NoSections
  <2> QED
    BY <1>1, <1>2, <2>4
<1>4. \A i \in 1..n : i - 1 \in T => i \in T
  <2> SUFFICES ASSUME NEW i \in 1..n, SoFar(body, after[i - 1], i - 1)
               PROVE  SoFar(body, after[i], i)
    BY <1>1
  <2>1. i \in DOMAIN body
    BY <1>1
  <2>2. after[i] = IF body[i] \in Names THEN AddSection(after[i - 1], body, i) ELSE after[i - 1]
    BY <1>2
  <2> QED
    BY <2>1, <2>2, LineRead
<1>5. \A i \in 0..n : i \in T
  <2> HIDE DEF T
  <2> QED
    BY <1>1, <1>3, <1>4, Upward
<1> QED
  BY <1>1, <1>5 DEF after

LEMMA LinesAre ==
  ASSUME NEW l \in Lines
  PROVE  /\ l \notin HeadingLines <=> l \in {"text", "blank"}
         /\ l \in Names => l \in HeadingLines /\ l # "heading" /\ l # "question"
         /\ l \in HeadingLines => l \in Names \/ l = "question" \/ l = "heading"
         /\ l \notin HeadingLines /\ l # "text" => l = "blank"
<1>1. l \in {TLDR, PITFALLS, DEEP_DIVE, "other", "question", "heading", "text", "blank"}
  BY DEF Lines, HeadingLines, Names
<1> QED
  BY <1>1 DEF HeadingLines, Names, TLDR, PITFALLS, DEEP_DIVE

LEMMA TextFinite ==
  ASSUME NEW body \in Seq(Lines), NEW from \in Nat, NEW to \in Nat
  PROVE  /\ Cardinality(TextIn(body, from, to)) \in Nat
         /\ Cardinality(TextIn(body, from, to)) = 0 <=> TextIn(body, from, to) = {}
<1> DEFINE S == TextIn(body, from, to)
<1>1. S \subseteq from..(to - 1)
  BY DEF TextIn
<1>2. IsFiniteSet(from..(to - 1))
  <2>1. from \in Int /\ to - 1 \in Int
    OBVIOUS
  <2> QED
    BY <2>1, FS_Interval
<1> HIDE DEF S
<1>3. IsFiniteSet(S)
  BY <1>1, <1>2, FS_Subset
<1>4. Cardinality(S) \in Nat /\ (Cardinality(S) = 0 <=> S = {})
  BY <1>3, FS_CardinalityType, FS_EmptySet
<1> QED
  BY <1>4 DEF S

\* What a section has to be.
LEMMA WellMadeIs ==
  ASSUME NEW body \in Seq(Lines), NEW k \in DOMAIN body,
         NEW end, end = SectionEnd(body, k)
  PROVE  /\ end \in (k + 1)..(Len(body) + 1)
         /\ body[k] = TLDR =>
              (WellMade(body, k) <=>
                 /\ AllOf(body, {"text", "blank"}, k + 1, end - 1)
                 /\ Cardinality(TextIn(body, k + 1, end)) \in 1..TLDR_MAX_LINES)
         /\ body[k] = PITFALLS =>
              (WellMade(body, k) <=>
                 /\ AllOf(body, {"text", "blank"}, k + 1, end - 1)
                 /\ TextIn(body, k + 1, end) # {})
         /\ body[k] = DEEP_DIVE =>
              (WellMade(body, k) <=>
                 \E q \in (k + 1)..(end - 1) :
                   body[q] \in HeadingLines /\ AllOf(body, {"blank"}, k + 1, q - 1))
<1> DEFINE Q == QuestionsIn(body, k)
           X == TextIn(body, k + 1, end)
<1>1. k \in 1..Len(body) /\ Len(body) \in Nat /\ k + 1 \in 1..(Len(body) + 1)
  OBVIOUS
<1>2. end \in (k + 1)..(Len(body) + 1)
  BY <1>1, NextIs DEF SectionEnd, IsNext
<1>3. end \in Nat /\ k + 1 \in Nat
  BY <1>1, <1>2
<1>4. Q = {j \in (k + 1)..(end - 1) : body[j] \in HeadingLines} /\ X = SectionText(body, k)
  BY DEF QuestionsIn, SectionText
<1>5. \A j \in (k + 1)..(end - 1) : j \in 1..Len(body) /\ body[j] \in Lines
  <2>1. \A j \in (k + 1)..(end - 1) : j \in 1..Len(body)
    BY <1>1, <1>2
  <2> QED
    BY <2>1
<1>6. Cardinality(X) \in Nat /\ (Cardinality(X) = 0 <=> X = {})
  BY <1>3, TextFinite
<1>7. Q = {} <=> AllOf(body, {"text", "blank"}, k + 1, end - 1)
  BY <1>4, <1>5, LinesAre DEF AllOf
<1>8. Misplaced(body, k) = {} <=> Q = {}
  BY DEF Misplaced
<1>9. EmptySection(body, k) = {} <=> ~(X = {} /\ Q = {})
  BY <1>4 DEF EmptySection
<1>10. Q = {} => (LongSection(body, k) = {} <=> Cardinality(X) <= TLDR_MAX_LINES)
  <2> SUFFICES ASSUME Q = {} PROVE LongSection(body, k) = {} <=> Cardinality(X) <= TLDR_MAX_LINES
    OBVIOUS
  <2>1. Cardinality(Q) = 0
    BY FS_EmptySet
  <2>2. LongSection(body, k) = IF Cardinality(X) + Cardinality(Q) > TLDR_MAX_LINES THEN {"long"} ELSE {}
    BY <1>4 DEF LongSection
  <2> HIDE DEF X, Q
  <2>3. Cardinality(X) + Cardinality(Q) > TLDR_MAX_LINES <=> ~(Cardinality(X) <= TLDR_MAX_LINES)
    BY <1>6, <2>1, LimitAssumption
  <2> QED
    BY <2>2, <2>3
<1>11. Cardinality(X) \in 1..TLDR_MAX_LINES <=> X # {} /\ Cardinality(X) <= TLDR_MAX_LINES
  <2> HIDE DEF X
  <2> QED
    BY <1>6, LimitAssumption
<1>12. TLDR # PITFALLS /\ TLDR # DEEP_DIVE /\ PITFALLS # DEEP_DIVE
  BY DEF TLDR, PITFALLS, DEEP_DIVE
<1>13. DeepDiveProblems(body, k) = {} <=>
         \E q \in (k + 1)..(end - 1) : body[q] \in HeadingLines /\ AllOf(body, {"blank"}, k + 1, q - 1)
  <2> DEFINE intro == Min(Q \cup {end})
  <2>1. DeepDiveProblems(body, k) = {} <=> TextIn(body, k + 1, intro) = {} /\ Q # {}
    BY DEF DeepDiveProblems
  <2>2. intro \in Q \cup {end} /\ \A x \in Q \cup {end} : intro <= x
    <3>1. Q \cup {end} \subseteq Nat /\ Q \cup {end} # {}
      BY <1>3, <1>4, <1>5
    <3> HIDE DEF Q
    <3> QED
      BY <3>1, MinOf
  <2> HIDE DEF intro
  <2>3. ASSUME TextIn(body, k + 1, intro) = {}, Q # {}
        PROVE  /\ intro \in (k + 1)..(end - 1) /\ body[intro] \in HeadingLines
               /\ AllOf(body, {"blank"}, k + 1, intro - 1)
    <3>1. PICK q \in (k + 1)..(end - 1) : q \in Q
      BY <1>4, <2>3
    <3>2. intro <= q
      BY <2>2, <3>1
    <3>3. intro # end
      BY <1>3, <3>1, <3>2
    <3>4. intro \in Q
      BY <2>2, <3>3
    <3>5. \A j \in (k + 1)..(intro - 1) : j \in (k + 1)..(end - 1) /\ ~(intro <= j)
      BY <1>3, <3>4, <1>4
    <3>6. \A j \in (k + 1)..(intro - 1) : body[j] \notin HeadingLines /\ body[j] # "text"
      BY <2>2, <2>3, <3>5, <1>4 DEF TextIn
    <3>7. \A j \in (k + 1)..(intro - 1) : body[j] = "blank"
      BY <1>5, <3>5, <3>6, LinesAre
    <3> QED
      BY <1>4, <3>4, <3>7 DEF AllOf
  <2>4. ASSUME NEW q \in (k + 1)..(end - 1), body[q] \in HeadingLines, AllOf(body, {"blank"}, k + 1, q - 1)
        PROVE  TextIn(body, k + 1, intro) = {} /\ Q # {}
    <3>1. q \in Q
      BY <1>4, <2>4
    <3>2. intro <= q /\ intro \in Nat
      BY <2>2, <3>1, <1>3, <1>4
    <3>3. \A j \in (k + 1)..(intro - 1) : j \in (k + 1)..(q - 1)
      BY <1>3, <3>2
    <3>4. \A j \in (k + 1)..(intro - 1) : body[j] # "text"
      BY <2>4, <3>3 DEF AllOf
    <3> QED
      BY <3>1, <3>4 DEF TextIn
  <2> QED
    BY <2>1, <2>3, <2>4
<1>14. body[k] = TLDR =>
         (WellMade(body, k) <=>
            Misplaced(body, k) = {} /\ EmptySection(body, k) = {} /\ LongSection(body, k) = {})
  BY <1>12 DEF WellMade
<1>15. body[k] = PITFALLS =>
         (WellMade(body, k) <=> Misplaced(body, k) = {} /\ EmptySection(body, k) = {})
  BY <1>12 DEF WellMade
<1>16. body[k] = DEEP_DIVE => (WellMade(body, k) <=> DeepDiveProblems(body, k) = {})
  BY <1>12 DEF WellMade
<1> HIDE DEF Q, X
<1>17. body[k] = TLDR => (WellMade(body, k) <=> AllOf(body, {"text", "blank"}, k + 1, end - 1)
                                                /\ Cardinality(X) \in 1..TLDR_MAX_LINES)
  BY <1>7, <1>8, <1>9, <1>10, <1>11, <1>14
<1>18. body[k] = PITFALLS =>
         (WellMade(body, k) <=> AllOf(body, {"text", "blank"}, k + 1, end - 1) /\ X # {})
  BY <1>7, <1>8, <1>9, <1>15
<1> QED
  BY <1>2, <1>13, <1>16, <1>17, <1>18 DEF X

\* A body by the rules: its TL;DR, its pitfalls and its questions.
Shape(body, t, p, d) ==
  /\ t \in DOMAIN body /\ p \in 1..(Len(body) + 1) /\ d \in 1..(Len(body) + 1)
  /\ t < p /\ p <= d
  /\ AllOf(body, {"blank"}, 1, t - 1)
  /\ body[t] = TLDR
  /\ AllOf(body, {"text", "blank"}, t + 1, p - 1)
  /\ Cardinality(TextIn(body, t + 1, p)) \in 1..TLDR_MAX_LINES
  /\ p < d => /\ body[p] = PITFALLS
              /\ AllOf(body, {"text", "blank"}, p + 1, d - 1)
              /\ TextIn(body, p + 1, d) # {}
  /\ d \in DOMAIN body =>
       /\ body[d] = DEEP_DIVE
       /\ \E q \in (d + 1)..Len(body) :
            /\ AllOf(body, {"blank"}, d + 1, q - 1)
            /\ body[q] = "question"
            /\ AllOf(body, {"question", "text", "blank"}, q + 1, Len(body))

\* The lines of each part, and where its section ends.
Parts(body, t, p, d) ==
  /\ \A k \in 1..Len(body) : k < t \/ k = t \/ k \in (t + 1)..(p - 1) \/ (k = p /\ p < d)
                             \/ (p < d /\ k \in (p + 1)..(d - 1)) \/ k = d \/ k > d
  /\ \A k \in 1..Len(body) : k < t => body[k] = "blank"
  /\ body[t] = TLDR
  /\ \A k \in (t + 1)..(p - 1) : body[k] \in {"text", "blank"}
  /\ p < d => body[p] = PITFALLS /\ \A k \in (p + 1)..(d - 1) : body[k] \in {"text", "blank"}
  /\ d <= Len(body) => body[d] = DEEP_DIVE
  /\ \A k \in 1..Len(body) : k > d => body[k] \in {"question", "text", "blank"}
  /\ SectionEnd(body, t) = p
  /\ p < d => SectionEnd(body, p) = d
  /\ d <= Len(body) => SectionEnd(body, d) = Len(body) + 1

LEMMA PartsAre ==
  ASSUME NEW body \in Seq(Lines), NEW t, NEW p, NEW d, Shape(body, t, p, d)
  PROVE  Parts(body, t, p, d)
<1> DEFINE n == Len(body)
<1>1. /\ n \in Nat /\ DOMAIN body = 1..n
      /\ t \in 1..n /\ p \in 1..(n + 1) /\ d \in 1..(n + 1) /\ t < p /\ p <= d
  BY DEF Shape
<1>2. \A k \in 1..n : k < t \/ k = t \/ k \in (t + 1)..(p - 1) \/ (k = p /\ p < d)
                      \/ (p < d /\ k \in (p + 1)..(d - 1)) \/ k = d \/ k > d
  BY <1>1
<1>3. \A k \in 1..n : k < t => body[k] = "blank"
  <2>1. \A k \in 1..n : k < t => k \in 1..(t - 1)
    BY <1>1
  <2> QED
    BY <2>1 DEF Shape, AllOf
<1>4. \A k \in (t + 1)..(p - 1) : body[k] \in {"text", "blank"}
  BY DEF Shape, AllOf
<1>5. p < d => body[p] = PITFALLS /\ \A k \in (p + 1)..(d - 1) : body[k] \in {"text", "blank"}
  BY DEF Shape, AllOf
<1>6. d <= n => body[d] = DEEP_DIVE
  BY <1>1 DEF Shape
<1>7. \A k \in 1..n : k > d => body[k] \in {"question", "text", "blank"}
  <2> SUFFICES ASSUME NEW k \in 1..n, k > d PROVE body[k] \in {"question", "text", "blank"}
    OBVIOUS
  <2>1. d \in DOMAIN body
    BY <1>1
  <2>2. PICK q \in (d + 1)..n : /\ AllOf(body, {"blank"}, d + 1, q - 1)
                               /\ body[q] = "question"
                               /\ AllOf(body, {"question", "text", "blank"}, q + 1, n)
    BY <2>1 DEF Shape
  <2>3. k \in (d + 1)..(q - 1) \/ k = q \/ k \in (q + 1)..n
    BY <1>1
  <2> QED
    BY <2>2, <2>3 DEF AllOf
<1>8. TLDR \in Names /\ PITFALLS \in Names /\ DEEP_DIVE \in Names
  BY DEF Names
<1>9. "text" \notin Names /\ "blank" \notin Names /\ "question" \notin Names
  BY DEF Names, TLDR, PITFALLS, DEEP_DIVE
<1>10. SectionEnd(body, t) = p
  <2>1. p <= n => body[p] \in Names
    <3>1. p <= n => p < d \/ (p = d /\ d <= n)
      BY <1>1
    <3> QED
      BY <3>1, <1>5, <1>6, <1>8
  <2>2. p \in (t + 1)..(n + 1) /\ t + 1 \in 1..(n + 1)
    BY <1>1
  <2>3. IsNext(body, Names, t + 1, p)
    BY <2>1, <2>2, <1>4, <1>9 DEF IsNext
  <2> QED
    BY <2>2, <2>3, NextIs DEF SectionEnd
<1>11. ASSUME p < d PROVE SectionEnd(body, p) = d
  <2>1. d <= n => body[d] \in Names
    BY <1>6, <1>8
  <2>2. d \in (p + 1)..(n + 1) /\ p + 1 \in 1..(n + 1)
    BY <1>1, <1>11
  <2>3. IsNext(body, Names, p + 1, d)
    BY <2>1, <2>2, <1>5, <1>9, <1>11 DEF IsNext
  <2> QED
    BY <2>2, <2>3, NextIs DEF SectionEnd
<1>12. ASSUME d <= n PROVE SectionEnd(body, d) = n + 1
  <2>1. n + 1 \in (d + 1)..(n + 1) /\ d + 1 \in 1..(n + 1) /\ ~(n + 1 <= n)
    BY <1>1, <1>12
  <2>2. \A k \in (d + 1)..(n + 1 - 1) : k \in 1..n /\ k > d
    BY <1>1
  <2>3. IsNext(body, Names, d + 1, n + 1)
    BY <2>1, <2>2, <1>7, <1>9 DEF IsNext
  <2> QED
    BY <2>1, <2>3, NextIs DEF SectionEnd
<1>13. body[t] = TLDR
  BY DEF Shape
<1> QED
  BY <1>2, <1>3, <1>4, <1>5, <1>6, <1>7, <1>10, <1>11, <1>12, <1>13 DEF Parts

\* What is wrong, and what is read.
LEMMA CardIs ==
  ASSUME NEW body \in Seq(Lines),
         NEW s, s = SectionsAfter(body)[Len(body)], NEW c, c = CardSections(body)
  PROVE  /\ c.problems = {} <=> /\ InOrder(body, Len(body))
                                /\ \E k \in 1..Len(body) : body[k] = TLDR
                                /\ \A k \in 1..Len(body) : body[k] # "heading"
                                /\ TextIn(body, 1, NextOf(body, HeadingLines, 1)) = {}
         /\ c.problems = {} => s.problems = {}
         /\ c.tldr = s.tldr /\ c.pitfalls = s.pitfalls /\ c.deep_dive = s.deep_dive
<1> DEFINE before == TextIn(body, 1, NextOf(body, HeadingLines, 1))
           levels == {k \in DOMAIN body : body[k] = "heading"}
           more == (IF levels # {} THEN {"level"} ELSE {})
                     \cup (IF before # {} THEN {"text before"} ELSE {})
                     \cup (IF s.found_tldr THEN {} ELSE {"missing"})
<1>1. SoFar(body, s, Len(body))
  BY AllRead
<1>2. c = [s EXCEPT !.problems = @ \cup (IF levels # {} THEN {"level"} ELSE {})
                                   \cup (IF before # {} THEN {"text before"} ELSE {})
                                   \cup (IF s.found_tldr THEN {} ELSE {"missing"})]
  BY DEF CardSections
<1>3. more = {} <=> levels = {} /\ before = {} /\ s.found_tldr
  <2>1. s.found_tldr \in BOOLEAN
    BY <1>1 DEF SoFar, SectionState
  <2> HIDE DEF levels, before
  <2> QED
    BY <2>1
<1>4. levels = {} <=> \A k \in 1..Len(body) : body[k] # "heading"
  OBVIOUS
<1>5. s \in SectionState
  BY <1>1 DEF SoFar
<1> HIDE DEF levels, before
<1>6. /\ c.problems = s.problems \cup more
      /\ c.tldr = s.tldr /\ c.pitfalls = s.pitfalls /\ c.deep_dive = s.deep_dive
  BY <1>2, <1>5 DEF SectionState
<1> HIDE DEF more
<1>7. c.problems = {} <=> s.problems = {} /\ more = {}
  BY <1>6
<1>8. s.problems = {} <=> InOrder(body, Len(body))
  BY <1>1 DEF SoFar
<1>9. s.problems = {} => (s.found_tldr <=> \E k \in 1..Len(body) : body[k] = TLDR)
  BY <1>1 DEF SoFar
<1> QED
  BY <1>3, <1>4, <1>6, <1>7, <1>8, <1>9 DEF before

\* A body by the rules is accepted.
LEMMA ByTheRules ==
  ASSUME NEW body \in Seq(Lines), NEW t, NEW p, NEW d, Shape(body, t, p, d)
  PROVE  CardSections(body).problems = {}
<1> DEFINE n == Len(body)
           first == NextOf(body, HeadingLines, 1)
<1>1. /\ n \in Nat /\ DOMAIN body = 1..n
      /\ t \in 1..n /\ p \in 1..(n + 1) /\ d \in 1..(n + 1) /\ t < p /\ p <= d
  BY DEF Shape
<1>2. Parts(body, t, p, d)
  BY PartsAre
<1>3. /\ TLDR \notin {"text", "blank", "question", "heading", "other", PITFALLS, DEEP_DIVE}
      /\ PITFALLS \notin {"text", "blank", "question", "heading", "other", DEEP_DIVE}
      /\ DEEP_DIVE \notin {"text", "blank", "question", "heading", "other"}
  BY DEF TLDR, PITFALLS, DEEP_DIVE
<1>4. /\ \A l \in {"text", "blank", "question"} : l \notin Names /\ l # "heading"
      /\ "question" \in HeadingLines /\ TLDR \in HeadingLines
      /\ "text" \notin HeadingLines /\ "blank" \notin HeadingLines /\ "blank" # "text"
  BY DEF HeadingLines, Names, TLDR, PITFALLS, DEEP_DIVE
<1>5. \A k \in 1..n : \/ body[k] \in {"text", "blank", "question"}
                      \/ k = t \/ (k = p /\ p < d) \/ (k = d /\ d <= n)
  BY <1>1, <1>2 DEF Parts
<1>6. \A k \in 1..n : body[k] \in Names => k = t \/ (k = p /\ p < d) \/ (k = d /\ d <= n)
  BY <1>4, <1>5
<1>7. body[t] = TLDR /\ (p < d => body[p] = PITFALLS) /\ (d <= n => body[d] = DEEP_DIVE)
  BY <1>2 DEF Parts
<1>8. \A k \in 1..n : body[k] # "heading"
  BY <1>3, <1>4, <1>5, <1>7
<1>9. TextIn(body, 1, first) = {}
  <2>1. \A k \in 1..(t - 1) : k \in 1..n /\ k < t
    BY <1>1
  <2>2. \A k \in 1..(t - 1) : body[k] = "blank"
    BY <2>1, <1>2 DEF Parts
  <2>3. t \in 1..(n + 1) /\ 1 \in 1..(n + 1)
    BY <1>1
  <2>4. IsNext(body, HeadingLines, 1, t)
    BY <2>2, <2>3, <1>4, <1>7 DEF IsNext
  <2>5. first = t
    BY <2>3, <2>4, NextIs
  <2> HIDE DEF first
  <2> QED
    BY <2>2, <2>5, <1>4 DEF TextIn
<1>10. WellMade(body, t)
  <2>1. SectionEnd(body, t) = p
    BY <1>2 DEF Parts
  <2>2. /\ AllOf(body, {"text", "blank"}, t + 1, p - 1)
        /\ Cardinality(TextIn(body, t + 1, p)) \in 1..TLDR_MAX_LINES
    BY DEF Shape
  <2> QED
    BY <2>1, <2>2, <1>1, <1>7, WellMadeIs
<1>11. p < d => WellMade(body, p)
  <2> SUFFICES ASSUME p < d PROVE WellMade(body, p)
    OBVIOUS
  <2>1. SectionEnd(body, p) = d
    BY <1>2 DEF Parts
  <2>2. AllOf(body, {"text", "blank"}, p + 1, d - 1) /\ TextIn(body, p + 1, d) # {}
    BY DEF Shape
  <2>3. p \in DOMAIN body
    BY <1>1
  <2> QED
    BY <2>1, <2>2, <2>3, <1>7, WellMadeIs
<1>12. d <= n => WellMade(body, d)
  <2> SUFFICES ASSUME d <= n PROVE WellMade(body, d)
    OBVIOUS
  <2>1. SectionEnd(body, d) = n + 1
    BY <1>2 DEF Parts
  <2>2. d \in DOMAIN body
    BY <1>1
  <2>3. PICK q \in (d + 1)..n : AllOf(body, {"blank"}, d + 1, q - 1) /\ body[q] = "question"
    BY <2>2 DEF Shape
  <2>4. q \in (d + 1)..(n + 1 - 1)
    BY <1>1
  <2> QED
    BY <2>1, <2>2, <2>3, <2>4, <1>4, <1>7, WellMadeIs
<1>13. InOrder(body, n)
  <2>1. \A k \in 1..n : body[k] \in Names => body[k] # "other" /\ WellMade(body, k)
    BY <1>3, <1>6, <1>7, <1>10, <1>11, <1>12
  <2>2. PlaceNo(TLDR) = 1 /\ PlaceNo(PITFALLS) = 2 /\ PlaceNo(DEEP_DIVE) = 3
    BY <1>3 DEF PlaceNo
  <2>3. ASSUME NEW j \in 1..n, NEW k \in 1..n, j < k, body[j] \in Names, body[k] \in Names
        PROVE  PlaceNo(body[j]) < PlaceNo(body[k])
    <3>1. /\ j = t \/ (j = p /\ p < d) \/ (j = d /\ d <= n)
          /\ k = t \/ (k = p /\ p < d) \/ (k = d /\ d <= n)
      BY <1>6, <2>3
    <3>2. \/ (j = t /\ k = p /\ p < d) \/ (j = t /\ k = d /\ d <= n)
          \/ (j = p /\ p < d /\ k = d /\ d <= n)
      BY <1>1, <2>3, <3>1
    <3>3. 1 < 2 /\ 1 < 3 /\ 2 < 3
      OBVIOUS
    <3> QED
      BY <1>7, <2>2, <3>2, <3>3
  <2> QED
    BY <2>1, <2>3 DEF InOrder
<1> QED
  BY <1>1, <1>7, <1>8, <1>9, <1>13, CardIs

\* An accepted body that does not begin with a question is by the rules.
LEMMA OnlyByTheRules ==
  ASSUME NEW body \in Seq(Lines), HeadingFirst(body) # "question",
         CardSections(body).problems = {}
  PROVE  \E t, p, d : Shape(body, t, p, d)
<1> DEFINE n == Len(body)
           first == NextOf(body, HeadingLines, 1)
<1>1. n \in Nat /\ DOMAIN body = 1..n /\ \A k \in 1..n : body[k] \in Lines
  OBVIOUS
<1>2. /\ InOrder(body, n)
      /\ \E k \in 1..n : body[k] = TLDR
      /\ \A k \in 1..n : body[k] # "heading"
      /\ TextIn(body, 1, first) = {}
  BY CardIs
<1>3. PICK t \in 1..n : body[t] = TLDR
  BY <1>2
<1>4. /\ \A k \in 1..n : body[k] \in Names => WellMade(body, k) /\ body[k] \in {TLDR, PITFALLS, DEEP_DIVE}
      /\ \A j, k \in 1..n : j < k /\ body[j] \in Names /\ body[k] \in Names =>
           PlaceNo(body[j]) < PlaceNo(body[k])
  <2>1. \A k \in 1..n : body[k] \in Names => body[k] # "other" /\ WellMade(body, k)
    BY <1>2 DEF InOrder
  <2>2. \A j, k \in 1..n : j < k /\ body[j] \in Names /\ body[k] \in Names =>
          PlaceNo(body[j]) < PlaceNo(body[k])
    BY <1>2 DEF InOrder
  <2> QED
    BY <2>1, <2>2 DEF Names
<1>5. /\ PlaceNo(TLDR) = 1 /\ PlaceNo(PITFALLS) = 2 /\ PlaceNo(DEEP_DIVE) = 3
      /\ TLDR # PITFALLS /\ TLDR # DEEP_DIVE /\ PITFALLS # DEEP_DIVE
  BY DEF PlaceNo, TLDR, PITFALLS, DEEP_DIVE
<1>6. TLDR \in Names /\ PITFALLS \in Names /\ DEEP_DIVE \in Names
  BY DEF Names
\* After one of them only a later one can come.
<1>7. ASSUME NEW j \in 1..n, NEW k \in 1..n, j < k, body[j] \in Names, body[k] \in Names
      PROVE  \/ body[j] = TLDR /\ body[k] \in {PITFALLS, DEEP_DIVE}
             \/ body[j] = PITFALLS /\ body[k] = DEEP_DIVE
  <2>1. PlaceNo(body[j]) < PlaceNo(body[k])
    BY <1>4, <1>7
  <2>2. body[j] \in {TLDR, PITFALLS, DEEP_DIVE} /\ body[k] \in {TLDR, PITFALLS, DEEP_DIVE}
    BY <1>4, <1>7
  <2>3. ~(1 < 1) /\ ~(2 < 1) /\ ~(2 < 2) /\ ~(3 < 1) /\ ~(3 < 2) /\ ~(3 < 3)
    OBVIOUS
  <2> QED
    BY <1>5, <2>1, <2>2, <2>3
<1> HIDE DEF first
<1>8. first = t
  <2>1. 1 \in 1..(n + 1)
    BY <1>1
  <2>2. IsNext(body, HeadingLines, 1, first)
    BY <2>1, NextIs DEF first
  <2>3. TLDR \in HeadingLines
    BY <1>6 DEF HeadingLines
  <2>4. first \in 1..(n + 1) /\ \A k \in 1..(first - 1) : body[k] \notin HeadingLines
    BY <2>2 DEF IsNext
  <2>5. ~(t < first)
    <3>1. t < first => t \in 1..(first - 1)
      BY <1>1, <2>4
    <3> QED
      BY <2>3, <2>4, <3>1, <1>3
  <2>6. first \in 1..n /\ ~(first > n)
    BY <1>1, <2>4, <2>5
  <2>7. body[first] \in HeadingLines
    BY <2>2, <2>6, <1>1 DEF IsNext
  <2>8. body[first] # "question"
    <3>1. HeadingFirst(body) = IF first > n THEN "none" ELSE body[first]
      BY DEF HeadingFirst, first
    <3> QED
      BY <2>6, <3>1
  <2>9. body[first] \in Names
    BY <2>6, <2>7, <2>8, <1>1, <1>2, LinesAre
  <2>10. ~(first < t)
    <3>1. first < t => body[t] \in {PITFALLS, DEEP_DIVE}
      BY <2>6, <2>9, <1>3, <1>6, <1>7
    <3> QED
      BY <3>1, <1>3, <1>5
  <2> QED
    BY <1>1, <2>5, <2>6, <2>10
<1>9. AllOf(body, {"blank"}, 1, t - 1)
  <2>1. 1 \in 1..(n + 1)
    BY <1>1
  <2>2. \A k \in 1..(t - 1) : body[k] \notin HeadingLines
    BY <2>1, <1>8, NextIs DEF IsNext, first
  <2>3. \A k \in 1..(t - 1) : body[k] # "text"
    BY <1>2, <1>8 DEF TextIn
  <2>4. \A k \in 1..(t - 1) : k \in 1..n
    BY <1>1
  <2>5. \A k \in 1..(t - 1) : body[k] = "blank"
    BY <2>2, <2>3, <2>4, <1>1, LinesAre
  <2> QED
    BY <2>5 DEF AllOf
\* What is after a section: another one, or the end.
<1>10. ASSUME NEW k \in 1..n
       PROVE  LET e == SectionEnd(body, k)
              IN  /\ e \in (k + 1)..(n + 1)
                  /\ e <= n => body[e] \in Names
                  /\ \A j \in (k + 1)..(e - 1) : body[j] \notin Names
  <2>1. k + 1 \in 1..(n + 1)
    BY <1>1
  <2>2. IsNext(body, Names, k + 1, SectionEnd(body, k))
    BY <2>1, NextIs DEF SectionEnd
  <2> QED
    BY <2>2 DEF IsNext
<1> DEFINE p == SectionEnd(body, t)
           pit == p <= n /\ body[p] = PITFALLS
           d == IF pit THEN SectionEnd(body, p) ELSE p
<1>11. /\ p \in (t + 1)..(n + 1)
       /\ p <= n => body[p] \in Names
  BY <1>10
<1>12. /\ AllOf(body, {"text", "blank"}, t + 1, p - 1)
       /\ Cardinality(TextIn(body, t + 1, p)) \in 1..TLDR_MAX_LINES
  BY <1>1, <1>3, <1>4, <1>6, WellMadeIs
<1> HIDE DEF p
<1>13. p <= n => body[p] \in {PITFALLS, DEEP_DIVE}
  <2>1. p <= n => p \in 1..n /\ t < p
    BY <1>1, <1>11
  <2> QED
    BY <2>1, <1>3, <1>5, <1>6, <1>7, <1>11
<1>14. pit => /\ p \in 1..n /\ p < d /\ d \in (p + 1)..(n + 1)
              /\ d <= n => body[d] = DEEP_DIVE
              /\ AllOf(body, {"text", "blank"}, p + 1, d - 1)
              /\ TextIn(body, p + 1, d) # {}
  <2> SUFFICES ASSUME pit
               PROVE  /\ p \in 1..n /\ p < d /\ d \in (p + 1)..(n + 1)
                      /\ d <= n => body[d] = DEEP_DIVE
                      /\ AllOf(body, {"text", "blank"}, p + 1, d - 1)
                      /\ TextIn(body, p + 1, d) # {}
    OBVIOUS
  <2>1. p \in 1..n /\ d = SectionEnd(body, p) /\ body[p] = PITFALLS
    BY <1>1, <1>11
  <2> HIDE DEF d
  <2>2. d \in (p + 1)..(n + 1) /\ (d <= n => body[d] \in Names)
    BY <1>10, <2>1
  <2>3. p < d /\ (d <= n => d \in 1..n)
    BY <2>1, <2>2
  <2>4. d <= n => body[d] = DEEP_DIVE
    BY <1>5, <1>6, <1>7, <2>1, <2>2, <2>3
  <2>5. AllOf(body, {"text", "blank"}, p + 1, d - 1) /\ TextIn(body, p + 1, d) # {}
    BY <1>1, <1>4, <1>6, <2>1, WellMadeIs
  <2> QED
    BY <2>1, <2>2, <2>3, <2>4, <2>5
<1>15. ~pit => d = p /\ (d <= n => body[d] = DEEP_DIVE)
  BY <1>13
<1>16. p \in 1..(n + 1) /\ d \in 1..(n + 1) /\ t < p /\ p <= d /\ (p < d => pit)
  <2>1. p \in 1..(n + 1) /\ t < p
    BY <1>1, <1>11
  <2>2. pit => d \in 1..(n + 1) /\ p <= d
    <3> HIDE DEF d, pit
    <3> QED
      BY <1>1, <1>14
  <2>3. ~pit => d = p
    BY <1>15
  <2> HIDE DEF d, pit
  <2> QED
    BY <2>1, <2>2, <2>3
<1>17. d <= n => body[d] = DEEP_DIVE
  BY <1>14, <1>15
<1> HIDE DEF d
<1>18. ASSUME d \in DOMAIN body
       PROVE  \E q \in (d + 1)..n :
                /\ AllOf(body, {"blank"}, d + 1, q - 1)
                /\ body[q] = "question"
                /\ AllOf(body, {"question", "text", "blank"}, q + 1, n)
  <2>1. d \in 1..n /\ d <= n /\ body[d] = DEEP_DIVE
    BY <1>1, <1>17, <1>18
  <2> DEFINE e == SectionEnd(body, d)
  <2>2. /\ e \in (d + 1)..(n + 1) /\ (e <= n => body[e] \in Names)
        /\ \A j \in (d + 1)..(e - 1) : body[j] \notin Names
    BY <1>10, <2>1
  <2>3. \E q \in (d + 1)..(e - 1) : body[q] \in HeadingLines /\ AllOf(body, {"blank"}, d + 1, q - 1)
    BY <1>4, <1>6, <1>18, <2>1, WellMadeIs
  <2> HIDE DEF e
  <2>4. e = n + 1
    <3>1. e <= n => e \in 1..n /\ d < e
      BY <1>1, <2>1, <2>2
    <3>2. ~(e <= n)
      BY <3>1, <1>5, <1>6, <1>7, <2>1, <2>2
    <3> QED
      BY <1>1, <2>1, <2>2, <3>2
  <2>5. \A j \in (d + 1)..n : j \in 1..n /\ j \in (d + 1)..(e - 1)
    BY <1>1, <2>1, <2>4
  <2>6. \A j \in (d + 1)..n : body[j] \notin Names /\ body[j] # "heading"
    BY <1>2, <2>2, <2>5
  <2>7. PICK q \in (d + 1)..(e - 1) : body[q] \in HeadingLines /\ AllOf(body, {"blank"}, d + 1, q - 1)
    BY <2>3
  <2>8. q \in (d + 1)..n /\ q \in 1..n
    BY <1>1, <2>1, <2>4
  <2>9. body[q] = "question"
    BY <1>1, <2>6, <2>7, <2>8, LinesAre
  <2>10. \A j \in (q + 1)..n : j \in (d + 1)..n /\ j \in 1..n
    BY <1>1, <2>1, <2>8
  <2>11. \A j \in (q + 1)..n : body[j] \in {"question", "text", "blank"}
    BY <1>1, <2>6, <2>10, LinesAre
  <2> QED
    BY <2>7, <2>8, <2>9, <2>11 DEF AllOf
<1>19. p < d => /\ body[p] = PITFALLS
                /\ AllOf(body, {"text", "blank"}, p + 1, d - 1)
                /\ TextIn(body, p + 1, d) # {}
  BY <1>14, <1>16
<1>20. Shape(body, t, p, d)
  <2>1. t \in DOMAIN body /\ p \in 1..(n + 1) /\ d \in 1..(n + 1) /\ t < p /\ p <= d
    BY <1>1, <1>16
  <2>2. d \in DOMAIN body => body[d] = DEEP_DIVE
    BY <1>1, <1>17
  <2> HIDE DEF pit
  <2> QED
    BY <2>1, <2>2, <1>3, <1>9, <1>12, <1>18, <1>19 DEF Shape
<1> QED
  BY <1>20

\* The texts of an accepted body.
LEMMA TextsAre ==
  ASSUME NEW body \in Seq(Lines), NEW t, NEW p, NEW d, Shape(body, t, p, d),
         NEW c, c = CardSections(body)
  PROVE  /\ c.tldr = TextIn(body, t + 1, p)
         /\ c.pitfalls = IF p < d THEN TextIn(body, p + 1, d) ELSE {}
         /\ c.deep_dive = IF d <= Len(body) THEN DeepDive(body, d) ELSE {}
<1> DEFINE n == Len(body)
           s == SectionsAfter(body)[n]
<1>1. /\ n \in Nat /\ DOMAIN body = 1..n
      /\ t \in 1..n /\ p \in 1..(n + 1) /\ d \in 1..(n + 1) /\ t < p /\ p <= d
  BY DEF Shape
<1>2. Parts(body, t, p, d)
  BY PartsAre
<1>3. c.problems = {}
  BY ByTheRules
<1>4. s.problems = {} /\ c.tldr = s.tldr /\ c.pitfalls = s.pitfalls /\ c.deep_dive = s.deep_dive
  <2>1. /\ c.problems = {} => s.problems = {}
        /\ c.tldr = s.tldr /\ c.pitfalls = s.pitfalls /\ c.deep_dive = s.deep_dive
    BY CardIs
  <2> QED
    BY <1>3, <2>1
<1>5. SoFar(body, s, n)
  BY AllRead
<1> HIDE DEF s
<1>6. /\ TLDR \notin {"text", "blank", "question", PITFALLS, DEEP_DIVE}
      /\ PITFALLS \notin {"text", "blank", "question", DEEP_DIVE}
      /\ DEEP_DIVE \notin {"text", "blank", "question"}
  BY DEF TLDR, PITFALLS, DEEP_DIVE
<1>7. s.tldr = TextIn(body, t + 1, p)
  <2>1. s.tldr = SectionText(body, t)
    BY <1>1, <1>2, <1>4, <1>5 DEF SoFar, Parts
  <2> QED
    BY <2>1, <1>2 DEF SectionText, Parts
<1>8. s.pitfalls = IF p < d THEN TextIn(body, p + 1, d) ELSE {}
  <2>1. CASE p < d
    <3>1. p \in 1..n /\ body[p] = PITFALLS /\ SectionEnd(body, p) = d
      BY <1>1, <1>2, <2>1 DEF Parts
    <3>2. s.pitfalls = SectionText(body, p)
      BY <3>1, <1>4, <1>5 DEF SoFar
    <3> QED
      BY <3>1, <3>2, <2>1 DEF SectionText
  <2>2. CASE ~(p < d)
    <3>1. \A k \in 1..n : k = t \/ (k = d /\ d <= n) \/ body[k] \in {"text", "blank", "question"}
      BY <1>1, <1>2, <2>2 DEF Parts
    <3>2. body[t] = TLDR /\ (d <= n => body[d] = DEEP_DIVE)
      BY <1>2 DEF Parts
    <3>3. \A k \in 1..n : body[k] # PITFALLS
      BY <3>1, <3>2, <1>6
    <3> QED
      BY <3>3, <2>2, <1>4, <1>5 DEF SoFar
  <2> QED
    BY <2>1, <2>2
<1>9. s.deep_dive = IF d <= n THEN DeepDive(body, d) ELSE {}
  <2>1. CASE d <= n
    <3>1. d \in 1..n /\ body[d] = DEEP_DIVE
      BY <1>1, <1>2, <2>1 DEF Parts
    <3> QED
      BY <3>1, <2>1, <1>4, <1>5 DEF SoFar
  <2>2. CASE ~(d <= n)
    <3>1. \A k \in 1..n : k = t \/ (k = p /\ p < d) \/ body[k] \in {"text", "blank", "question"}
      BY <1>1, <1>2, <2>2 DEF Parts
    <3>2. body[t] = TLDR /\ (p < d => body[p] = PITFALLS)
      BY <1>2 DEF Parts
    <3>3. \A k \in 1..n : body[k] # DEEP_DIVE
      BY <3>1, <3>2, <1>6
    <3> QED
      BY <3>3, <2>2, <1>4, <1>5 DEF SoFar
  <2> QED
    BY <2>1, <2>2
<1> QED
  BY <1>4, <1>7, <1>8, <1>9

\* Each line of text after the first question is in one question.
LEMMA QuestionTexts ==
  ASSUME NEW body \in Seq(Lines), NEW d \in DOMAIN body, SectionEnd(body, d) = Len(body) + 1,
         NEW first \in QuestionsIn(body, d)
  PROVE  /\ \A q \in DeepDive(body, d) : \A k \in q.text :
              k > d /\ k \in 1..Len(body) /\ body[k] = "text"
         /\ \A k \in 1..Len(body) : first < k /\ body[k] = "text" =>
              \E q \in DeepDive(body, d) : k \in q.text
         /\ \A q, r \in DeepDive(body, d) : q # r => q.text \cap r.text = {}
<1> DEFINE n == Len(body)
           Q == QuestionsIn(body, d)
           Next1(q) == NextOf(body, HeadingLines, q + 1)
           Record(q) == [title |-> q, text |-> TextIn(body, q + 1, Next1(q))]
<1>1. n \in Nat /\ d \in 1..n
  OBVIOUS
<1>2. Q = {j \in (d + 1)..n : body[j] \in HeadingLines}
  <2>1. Q = {j \in (d + 1)..(n + 1 - 1) : body[j] \in HeadingLines}
    BY DEF QuestionsIn
  <2>2. n + 1 - 1 = n
    BY <1>1
  <2> QED
    BY <2>1, <2>2
<1>3. DeepDive(body, d) = {Record(q) : q \in Q}
  BY DEF DeepDive
<1>4. ASSUME NEW q \in Q
      PROVE  /\ Next1(q) \in (q + 1)..(n + 1)
             /\ Next1(q) <= n => body[Next1(q)] \in HeadingLines
             /\ \A k \in (q + 1)..(Next1(q) - 1) : body[k] \notin HeadingLines
  <2>1. q + 1 \in 1..(n + 1)
    BY <1>1, <1>2
  <2>2. IsNext(body, HeadingLines, q + 1, Next1(q))
    BY <2>1, NextIs
  <2> HIDE DEF Next1, Q
  <2> QED
    BY <2>2 DEF IsNext
<1> HIDE DEF Q, Next1
<1>5. \A q \in Q : Record(q).title = q /\ Record(q).text = TextIn(body, q + 1, Next1(q))
  OBVIOUS
<1> HIDE DEF Record
<1>6. ASSUME NEW q \in Q, NEW k \in Record(q).text
      PROVE  /\ k > q /\ k > d /\ k \in 1..n /\ body[k] = "text" /\ k < Next1(q)
  <2>1. k \in (q + 1)..(Next1(q) - 1) /\ body[k] = "text"
    BY <1>5, <1>6 DEF TextIn
  <2>2. q \in (d + 1)..n /\ Next1(q) \in (q + 1)..(n + 1)
    BY <1>2, <1>4
  <2> QED
    BY <2>1, <2>2, <1>1
<1>7. ASSUME NEW k \in 1..n, first < k, body[k] = "text"
      PROVE  \E q \in Q : k \in Record(q).text
  <2> DEFINE B == {q \in Q : q < k}
  <2>1. first \in B /\ B \subseteq 1..n /\ B \subseteq Nat /\ B # {}
    BY <1>2, <1>1, <1>7 DEF Q
  <2>2. IsFiniteSet(B)
    <3>1. 1 \in Int /\ n \in Int
      BY <1>1
    <3>2. IsFiniteSet(1..n)
      BY <3>1, FS_Interval
    <3> HIDE DEF B
    <3> QED
      BY <2>1, <3>2, FS_Subset
  <2>3. \A x \in Q : x < k => x \in B
    OBVIOUS
  <2>4. \A x \in B : x \in Q /\ x < k
    OBVIOUS
  <2> HIDE DEF B
  <2> DEFINE q == Max(B)
  <2>5. q \in B /\ \A x \in B : x <= q
    BY <2>1, <2>2, MaxOf
  <2>6. q \in Q /\ q < k /\ q \in (d + 1)..n
    BY <2>4, <2>5, <1>2
  <2> HIDE DEF q
  <2>7. Next1(q) \in (q + 1)..(n + 1) /\ (Next1(q) <= n => body[Next1(q)] \in HeadingLines)
    BY <1>4, <2>6
  <2>8. k < Next1(q)
    <3> SUFFICES ASSUME ~(k < Next1(q)) PROVE FALSE
      OBVIOUS
    <3>1. Next1(q) <= n /\ Next1(q) \in (d + 1)..n /\ Next1(q) <= k /\ ~(Next1(q) <= q)
      BY <1>1, <2>6, <2>7
    <3>2. "text" \notin HeadingLines
      BY DEF HeadingLines, Names, TLDR, PITFALLS, DEEP_DIVE
    <3>3. Next1(q) \in Q /\ Next1(q) # k
      BY <1>2, <1>7, <2>7, <3>1, <3>2
    <3>4. Next1(q) < k
      BY <3>1, <3>3
    <3> QED
      BY <2>3, <2>5, <3>1, <3>3, <3>4
  <2>9. k \in (q + 1)..(Next1(q) - 1)
    BY <1>1, <2>6, <2>7, <2>8
  <2>10. k \in Record(q).text
    BY <1>5, <1>7, <2>6, <2>9 DEF TextIn
  <2> QED
    BY <2>6, <2>10
<1>8. ASSUME NEW q \in Q, NEW r \in Q, q < r, NEW k \in Record(q).text, k \in Record(r).text
      PROVE  FALSE
  <2>1. k < Next1(q) /\ k > r /\ k \in 1..n
    BY <1>6, <1>8
  <2>2. q \in (d + 1)..n /\ r \in (d + 1)..n /\ body[r] \in HeadingLines
    BY <1>2
  <2>3. Next1(q) \in (q + 1)..(n + 1)
    BY <1>4
  <2>4. r \in (q + 1)..(Next1(q) - 1)
    BY <1>1, <1>8, <2>1, <2>2, <2>3
  <2> QED
    BY <1>4, <2>2, <2>4
<1>9. \A q, r \in Q : Record(q) # Record(r) => Record(q).text \cap Record(r).text = {}
  <2> SUFFICES ASSUME NEW q \in Q, NEW r \in Q, q # r PROVE Record(q).text \cap Record(r).text = {}
    OBVIOUS
  <2>1. q \in Nat /\ r \in Nat
    BY <1>1, <1>2
  <2>2. q < r \/ r < q
    BY <2>1
  <2> QED
    BY <1>8, <2>2
<1>10. /\ \A q \in DeepDive(body, d) : \E x \in Q : q = Record(x)
       /\ \A x \in Q : Record(x) \in DeepDive(body, d)
  BY <1>3
<1>11. \A q \in DeepDive(body, d) : \A k \in q.text : k > d /\ k \in 1..n /\ body[k] = "text"
  BY <1>6, <1>10
<1>12. \A k \in 1..n : first < k /\ body[k] = "text" => \E q \in DeepDive(body, d) : k \in q.text
  BY <1>7, <1>10
<1>13. \A q, r \in DeepDive(body, d) : q # r => q.text \cap r.text = {}
  BY <1>9, <1>10
<1> QED
  BY <1>11, <1>12, <1>13

LEMMA AllKept ==
  ASSUME NEW body \in Seq(Lines), NEW t, NEW p, NEW d, Shape(body, t, p, d),
         NEW c, c = CardSections(body)
  PROVE  Kept(c) = TextIn(body, 1, Len(body) + 1) /\ Apart(c)
<1> DEFINE n == Len(body)
           deep == UNION {q.text : q \in c.deep_dive}
<1>1. /\ n \in Nat /\ DOMAIN body = 1..n
      /\ t \in 1..n /\ p \in 1..(n + 1) /\ d \in 1..(n + 1) /\ t < p /\ p <= d
  BY DEF Shape
<1>2. Parts(body, t, p, d)
  BY PartsAre
<1>3. /\ c.tldr = TextIn(body, t + 1, p)
      /\ c.pitfalls = IF p < d THEN TextIn(body, p + 1, d) ELSE {}
      /\ c.deep_dive = IF d <= n THEN DeepDive(body, d) ELSE {}
  BY TextsAre
<1>4. TLDR # "text" /\ PITFALLS # "text" /\ DEEP_DIVE # "text" /\ "blank" # "text" /\ "question" # "text"
  BY DEF TLDR, PITFALLS, DEEP_DIVE
<1>5. /\ \A q \in c.deep_dive : \A k \in q.text : k > d /\ k \in 1..n /\ body[k] = "text"
      /\ \A k \in 1..n : k > d /\ body[k] = "text" => \E q \in c.deep_dive : k \in q.text
      /\ \A q, r \in c.deep_dive : q # r => q.text \cap r.text = {}
  <2>1. CASE d <= n
    <3>1. d \in 1..n /\ d \in DOMAIN body /\ SectionEnd(body, d) = n + 1 /\ c.deep_dive = DeepDive(body, d)
      BY <1>1, <1>2, <1>3, <2>1 DEF Parts
    <3>2. PICK q \in (d + 1)..n : AllOf(body, {"blank"}, d + 1, q - 1) /\ body[q] = "question"
      BY <3>1 DEF Shape
    <3>3. q \in QuestionsIn(body, d)
      <4>1. q \in (d + 1)..(n + 1 - 1)
        BY <1>1
      <4>2. body[q] \in HeadingLines
        BY <3>2 DEF HeadingLines
      <4> QED
        BY <3>1, <4>1, <4>2 DEF QuestionsIn
    <3>4. \A k \in 1..n : k > d /\ body[k] = "text" => q < k
      <4> SUFFICES ASSUME NEW k \in 1..n, k > d, body[k] = "text" PROVE q < k
        OBVIOUS
      <4>1. k # q
        BY <3>2, <1>4
      <4>2. k \notin (d + 1)..(q - 1)
        BY <3>2, <1>4 DEF AllOf
      <4> QED
        BY <4>1, <4>2, <1>1
    <3> QED
      BY <3>1, <3>3, <3>4, QuestionTexts
  <2>2. CASE ~(d <= n)
    <3>1. c.deep_dive = {} /\ \A k \in 1..n : ~(k > d)
      BY <1>1, <1>3, <2>2
    <3> QED
      BY <3>1
  <2> QED
    BY <2>1, <2>2
<1>6. \A k : k \in c.tldr <=> k \in (t + 1)..(p - 1) /\ body[k] = "text"
  BY <1>3 DEF TextIn
<1>7. \A k : k \in c.pitfalls <=> p < d /\ k \in (p + 1)..(d - 1) /\ body[k] = "text"
  BY <1>3 DEF TextIn
<1>8. \A k : k \in deep <=> k \in 1..n /\ k > d /\ body[k] = "text"
  <2>1. \A k : k \in deep <=> \E q \in c.deep_dive : k \in q.text
    OBVIOUS
  <2> HIDE DEF deep
  <2> QED
    BY <2>1, <1>5
<1>9. \A k : k \in TextIn(body, 1, n + 1) <=> k \in 1..n /\ body[k] = "text"
  <2>1. n + 1 - 1 = n
    BY <1>1
  <2> QED
    BY <2>1 DEF TextIn
<1>10. Kept(c) = (c.tldr \cup c.pitfalls) \cup deep
  BY DEF Kept
<1> HIDE DEF deep
<1>11. ASSUME NEW k \in 1..n, body[k] = "text"
       PROVE  k \in c.tldr \/ k \in c.pitfalls \/ k \in deep
  <2>1. \/ k \in (t + 1)..(p - 1) \/ (p < d /\ k \in (p + 1)..(d - 1)) \/ k > d
    <3>1. body[t] = TLDR /\ (p < d => body[p] = PITFALLS) /\ (d <= n => body[d] = DEEP_DIVE)
      BY <1>2 DEF Parts
    <3>2. ~(k < t) /\ k # t /\ ~(k = p /\ p < d) /\ k # d
      <4>1. ~(k < t)
        BY <1>2, <1>4, <1>11 DEF Parts
      <4>2. k = d => d <= n
        BY <1>1
      <4> QED
        BY <4>1, <4>2, <3>1, <1>4, <1>11
    <3> QED
      BY <3>2, <1>2 DEF Parts
  <2> QED
    BY <2>1, <1>6, <1>7, <1>8, <1>11
<1>12. /\ \A k \in c.tldr : k \in 1..n /\ k < p /\ body[k] = "text"
       /\ \A k \in c.pitfalls : k \in 1..n /\ p < k /\ k < d /\ body[k] = "text"
  <2>1. \A k \in (t + 1)..(p - 1) : k \in 1..n /\ k < p
    BY <1>1
  <2>2. \A k \in (p + 1)..(d - 1) : k \in 1..n /\ p < k /\ k < d
    BY <1>1
  <2> QED
    BY <2>1, <2>2, <1>6, <1>7
<1>13. Kept(c) = TextIn(body, 1, n + 1)
  BY <1>8, <1>9, <1>10, <1>11, <1>12
<1>14. Apart(c)
  <2>1. c.tldr \cap c.pitfalls = {}
    <3>1. \A k \in 1..n : ~(k < p /\ p < k)
      BY <1>1
    <3> QED
      BY <3>1, <1>12
  <2>2. \A q \in c.deep_dive : q.text \cap (c.tldr \cup c.pitfalls) = {}
    <3>1. \A k \in 1..n : k > d => ~(k < p) /\ ~(k < d)
      BY <1>1
    <3> QED
      BY <3>1, <1>5, <1>12
  <2> QED
    BY <2>1, <2>2, <1>5 DEF Apart
<1> QED
  BY <1>13, <1>14

LEMMA CardIsRight ==
  ASSUME NEW body \in Seq(Lines), HeadingFirst(body) # "question"
  PROVE  ReadByTheRules(body, CardSections(body))
<1> DEFINE c == CardSections(body)
<1>1. Follows(body) <=> \E t, p, d : Shape(body, t, p, d)
  BY DEF Follows, Shape
<1>2. Follows(body) => c.problems = {}
  BY <1>1, ByTheRules
<1>3. c.problems = {} => \E t, p, d : Shape(body, t, p, d)
  BY OnlyByTheRules
<1>4. (\E t, p, d : Shape(body, t, p, d)) => Kept(c) = TextIn(body, 1, Len(body) + 1) /\ Apart(c)
  BY AllKept
<1> HIDE DEF c
<1>5. ReadByTheRules(body, c)
  BY <1>1, <1>2, <1>3, <1>4 DEF ReadByTheRules
<1> QED
  BY <1>5 DEF c

(* CardsFollowTheRules: an accepted card has the shape that the rules name, and each *)
(* line of its text is in one section, whatever its body is, but for the     *)
(* bodies that begin with a question; one with that shape is accepted.       *)
THEOREM CardsFollowTheRules == CallSpec => []SectionsByTheRules
<1> DEFINE Asked == call = "card_sections" => input \in Bodies
<1>1. CallInit => Asked /\ SectionsByTheRules
  BY DEF CallInit, SectionsByTheRules, Returned
<1>2. Asked /\ SectionsByTheRules /\ [CallNext]_vars => Asked' /\ SectionsByTheRules'
  <2> SUFFICES ASSUME Asked, SectionsByTheRules, [CallNext]_vars
               PROVE  Asked' /\ SectionsByTheRules'
    OBVIOUS
  <2>1. CASE FindClosest
    BY <2>1 DEF FindClosest, Called, SectionsByTheRules, Returned
  <2>2. CASE FindWords
    BY <2>2 DEF FindWords, Called, SectionsByTheRules, Returned
  <2>3. CASE Redact
    BY <2>3 DEF Redact, Called, SectionsByTheRules, Returned
  <2>4. CASE WrapText
    BY <2>4 DEF WrapText, Called, SectionsByTheRules, Returned
  <2>5. CASE ReadSections
    <3>1. /\ call = "card_sections" /\ call' = call /\ input' = input
          /\ output' = CardSections(input.body)
      BY <2>5 DEF ReadSections, Called
    <3>2. input.body \in Seq(Lines)
      BY <3>1, BodiesAssumption
    <3>3. HeadingFirst(input.body) # "question" => ReadByTheRules(input.body, output')
      BY <3>1, <3>2, CardIsRight
    <3> QED
      BY <3>1, <3>3 DEF SectionsByTheRules
  <2>6. CASE ResolvePath
    BY <2>6 DEF ResolvePath, Called, SectionsByTheRules, Returned
  <2>7. CASE ReadServer
    BY <2>7 DEF ReadServer, Called, SectionsByTheRules, Returned
  <2>8. CASE UNCHANGED vars
    BY <2>8 DEF vars, SectionsByTheRules, Returned
  <2> QED
    BY <2>1, <2>2, <2>3, <2>4, <2>5, <2>6, <2>7, <2>8 DEF CallNext
<1> QED
  BY <1>1, <1>2, PTL DEF CallSpec

-----------------------------------------------------------------------------
(* Paths *)

LEMMA PathsJoin ==
  ASSUME NEW p \in Path, NEW q \in Path
  PROVE  p \o q \in Path /\ \A part \in STRING : Append(p, part) \in Path
<1>1. p \in Seq(STRING) /\ q \in Seq(STRING)
  BY DEF Path
<1>2. p \o q \in Seq(STRING)
  BY <1>1
<1>3. \A part \in STRING : Append(p, part) \in Seq(STRING)
  BY <1>1, SequencesJoin
<1> QED
  BY <1>2, <1>3 DEF Path

LEMMA NoPath == <<>> \in Path
BY DEF Path

LEMMA PathParts ==
  ASSUME NEW p \in Path
  PROVE  /\ Parent(p) \in Path
         /\ p # <<>> => Head(p) \in STRING /\ Tail(p) \in Path
<1>1. Parent(p) \in Path
  <2>1. CASE p = <<>>
    BY <2>1, NoPath DEF Parent
  <2>2. CASE p # <<>>
    <3>1. p \in Seq(STRING) /\ Len(p) \in Nat \ {0}
      BY <2>2, EmptySeq DEF Path
    <3>2. SubSeq(p, 1, Len(p) - 1) \in Seq(STRING)
      BY <3>1
    <3> QED
      BY <2>2, <3>2 DEF Parent, Path
  <2> QED
    BY <2>1, <2>2
<1>2. p # <<>> => Head(p) \in STRING /\ Tail(p) \in Path
  <2>1. p \in Seq(STRING)
    BY DEF Path
  <2>2. p # <<>> => Head(p) \in STRING /\ Tail(p) \in Seq(STRING)
    BY <2>1, HeadTailProperties
  <2> QED
    BY <2>2 DEF Path
<1> QED
  BY <1>1, <1>2

\* What is done of the names that are left.
WalkStep(tree, follow_last, done, links, part, rest) ==
  CASE part = "."  -> Walking(rest, done, links)
    [] part = ".." -> Walking(rest, Parent(done), links)
    [] OTHER ->
         IF IsLink(tree, Append(done, part)) /\ (follow_last \/ rest # <<>>) /\ links < MAX_LINKS
         THEN Walking(tree[Append(done, part)].parts \o rest, Start(tree[Append(done, part)], done), links + 1)
         ELSE Walking(rest, Append(done, part), links)

LEMMA WalkOnIs ==
  ASSUME NEW tree, Tree(tree), NEW follow_last, NEW todo \in Path, NEW done \in Path, NEW links \in Nat,
         todo # <<>>
  PROVE  LET next == WalkStep(tree, follow_last, done, links, Head(todo), Tail(todo))
         IN  WalkOn(tree, Walking(todo, done, links), follow_last) = next /\ next \in WalkState
<1> DEFINE s == Walking(todo, done, links)
           part == Head(todo)
           rest == Tail(todo)
           here == Append(done, part)
<1>1. part \in STRING /\ rest \in Path
  BY PathParts
<1> HIDE DEF part, rest
<1>2. here \in Path /\ Parent(done) \in Path /\ <<>> \in Path
  BY <1>1, PathsJoin, PathParts, NoPath
<1>3. s.todo = todo /\ s.done = done /\ s.links = links
  BY DEF Walking
<1> HIDE DEF here
<1> HIDE DEF s
<1>5. WalkOn(tree, s, follow_last)
        = CASE part = "."  -> Walking(rest, done, links)
            [] part = ".." -> Walking(rest, Parent(done), links)
            [] OTHER ->
                 IF IsLink(tree, here) /\ (follow_last \/ rest # <<>>) /\ links < MAX_LINKS
                 THEN Walking(tree[here].parts \o rest, Start(tree[here], done), links + 1)
                 ELSE Walking(rest, here, links)
  BY <1>3 DEF WalkOn, here, part, rest
<1>6. \A p \in Path, d \in Path, l \in Nat : Walking(p, d, l) \in WalkState
  BY DEF Walking, WalkState
<1>7. IsLink(tree, here) => tree[here].parts \o rest \in Path
  <2>1. IsLink(tree, here) => tree[here].parts \in Path
    BY DEF Tree, IsLink
  <2> QED
    BY <2>1, <1>1, PathsJoin
<1>8. Start(tree[here], done) \in Path
  BY <1>2 DEF Start
<1>9. "." # ".."
  OBVIOUS
<1>10. WalkStep(tree, follow_last, done, links, part, rest)
        = CASE part = "."  -> Walking(rest, done, links)
            [] part = ".." -> Walking(rest, Parent(done), links)
            [] OTHER ->
                 IF IsLink(tree, here) /\ (follow_last \/ rest # <<>>) /\ links < MAX_LINKS
                 THEN Walking(tree[here].parts \o rest, Start(tree[here], done), links + 1)
                 ELSE Walking(rest, here, links)
  BY DEF WalkStep, here
<1>11. WalkOn(tree, s, follow_last) = WalkStep(tree, follow_last, done, links, part, rest)
  BY <1>5, <1>10
<1>12. WalkStep(tree, follow_last, done, links, part, rest) \in WalkState
  <2>1. links + 1 \in Nat
    OBVIOUS
  <2>2. CASE part = "."
    BY <2>2, <1>1, <1>6, <1>9, <1>10
  <2>3. CASE part = ".."
    BY <2>3, <1>1, <1>2, <1>6, <1>9, <1>10
  <2>4. CASE part # "." /\ part # ".."
    BY <2>1, <2>4, <1>1, <1>2, <1>6, <1>7, <1>8, <1>10
  <2> QED
    BY <2>2, <2>3, <2>4
<1> QED
  BY <1>11, <1>12 DEF s, part, rest

\* The walk, name by name.
LEMMA WalkIs ==
  ASSUME NEW tree, Tree(tree), NEW follow_last, NEW walk, walk = Walk(tree, follow_last)
  PROVE  /\ \A done \in Path, links \in Nat : walk[Walking(<<>>, done, links)] = done
         /\ \A todo \in Path, done \in Path, links \in Nat : todo # <<>> =>
              walk[Walking(todo, done, links)]
                = walk[WalkStep(tree, follow_last, done, links, Head(todo), Tail(todo))]
<1> DEFINE E == {s \in WalkState : s.todo = <<>>}
           next == [s \in WalkState |-> WalkOn(tree, s, follow_last)]
           value == [s \in WalkState |-> s.done]
           w == CHOOSE w : w = [s \in WalkState |->
                                  IF s.todo = <<>> THEN s.done ELSE w[WalkOn(tree, s, follow_last)]]
<1>1. ASSUME NEW s \in WalkState, s.todo # <<>> PROVE WalkOn(tree, s, follow_last) \in WalkState
  <2>1. s.todo \in Path /\ s.done \in Path /\ s.links \in Nat /\ s = Walking(s.todo, s.done, s.links)
    BY DEF WalkState, Walking
  <2>2. WalkOn(tree, Walking(s.todo, s.done, s.links), follow_last) \in WalkState
    BY <1>1, <2>1, WalkOnIs
  <2> QED
    BY <2>1, <2>2
<1>2. \A s \in WalkState : s \notin E => next[s] \in WalkState
  BY <1>1
<1>3. WhileOf(WalkState, E, next, value)
  <2> HIDE DEF E, next, value
  <2> QED
    BY <1>2, WhileIs
<1>4. PICK f : f = [s \in WalkState |-> IF s \in E THEN value[s] ELSE f[next[s]]]
  <2> HIDE DEF E, next, value
  <2> QED
    BY <1>3 DEF WhileOf
<1>5. f = [s \in WalkState |-> IF s.todo = <<>> THEN s.done ELSE f[WalkOn(tree, s, follow_last)]]
  BY <1>4
<1>6. w = [s \in WalkState |-> IF s.todo = <<>> THEN s.done ELSE w[WalkOn(tree, s, follow_last)]]
  BY <1>5
<1>7. walk = w
  BY DEF Walk
<1> HIDE DEF w
<1>8. \A s \in WalkState : walk[s] = IF s.todo = <<>> THEN s.done ELSE walk[WalkOn(tree, s, follow_last)]
  BY <1>6, <1>7
<1>9. \A p \in Path, d \in Path, l \in Nat :
        Walking(p, d, l) \in WalkState /\ Walking(p, d, l).todo = p /\ Walking(p, d, l).done = d
  BY DEF Walking, WalkState
<1>10. <<>> \in Path
  BY DEF Path
<1>11. ASSUME NEW todo \in Path, NEW done \in Path, NEW links \in Nat, todo # <<>>
       PROVE  walk[Walking(todo, done, links)]
                = walk[WalkStep(tree, follow_last, done, links, Head(todo), Tail(todo))]
  <2>1. walk[Walking(todo, done, links)] = walk[WalkOn(tree, Walking(todo, done, links), follow_last)]
    BY <1>8, <1>9, <1>11
  <2>2. WalkOn(tree, Walking(todo, done, links), follow_last)
          = WalkStep(tree, follow_last, done, links, Head(todo), Tail(todo))
    BY <1>11, WalkOnIs
  <2> QED
    BY <2>1, <2>2
<1>12. \A done \in Path, links \in Nat : walk[Walking(<<>>, done, links)] = done
  BY <1>8, <1>9, <1>10
<1> QED
  BY <1>11, <1>12

\* Where a way with up to n links leads.
Found(n) == [at : Path, ok : BOOLEAN, left : 0..n]

\* The walk goes on from there with what is left behind the way.
Leads(walk, follow_last, way, found) ==
  found.ok =>
    \A rest \in Path : (way.follow <=> (follow_last \/ rest # <<>>)) =>
      walk[Walking(way.parts \o rest, way.dir, MAX_LINKS - way.left)]
        = walk[Walking(rest, found.at, MAX_LINKS - found.left)]

Known(walk, follow_last, n, leads) ==
  /\ leads \in [Ways(n) -> Found(n)]
  /\ \A way \in Ways(n) : Leads(walk, follow_last, way, leads[way])

\* The same when one part is entered.
Entered(walk, follow_last, s, part, follow, e) ==
  e.ok =>
    /\ s.ok
    /\ \A todo \in Path :
         todo # <<>> /\ Head(todo) = part /\ (follow <=> (follow_last \/ Tail(todo) # <<>>)) =>
           walk[Walking(todo, s.at, MAX_LINKS - s.left)]
             = walk[Walking(Tail(todo), e.at, MAX_LINKS - e.left)]

LEMMA EnterIs ==
  ASSUME NEW tree, Tree(tree), NEW n \in 0..MAX_LINKS, NEW s \in Found(n), NEW part \in STRING,
         NEW follow \in BOOLEAN, NEW leads, NEW follow_last, NEW walk, walk = Walk(tree, follow_last),
         n # 0 => Known(walk, follow_last, n - 1, leads),
         NEW e, e = Enter(tree, s, part, follow, leads)
  PROVE  e \in Found(n) /\ Entered(walk, follow_last, s, part, follow, e)
<1> DEFINE node == Append(s.at, part)
           links == MAX_LINKS - s.left
<1>1. /\ s.at \in Path /\ s.ok \in BOOLEAN /\ s.left \in 0..n /\ n \in Nat /\ MAX_LINKS \in Nat
      /\ links \in Nat
  <2>1. s.at \in Path /\ s.ok \in BOOLEAN /\ s.left \in 0..n
    BY DEF Found
  <2> QED
    BY <2>1, MaxLinksAssumption
<1>2. node \in Path /\ Parent(s.at) \in Path /\ <<>> \in Path
  BY <1>1, PathsJoin, PathParts, NoPath
<1>3. Nowhere \in Found(n) /\ ~Nowhere.ok
  <2>1. 0 \in 0..n
    BY <1>1
  <2> QED
    BY <2>1, <1>2 DEF Nowhere, Found
<1>4. e = IF ~s.ok \/ ~IsDir(tree, s.at) THEN Nowhere
          ELSE CASE part = "."  -> s
                 [] part = ".." -> [s EXCEPT !.at = Parent(s.at)]
                 [] OTHER ->
                      IF node \notin DOMAIN tree THEN Nowhere
                      ELSE IF ~IsLink(tree, node) \/ ~follow THEN [s EXCEPT !.at = node]
                      ELSE IF s.left = 0 THEN Nowhere
                      ELSE leads[Way(IF tree[node].absolute THEN <<>> ELSE s.at,
                                     tree[node].parts, TRUE, s.left - 1)]
  BY DEF Enter
<1>5. \A p \in Path : /\ [s EXCEPT !.at = p] \in Found(n)
                      /\ [s EXCEPT !.at = p].at = p /\ [s EXCEPT !.at = p].left = s.left
                      /\ [s EXCEPT !.at = p].ok = s.ok
  BY DEF Found
<1>6. ASSUME NEW todo \in Path, todo # <<>>, Head(todo) = part
      PROVE  /\ walk[Walking(todo, s.at, links)]
                  = walk[WalkStep(tree, follow_last, s.at, links, part, Tail(todo))]
             /\ Tail(todo) \in Path
  BY <1>1, <1>6, WalkIs, PathParts
<1> HIDE DEF links, node
<1>7. CASE ~s.ok \/ ~IsDir(tree, s.at)
  BY <1>3, <1>4, <1>7 DEF Entered
<1>8. CASE ~(~s.ok \/ ~IsDir(tree, s.at)) /\ part = "."
  <2>1. e = s /\ part # ".."
    BY <1>4, <1>8
  <2>2. \A rest : WalkStep(tree, follow_last, s.at, links, part, rest) = Walking(rest, s.at, links)
    BY <1>8, <2>1 DEF WalkStep
  <2> QED
    BY <1>6, <1>8, <2>1, <2>2 DEF links, Entered
<1>9. CASE ~(~s.ok \/ ~IsDir(tree, s.at)) /\ part = ".."
  <2>1. e = [s EXCEPT !.at = Parent(s.at)] /\ part # "."
    BY <1>4, <1>9
  <2>2. \A rest : WalkStep(tree, follow_last, s.at, links, part, rest) = Walking(rest, Parent(s.at), links)
    BY <1>9, <2>1 DEF WalkStep
  <2>3. e \in Found(n) /\ e.at = Parent(s.at) /\ e.left = s.left /\ e.ok = s.ok
    BY <1>2, <1>5, <2>1
  <2> QED
    BY <1>6, <1>9, <2>2, <2>3 DEF links, Entered
<1>10. CASE ~(~s.ok \/ ~IsDir(tree, s.at)) /\ part # "." /\ part # ".."
  <2>1. e = IF node \notin DOMAIN tree THEN Nowhere
            ELSE IF ~IsLink(tree, node) \/ ~follow THEN [s EXCEPT !.at = node]
            ELSE IF s.left = 0 THEN Nowhere
            ELSE leads[Way(IF tree[node].absolute THEN <<>> ELSE s.at,
                           tree[node].parts, TRUE, s.left - 1)]
    BY <1>4, <1>10
  <2>2. \A rest : WalkStep(tree, follow_last, s.at, links, part, rest)
          = IF IsLink(tree, node) /\ (follow_last \/ rest # <<>>) /\ links < MAX_LINKS
            THEN Walking(tree[node].parts \o rest, Start(tree[node], s.at), links + 1)
            ELSE Walking(rest, node, links)
    BY <1>10 DEF WalkStep, node
  <2>3. CASE node \notin DOMAIN tree
    BY <1>3, <2>1, <2>3 DEF Entered
  <2>4. CASE node \in DOMAIN tree /\ (~IsLink(tree, node) \/ ~follow)
    <3>1. e = [s EXCEPT !.at = node]
      BY <2>1, <2>4
    <3>2. e \in Found(n) /\ e.at = node /\ e.left = s.left /\ e.ok = s.ok
      BY <1>2, <1>5, <3>1
    <3>3. ASSUME NEW todo \in Path, todo # <<>>, Head(todo) = part,
                 follow <=> (follow_last \/ Tail(todo) # <<>>)
          PROVE  walk[Walking(todo, s.at, links)] = walk[Walking(Tail(todo), node, links)]
      <4>1. WalkStep(tree, follow_last, s.at, links, part, Tail(todo)) = Walking(Tail(todo), node, links)
        BY <2>2, <2>4, <3>3
      <4> QED
        BY <4>1, <1>6, <3>3
    <3> QED
      BY <1>10, <3>2, <3>3 DEF links, Entered
  <2>5. CASE node \in DOMAIN tree /\ IsLink(tree, node) /\ follow /\ s.left = 0
    BY <1>3, <2>1, <2>5 DEF Entered
  <2>6. CASE node \in DOMAIN tree /\ IsLink(tree, node) /\ follow /\ s.left # 0
    <3> DEFINE dir == Start(tree[node], s.at)
               parts == tree[node].parts
               way == Way(dir, parts, TRUE, s.left - 1)
    <3>1. e = leads[way]
      BY <2>1, <2>6 DEF Start
    <3>2. dir \in Path /\ parts \in Path
      BY <1>1, <1>2, <2>6 DEF Start, Tree, IsLink
    <3>3. s.left - 1 \in 0..(n - 1) /\ n # 0
      BY <1>1, <2>6
    <3> HIDE DEF dir, parts
    <3>4. /\ way \in Ways(n - 1) /\ way.dir = dir /\ way.parts = parts /\ way.follow = TRUE
          /\ way.left = s.left - 1
      BY <3>2, <3>3 DEF Way, Ways
    <3> HIDE DEF way
    <3>5. e \in Found(n - 1) /\ Leads(walk, follow_last, way, e)
      BY <3>1, <3>3, <3>4 DEF Known
    <3>6. e \in Found(n)
      <4>1. 0..(n - 1) \subseteq 0..n
        BY <1>1
      <4> QED
        BY <3>5, <4>1 DEF Found
    <3>7. links + 1 = MAX_LINKS - way.left /\ links < MAX_LINKS
      BY <1>1, <2>6, <3>4 DEF links
    <3>8. ASSUME e.ok, NEW todo \in Path, todo # <<>>, Head(todo) = part,
                 follow <=> (follow_last \/ Tail(todo) # <<>>)
          PROVE  walk[Walking(todo, s.at, links)] = walk[Walking(Tail(todo), e.at, MAX_LINKS - e.left)]
      <4>1. WalkStep(tree, follow_last, s.at, links, part, Tail(todo))
              = Walking(parts \o Tail(todo), dir, links + 1)
        BY <2>2, <2>6, <3>7, <3>8 DEF dir, parts
      <4>2. Tail(todo) \in Path /\ (way.follow <=> (follow_last \/ Tail(todo) # <<>>))
        BY <1>6, <2>6, <3>4, <3>8
      <4>3. walk[Walking(way.parts \o Tail(todo), way.dir, MAX_LINKS - way.left)]
              = walk[Walking(Tail(todo), e.at, MAX_LINKS - e.left)]
        BY <3>5, <3>8, <4>2 DEF Leads
      <4> QED
        BY <4>1, <4>3, <1>6, <3>4, <3>7, <3>8
    <3> QED
      BY <1>10, <3>6, <3>8 DEF links, Entered
  <2> QED
    BY <2>3, <2>4, <2>5, <2>6
<1> QED
  BY <1>7, <1>8, <1>9, <1>10

LEMMA NamesLeft ==
  ASSUME NEW p \in Path, NEW rest \in Path, NEW i \in 1..Len(p)
  PROVE  LET todo == SubSeq(p, i, Len(p)) \o rest
         IN  /\ todo \in Path /\ todo # <<>> /\ Head(todo) = p[i]
             /\ Tail(todo) = SubSeq(p, i + 1, Len(p)) \o rest
             /\ Tail(todo) = <<>> <=> i = Len(p) /\ rest = <<>>
<1> DEFINE n == Len(p)
           a == SubSeq(p, i, n)
           b == SubSeq(p, i + 1, n)
           todo == a \o rest
<1>1. p \in Seq(STRING) /\ rest \in Seq(STRING) /\ n \in Nat /\ i \in 1..n
  BY DEF Path
<1>2. a \in Seq(STRING) /\ Len(a) = n - i + 1 /\ \A k \in 1..(n - i + 1) : a[k] = p[i + k - 1]
  BY <1>1
<1>3. b \in Seq(STRING) /\ Len(b) = n - i /\ \A k \in 1..(n - i) : b[k] = p[i + 1 + k - 1]
  BY <1>1
<1> HIDE DEF a, b
<1>4. Len(rest) \in Nat /\ (rest = <<>> <=> Len(rest) = 0)
  BY <1>1, EmptySeq
<1>5. /\ todo \in Seq(STRING) /\ Len(todo) = n - i + 1 + Len(rest)
      /\ \A k \in 1..Len(todo) : todo[k] = IF k <= n - i + 1 THEN a[k] ELSE rest[k - (n - i + 1)]
  <2> HIDE DEF n
  <2>1. /\ todo \in Seq(STRING) /\ Len(todo) = Len(a) + Len(rest)
        /\ \A k \in 1..(Len(a) + Len(rest)) : todo[k] = IF k <= Len(a) THEN a[k] ELSE rest[k - Len(a)]
    BY <1>1, <1>2, JoinIs
  <2>2. Len(todo) = n - i + 1 + Len(rest)
    BY <1>2, <2>1
  <2> HIDE DEF todo
  <2> QED
    BY <1>2, <2>1, <2>2
<1> HIDE DEF todo
<1>6. Len(todo) \in Nat \ {0} /\ todo # <<>>
  <2>1. Len(todo) \in Nat \ {0}
    <3> HIDE DEF n
    <3> QED
      BY <1>1, <1>4, <1>5
  <2> QED
    BY <2>1, <1>5, EmptySeq
<1>7. Head(todo) = p[i]
  <2>1. Head(todo) = todo[1]
    BY <1>5, <1>6
  <2>2. 1 \in 1..Len(todo) /\ 1 <= n - i + 1 /\ 1 \in 1..(n - i + 1) /\ i + 1 - 1 = i
    BY <1>1, <1>6
  <2> QED
    BY <2>1, <2>2, <1>2, <1>5
<1>8. /\ b \o rest \in Seq(STRING) /\ Len(b \o rest) = n - i + Len(rest)
      /\ \A k \in 1..(n - i + Len(rest)) : (b \o rest)[k] = IF k <= n - i THEN b[k] ELSE rest[k - (n - i)]
  <2> HIDE DEF n
  <2>1. /\ b \o rest \in Seq(STRING) /\ Len(b \o rest) = Len(b) + Len(rest)
        /\ \A k \in 1..(Len(b) + Len(rest)) : (b \o rest)[k] = IF k <= Len(b) THEN b[k] ELSE rest[k - Len(b)]
    BY <1>1, <1>3, JoinIs
  <2> QED
    BY <1>3, <2>1
<1>9. /\ Tail(todo) \in Seq(STRING) /\ Len(Tail(todo)) = n - i + Len(rest)
      /\ \A k \in 1..(n - i + Len(rest)) : Tail(todo)[k] = todo[k + 1]
  <2>1. /\ Tail(todo) \in Seq(STRING) /\ Len(Tail(todo)) = Len(todo) - 1
        /\ \A k \in 1..(Len(todo) - 1) : Tail(todo)[k] = todo[k + 1]
    BY <1>5, <1>6, HeadTailProperties
  <2>2. Len(todo) - 1 = n - i + Len(rest)
    BY <1>1, <1>4, <1>5
  <2> QED
    BY <2>1, <2>2
<1>10. Tail(todo) = b \o rest
  <2>1. ASSUME NEW k \in 1..(n - i + Len(rest)) PROVE Tail(todo)[k] = (b \o rest)[k]
    <3>1. k + 1 \in 1..Len(todo) /\ Tail(todo)[k] = todo[k + 1]
      BY <1>1, <1>4, <1>5, <1>9
    <3>2. CASE k <= n - i
      <4>1. k \in 1..(n - i) /\ k + 1 <= n - i + 1 /\ k + 1 \in 1..(n - i + 1) /\ i + (k + 1) - 1 = i + 1 + k - 1
        BY <1>1, <1>4, <3>2
      <4> QED
        BY <4>1, <3>1, <3>2, <1>2, <1>3, <1>5, <1>8
    <3>3. CASE ~(k <= n - i)
      <4>1. ~(k + 1 <= n - i + 1) /\ k + 1 - (n - i + 1) = k - (n - i)
        BY <1>1, <1>4, <3>3
      <4> QED
        BY <4>1, <3>1, <3>3, <1>5, <1>8
    <3> QED
      BY <3>2, <3>3
  <2> QED
    BY <2>1, <1>8, <1>9, SeqEqual
<1>11. Tail(todo) = <<>> <=> i = n /\ rest = <<>>
  <2>1. Tail(todo) = <<>> <=> Len(Tail(todo)) = 0
    BY <1>9, EmptySeq
  <2>2. n - i + Len(rest) = 0 <=> i = n /\ Len(rest) = 0
    BY <1>1, <1>4
  <2> QED
    BY <2>1, <2>2, <1>4, <1>9
<1> QED
  BY <1>5, <1>6, <1>7, <1>10, <1>11 DEF Path, b, a, todo

\* Part by part.
LEMMA FollowIs ==
  ASSUME NEW tree, Tree(tree), NEW n \in 0..MAX_LINKS, NEW way \in Ways(n), way.left = n,
         NEW leads, NEW follow_last, NEW walk, walk = Walk(tree, follow_last),
         n # 0 => Known(walk, follow_last, n - 1, leads),
         NEW found, found = Follow(tree, way, leads)
  PROVE  found \in Found(n) /\ Leads(walk, follow_last, way, found)
<1> DEFINE parts == way.parts
           len == Len(parts)
           D == 0..len
           init == [at |-> way.dir, ok |-> TRUE, left |-> way.left]
           Next1(i, s) == Enter(tree, s, way.parts[i], way.follow \/ i < Len(way.parts), leads)
           At1(d, i) == IF i = 0 THEN [at |-> way.dir, ok |-> TRUE, left |-> way.left]
                        ELSE LET s == d[i - 1]
                             IN  Enter(tree, s, way.parts[i], way.follow \/ i < Len(way.parts), leads)
           step == [y \in (1..len) \X Found(n) |-> Next1(y[1], y[2])]
<1>1. /\ parts \in Path /\ way.dir \in Path /\ way.follow \in BOOLEAN
      /\ \A i \in 1..len : parts[i] \in STRING
  <2>1. parts \in Path /\ way.dir \in Path /\ way.follow \in BOOLEAN
    BY DEF Ways
  <2>2. \A i \in 1..len : parts[i] \in STRING
    BY <2>1 DEF Path
  <2> QED
    BY <2>1, <2>2
<1>2. len \in Nat /\ 0 \in D /\ len \in D /\ \A i \in 1..len : i \in D /\ i - 1 \in D /\ i # 0
  <2>1. len \in Nat
    BY <1>1 DEF Path
  <2> HIDE DEF len
  <2> QED
    BY <2>1
<1>3. init \in Found(n)
  <2>1. n \in 0..n
    BY MaxLinksAssumption
  <2> QED
    BY <1>1, <2>1 DEF Found
<1>4. \A i \in 1..len, s \in Found(n) : Next1(i, s) \in Found(n)
  <2> SUFFICES ASSUME NEW i \in 1..len, NEW s \in Found(n) PROVE Next1(i, s) \in Found(n)
    OBVIOUS
  <2>1. parts[i] \in STRING /\ (way.follow \/ i < len) \in BOOLEAN
    BY <1>1
  <2> QED
    BY <2>1, EnterIs
<1>5. \A d : At1(d, 0) = init /\ \A i \in 1..len : At1(d, i) = Next1(i, d[i - 1])
  BY <1>2
<1> HIDE DEF Next1
<1>6. \A i \in 1..len, s \in Found(n) : step[<<i, s>>] = Next1(i, s)
  BY <1>4
<1>7. \A i \in 1..len, s \in Found(n) : step[<<i, s>>] \in Found(n)
  <2> HIDE DEF step
  <2> QED
    BY <1>4, <1>6
<1> HIDE DEF step
<1>8. PICK f \in [D -> Found(n)] : f[0] = init /\ \A i \in 1..len : f[i] = step[<<i, f[i - 1]>>]
  <2>1. LoopOf(len, Found(n), init, step)
    <3> HIDE DEF init, len
    <3> QED
      BY <1>2, <1>3, <1>7, LoopIs
  <2> QED
    BY <2>1 DEF LoopOf
<1>9. \A i \in D : f[i] = At1(f, i)
  <2>1. \A i \in 1..len : f[i] = At1(f, i)
    <3>1. \A i \in 1..len : f[i - 1] \in Found(n)
      BY <1>2, <1>8
    <3> HIDE DEF At1, len
    <3> QED
      BY <1>5, <1>6, <1>8, <3>1
  <2>2. \A i \in D : i = 0 \/ i \in 1..len
    BY <1>2
  <2> HIDE DEF At1, init
  <2> QED
    BY <1>5, <1>8, <2>1, <2>2
<1> DEFINE d == CHOOSE d : d = [i \in D |-> At1(d, i)]
<1>10. f = [i \in D |-> At1(f, i)]
  <2> HIDE DEF At1, D
  <2> QED
    BY <1>9
<1>11. d = [i \in D |-> At1(d, i)]
  BY <1>10
<1>12. found = d[len]
  BY DEF Follow
<1> HIDE DEF d
<1>13. \A i \in D : d[i] = At1(d, i)
  <2> HIDE DEF At1, D
  <2> QED
    BY <1>11
<1>14. d[0] = init /\ \A i \in 1..len : d[i] = Next1(i, d[i - 1])
  <2> HIDE DEF At1, init
  <2> QED
    BY <1>2, <1>5, <1>13
<1>15. \A i \in D : d[i] \in Found(n)
  <2> DEFINE T == {i \in D : d[i] \in Found(n)}
  <2>1. 0 \in T
    <3> HIDE DEF init
    <3> QED
      BY <1>2, <1>3, <1>14
  <2>2. \A i \in 1..len : i - 1 \in T => i \in T
    <3> HIDE DEF init, len
    <3> QED
      BY <1>2, <1>4, <1>14
  <2>3. \A i \in 0..len : i \in T
    <3> HIDE DEF T
    <3> QED
      BY <1>2, <2>1, <2>2, Upward
  <2> QED
    BY <2>3
<1>16. ASSUME found.ok, NEW rest \in Path, way.follow <=> (follow_last \/ rest # <<>>)
       PROVE  walk[Walking(parts \o rest, way.dir, MAX_LINKS - way.left)]
                = walk[Walking(rest, found.at, MAX_LINKS - found.left)]
  <2> DEFINE Todo(i) == SubSeq(parts, i + 1, len) \o rest
             whole == walk[Walking(parts \o rest, way.dir, MAX_LINKS - way.left)]
             T == {i \in D : d[i].ok => whole = walk[Walking(Todo(i), d[i].at, MAX_LINKS - d[i].left)]}
  <2>1. 0 \in T
    <3>1. SubSeq(parts, 0 + 1, len) = parts
      BY <1>1, <1>2 DEF Path
    <3>2. d[0].at = way.dir /\ d[0].left = way.left
      BY <1>14
    <3> QED
      BY <1>2, <3>1, <3>2
  <2>2. ASSUME NEW i \in 1..len, i - 1 \in T PROVE i \in T
    <3> DEFINE s == d[i - 1]
               e == d[i]
               follow == way.follow \/ i < len
               todo == SubSeq(parts, i, len) \o rest
    <3>1. s \in Found(n) /\ parts[i] \in STRING /\ follow \in BOOLEAN
      BY <1>1, <1>2, <1>15
    <3>2. e = Enter(tree, s, parts[i], follow, leads)
      BY <1>14 DEF Next1
    <3>3. i - 1 + 1 = i
      BY <1>2
    <3>4. Todo(i - 1) = todo
      BY <3>3
    <3>5. s.ok => whole = walk[Walking(todo, s.at, MAX_LINKS - s.left)]
      <4> HIDE DEF todo, whole
      <4>1. s.ok => whole = walk[Walking(Todo(i - 1), s.at, MAX_LINKS - s.left)]
        BY <2>2
      <4> QED
        BY <3>4, <4>1
    <3>6. /\ todo \in Path /\ todo # <<>> /\ Head(todo) = parts[i]
          /\ Tail(todo) = Todo(i)
          /\ Tail(todo) = <<>> <=> i = len /\ rest = <<>>
      <4>1. parts \in Path /\ rest \in Path /\ i \in 1..Len(parts)
        BY <1>1, <1>16
      <4> HIDE DEF parts
      <4> QED
        BY <4>1, NamesLeft
    <3>7. follow <=> (follow_last \/ Tail(todo) # <<>>)
      <4>1. i < len <=> i # len
        BY <1>2
      <4> HIDE DEF todo, len
      <4> QED
        BY <4>1, <1>16, <3>6
    <3> HIDE DEF s, e, follow, todo, whole
    <3>8. Entered(walk, follow_last, s, parts[i], follow, e)
      BY <3>1, <3>2, EnterIs
    <3>10. e.ok => s.ok /\ walk[Walking(todo, s.at, MAX_LINKS - s.left)]
                             = walk[Walking(Tail(todo), e.at, MAX_LINKS - e.left)]
      <4> HIDE DEF parts, len
      <4> QED
        BY <3>6, <3>7, <3>8 DEF Entered
    <3>9. e.ok => whole = walk[Walking(Todo(i), e.at, MAX_LINKS - e.left)]
      <4> HIDE DEF Todo
      <4> QED
        BY <3>5, <3>6, <3>10
    <3> QED
      BY <1>2, <3>9 DEF e
  <2>3. \A i \in 0..len : i \in T
    <3> HIDE DEF T
    <3> QED
      BY <1>2, <2>1, <2>2, Upward
  <2>4. Todo(len) = rest
    <3>1. SubSeq(parts, len + 1, len) = <<>>
      BY <1>1, <1>2 DEF Path
    <3>2. <<>> \o rest = rest
      BY DEF Path
    <3> QED
      BY <3>1, <3>2
  <2>5. found.ok => whole = walk[Walking(Todo(len), found.at, MAX_LINKS - found.left)]
    <3> HIDE DEF whole, Todo
    <3> QED
      BY <1>2, <1>12, <2>3
  <2> HIDE DEF Todo
  <2> QED
    BY <1>16, <2>4, <2>5
<1> QED
  BY <1>2, <1>12, <1>15, <1>16 DEF Leads

\* Ways with up to n links, from what is known of those with less.
Level(tree, n, leads) ==
  [way \in Ways(n) |-> IF way.left = n THEN Follow(tree, way, leads) ELSE leads[way]]

LEMMA LevelIs ==
  ASSUME NEW tree, Tree(tree), NEW n \in 0..MAX_LINKS, NEW leads, NEW follow_last,
         NEW walk, walk = Walk(tree, follow_last),
         n # 0 => Known(walk, follow_last, n - 1, leads)
  PROVE  Known(walk, follow_last, n, Level(tree, n, leads))
<1> DEFINE level == Level(tree, n, leads)
<1>1. n \in Nat
  BY MaxLinksAssumption
<1>2. ASSUME NEW way \in Ways(n)
      PROVE  level[way] \in Found(n) /\ Leads(walk, follow_last, way, level[way])
  <2>1. way.left \in 0..n
    BY DEF Ways
  <2>2. level[way] = IF way.left = n THEN Follow(tree, way, leads) ELSE leads[way]
    BY DEF Level
  <2>3. CASE way.left = n
    <3>1. Follow(tree, way, leads) \in Found(n) /\ Leads(walk, follow_last, way, Follow(tree, way, leads))
      BY <2>3, FollowIs
    <3> HIDE DEF level
    <3> QED
      BY <2>2, <2>3, <3>1
  <2>4. CASE way.left # n
    <3>1. n # 0 /\ way.left \in 0..(n - 1)
      BY <1>1, <2>1, <2>4
    <3>2. way \in Ways(n - 1)
      BY <3>1 DEF Ways
    <3>3. leads[way] \in Found(n - 1) /\ Leads(walk, follow_last, way, leads[way])
      BY <3>1, <3>2 DEF Known
    <3>4. 0..(n - 1) \subseteq 0..n
      BY <1>1
    <3>5. leads[way] \in Found(n)
      BY <3>3, <3>4 DEF Found
    <3> HIDE DEF level
    <3> QED
      BY <2>2, <2>4, <3>3, <3>5
  <2> QED
    BY <2>3, <2>4
<1>3. level = [way \in Ways(n) |-> level[way]]
  BY DEF Level
<1> HIDE DEF level
<1>4. level \in [Ways(n) -> Found(n)]
  BY <1>2, <1>3
<1>5. Known(walk, follow_last, n, level)
  BY <1>2, <1>4 DEF Known
<1> QED
  BY <1>5 DEF level

\* Link by link.
LEMMA ChrootIs ==
  ASSUME NEW tree, Tree(tree), NEW follow_last, NEW walk, walk = Walk(tree, follow_last)
  PROVE  Known(walk, follow_last, MAX_LINKS, Chroot(tree))
<1> DEFINE D == 0..MAX_LINKS
           Kn(n, l) == Known(walk, follow_last, n, l)
           first == Level(tree, 0, <<>>)
           S == UNION {[Ways(n) -> Found(n)] : n \in D}
           Next1(i, x) == IF Kn(i - 1, x) THEN Level(tree, i, x) ELSE first
           step == [y \in (1..MAX_LINKS) \X S |-> Next1(y[1], y[2])]
           At1(d, n) == [way \in Ways(n) |->
                           IF way.left = n THEN Follow(tree, way, IF n = 0 THEN <<>> ELSE d[n - 1])
                           ELSE d[n - 1][way]]
<1>1. /\ MAX_LINKS \in Nat /\ 0 \in D /\ MAX_LINKS \in D
      /\ \A i \in 1..MAX_LINKS : i \in D /\ i - 1 \in D /\ i # 0
      /\ \A i \in D : i = 0 \/ i \in 1..MAX_LINKS
  BY MaxLinksAssumption
<1>2. Kn(0, first)
  BY <1>1, LevelIs
<1>3. \A i \in 1..MAX_LINKS : \A x : Kn(i - 1, x) => Kn(i, Level(tree, i, x))
  BY <1>1, LevelIs
<1>4. \A n \in D : \A l : Kn(n, l) => l \in S
  BY DEF Known
<1> HIDE DEF Kn, S, first
<1>5. \A i \in 1..MAX_LINKS, x \in S : Next1(i, x) \in S
  BY <1>1, <1>2, <1>3, <1>4
<1> HIDE DEF Next1
<1>6. \A i \in 1..MAX_LINKS, x \in S : step[<<i, x>>] = Next1(i, x)
  OBVIOUS
<1> HIDE DEF step
<1>7. LoopOf(MAX_LINKS, S, first, step)
  <2>1. first \in S
    BY <1>1, <1>2, <1>4
  <2>2. \A i \in 1..MAX_LINKS, x \in S : step[<<i, x>>] \in S
    BY <1>5, <1>6
  <2> QED
    BY <1>1, <2>1, <2>2, LoopIs
<1>8. PICK f \in [D -> S] : f[0] = first /\ \A i \in 1..MAX_LINKS : f[i] = step[<<i, f[i - 1]>>]
  BY <1>7 DEF LoopOf
<1>9. \A i \in 1..MAX_LINKS : f[i] = Next1(i, f[i - 1])
  BY <1>1, <1>6, <1>8
<1>10. \A i \in D : Kn(i, f[i])
  <2> DEFINE T == {i \in D : Kn(i, f[i])}
  <2>1. 0 \in T
    BY <1>1, <1>2, <1>8
  <2>2. \A i \in 1..MAX_LINKS : i - 1 \in T => i \in T
    BY <1>1, <1>3, <1>9 DEF Next1
  <2>3. \A i \in 0..MAX_LINKS : i \in T
    <3> HIDE DEF T
    <3> QED
      BY <1>1, <2>1, <2>2, Upward
  <2> QED
    BY <2>3
<1>11. \A d : At1(d, 0) = first
  <2> SUFFICES ASSUME NEW d PROVE At1(d, 0) = first
    OBVIOUS
  <2>1. \A way \in Ways(0) : way.left = 0
    BY DEF Ways
  <2> QED
    BY <2>1 DEF first, Level
<1>12. \A d : \A i \in 1..MAX_LINKS : At1(d, i) = Level(tree, i, d[i - 1])
  BY <1>1 DEF Level
<1> HIDE DEF At1
<1>13. \A i \in D : f[i] = At1(f, i)
  <2>1. f[0] = At1(f, 0)
    BY <1>8, <1>11
  <2>2. \A i \in 1..MAX_LINKS : f[i] = At1(f, i)
    BY <1>1, <1>9, <1>10, <1>12 DEF Next1
  <2> QED
    BY <1>1, <2>1, <2>2
<1> DEFINE d == CHOOSE d : d = [n \in D |-> At1(d, n)]
<1>14. f = [n \in D |-> At1(f, n)]
  BY <1>13
<1>15. d = [n \in D |-> At1(d, n)]
  BY <1>14
<1>16. Chroot(tree) = d[MAX_LINKS]
  BY DEF Chroot, At1
<1> HIDE DEF d
<1>17. \A i \in D : d[i] = At1(d, i)
  BY <1>15
<1>18. \A i \in D : Kn(i, d[i])
  <2> DEFINE T == {i \in D : Kn(i, d[i])}
  <2>1. 0 \in T
    BY <1>1, <1>2, <1>11, <1>17
  <2>2. \A i \in 1..MAX_LINKS : i - 1 \in T => i \in T
    BY <1>1, <1>3, <1>12, <1>17
  <2>3. \A i \in 0..MAX_LINKS : i \in T
    <3> HIDE DEF T
    <3> QED
      BY <1>1, <2>1, <2>2, Upward
  <2> QED
    BY <2>3
<1> QED
  BY <1>1, <1>16, <1>18 DEF Kn

\* A path that a chroot opens is found where the chroot finds it.
LEMMA WalkIsRight ==
  ASSUME NEW tree, Tree(tree), NEW abs \in Path, NEW follow_last \in BOOLEAN
  PROVE  WalkedAsChroot(tree, abs, follow_last, Resolved(tree, abs, follow_last))
<1> DEFINE walk == Walk(tree, follow_last)
           way == Way(<<>>, abs, follow_last, MAX_LINKS)
           found == Chroot(tree)[way]
<1>1. Known(walk, follow_last, MAX_LINKS, Chroot(tree))
  BY ChrootIs
<1>2. MAX_LINKS \in Nat /\ MAX_LINKS \in 0..MAX_LINKS /\ MAX_LINKS - MAX_LINKS = 0
  BY MaxLinksAssumption
<1>3. /\ way \in Ways(MAX_LINKS) /\ way.dir = <<>> /\ way.parts = abs
      /\ way.follow = follow_last /\ way.left = MAX_LINKS
  BY <1>2, NoPath DEF Way, Ways
<1> HIDE DEF way
<1>4. found \in Found(MAX_LINKS) /\ Leads(walk, follow_last, way, found)
  BY <1>1, <1>3 DEF Known
<1>5. Resolved(tree, abs, follow_last) = walk[Walking(abs, <<>>, 0)]
  BY DEF Resolved
<1>6. \A done \in Path, links \in Nat : walk[Walking(<<>>, done, links)] = done
  BY WalkIs
<1> HIDE DEF walk, found
<1>7. found.ok => walk[Walking(abs, <<>>, 0)] = found.at
  <2> SUFFICES ASSUME found.ok PROVE walk[Walking(abs, <<>>, 0)] = found.at
    OBVIOUS
  <2>1. found.at \in Path /\ MAX_LINKS - found.left \in Nat
    <3>1. found.at \in Path /\ found.left \in 0..MAX_LINKS
      BY <1>4 DEF Found
    <3> QED
      BY <1>2, <3>1
  <2>2. abs \o <<>> = abs /\ <<>> \in Path
    BY NoPath DEF Path
  <2>3. walk[Walking(abs \o <<>>, <<>>, MAX_LINKS - MAX_LINKS)]
          = walk[Walking(<<>>, found.at, MAX_LINKS - found.left)]
    BY <1>3, <1>4, <2>2 DEF Leads
  <2> QED
    BY <1>2, <1>6, <2>1, <2>2, <2>3
<1> QED
  BY <1>5, <1>7 DEF WalkedAsChroot, found, way

(* LinksLeadAsInAChroot: a probe reads the file that a chroot into the root  *)
(* would open, if it would open one, for any tree of links, any path and any *)
(* limit on the links that are followed.                                     *)
THEOREM LinksLeadAsInAChroot == CallSpec => []WalksAsChroot
<1> DEFINE Asked == call = "resolve" => input \in Walks
<1>1. CallInit => Asked /\ WalksAsChroot
  BY DEF CallInit, WalksAsChroot, Returned
<1>2. Asked /\ WalksAsChroot /\ [CallNext]_vars => Asked' /\ WalksAsChroot'
  <2> SUFFICES ASSUME Asked, WalksAsChroot, [CallNext]_vars
               PROVE  Asked' /\ WalksAsChroot'
    OBVIOUS
  <2>1. CASE FindClosest
    BY <2>1 DEF FindClosest, Called, WalksAsChroot, Returned
  <2>2. CASE FindWords
    BY <2>2 DEF FindWords, Called, WalksAsChroot, Returned
  <2>3. CASE Redact
    BY <2>3 DEF Redact, Called, WalksAsChroot, Returned
  <2>4. CASE WrapText
    BY <2>4 DEF WrapText, Called, WalksAsChroot, Returned
  <2>5. CASE ReadSections
    BY <2>5 DEF ReadSections, Called, WalksAsChroot, Returned
  <2>6. CASE ResolvePath
    <3>1. /\ call = "resolve" /\ call' = call /\ input' = input
          /\ output' = Resolved(input.tree, input.path, input.follow_last)
      BY <2>6 DEF ResolvePath, Called
    <3>2. Tree(input.tree) /\ input.path \in Path /\ input.follow_last \in BOOLEAN
      BY <3>1, WalksAssumption
    <3>3. WalkedAsChroot(input.tree, input.path, input.follow_last, output')
      BY <3>1, <3>2, WalkIsRight
    <3> QED
      BY <3>1, <3>3 DEF WalksAsChroot
  <2>7. CASE ReadServer
    BY <2>7 DEF ReadServer, Called, WalksAsChroot, Returned
  <2>8. CASE UNCHANGED vars
    BY <2>8 DEF vars, WalksAsChroot, Returned
  <2> QED
    BY <2>1, <2>2, <2>3, <2>4, <2>5, <2>6, <2>7, <2>8 DEF CallNext
<1> QED
  BY <1>1, <1>2, PTL DEF CallSpec

-----------------------------------------------------------------------------
(* Settings *)

\* Where something is.
Numbers == Seq(Nat)

IsBelow(i, k, at, b) ==
  /\ b \in Numbers /\ Len(b) = Len(at) + 2 /\ b[1] = i /\ b[2] = k
  /\ \A m \in 1..Len(at) : b[m + 2] = at[m]

LEMMA BelowIs ==
  ASSUME NEW i \in Nat, NEW k \in Nat, NEW at \in Numbers
  PROVE  IsBelow(i, k, at, Below(i, k, at))
<1> DEFINE two == <<i, k>>
           b == two \o at
<1>1. two \in Seq(Nat) /\ Len(two) = 2 /\ two[1] = i /\ two[2] = k
  OBVIOUS
<1>2. at \in Seq(Nat) /\ Len(at) \in Nat
  BY DEF Numbers
<1> HIDE DEF two
<1>3. b \in Seq(Nat)
  BY <1>1, <1>2
<1>4. Len(b) = Len(two) + Len(at) /\ \A m \in 1..(Len(two) + Len(at)) :
        b[m] = IF m <= Len(two) THEN two[m] ELSE at[m - Len(two)]
  BY <1>1, <1>2, ConcatProperties
<1> HIDE DEF b
<1>5. Len(b) = Len(at) + 2
  BY <1>1, <1>2, <1>4
<1>6. \A m \in 1..Len(at) : b[m + 2] = at[m]
  <2> TAKE m \in 1..Len(at)
  <2>1. m + 2 \in 1..(2 + Len(at)) /\ ~(m + 2 <= 2) /\ m + 2 - 2 = m
    BY <1>2
  <2> QED
    BY <1>1, <1>4, <2>1
<1>7. b[1] = i /\ b[2] = k
  <2>1. 1 \in 1..(2 + Len(at)) /\ 2 \in 1..(2 + Len(at))
    BY <1>2
  <2> QED
    BY <1>1, <1>4, <2>1
<1> QED
  BY <1>3, <1>5, <1>6, <1>7 DEF IsBelow, Below, Numbers, b, two

LEMMA AppendIs ==
  ASSUME NEW at \in Numbers, NEW j \in Nat
  PROVE  /\ Append(at, j) \in Numbers /\ Len(Append(at, j)) = Len(at) + 1
         /\ Append(at, j)[Len(at) + 1] = j
         /\ \A m \in 1..Len(at) : Append(at, j)[m] = at[m]
<1>1. at \in Seq(Nat)
  BY DEF Numbers
<1>2. Append(at, j) \in Seq(Nat)
  BY <1>1
<1> QED
  BY <1>1, <1>2, AppendProperties DEF Numbers

LEMMA AppendBelow ==
  ASSUME NEW i \in Nat, NEW k \in Nat, NEW at \in Numbers, NEW j \in Nat
  PROVE  Append(Below(i, k, at), j) = Below(i, k, Append(at, j))
<1> DEFINE n == Len(at)
           a == Append(Below(i, k, at), j)
           b == Below(i, k, Append(at, j))
<1>1. n \in Nat
  BY DEF Numbers
<1>2. /\ Append(at, j) \in Numbers /\ Len(Append(at, j)) = n + 1 /\ Append(at, j)[n + 1] = j
      /\ \A m \in 1..n : Append(at, j)[m] = at[m]
  BY AppendIs
<1>3. IsBelow(i, k, at, Below(i, k, at))
  BY BelowIs
<1>4. /\ a \in Numbers /\ Len(a) = n + 2 + 1 /\ a[n + 2 + 1] = j
      /\ \A m \in 1..(n + 2) : a[m] = Below(i, k, at)[m]
  BY <1>3, AppendIs DEF IsBelow
<1>5. IsBelow(i, k, Append(at, j), b)
  BY <1>2, BelowIs
<1> HIDE DEF a, b, n
<1>6. ASSUME NEW m \in 1..(n + 3) PROVE a[m] = b[m]
  <2>1. CASE m = 1 \/ m = 2
    <3>1. m \in 1..(n + 2)
      BY <1>1, <2>1
    <3> QED
      BY <2>1, <3>1, <1>3, <1>4, <1>5 DEF IsBelow
  <2>2. CASE m \in 3..(n + 2)
    <3>1. m - 2 \in 1..n /\ m - 2 \in 1..(n + 1) /\ m - 2 + 2 = m /\ m \in 1..(n + 2)
      BY <1>1, <2>2
    <3>2. b[m] = at[m - 2]
      BY <3>1, <1>2, <1>5 DEF IsBelow
    <3>3. a[m] = at[m - 2]
      BY <3>1, <1>3, <1>4 DEF IsBelow, n
    <3> QED
      BY <3>2, <3>3
  <2>3. CASE m = n + 3
    <3>1. n + 1 \in 1..(n + 1) /\ n + 1 + 2 = m /\ n + 2 + 1 = m
      BY <1>1, <2>3
    <3> QED
      BY <3>1, <1>2, <1>4, <1>5 DEF IsBelow
  <2>4. m \in 3..(n + 2) \/ m = 1 \/ m = 2 \/ m = n + 3
    BY <1>1
  <2> QED
    BY <2>1, <2>2, <2>3, <2>4
<1>7. a \in Seq(Nat) /\ b \in Seq(Nat) /\ Len(a) = n + 3 /\ Len(b) = n + 3
  BY <1>1, <1>2, <1>4, <1>5 DEF Numbers, IsBelow
<1>8. a = b
  BY <1>6, <1>7, SeqEqual
<1> QED
  BY <1>8 DEF a, b

LEMMA EarlierBelow ==
  ASSUME NEW i \in Nat, NEW k \in Nat, NEW a \in Numbers, NEW b \in Numbers, Earlier(a, b)
  PROVE  Earlier(Below(i, k, a), Below(i, k, b))
<1> DEFINE c == Below(i, k, a)
           d == Below(i, k, b)
<1>1. /\ Len(c) = Len(a) + 2 /\ c[1] = i /\ c[2] = k /\ \A m \in 1..Len(a) : c[m + 2] = a[m]
      /\ Len(d) = Len(b) + 2 /\ d[1] = i /\ d[2] = k /\ \A m \in 1..Len(b) : d[m + 2] = b[m]
  <2>1. IsBelow(i, k, a, c) /\ IsBelow(i, k, b, d)
    BY BelowIs
  <2> HIDE DEF c, d
  <2> QED
    BY <2>1 DEF IsBelow
<1>2. PICK n \in 1..Len(a) : n <= Len(b) /\ a[n] < b[n] /\ \A m \in 1..(n - 1) : a[m] = b[m]
  BY DEF Earlier
<1>3. Len(a) \in Nat /\ Len(b) \in Nat
  BY DEF Numbers
<1> HIDE DEF c, d
<1>4. n + 2 \in 1..Len(c) /\ n + 2 <= Len(d) /\ n \in 1..Len(b)
  BY <1>1, <1>2, <1>3
<1>5. c[n + 2] < d[n + 2]
  BY <1>1, <1>2, <1>4
<1>6. ASSUME NEW m \in 1..(n + 2 - 1) PROVE c[m] = d[m]
  <2>1. CASE m = 1 \/ m = 2
    BY <1>1, <2>1
  <2>2. CASE m # 1 /\ m # 2
    <3>1. m - 2 \in 1..(n - 1) /\ m - 2 \in 1..Len(a) /\ m - 2 \in 1..Len(b) /\ m - 2 + 2 = m
      BY <1>2, <1>3, <2>2
    <3>2. c[m] = a[m - 2] /\ d[m] = b[m - 2]
      BY <1>1, <3>1
    <3> QED
      BY <1>2, <3>1, <3>2
  <2> QED
    BY <2>1, <2>2
<1>7. Earlier(c, d)
  BY <1>4, <1>5, <1>6 DEF Earlier
<1> QED
  BY <1>7 DEF c, d

-----------------------------------------------------------------------------

Place == [at : Numbers, value : STRING]

\* The first of some places gives the value, if there is none yet.
Firsts(places, old, new) ==
  IF old # Unset THEN new = old
  ELSE IF places = {} THEN new = Unset
  ELSE \E p \in places : new = p.value /\ \A q \in places \ {p} : Earlier(p.at, q.at)

LEMMA NoneFirst ==
  ASSUME NEW value PROVE Firsts({}, value, value)
BY DEF Firsts

LEMMA ThenFirst ==
  ASSUME NEW P, NEW Q, NEW old, NEW mid, NEW new, P \subseteq Place,
         Firsts(P, old, mid), Firsts(Q, mid, new),
         \A p \in P, q \in Q : Earlier(p.at, q.at)
  PROVE  Firsts(P \cup Q, old, new)
<1>1. CASE old # Unset
  BY <1>1 DEF Firsts
<1>2. CASE old = Unset /\ P = {}
  <2>1. mid = Unset /\ P \cup Q = Q
    BY <1>2 DEF Firsts
  <2> QED
    BY <1>2, <2>1
<1>3. CASE old = Unset /\ P # {}
  <2>1. PICK p \in P : mid = p.value /\ \A q \in P \ {p} : Earlier(p.at, q.at)
    BY <1>3 DEF Firsts
  <2>2. p.value \in STRING
    BY DEF Place
  <2>3. mid # Unset
    BY <2>1, <2>2, SshdAssumption
  <2>4. new = p.value
    BY <2>1, <2>3 DEF Firsts
  <2>5. p \in P \cup Q /\ \A q \in (P \cup Q) \ {p} : Earlier(p.at, q.at)
    BY <2>1
  <2> QED
    BY <1>3, <2>4, <2>5 DEF Firsts
<1> QED
  BY <1>1, <1>2, <1>3

Under(i, k, places) == {[at |-> Below(i, k, p.at), value |-> p.value] : p \in places}

LEMMA FirstUnder ==
  ASSUME NEW i \in Nat, NEW k \in Nat, NEW P, NEW old, NEW new, P \subseteq Place, Firsts(P, old, new)
  PROVE  Firsts(Under(i, k, P), old, new)
<1>1. CASE old # Unset
  BY <1>1 DEF Firsts
<1>2. CASE old = Unset /\ P = {}
  <2>1. Under(i, k, P) = {}
    BY <1>2 DEF Under
  <2> QED
    BY <1>2, <2>1 DEF Firsts
<1>3. CASE old = Unset /\ P # {}
  <2>1. PICK p \in P : new = p.value /\ \A q \in P \ {p} : Earlier(p.at, q.at)
    BY <1>3 DEF Firsts
  <2> DEFINE u == [at |-> Below(i, k, p.at), value |-> p.value]
  <2>2. u \in Under(i, k, P) /\ new = u.value /\ u.at = Below(i, k, p.at)
    BY <2>1 DEF Under
  <2>3. ASSUME NEW w \in Under(i, k, P) \ {u} PROVE Earlier(u.at, w.at)
    <3>1. PICK q \in P : w = [at |-> Below(i, k, q.at), value |-> q.value]
      BY <2>3 DEF Under
    <3>2. q # p /\ w.at = Below(i, k, q.at)
      BY <2>3, <3>1
    <3>3. Earlier(p.at, q.at) /\ p.at \in Numbers /\ q.at \in Numbers
      BY <2>1, <3>2 DEF Place
    <3> QED
      BY <2>2, <3>2, <3>3, EarlierBelow
  <2> HIDE DEF u
  <2>4. Under(i, k, P) # {}
    BY <2>2
  <2> QED
    BY <1>3, <2>2, <2>3, <2>4 DEF Firsts
<1> QED
  BY <1>1, <1>2, <1>3

-----------------------------------------------------------------------------

\* What is read adds to s the first value at some places, and that some files
\* are missing.
Added(places, missing, s, t) ==
  /\ t \in SshdServer
  /\ \A key \in Settings : Firsts(places[key], s.set[key], t.set[key])
  /\ t.unreadable <=> s.unreadable \/ missing # {}

PlacesOfAll == [Settings -> SUBSET Place]

LEMMA NothingAdded ==
  ASSUME NEW s \in SshdServer
  PROVE  Added([key \in Settings |-> {}], {}, s, s)
BY NoneFirst DEF Added

LEMMA AddedThen ==
  ASSUME NEW P \in PlacesOfAll, NEW Q, NEW B, NEW C, NEW s, NEW t, NEW u,
         Added(P, B, s, t), Added(Q, C, t, u),
         \A key \in Settings : \A p \in P[key], q \in Q[key] : Earlier(p.at, q.at)
  PROVE  Added([key \in Settings |-> P[key] \cup Q[key]], B \cup C, s, u)
<1>1. u \in SshdServer
  BY DEF Added
<1>2. ASSUME NEW key \in Settings PROVE Firsts(P[key] \cup Q[key], s.set[key], u.set[key])
  <2>1. P[key] \subseteq Place
    BY DEF PlacesOfAll
  <2>2. Firsts(P[key], s.set[key], t.set[key]) /\ Firsts(Q[key], t.set[key], u.set[key])
    BY DEF Added
  <2> QED
    BY <2>1, <2>2, ThenFirst
<1>3. u.unreadable <=> s.unreadable \/ B \cup C # {}
  BY DEF Added
<1> QED
  BY <1>1, <1>2, <1>3 DEF Added

Upto(P, k) == [key \in Settings |-> UNION {P[i][key] : i \in 1..k}]
MissingUpto(B, k) == UNION {B[i] : i \in 1..k}

LEMMA AddedAll ==
  ASSUME NEW n \in Nat, NEW P \in [1..n -> PlacesOfAll], NEW B, NEW s \in SshdServer, NEW after,
         after[0] = s,
         \A i \in 1..n : after[i - 1] \in SshdServer => Added(P[i], B[i], after[i - 1], after[i]),
         \A i, j \in 1..n : i < j =>
           \A key \in Settings : \A p \in P[i][key], q \in P[j][key] : Earlier(p.at, q.at)
  PROVE  Added(Upto(P, n), MissingUpto(B, n), s, after[n])
<1> DEFINE T == {k \in 0..n : Added(Upto(P, k), MissingUpto(B, k), s, after[k])}
<1>1. 0 \in T
  <2>1. \A i : i \notin 1..0
    OBVIOUS
  <2>2. Upto(P, 0) = [key \in Settings |-> {}] /\ MissingUpto(B, 0) = {}
    BY <2>1 DEF Upto, MissingUpto
  <2>3. Added(Upto(P, 0), MissingUpto(B, 0), s, after[0])
    BY <2>2, NothingAdded
  <2> QED
    BY <2>3
<1>2. ASSUME NEW k \in 1..n, k - 1 \in T PROVE k \in T
  <2>1. Added(Upto(P, k - 1), MissingUpto(B, k - 1), s, after[k - 1])
    BY <1>2
  <2>2. Added(P[k], B[k], after[k - 1], after[k])
    BY <2>1 DEF Added
  <2>3. \A i \in 1..(k - 1) : i \in 1..n /\ i < k
    OBVIOUS
  <2>4. 1..k = 1..(k - 1) \cup {k}
    OBVIOUS
  <2>5. Upto(P, k - 1) \in PlacesOfAll
    <3>1. \A i \in 1..(k - 1), key \in Settings : P[i][key] \subseteq Place
      BY <2>3 DEF PlacesOfAll
    <3> QED
      BY <3>1 DEF Upto, PlacesOfAll
  <2>6. \A key \in Settings : \A p \in Upto(P, k - 1)[key], q \in P[k][key] : Earlier(p.at, q.at)
    <3> TAKE key \in Settings
    <3> TAKE p \in Upto(P, k - 1)[key], q \in P[k][key]
    <3>1. PICK i \in 1..(k - 1) : p \in P[i][key]
      BY DEF Upto
    <3> QED
      BY <2>3, <3>1
  <2> DEFINE R == [key \in Settings |-> Upto(P, k - 1)[key] \cup P[k][key]]
  <2>7. Added(R, MissingUpto(B, k - 1) \cup B[k], s, after[k])
    BY <2>1, <2>2, <2>5, <2>6, AddedThen
  <2>8. R = Upto(P, k)
    <3>1. \A key \in Settings : Upto(P, k - 1)[key] \cup P[k][key] = Upto(P, k)[key]
      BY <2>4 DEF Upto
    <3>2. Upto(P, k) = [key \in Settings |-> Upto(P, k)[key]]
      BY DEF Upto
    <3> QED
      BY <3>1, <3>2
  <2>9. MissingUpto(B, k - 1) \cup B[k] = MissingUpto(B, k)
    BY <2>4 DEF MissingUpto
  <2> HIDE DEF R
  <2>10. Added(Upto(P, k), MissingUpto(B, k), s, after[k])
    BY <2>7, <2>8, <2>9
  <2>11. k \in 0..n
    OBVIOUS
  <2> QED
    BY <2>10, <2>11
<1>3. \A k \in 0..n : k \in T
  <2> HIDE DEF T
  <2> QED
    BY <1>1, <1>2, Upward
<1>4. n \in 0..n
  OBVIOUS
<1> QED
  BY <1>3, <1>4

-----------------------------------------------------------------------------

Visit == [at : Numbers, file : STRING]

PlacesIn(files, visits) == [key \in Settings |-> Places(files, visits, key)]
Missing(files, visits) == {v.file : v \in {w \in visits : ~Readable(files, w.file)}}

SeenFiles(files) == SshdFiles(files) /\ SeesIncludes(files)

LEMMA LineIs ==
  ASSUME NEW files, SeenFiles(files), NEW file, NEW key, NEW i \in LiveWith(files, file, key)
  PROVE  /\ Readable(files, file) /\ file \in DOMAIN files
         /\ i \in 1..Len(files[file].lines) /\ i \in Nat
         /\ files[file].lines[i] \in SshdLine
         /\ files[file].lines[i].key = key
         /\ files[file].lines[i].value \in STRING
<1>1. Readable(files, file) /\ file \in DOMAIN files
  BY DEF LiveWith, Live, Readable
<1>2. files[file].lines \in Seq(SshdLine)
  BY <1>1 DEF SeenFiles, SshdFiles, SshdFile
<1>3. i \in DOMAIN files[file].lines /\ files[file].lines[i].key = key
  BY <1>1 DEF LiveWith, Live
<1> DEFINE lines == files[file].lines
<1> HIDE DEF lines
<1>4. lines \in Seq(SshdLine) /\ i \in DOMAIN lines
  BY <1>2, <1>3 DEF lines
<1>5. i \in 1..Len(lines) /\ i \in Nat /\ lines[i] \in SshdLine
  BY <1>4, ElementIs
<1>6. lines[i].value \in STRING
  BY <1>5 DEF SshdLine
<1> QED
  BY <1>1, <1>3, <1>5, <1>6 DEF lines

LEMMA PlacesTyped ==
  ASSUME NEW files, SeenFiles(files), NEW visits, visits \subseteq Visit
  PROVE  PlacesIn(files, visits) \in PlacesOfAll
<1>1. ASSUME NEW key \in Settings, NEW p \in Places(files, visits, key) PROVE p \in Place
  <2>1. PICK v \in visits : \E i \in LiveWith(files, v.file, key) :
          p = [at |-> Append(v.at, i), value |-> files[v.file].lines[i].value]
    BY <1>1 DEF Places
  <2>2. PICK i \in LiveWith(files, v.file, key) :
          p = [at |-> Append(v.at, i), value |-> files[v.file].lines[i].value]
    BY <2>1
  <2>3. v.at \in Numbers
    BY DEF Visit
  <2>4. i \in Nat /\ files[v.file].lines[i].value \in STRING
    BY LineIs
  <2>5. Append(v.at, i) \in Numbers
    BY <2>3, <2>4, AppendIs
  <2> QED
    BY <2>2, <2>4, <2>5 DEF Place
<1> QED
  BY <1>1 DEF PlacesIn, PlacesOfAll

\* expand has names.
LEMMA ExpandIs ==
  ASSUME NEW files, NEW pattern \in STRING
  PROVE  Expand(files, pattern) \in Seq(STRING)
<1> DEFINE len == Len(DropIns)
           D == 0..len
           Next1(n, x) == IF DropIns[n] \in DOMAIN files THEN Append(x, DropIns[n]) ELSE x
           At1(d, n) == IF n = 0 THEN <<>>
                        ELSE LET before == d[n - 1]
                             IN  IF DropIns[n] \in DOMAIN files THEN Append(before, DropIns[n]) ELSE before
           step == [y \in (1..len) \X Seq(STRING) |-> Next1(y[1], y[2])]
<1>1. len \in Nat /\ 0 \in D /\ len \in D /\ \A n \in 1..len : n \in D /\ n - 1 \in D /\ n # 0
  <2>1. len \in Nat
    BY SshdAssumption
  <2> HIDE DEF len
  <2> QED
    BY <2>1
<1>2. \A n \in 1..len : DropIns[n] \in STRING
  BY SshdAssumption
<1>3. \A n \in 1..len, x \in Seq(STRING) : Next1(n, x) \in Seq(STRING)
  BY <1>2, LongerIs
<1>4. \A d : At1(d, 0) = <<>> /\ \A n \in 1..len : At1(d, n) = Next1(n, d[n - 1])
  BY <1>1
<1> HIDE DEF Next1
<1>5. \A n \in 1..len, x \in Seq(STRING) : step[<<n, x>>] = Next1(n, x)
  BY <1>3
<1>6. \A n \in 1..len, x \in Seq(STRING) : step[<<n, x>>] \in Seq(STRING)
  <2> HIDE DEF step
  <2> QED
    BY <1>3, <1>5
<1> HIDE DEF step
<1>7. PICK f \in [D -> Seq(STRING)] : f[0] = <<>> /\ \A n \in 1..len : f[n] = step[<<n, f[n - 1]>>]
  <2>1. <<>> \in Seq(STRING)
    OBVIOUS
  <2>2. LoopOf(len, Seq(STRING), <<>>, step)
    <3> HIDE DEF len
    <3> QED
      BY <1>1, <1>6, <2>1, LoopIs
  <2> QED
    BY <2>2 DEF LoopOf
<1>8. \A n \in D : f[n] = At1(f, n)
  <2>1. \A n \in 1..len : f[n] = At1(f, n)
    <3>1. \A n \in 1..len : f[n - 1] \in Seq(STRING)
      BY <1>1, <1>7
    <3> HIDE DEF At1, len
    <3> QED
      BY <1>4, <1>5, <1>7, <3>1
  <2>2. \A n \in D : n = 0 \/ n \in 1..len
    BY <1>1
  <2> HIDE DEF At1
  <2> QED
    BY <1>4, <1>7, <2>1, <2>2
<1> DEFINE d == CHOOSE d : d = [n \in D |-> At1(d, n)]
<1>9. f = [n \in D |-> At1(f, n)]
  <2> HIDE DEF At1, D
  <2> QED
    BY SMTT(30), <1>8
<1>10. d = [n \in D |-> At1(d, n)]
  BY <1>9
<1>11. Expand(files, pattern) \in {d[len], <<>>, <<pattern>>}
  BY DEF Expand, DropInsThere
<1> HIDE DEF d
<1>12. \A n \in D : d[n] = At1(d, n)
  <2> HIDE DEF At1, D
  <2> QED
    BY <1>10
<1>13. \A n \in D : d[n] \in Seq(STRING)
  <2> DEFINE T == {n \in D : d[n] \in Seq(STRING)}
  <2>1. 0 \in T
    <3> HIDE DEF At1
    <3>1. d[0] = <<>>
      BY <1>1, <1>4, <1>12
    <3> QED
      BY <1>1, <3>1, EmptySeq
  <2>2. \A n \in 1..len : n - 1 \in T => n \in T
    <3> HIDE DEF At1, len
    <3> QED
      BY <1>1, <1>3, <1>4, <1>12
  <2>3. \A n \in 0..len : n \in T
    <3> HIDE DEF T
    <3> QED
      BY <1>1, <2>1, <2>2, Upward
  <2> QED
    BY <2>3
<1>14. <<pattern>> \in Seq(STRING)
  OBVIOUS
<1> QED
  BY <1>1, <1>11, <1>13, <1>14, EmptySeq

\* What is read from files, and where they and those they include are.
Reads(files, level, read) ==
  /\ level \in [STRING -> SUBSET Visit]
  /\ \A file \in STRING, t \in SshdServer :
       Added(PlacesIn(files, level[file]), Missing(files, level[file]), t,
             read[[file |-> file, s |-> t]])

LEMMA AddedUnder ==
  ASSUME NEW i \in Nat, NEW k \in Nat, NEW P \in PlacesOfAll, NEW B, NEW s, NEW t, Added(P, B, s, t)
  PROVE  Added([key \in Settings |-> Under(i, k, P[key])], B, s, t)
<1>1. ASSUME NEW key \in Settings PROVE Firsts(Under(i, k, P[key]), s.set[key], t.set[key])
  <2>1. P[key] \subseteq Place
    BY DEF PlacesOfAll
  <2>2. Firsts(P[key], s.set[key], t.set[key])
    BY DEF Added
  <2> QED
    BY <2>1, <2>2, FirstUnder
<1> QED
  BY <1>1 DEF Added

LEMMA UnderTyped ==
  ASSUME NEW i \in Nat, NEW k \in Nat, NEW P, P \subseteq Place
  PROVE  Under(i, k, P) \subseteq Place
<1> SUFFICES ASSUME NEW u \in Under(i, k, P) PROVE u \in Place
  OBVIOUS
<1>1. PICK p \in P : u = [at |-> Below(i, k, p.at), value |-> p.value]
  BY DEF Under
<1>2. p.at \in Numbers /\ p.value \in STRING
  BY DEF Place
<1>3. Below(i, k, p.at) \in Numbers
  BY <1>2, BelowIs DEF IsBelow
<1> QED
  BY <1>1, <1>2, <1>3 DEF Place

\* Of two files of an Include, the places in the first one are earlier.
LEMMA EarlierFile ==
  ASSUME NEW i \in Nat, NEW k \in Nat, NEW l \in Nat, k < l, NEW P, NEW Q, P \subseteq Place, Q \subseteq Place,
         NEW p \in Under(i, k, P), NEW q \in Under(i, l, Q)
  PROVE  Earlier(p.at, q.at)
<1>1. PICK a \in P : p = [at |-> Below(i, k, a.at), value |-> a.value]
  BY DEF Under
<1>2. PICK b \in Q : q = [at |-> Below(i, l, b.at), value |-> b.value]
  BY DEF Under
<1>3. a.at \in Numbers /\ b.at \in Numbers
  BY DEF Place
<1>4. IsBelow(i, k, a.at, p.at) /\ IsBelow(i, l, b.at, q.at)
  BY <1>1, <1>2, <1>3, BelowIs
<1> DEFINE c == p.at
           d == q.at
<1>5. /\ Len(c) = Len(a.at) + 2 /\ Len(a.at) \in Nat /\ c[1] = i /\ c[2] = k
      /\ Len(d) = Len(b.at) + 2 /\ Len(b.at) \in Nat /\ d[1] = i /\ d[2] = l
  BY SMTT(30), <1>3, <1>4 DEF IsBelow, Numbers
<1> HIDE DEF c, d
<1>6. 2 \in 1..Len(c) /\ 2 <= Len(d) /\ c[2] < d[2] /\ \A m \in 1..(2 - 1) : c[m] = d[m]
  BY <1>5
<1>7. Earlier(c, d)
  BY <1>6 DEF Earlier
<1> QED
  BY <1>7 DEF c, d

\* The files of an Include, in their order.
PlacesOfFile(files, level, list, i, k) ==
  [key \in Settings |-> Under(i, k, PlacesIn(files, level[list[k]])[key])]
PlacesOfFiles(files, level, list, i) ==
  [k \in 1..Len(list) |-> PlacesOfFile(files, level, list, i, k)]
MissingOfFiles(files, level, list) == [k \in 1..Len(list) |-> Missing(files, level[list[k]])]

LEMMA PlacesOfFilesTyped ==
  ASSUME NEW files, SeenFiles(files), NEW level \in [STRING -> SUBSET Visit], NEW list \in Seq(STRING),
         NEW i \in Nat, NEW k \in 1..Len(list)
  PROVE  /\ PlacesIn(files, level[list[k]]) \in PlacesOfAll
         /\ PlacesOfFiles(files, level, list, i)[k] \in PlacesOfAll
<1>1. list[k] \in STRING
  OBVIOUS
<1>2. level[list[k]] \subseteq Visit
  BY <1>1
<1>3. PlacesIn(files, level[list[k]]) \in PlacesOfAll
  BY <1>2, PlacesTyped
<1>4. \A key \in Settings : Under(i, k, PlacesIn(files, level[list[k]])[key]) \subseteq Place
  <2>1. \A key \in Settings : PlacesIn(files, level[list[k]])[key] \subseteq Place
    BY <1>3 DEF PlacesOfAll
  <2>2. k \in Nat
    OBVIOUS
  <2> QED
    BY <2>1, <2>2, UnderTyped
<1>5. PlacesOfFile(files, level, list, i, k) \in PlacesOfAll
  BY <1>4 DEF PlacesOfFile, PlacesOfAll
<1> QED
  BY <1>3, <1>5 DEF PlacesOfFiles

LEMMA ReadAllIs ==
  ASSUME NEW files, SeenFiles(files), NEW level, NEW read, Reads(files, level, read),
         NEW list \in Seq(STRING), NEW i \in Nat, NEW s \in SshdServer
  PROVE  Added(Upto(PlacesOfFiles(files, level, list, i), Len(list)),
               MissingUpto(MissingOfFiles(files, level, list), Len(list)), s, ReadAll(list, s, read))
<1> DEFINE len == Len(list)
           D == 0..len
           P == PlacesOfFiles(files, level, list, i)
           B == MissingOfFiles(files, level, list)
           Next1(k, x) == read[[file |-> list[k], s |-> x]]
           At1(d, k) == IF k = 0 THEN s ELSE read[[file |-> list[k], s |-> d[k - 1]]]
           step == [y \in (1..len) \X SshdServer |-> Next1(y[1], y[2])]
<1>1. len \in Nat /\ 0 \in D /\ len \in D /\ \A k \in 1..len : k \in D /\ k - 1 \in D /\ k # 0
  <2>1. len \in Nat
    OBVIOUS
  <2> HIDE DEF len
  <2> QED
    BY <2>1
<1>2. level \in [STRING -> SUBSET Visit]
  BY DEF Reads
<1>3. \A k \in 1..len, x \in SshdServer : Added(P[k], B[k], x, Next1(k, x))
  <2> TAKE k \in 1..len, x \in SshdServer
  <2>1. list[k] \in STRING /\ k \in Nat
    OBVIOUS
  <2>2. Added(PlacesIn(files, level[list[k]]), Missing(files, level[list[k]]), x, Next1(k, x))
    BY <2>1 DEF Reads
  <2>3. PlacesIn(files, level[list[k]]) \in PlacesOfAll
    BY <1>2, PlacesOfFilesTyped
  <2>4. B[k] = Missing(files, level[list[k]])
    BY DEF MissingOfFiles
  <2>5. P[k] = [key \in Settings |-> Under(i, k, PlacesIn(files, level[list[k]])[key])]
    BY DEF PlacesOfFiles, PlacesOfFile
  <2> HIDE DEF Next1, P, B
  <2> QED
    BY <2>1, <2>2, <2>3, <2>4, <2>5, AddedUnder
<1>4. \A k \in 1..len, x \in SshdServer : Next1(k, x) \in SshdServer
  <2> HIDE DEF Next1, P, B
  <2> QED
    BY <1>3 DEF Added
<1>5. \A d : At1(d, 0) = s /\ \A k \in 1..len : At1(d, k) = Next1(k, d[k - 1])
  BY <1>1
<1> HIDE DEF Next1
<1>6. \A k \in 1..len, x \in SshdServer : step[<<k, x>>] = Next1(k, x)
  BY <1>4
<1>7. \A k \in 1..len, x \in SshdServer : step[<<k, x>>] \in SshdServer
  <2> HIDE DEF step
  <2> QED
    BY <1>4, <1>6
<1> HIDE DEF step
<1>8. PICK f \in [D -> SshdServer] : f[0] = s /\ \A k \in 1..len : f[k] = step[<<k, f[k - 1]>>]
  <2>1. LoopOf(len, SshdServer, s, step)
    <3> HIDE DEF len
    <3> QED
      BY <1>1, <1>7, LoopIs
  <2> QED
    BY <2>1 DEF LoopOf
<1>9. \A k \in D : f[k] = At1(f, k)
  <2>1. \A k \in 1..len : f[k] = At1(f, k)
    <3>1. \A k \in 1..len : f[k - 1] \in SshdServer
      BY <1>1, <1>8
    <3> HIDE DEF At1, len
    <3> QED
      BY <1>5, <1>6, <1>8, <3>1
  <2>2. \A k \in D : k = 0 \/ k \in 1..len
    BY <1>1
  <2> HIDE DEF At1
  <2> QED
    BY <1>5, <1>8, <2>1, <2>2
<1> DEFINE d == CHOOSE d : d = [k \in D |-> At1(d, k)]
<1>10. f = [k \in D |-> At1(f, k)]
  <2> HIDE DEF At1, D
  <2> QED
    BY <1>9
<1>11. d = [k \in D |-> At1(d, k)]
  BY <1>10
<1>12. ReadAll(list, s, read) = d[len]
  BY DEF ReadAll
<1> HIDE DEF d
<1>13. \A k \in D : d[k] = At1(d, k)
  <2> HIDE DEF At1, D
  <2> QED
    BY <1>11
<1>14. d[0] = s /\ \A k \in 1..len : d[k] = Next1(k, d[k - 1])
  <2> HIDE DEF At1
  <2> QED
    BY <1>1, <1>5, <1>13
<1>15. P \in [1..len -> PlacesOfAll]
  <2>1. \A k \in 1..len : P[k] \in PlacesOfAll
    BY <1>2, PlacesOfFilesTyped
  <2>2. P = [k \in 1..len |-> P[k]]
    BY DEF PlacesOfFiles
  <2> HIDE DEF P, len
  <2> QED
    BY <2>1, <2>2
<1>16. ASSUME NEW k \in 1..len, NEW l \in 1..len, k < l, NEW key \in Settings,
              NEW p \in P[k][key], NEW q \in P[l][key]
       PROVE  Earlier(p.at, q.at)
  <2>1. PlacesIn(files, level[list[k]]) \in PlacesOfAll /\ PlacesIn(files, level[list[l]]) \in PlacesOfAll
    BY <1>2, PlacesOfFilesTyped
  <2>2. /\ PlacesIn(files, level[list[k]])[key] \subseteq Place
        /\ PlacesIn(files, level[list[l]])[key] \subseteq Place
    BY <2>1 DEF PlacesOfAll
  <2>3. /\ p \in Under(i, k, PlacesIn(files, level[list[k]])[key])
        /\ q \in Under(i, l, PlacesIn(files, level[list[l]])[key])
    BY <1>16 DEF PlacesOfFiles, PlacesOfFile
  <2>4. k \in Nat /\ l \in Nat
    OBVIOUS
  <2> HIDE DEF P
  <2> QED
    BY <1>16, <2>2, <2>3, <2>4, EarlierFile
<1> HIDE DEF P, B, len
<1>17. \A k \in 1..len : d[k - 1] \in SshdServer => Added(P[k], B[k], d[k - 1], d[k])
  BY <1>3, <1>14
<1>18. Added(Upto(P, len), MissingUpto(B, len), s, d[len])
  BY <1>1, <1>14, <1>15, <1>16, <1>17, AddedAll
<1> QED
  BY <1>12, <1>18 DEF P, B, len

-----------------------------------------------------------------------------

\* What a line adds, before a Match.
ListOf(files, file, i) == Expand(files, files[file].lines[i].value)
Assigned(files, file, i, key) ==
  IF i \in LiveWith(files, file, key)
  THEN {[at |-> Append(<<>>, i), value |-> files[file].lines[i].value]} ELSE {}
PlacesOfLine(files, level, file, i) ==
  IF i \in LiveWith(files, file, "include")
  THEN Upto(PlacesOfFiles(files, level, ListOf(files, file, i), i), Len(ListOf(files, file, i)))
  ELSE [key \in Settings |-> Assigned(files, file, i, key)]
MissingOfLine(files, level, file, i) ==
  IF i \in LiveWith(files, file, "include")
  THEN MissingUpto(MissingOfFiles(files, level, ListOf(files, file, i)), Len(ListOf(files, file, i)))
  ELSE {}

LEMMA ListIs ==
  ASSUME NEW files, SeenFiles(files), NEW file, NEW i \in LiveWith(files, file, "include")
  PROVE  /\ ListOf(files, file, i) = Globs(files, files[file].lines[i])
         /\ ListOf(files, file, i) \in Seq(STRING) /\ Len(ListOf(files, file, i)) \in Nat
         /\ DOMAIN ListOf(files, file, i) = 1..Len(ListOf(files, file, i))
<1>1. files[file].lines[i].value \in STRING
  BY LineIs
<1>2. ListOf(files, file, i) \in Seq(STRING)
  BY <1>1, ExpandIs DEF ListOf
<1>3. ListOf(files, file, i) = Globs(files, files[file].lines[i])
  BY LineIs DEF SeenFiles, SeesIncludes, ListOf, Expand, Globs, Glob, Readable
<1> QED
  BY <1>2, <1>3

LEMMA PlacesOfLineTyped ==
  ASSUME NEW files, SeenFiles(files), NEW level \in [STRING -> SUBSET Visit], NEW file, NEW i \in Nat
  PROVE  PlacesOfLine(files, level, file, i) \in PlacesOfAll
<1>1. CASE i \in LiveWith(files, file, "include")
  <2> DEFINE list == ListOf(files, file, i)
             P == PlacesOfFiles(files, level, list, i)
  <2>1. list \in Seq(STRING)
    BY <1>1, ListIs
  <2> HIDE DEF list
  <2>2. \A k \in 1..Len(list) : P[k] \in PlacesOfAll
    BY <2>1, PlacesOfFilesTyped
  <2> HIDE DEF P
  <2>3. \A k \in 1..Len(list), key \in Settings : P[k][key] \subseteq Place
    BY <2>2 DEF PlacesOfAll
  <2>4. Upto(P, Len(list)) \in PlacesOfAll
    BY <2>3 DEF Upto, PlacesOfAll
  <2> QED
    BY <1>1, <2>4 DEF PlacesOfLine, P, list
<1>2. CASE i \notin LiveWith(files, file, "include")
  <2>1. ASSUME NEW key \in Settings, NEW p \in Assigned(files, file, i, key) PROVE p \in Place
    <3>1. i \in LiveWith(files, file, key) /\ p = [at |-> Append(<<>>, i), value |-> files[file].lines[i].value]
      BY <2>1 DEF Assigned
    <3>2. files[file].lines[i].value \in STRING
      BY <3>1, LineIs
    <3>3. Append(<<>>, i) \in Numbers
      BY EmptySeq, AppendIs DEF Numbers
    <3> QED
      BY <3>1, <3>2, <3>3 DEF Place
  <2> QED
    BY <1>2, <2>1 DEF PlacesOfLine, PlacesOfAll
<1> QED
  BY <1>1, <1>2

\* They begin with its number.
LEMMA LineOfPlace ==
  ASSUME NEW files, SeenFiles(files), NEW level \in [STRING -> SUBSET Visit], NEW file, NEW i \in Nat,
         NEW key \in Settings, NEW p \in PlacesOfLine(files, level, file, i)[key]
  PROVE  1 \in 1..Len(p.at) /\ p.at[1] = i
<1>1. CASE i \in LiveWith(files, file, "include")
  <2> DEFINE list == ListOf(files, file, i)
  <2>1. list \in Seq(STRING) /\ Len(list) \in Nat
    BY <1>1, ListIs
  <2>2. p \in Upto(PlacesOfFiles(files, level, list, i), Len(list))[key]
    BY <1>1 DEF PlacesOfLine
  <2> HIDE DEF list
  <2>3. PICK k \in 1..Len(list) : p \in PlacesOfFiles(files, level, list, i)[k][key]
    BY <2>2 DEF Upto
  <2>4. p \in Under(i, k, PlacesIn(files, level[list[k]])[key])
    BY <2>3 DEF PlacesOfFiles, PlacesOfFile
  <2>5. PICK q \in PlacesIn(files, level[list[k]])[key] : p = [at |-> Below(i, k, q.at), value |-> q.value]
    BY <2>4 DEF Under
  <2>6. PlacesIn(files, level[list[k]]) \in PlacesOfAll
    BY <2>1, PlacesOfFilesTyped
  <2>7. q.at \in Numbers
    BY <2>6 DEF PlacesOfAll, Place
  <2>8. IsBelow(i, k, q.at, p.at)
    BY <2>5, <2>7, BelowIs
  <2>9. Len(q.at) \in Nat
    BY <2>7 DEF Numbers
  <2> QED
    BY <2>8, <2>9 DEF IsBelow
<1>2. CASE i \notin LiveWith(files, file, "include")
  <2>1. p \in Assigned(files, file, i, key)
    BY <1>2 DEF PlacesOfLine
  <2>2. p.at = Append(<<>>, i)
    BY <2>1 DEF Assigned
  <2>3. Append(<<>>, i) = <<i>>
    OBVIOUS
  <2> QED
    BY <2>2, <2>3
<1> QED
  BY <1>1, <1>2

\* Of two lines, the places of the first one are earlier.
LEMMA EarlierLine ==
  ASSUME NEW files, SeenFiles(files), NEW level \in [STRING -> SUBSET Visit], NEW file,
         NEW i \in Nat, NEW j \in Nat, i < j, NEW key \in Settings,
         NEW p \in PlacesOfLine(files, level, file, i)[key],
         NEW q \in PlacesOfLine(files, level, file, j)[key]
  PROVE  Earlier(p.at, q.at)
<1>1. 1 \in 1..Len(p.at) /\ p.at[1] = i /\ 1 \in 1..Len(q.at) /\ q.at[1] = j
  BY LineOfPlace
<1>2. 1 <= Len(q.at)
  <2>1. q \in Place
    <3>1. PlacesOfLine(files, level, file, j) \in PlacesOfAll
      BY PlacesOfLineTyped
    <3> QED
      BY <3>1 DEF PlacesOfAll
  <2>2. Len(q.at) \in Nat
    BY <2>1 DEF Place, Numbers
  <2> QED
    BY <1>1, <2>2
<1>3. \A m \in 1..(1 - 1) : FALSE
  OBVIOUS
<1> QED
  BY <1>1, <1>2, <1>3 DEF Earlier

LEMMA InsertIs ==
  ASSUME NEW t \in SshdServer, NEW key0 \in Settings, NEW value \in STRING, NEW at
  PROVE  Added([key \in Settings |-> IF key = key0 THEN {[at |-> at, value |-> value]} ELSE {}], {}, t,
               [set |-> Insert(t.set, key0, value), unreadable |-> t.unreadable])
<1> DEFINE set == Insert(t.set, key0, value)
           P == [key \in Settings |-> IF key = key0 THEN {[at |-> at, value |-> value]} ELSE {}]
           u == [set |-> set, unreadable |-> t.unreadable]
<1>1. t.set \in [Settings -> STRING \cup {Unset}] /\ t.unreadable \in BOOLEAN
  BY DEF SshdServer
<1>2. /\ set \in [Settings -> STRING \cup {Unset}]
      /\ \A key \in Settings :
           set[key] = IF key = key0 /\ t.set[key] = Unset THEN value ELSE t.set[key]
  BY <1>1 DEF Insert
<1> HIDE DEF set
<1>3. u \in SshdServer /\ u.set = set /\ u.unreadable = t.unreadable
  BY <1>1, <1>2 DEF SshdServer
<1>4. ASSUME NEW key \in Settings PROVE Firsts(P[key], t.set[key], set[key])
  <2>1. CASE key = key0
    <3>1. P[key] = {[at |-> at, value |-> value]}
      BY <2>1
    <3> QED
      BY <1>2, <2>1, <3>1 DEF Firsts
  <2>2. CASE key # key0
    <3>1. P[key] = {}
      BY <2>2
    <3> QED
      BY <1>2, <2>2, <3>1, NoneFirst
  <2> QED
    BY <2>1, <2>2
<1> HIDE DEF P, u
<1>5. Added(P, {}, t, u)
  BY <1>3, <1>4 DEF Added
<1> QED
  BY <1>5 DEF P, u, set

LEMMA ReadLineIs ==
  ASSUME NEW files, SeenFiles(files), NEW level, NEW read, Reads(files, level, read),
         NEW file, NEW i \in Live(files, file), NEW t \in SshdServer
  PROVE  Added(PlacesOfLine(files, level, file, i), MissingOfLine(files, level, file, i), t,
               ReadLine(files, files[file].lines[i], t, read))
<1> DEFINE line == files[file].lines[i]
           list == ListOf(files, file, i)
<1>1. i \in LiveWith(files, file, line.key) /\ \A key : i \in LiveWith(files, file, key) <=> line.key = key
  BY DEF LiveWith
<1>2. line.value \in STRING /\ i \in Nat
  BY <1>1, LineIs
<1>3. CASE line.key = "include"
  <2>1. i \in LiveWith(files, file, "include")
    BY <1>1, <1>3
  <2>2. ReadLine(files, line, t, read) = ReadAll(list, t, read)
    BY <1>3 DEF ReadLine, ListOf
  <2>3. list \in Seq(STRING)
    BY <2>1, ListIs
  <2> HIDE DEF list, line
  <2>4. Added(Upto(PlacesOfFiles(files, level, list, i), Len(list)),
              MissingUpto(MissingOfFiles(files, level, list), Len(list)), t, ReadAll(list, t, read))
    BY <1>2, <2>3, ReadAllIs
  <2> QED
    BY <2>1, <2>2, <2>4 DEF PlacesOfLine, MissingOfLine, list, line
<1>4. CASE line.key \in Settings
  <2>1. line.key # "include"
    BY <1>4 DEF Settings
  <2>2. i \notin LiveWith(files, file, "include")
    BY <1>1, <2>1
  <2>3. ReadLine(files, line, t, read)
          = [set |-> Insert(t.set, line.key, line.value), unreadable |-> t.unreadable]
    BY <1>4, <2>1 DEF ReadLine
  <2> DEFINE at == Append(<<>>, i)
             P == [key \in Settings |-> IF key = line.key THEN {[at |-> at, value |-> line.value]} ELSE {}]
  <2>4. Added(P, {}, t, ReadLine(files, line, t, read))
    <3> HIDE DEF at, line
    <3> QED
      BY <1>2, <1>4, <2>3, InsertIs
  <2>5. PlacesOfLine(files, level, file, i) = P /\ MissingOfLine(files, level, file, i) = {}
    <3>1. \A key \in Settings : Assigned(files, file, i, key) = P[key]
      BY <1>1 DEF Assigned
    <3> QED
      BY <2>2, <3>1 DEF PlacesOfLine, MissingOfLine
  <2> HIDE DEF P
  <2> QED
    BY <2>4, <2>5
<1>5. CASE line.key # "include" /\ line.key \notin Settings
  <2>1. ReadLine(files, line, t, read) = t
    BY <1>5 DEF ReadLine
  <2>2. i \notin LiveWith(files, file, "include") /\ \A key \in Settings : i \notin LiveWith(files, file, key)
    BY <1>1, <1>5
  <2>3. /\ PlacesOfLine(files, level, file, i) = [key \in Settings |-> {}]
        /\ MissingOfLine(files, level, file, i) = {}
    BY <2>2 DEF PlacesOfLine, MissingOfLine, Assigned
  <2> QED
    BY <2>1, <2>3, NothingAdded
<1> QED
  BY <1>3, <1>4, <1>5

LEMMA NotRead ==
  ASSUME NEW files, NEW level, NEW file, NEW i, i \notin Live(files, file), NEW t \in SshdServer
  PROVE  Added(PlacesOfLine(files, level, file, i), MissingOfLine(files, level, file, i), t, t)
<1>1. \A key : i \notin LiveWith(files, file, key)
  BY DEF LiveWith
<1>2. /\ PlacesOfLine(files, level, file, i) = [key \in Settings |-> {}]
      /\ MissingOfLine(files, level, file, i) = {}
  BY <1>1 DEF PlacesOfLine, MissingOfLine, Assigned
<1> QED
  BY <1>2, NothingAdded

\* The lines of a file, in their order.
PlacesOfLines(files, level, file) ==
  [i \in 1..Len(files[file].lines) |-> PlacesOfLine(files, level, file, i)]
MissingOfLines(files, level, file) ==
  [i \in 1..Len(files[file].lines) |-> MissingOfLine(files, level, file, i)]

LEMMA ReadLinesIs ==
  ASSUME NEW files, SeenFiles(files), NEW level, NEW read, Reads(files, level, read),
         NEW file, Readable(files, file), NEW s \in SshdServer
  PROVE  Added(Upto(PlacesOfLines(files, level, file), Len(files[file].lines)),
               MissingUpto(MissingOfLines(files, level, file), Len(files[file].lines)), s,
               ReadLines(files, files[file].lines, s, read))
<1> DEFINE lines == files[file].lines
           len == Len(lines)
           D == 0..len
           P == PlacesOfLines(files, level, file)
           B == MissingOfLines(files, level, file)
           Next1(i, x) == IF \E j \in 1..i : lines[j].key = "match" THEN x
                          ELSE ReadLine(files, lines[i], x, read)
           At1(d, i) == IF i = 0 THEN s
                        ELSE LET t == d[i - 1]
                             IN  IF \E j \in 1..i : lines[j].key = "match" THEN t
                                 ELSE ReadLine(files, lines[i], t, read)
           step == [y \in (1..len) \X SshdServer |-> Next1(y[1], y[2])]
<1>1. lines \in Seq(SshdLine) /\ DOMAIN lines = 1..len /\ len \in Nat
  <2>1. lines \in Seq(SshdLine)
    BY DEF SeenFiles, SshdFiles, SshdFile, Readable
  <2> HIDE DEF lines
  <2> QED
    BY <2>1
<1>2. 0 \in D /\ len \in D /\ \A i \in 1..len : i \in D /\ i - 1 \in D /\ i # 0 /\ i \in Nat
  <2> HIDE DEF len
  <2> QED
    BY <1>1
<1>3. level \in [STRING -> SUBSET Visit]
  BY DEF Reads
<1>4. \A i \in 1..len, x \in SshdServer : Added(P[i], B[i], x, Next1(i, x))
  <2> TAKE i \in 1..len, x \in SshdServer
  <2>1. P[i] = PlacesOfLine(files, level, file, i) /\ B[i] = MissingOfLine(files, level, file, i)
    BY DEF PlacesOfLines, MissingOfLines
  <2>2. i \in Live(files, file) <=> ~\E j \in 1..i : lines[j].key = "match"
    BY <1>1 DEF Live
  <2>3. CASE i \in Live(files, file)
    <3>1. Next1(i, x) = ReadLine(files, lines[i], x, read)
      BY <2>2, <2>3
    <3> HIDE DEF Next1, P, B
    <3> QED
      BY <2>1, <2>3, <3>1, ReadLineIs
  <2>4. CASE i \notin Live(files, file)
    <3>1. Next1(i, x) = x
      BY <2>2, <2>4
    <3> HIDE DEF Next1, P, B
    <3> QED
      BY <2>1, <2>4, <3>1, NotRead
  <2> QED
    BY <2>3, <2>4
<1>5. \A i \in 1..len, x \in SshdServer : Next1(i, x) \in SshdServer
  <2> HIDE DEF Next1, P, B
  <2> QED
    BY <1>4 DEF Added
<1>6. \A d : At1(d, 0) = s /\ \A i \in 1..len : At1(d, i) = Next1(i, d[i - 1])
  BY <1>2
<1> HIDE DEF Next1
<1>7. \A i \in 1..len, x \in SshdServer : step[<<i, x>>] = Next1(i, x)
  BY <1>5
<1>8. \A i \in 1..len, x \in SshdServer : step[<<i, x>>] \in SshdServer
  <2> HIDE DEF step
  <2> QED
    BY <1>5, <1>7
<1> HIDE DEF step
<1>9. PICK f \in [D -> SshdServer] : f[0] = s /\ \A i \in 1..len : f[i] = step[<<i, f[i - 1]>>]
  <2>1. LoopOf(len, SshdServer, s, step)
    <3> HIDE DEF len
    <3> QED
      BY <1>1, <1>8, LoopIs
  <2> QED
    BY <2>1 DEF LoopOf
<1>10. \A i \in D : f[i] = At1(f, i)
  <2>1. \A i \in 1..len : f[i] = At1(f, i)
    <3>1. \A i \in 1..len : f[i - 1] \in SshdServer
      BY <1>2, <1>9
    <3> HIDE DEF At1, len
    <3> QED
      BY <1>6, <1>7, <1>9, <3>1
  <2>2. \A i \in D : i = 0 \/ i \in 1..len
    <3> HIDE DEF len
    <3> QED
      BY <1>1
  <2> HIDE DEF At1
  <2> QED
    BY <1>6, <1>9, <2>1, <2>2
<1> DEFINE d == CHOOSE d : d = [i \in D |-> At1(d, i)]
<1>11. f = [i \in D |-> At1(f, i)]
  <2> HIDE DEF At1, D
  <2> QED
    BY <1>10
<1>12. d = [i \in D |-> At1(d, i)]
  BY <1>11
<1>13. ReadLines(files, lines, s, read) = d[len]
  BY DEF ReadLines
<1> HIDE DEF d
<1>14. \A i \in D : d[i] = At1(d, i)
  <2> HIDE DEF At1, D
  <2> QED
    BY <1>12
<1>15. d[0] = s /\ \A i \in 1..len : d[i] = Next1(i, d[i - 1])
  <2> HIDE DEF At1
  <2> QED
    BY <1>2, <1>6, <1>14
<1>16. P \in [1..len -> PlacesOfAll]
  <2>1. \A i \in 1..len : PlacesOfLine(files, level, file, i) \in PlacesOfAll
    BY <1>2, <1>3, PlacesOfLineTyped
  <2> QED
    BY <2>1 DEF PlacesOfLines
<1>17. ASSUME NEW i \in 1..len, NEW j \in 1..len, i < j, NEW key \in Settings,
              NEW p \in P[i][key], NEW q \in P[j][key]
       PROVE  Earlier(p.at, q.at)
  <2>1. p \in PlacesOfLine(files, level, file, i)[key] /\ q \in PlacesOfLine(files, level, file, j)[key]
    BY <1>17 DEF PlacesOfLines
  <2>2. i \in Nat /\ j \in Nat
    BY <1>2
  <2> HIDE DEF P
  <2> QED
    BY <1>3, <1>17, <2>1, <2>2, EarlierLine
<1> HIDE DEF P, B, len
<1>18. \A i \in 1..len : d[i - 1] \in SshdServer => Added(P[i], B[i], d[i - 1], d[i])
  BY <1>4, <1>15
<1>19. Added(Upto(P, len), MissingUpto(B, len), s, d[len])
  BY <1>1, <1>15, <1>16, <1>17, <1>18, AddedAll
<1> QED
  BY <1>13, <1>19 DEF P, B, len

-----------------------------------------------------------------------------

VisitBelow(i, k, v) == [at |-> Below(i, k, v.at), file |-> v.file]

LEMMA VisitIs ==
  ASSUME NEW files, SeenFiles(files), NEW level, NEW file, NEW v
  PROVE  v \in VisitsFrom(files, file, level) <=>
           \/ v = [at |-> <<>>, file |-> file]
           \/ \E i \in LiveWith(files, file, "include") :
                \E k \in DOMAIN ListOf(files, file, i) :
                  \E w \in level[ListOf(files, file, i)[k]] : v = VisitBelow(i, k, w)
<1> DEFINE G(i) == Globs(files, files[file].lines[i])
           Of(i, k) == {[at |-> Below(i, k, w.at), file |-> w.file] : w \in level[G(i)[k]]}
           All(i) == UNION {Of(i, k) : k \in DOMAIN G(i)}
           L == LiveWith(files, file, "include")
<1>1. VisitsFrom(files, file, level) = {[at |-> <<>>, file |-> file]} \cup UNION {All(i) : i \in L}
  BY DEF VisitsFrom
<1>2. \A i \in L : G(i) = ListOf(files, file, i)
  BY ListIs
<1>3. \A i, k : v \in Of(i, k) <=> \E w \in level[G(i)[k]] : v = VisitBelow(i, k, w)
  BY DEF VisitBelow
<1> HIDE DEF Of
<1>4. \A i : v \in All(i) <=> \E k \in DOMAIN G(i) : v \in Of(i, k)
  OBVIOUS
<1> HIDE DEF All, G, L
<1>5. v \in UNION {All(i) : i \in L} <=> \E i \in L : v \in All(i)
  OBVIOUS
<1>6. v \in UNION {All(i) : i \in L} <=>
        \E i \in L : \E k \in DOMAIN ListOf(files, file, i) :
          \E w \in level[ListOf(files, file, i)[k]] : v = VisitBelow(i, k, w)
  BY <1>2, <1>3, <1>4, <1>5
<1> QED
  BY <1>1, <1>6 DEF L

LEMMA VisitsFromTyped ==
  ASSUME NEW files, SeenFiles(files), NEW level \in [STRING -> SUBSET Visit], NEW file \in STRING
  PROVE  VisitsFrom(files, file, level) \subseteq Visit
<1> SUFFICES ASSUME NEW v \in VisitsFrom(files, file, level) PROVE v \in Visit
  OBVIOUS
<1>1. CASE v = [at |-> <<>>, file |-> file]
  BY <1>1, EmptySeq DEF Visit, Numbers
<1>2. CASE v # [at |-> <<>>, file |-> file]
  <2>1. PICK i \in LiveWith(files, file, "include") :
          \E k \in DOMAIN ListOf(files, file, i) :
            \E w \in level[ListOf(files, file, i)[k]] : v = VisitBelow(i, k, w)
    BY <1>2, VisitIs
  <2> DEFINE list == ListOf(files, file, i)
  <2>2. PICK k \in DOMAIN list : \E w \in level[list[k]] : v = VisitBelow(i, k, w)
    BY <2>1
  <2>3. list \in Seq(STRING)
    BY ListIs
  <2> HIDE DEF list
  <2>4. list[k] \in STRING /\ k \in Nat
    BY <2>3, ElementIs
  <2>5. PICK w \in level[list[k]] : v = VisitBelow(i, k, w)
    BY <2>2
  <2>6. w.at \in Numbers /\ w.file \in STRING
    <3>1. w \in Visit
      BY <2>4, <2>5
    <3> QED
      BY <3>1 DEF Visit
  <2>7. Below(i, k, w.at) \in Numbers
    BY <2>4, <2>6, LineIs, BelowIs DEF IsBelow
  <2> QED
    BY <2>5, <2>6, <2>7 DEF VisitBelow, Visit
<1> QED
  BY <1>1, <1>2

LEMMA PlaceIs ==
  ASSUME NEW files, NEW visits, NEW key, NEW p
  PROVE  p \in Places(files, visits, key) <=>
           \E v \in visits : \E j \in LiveWith(files, v.file, key) :
             p = [at |-> Append(v.at, j), value |-> files[v.file].lines[j].value]
<1> DEFINE OfVisit(v) == {[at |-> Append(v.at, j), value |-> files[v.file].lines[j].value] :
                       j \in LiveWith(files, v.file, key)}
<1>1. Places(files, visits, key) = UNION {OfVisit(v) : v \in visits}
  BY DEF Places
<1>2. \A v : p \in OfVisit(v) <=> \E j \in LiveWith(files, v.file, key) :
                p = [at |-> Append(v.at, j), value |-> files[v.file].lines[j].value]
  OBVIOUS
<1> HIDE DEF OfVisit
<1> QED
  BY <1>1, <1>2

\* The place of an included file, from the file that includes it.
LEMMA PlaceBelow ==
  ASSUME NEW i \in Nat, NEW k \in Nat, NEW w \in Visit, NEW j \in Nat
  PROVE  Append(VisitBelow(i, k, w).at, j) = Below(i, k, Append(w.at, j)) /\ VisitBelow(i, k, w).file = w.file
<1>1. w.at \in Numbers
  BY DEF Visit
<1>2. Append(Below(i, k, w.at), j) = Below(i, k, Append(w.at, j))
  BY <1>1, AppendBelow
<1> QED
  BY <1>2 DEF VisitBelow

LEMMA PlacesFromFile ==
  ASSUME NEW files, SeenFiles(files), NEW level \in [STRING -> SUBSET Visit], NEW file, NEW key \in Settings
  PROVE  Places(files, VisitsFrom(files, file, level), key)
           = UNION {PlacesOfLine(files, level, file, i)[key] : i \in LiveWith(files, file, "include")
                                                                  \cup LiveWith(files, file, key)}
<1> DEFINE visits == VisitsFrom(files, file, level)
           L == LiveWith(files, file, "include") \cup LiveWith(files, file, key)
           here == [at |-> <<>>, file |-> file]
<1>1. key # "include"
  BY DEF Settings
<1>2. \A i \in LiveWith(files, file, key) : i \notin LiveWith(files, file, "include")
  BY <1>1 DEF LiveWith
<1>3. \A i \in LiveWith(files, file, key) :
        PlacesOfLine(files, level, file, i)[key]
          = {[at |-> Append(<<>>, i), value |-> files[file].lines[i].value]}
  BY <1>2 DEF PlacesOfLine, Assigned
<1>4. ASSUME NEW i \in LiveWith(files, file, "include"), NEW p
      PROVE  p \in PlacesOfLine(files, level, file, i)[key] <=>
               \E k \in DOMAIN ListOf(files, file, i) :
                 p \in Under(i, k, Places(files, level[ListOf(files, file, i)[k]], key))
  <2> DEFINE list == ListOf(files, file, i)
             P == PlacesOfFiles(files, level, list, i)
  <2>1. DOMAIN list = 1..Len(list)
    BY ListIs
  <2>2. PlacesOfLine(files, level, file, i)[key] = UNION {P[k][key] : k \in 1..Len(list)}
    BY DEF PlacesOfLine, Upto
  <2>3. \A k \in 1..Len(list) : P[k][key] = Under(i, k, Places(files, level[list[k]], key))
    BY DEF PlacesOfFiles, PlacesOfFile, PlacesIn
  <2> HIDE DEF list, P
  <2>4. p \in PlacesOfLine(files, level, file, i)[key] <=>
          \E k \in 1..Len(list) : p \in Under(i, k, Places(files, level[list[k]], key))
    BY <2>2, <2>3
  <2> QED
    BY <2>1, <2>4 DEF list
<1>5. ASSUME NEW i \in LiveWith(files, file, "include"), NEW k \in DOMAIN ListOf(files, file, i)
      PROVE  i \in Nat /\ k \in Nat /\ level[ListOf(files, file, i)[k]] \subseteq Visit
  <2> DEFINE list == ListOf(files, file, i)
  <2>1. list \in Seq(STRING)
    BY ListIs
  <2> HIDE DEF list
  <2>2. k \in DOMAIN list
    BY DEF list
  <2>3. list[k] \in STRING /\ k \in Nat
    BY <2>1, <2>2, ElementIs
  <2>4. level[list[k]] \subseteq Visit
    BY <2>3
  <2> QED
    BY <2>3, <2>4, LineIs DEF list
<1>6. ASSUME NEW p \in Places(files, visits, key)
      PROVE  \E i \in L : p \in PlacesOfLine(files, level, file, i)[key]
  <2>1. PICK v \in visits : \E j \in LiveWith(files, v.file, key) :
          p = [at |-> Append(v.at, j), value |-> files[v.file].lines[j].value]
    <3> HIDE DEF visits
    <3> QED
      BY <1>6, PlaceIs
  <2>2. PICK j \in LiveWith(files, v.file, key) :
          p = [at |-> Append(v.at, j), value |-> files[v.file].lines[j].value]
    BY <2>1
  <2>3. CASE v = here
    <3>1. v.at = <<>> /\ v.file = file
      BY <2>3
    <3>2. j \in LiveWith(files, file, key) /\ p = [at |-> Append(<<>>, j), value |-> files[file].lines[j].value]
      BY <2>2, <3>1
    <3> QED
      BY <1>3, <3>2
  <2>4. CASE v # here
    <3>1. PICK i \in LiveWith(files, file, "include") :
            \E k \in DOMAIN ListOf(files, file, i) :
              \E w \in level[ListOf(files, file, i)[k]] : v = VisitBelow(i, k, w)
      BY <2>4, VisitIs
    <3>2. PICK k \in DOMAIN ListOf(files, file, i) :
            \E w \in level[ListOf(files, file, i)[k]] : v = VisitBelow(i, k, w)
      BY <3>1
    <3>3. PICK w \in level[ListOf(files, file, i)[k]] : v = VisitBelow(i, k, w)
      BY <3>2
    <3>4. i \in Nat /\ k \in Nat /\ w \in Visit /\ v.file = w.file
      BY <1>5, <3>3 DEF VisitBelow
    <3> DEFINE q == [at |-> Append(w.at, j), value |-> files[w.file].lines[j].value]
    <3>5. j \in LiveWith(files, w.file, key)
      BY <3>4
    <3>9. Append(v.at, j) = Below(i, k, Append(w.at, j))
      <4>1. j \in Nat
        BY <3>5, LineIs
      <4>2. Append(VisitBelow(i, k, w).at, j) = Below(i, k, Append(w.at, j))
        BY <3>4, <4>1, PlaceBelow
      <4> QED
        BY <3>3, <4>2
    <3>10. p = [at |-> Below(i, k, Append(w.at, j)), value |-> files[w.file].lines[j].value]
      BY <2>2, <3>4, <3>9
    <3>6. p = [at |-> Below(i, k, q.at), value |-> q.value]
      BY <3>10
    <3>7. q \in Places(files, level[ListOf(files, file, i)[k]], key)
      BY <3>5, PlaceIs
    <3> HIDE DEF q
    <3>8. p \in Under(i, k, Places(files, level[ListOf(files, file, i)[k]], key))
      BY <3>6, <3>7 DEF Under
    <3> QED
      BY <1>4, <3>8
  <2> QED
    BY <2>3, <2>4
<1>7. ASSUME NEW i \in L, NEW p \in PlacesOfLine(files, level, file, i)[key]
      PROVE  p \in Places(files, visits, key)
  <2>1. CASE i \in LiveWith(files, file, key)
    <3>1. p = [at |-> Append(<<>>, i), value |-> files[file].lines[i].value]
      BY <1>3, <1>7, <2>1
    <3>2. here \in visits /\ here.at = <<>> /\ here.file = file
      BY VisitIs
    <3> HIDE DEF here, visits
    <3> QED
      BY <2>1, <3>1, <3>2, PlaceIs
  <2>2. CASE i \in LiveWith(files, file, "include")
    <3>1. PICK k \in DOMAIN ListOf(files, file, i) :
            p \in Under(i, k, Places(files, level[ListOf(files, file, i)[k]], key))
      BY <1>4, <1>7, <2>2
    <3>2. PICK q \in Places(files, level[ListOf(files, file, i)[k]], key) :
            p = [at |-> Below(i, k, q.at), value |-> q.value]
      BY <3>1 DEF Under
    <3>3. PICK w \in level[ListOf(files, file, i)[k]] : \E j \in LiveWith(files, w.file, key) :
            q = [at |-> Append(w.at, j), value |-> files[w.file].lines[j].value]
      BY <3>2, PlaceIs
    <3>4. PICK j \in LiveWith(files, w.file, key) :
            q = [at |-> Append(w.at, j), value |-> files[w.file].lines[j].value]
      BY <3>3
    <3> DEFINE v == VisitBelow(i, k, w)
    <3>5. v \in visits /\ v.file = w.file
      BY <2>2, VisitIs DEF VisitBelow
    <3>6. i \in Nat /\ k \in Nat /\ w \in Visit
      BY <1>5, <2>2
    <3>8. Append(v.at, j) = Below(i, k, Append(w.at, j))
      <4>1. j \in Nat
        BY <3>4, LineIs
      <4> QED
        BY <3>6, <4>1, PlaceBelow
    <3>9. q.at = Append(w.at, j) /\ q.value = files[w.file].lines[j].value
      BY <3>4
    <3>7. p = [at |-> Append(v.at, j), value |-> files[v.file].lines[j].value]
      <4> HIDE DEF v
      <4> QED
        BY <3>2, <3>5, <3>8, <3>9
    <3> HIDE DEF v, visits
    <3> QED
      BY <3>4, <3>5, <3>7, PlaceIs
  <2> QED
    BY <2>1, <2>2
<1> HIDE DEF visits, L
<1>8. Places(files, visits, key) = UNION {PlacesOfLine(files, level, file, i)[key] : i \in L}
  BY <1>6, <1>7
<1> QED
  BY <1>8 DEF visits, L

LEMMA PlacesAreOfLines ==
  ASSUME NEW files, SeenFiles(files), NEW level \in [STRING -> SUBSET Visit], NEW file, Readable(files, file)
  PROVE  PlacesIn(files, VisitsFrom(files, file, level))
           = Upto(PlacesOfLines(files, level, file), Len(files[file].lines))
<1> DEFINE len == Len(files[file].lines)
           visits == VisitsFrom(files, file, level)
           P == PlacesOfLines(files, level, file)
<1>1. ASSUME NEW key \in Settings
      PROVE  Places(files, visits, key) = UNION {P[i][key] : i \in 1..len}
  <2> DEFINE L == LiveWith(files, file, "include") \cup LiveWith(files, file, key)
  <2>1. Places(files, visits, key) = UNION {PlacesOfLine(files, level, file, i)[key] : i \in L}
    BY PlacesFromFile
  <2>2. \A i \in L : i \in 1..len
    BY LineIs
  <2>3. \A i : i \notin L => PlacesOfLine(files, level, file, i)[key] = {}
    BY DEF PlacesOfLine, Assigned
  <2>4. \A i \in 1..len : P[i][key] = PlacesOfLine(files, level, file, i)[key]
    BY DEF PlacesOfLines
  <2> HIDE DEF L, P, len, visits
  <2> QED
    BY <2>1, <2>2, <2>3, <2>4
<1> HIDE DEF P, len, visits
<1>2. PlacesIn(files, visits) = Upto(P, len)
  BY <1>1 DEF PlacesIn, Upto
<1> QED
  BY <1>2 DEF P, len, visits

LEMMA MissingAreOfLines ==
  ASSUME NEW files, SeenFiles(files), NEW level \in [STRING -> SUBSET Visit], NEW file, Readable(files, file)
  PROVE  Missing(files, VisitsFrom(files, file, level))
           = MissingUpto(MissingOfLines(files, level, file), Len(files[file].lines))
<1> DEFINE len == Len(files[file].lines)
           visits == VisitsFrom(files, file, level)
           B == MissingOfLines(files, level, file)
           I == LiveWith(files, file, "include")
<1>1. \A vs, m : m \in Missing(files, vs) <=> ~Readable(files, m) /\ \E v \in vs : m = v.file
  BY DEF Missing
<1>2. ASSUME NEW i \in I, NEW m
      PROVE  m \in MissingOfLine(files, level, file, i) <=>
               \E k \in DOMAIN ListOf(files, file, i) : m \in Missing(files, level[ListOf(files, file, i)[k]])
  <2> DEFINE list == ListOf(files, file, i)
             C == MissingOfFiles(files, level, list)
  <2>1. DOMAIN list = 1..Len(list)
    BY ListIs
  <2>2. MissingOfLine(files, level, file, i) = UNION {C[k] : k \in 1..Len(list)}
    BY DEF MissingOfLine, MissingUpto
  <2>3. \A k \in 1..Len(list) : C[k] = Missing(files, level[list[k]])
    BY DEF MissingOfFiles
  <2> HIDE DEF list, C
  <2>4. m \in MissingOfLine(files, level, file, i) <=>
          \E k \in 1..Len(list) : m \in Missing(files, level[list[k]])
    BY <2>2, <2>3
  <2> QED
    BY <2>1, <2>4 DEF list
<1>3. \A i \in I : i \in 1..len
  BY LineIs
<1>4. \A i : i \notin I => MissingOfLine(files, level, file, i) = {}
  BY DEF MissingOfLine
<1>5. \A i \in 1..len : B[i] = MissingOfLine(files, level, file, i)
  BY DEF MissingOfLines
<1> HIDE DEF I, B, len
<1>6. ASSUME NEW m \in Missing(files, visits) PROVE \E i \in 1..len : m \in B[i]
  <2>1. ~Readable(files, m) /\ \E v \in visits : m = v.file
    <3> HIDE DEF visits
    <3> QED
      BY <1>1, <1>6
  <2>2. PICK v \in visits : m = v.file
    BY <2>1
  <2>3. v # [at |-> <<>>, file |-> file]
    BY <2>1, <2>2
  <2>4. PICK i \in I :
          \E k \in DOMAIN ListOf(files, file, i) :
            \E w \in level[ListOf(files, file, i)[k]] : v = VisitBelow(i, k, w)
    BY <2>3, VisitIs DEF I
  <2>5. PICK k \in DOMAIN ListOf(files, file, i) :
          \E w \in level[ListOf(files, file, i)[k]] : v = VisitBelow(i, k, w)
    BY <2>4
  <2>6. PICK w \in level[ListOf(files, file, i)[k]] : v = VisitBelow(i, k, w)
    BY <2>5
  <2>7. w.file = m
    BY <2>2, <2>6 DEF VisitBelow
  <2>8. m \in Missing(files, level[ListOf(files, file, i)[k]])
    BY <1>1, <2>1, <2>6, <2>7
  <2> QED
    BY <1>2, <1>3, <1>5, <2>8
<1>7. ASSUME NEW i \in 1..len, NEW m \in B[i] PROVE m \in Missing(files, visits)
  <2>1. i \in I /\ m \in MissingOfLine(files, level, file, i)
    BY <1>4, <1>5, <1>7
  <2>2. PICK k \in DOMAIN ListOf(files, file, i) : m \in Missing(files, level[ListOf(files, file, i)[k]])
    BY <1>2, <2>1
  <2>3. PICK w \in level[ListOf(files, file, i)[k]] : m = w.file /\ ~Readable(files, m)
    BY <1>1, <2>2
  <2>4. VisitBelow(i, k, w) \in visits
    BY <2>1, VisitIs DEF I
  <2>5. VisitBelow(i, k, w).file = m
    BY <2>3 DEF VisitBelow
  <2> HIDE DEF visits
  <2> QED
    BY <1>1, <2>3, <2>4, <2>5
<1> HIDE DEF visits
<1>8. Missing(files, visits) = MissingUpto(B, len)
  BY <1>6, <1>7 DEF MissingUpto
<1> QED
  BY <1>8 DEF B, len, visits

LEMMA ReadSshdIs ==
  ASSUME NEW files, SeenFiles(files), NEW level, NEW read, Reads(files, level, read),
         NEW file \in STRING, NEW s \in SshdServer
  PROVE  Added(PlacesIn(files, VisitsFrom(files, file, level)), Missing(files, VisitsFrom(files, file, level)), s,
               ReadSshd(files, file, s, read))
<1>1. level \in [STRING -> SUBSET Visit]
  BY DEF Reads
<1>2. CASE Readable(files, file)
  <2>1. ReadSshd(files, file, s, read) = ReadLines(files, files[file].lines, s, read)
    BY <1>2 DEF ReadSshd
  <2>2. Added(Upto(PlacesOfLines(files, level, file), Len(files[file].lines)),
              MissingUpto(MissingOfLines(files, level, file), Len(files[file].lines)), s,
              ReadLines(files, files[file].lines, s, read))
    BY <1>2, ReadLinesIs
  <2> QED
    BY <1>1, <1>2, <2>1, <2>2, PlacesAreOfLines, MissingAreOfLines
<1>3. CASE ~Readable(files, file)
  <2> DEFINE here == [at |-> <<>>, file |-> file]
             t == [set |-> s.set, unreadable |-> TRUE]
  <2>1. ReadSshd(files, file, s, read) = t
    BY <1>3 DEF ReadSshd
  <2>2. \A key : LiveWith(files, file, key) = {}
    BY <1>3 DEF LiveWith, Live
  <2>3. VisitsFrom(files, file, level) = {here}
    BY <2>2 DEF VisitsFrom
  <2>4. \A key : Places(files, {here}, key) = {}
    BY <2>2 DEF Places
  <2>5. PlacesIn(files, {here}) = [key \in Settings |-> {}]
    BY <2>4 DEF PlacesIn
  <2>6. Missing(files, {here}) # {}
    <3>1. here \in {w \in {here} : ~Readable(files, w.file)} /\ here.file = file
      BY <1>3
    <3> HIDE DEF here
    <3>2. file \in Missing(files, {here})
      BY <3>1 DEF Missing
    <3> QED
      BY <3>2
  <2>7. t \in SshdServer /\ t.set = s.set /\ t.unreadable = TRUE
    BY DEF SshdServer
  <2> HIDE DEF here, t
  <2>8. Added([key \in Settings |-> {}], Missing(files, {here}), s, t)
    BY <2>6, <2>7, NoneFirst DEF Added
  <2> QED
    BY <2>1, <2>3, <2>5, <2>8
<1> QED
  BY <1>2, <1>3

\* A level of files, and one with the files they are included in.
Reading == [file : STRING, s : SshdServer]
VisitsAbove(files, level) == [file \in STRING |-> VisitsFrom(files, file, level)]
ReadAbove(files, read) == [r \in Reading |-> ReadSshd(files, r.file, r.s, read)]

LEMMA NoLevel ==
  ASSUME NEW files
  PROVE  Reads(files, [file \in STRING |-> {}], [r \in Reading |-> r.s])
<1>1. \A key : Places(files, {}, key) = {}
  BY DEF Places
<1>2. PlacesIn(files, {}) = [key \in Settings |-> {}] /\ Missing(files, {}) = {}
  BY <1>1 DEF PlacesIn, Missing
<1>3. \A file \in STRING, t \in SshdServer :
        [r \in Reading |-> r.s][[file |-> file, s |-> t]] = t
  BY DEF Reading
<1> QED
  BY <1>2, <1>3, NothingAdded DEF Reads

LEMMA NextLevel ==
  ASSUME NEW files, SeenFiles(files), NEW level, NEW read, Reads(files, level, read)
  PROVE  Reads(files, VisitsAbove(files, level), ReadAbove(files, read))
<1>1. VisitsAbove(files, level) \in [STRING -> SUBSET Visit]
  BY VisitsFromTyped DEF VisitsAbove, Reads
<1>2. ASSUME NEW file \in STRING, NEW t \in SshdServer
      PROVE  Added(PlacesIn(files, VisitsAbove(files, level)[file]), Missing(files, VisitsAbove(files, level)[file]),
                   t, ReadAbove(files, read)[[file |-> file, s |-> t]])
  <2>1. ReadAbove(files, read)[[file |-> file, s |-> t]] = ReadSshd(files, file, t, read)
    BY DEF ReadAbove, Reading
  <2>2. VisitsAbove(files, level)[file] = VisitsFrom(files, file, level)
    BY DEF VisitsAbove
  <2> QED
    BY <2>1, <2>2, ReadSshdIs
<1> QED
  BY <1>1, <1>2 DEF Reads

\* What is known of files and the files below them, level by level.
LevelsOf(files, visits, read) ==
  /\ visits[0] = [file \in STRING |-> {}] /\ read[0] = [r \in Reading |-> r.s]
  /\ \A n \in 1..(MAX_DEPTH + 1) :
       visits[n] = VisitsAbove(files, visits[n - 1]) /\ read[n] = ReadAbove(files, read[n - 1])

LEMMA LevelsRead ==
  ASSUME NEW files, SeenFiles(files), NEW visits, NEW read, LevelsOf(files, visits, read)
  PROVE  \A n \in 0..(MAX_DEPTH + 1) : Reads(files, visits[n], read[n])
<1> DEFINE N == MAX_DEPTH + 1
           T == {n \in 0..N : Reads(files, visits[n], read[n])}
<1>1. N \in Nat /\ 0 \in 0..N /\ \A n \in 1..N : n \in 0..N
  BY DEF MAX_DEPTH
<1> HIDE DEF N
<1>2. 0 \in T
  BY <1>1, NoLevel DEF LevelsOf
<1>3. \A n \in 1..N : n - 1 \in T => n \in T
  BY <1>1, NextLevel DEF LevelsOf, N
<1>4. \A n \in 0..N : n \in T
  <2> HIDE DEF T
  <2> QED
    BY <1>1, <1>2, <1>3, Upward
<1> QED
  BY <1>4 DEF N

LEMMA VisitsAre ==
  ASSUME NEW files, SeenFiles(files)
  PROVE  \E visits :
           /\ Visits(files) = visits[MAX_DEPTH + 1][Main]
           /\ visits[0] = [file \in STRING |-> {}]
           /\ \A n \in 1..(MAX_DEPTH + 1) : visits[n] = VisitsAbove(files, visits[n - 1])
           /\ \A n \in 0..(MAX_DEPTH + 1) : visits[n] \in [STRING -> SUBSET Visit]
<1> DEFINE N == MAX_DEPTH + 1
           D == 0..N
           S == [STRING -> SUBSET Visit]
           first == [file \in STRING |-> {}]
           At1(d, n) == [file \in STRING |-> IF n = 0 THEN {} ELSE VisitsFrom(files, file, d[n - 1])]
           step == [y \in (1..N) \X S |-> VisitsAbove(files, y[2])]
<1>1. N \in Nat /\ 0 \in D /\ N \in D /\ (\A n \in 1..N : n \in D /\ n - 1 \in D /\ n # 0)
      /\ \A n \in D : n = 0 \/ n \in 1..N
  BY DEF MAX_DEPTH
<1> HIDE DEF N
<1>2. first \in S
  OBVIOUS
<1>3. \A x \in S : VisitsAbove(files, x) \in S
  BY VisitsFromTyped DEF VisitsAbove
<1>4. \A n \in 1..N, x \in S : step[<<n, x>>] = VisitsAbove(files, x)
  OBVIOUS
<1>5. \A d : At1(d, 0) = first
  OBVIOUS
<1>6. \A d : \A n \in 1..N : At1(d, n) = VisitsAbove(files, d[n - 1])
  BY <1>1 DEF VisitsAbove
<1> HIDE DEF step, S, first, At1
<1>7. PICK f \in [D -> S] : f[0] = first /\ \A n \in 1..N : f[n] = step[<<n, f[n - 1]>>]
  <2>1. LoopOf(N, S, first, step)
    BY <1>1, <1>2, <1>3, <1>4, LoopIs
  <2> QED
    BY <2>1 DEF LoopOf
<1>8. \A n \in D : f[n] = At1(f, n)
  <2>1. \A n \in 1..N : f[n] = At1(f, n)
    <3>1. \A n \in 1..N : f[n - 1] \in S
      BY <1>1, <1>7
    <3> QED
      BY <1>4, <1>6, <1>7, <3>1
  <2> QED
    BY <1>1, <1>5, <1>7, <2>1
<1> DEFINE d == CHOOSE d : d = [n \in D |-> At1(d, n)]
<1>9. f = [n \in D |-> At1(f, n)]
  BY <1>8
<1>10. d = [n \in D |-> At1(d, n)]
  BY <1>9
<1>11. Visits(files) = d[N][Main]
  BY DEF Visits, At1, N
<1> HIDE DEF d
<1>12. \A n \in D : d[n] = At1(d, n)
  BY <1>10
<1>13. d[0] = first /\ \A n \in 1..N : d[n] = VisitsAbove(files, d[n - 1])
  BY <1>1, <1>5, <1>6, <1>12
<1>14. \A n \in D : d[n] \in S
  <2> DEFINE T == {n \in D : d[n] \in S}
  <2>1. 0 \in T
    BY <1>1, <1>2, <1>13
  <2>2. \A n \in 1..N : n - 1 \in T => n \in T
    BY <1>1, <1>3, <1>13
  <2>3. \A n \in 0..N : n \in T
    <3> HIDE DEF T
    <3> QED
      BY <1>1, <2>1, <2>2, Upward
  <2> QED
    BY <2>3
<1> QED
  BY <1>11, <1>13, <1>14 DEF first, S, N

LEMMA ServerIs ==
  ASSUME NEW files, SeenFiles(files), NEW visits,
         visits[0] = [file \in STRING |-> {}],
         \A n \in 1..(MAX_DEPTH + 1) : visits[n] = VisitsAbove(files, visits[n - 1])
  PROVE  \E read :
           /\ Server(files) = read[MAX_DEPTH + 1][[file |-> Main,
                s |-> [set |-> [key \in Settings |-> Unset], unreadable |-> FALSE]]]
           /\ LevelsOf(files, visits, read)
<1> DEFINE N == MAX_DEPTH + 1
           D == 0..N
           S == [Reading -> SshdServer]
           first == [r \in Reading |-> r.s]
           Known1(n, x) == Reads(files, visits[n], x)
           Next1(n, x) == IF Known1(n - 1, x) THEN ReadAbove(files, x) ELSE first
           At1(d, n) == [r \in Reading |-> IF n = 0 THEN r.s ELSE ReadSshd(files, r.file, r.s, d[n - 1])]
           step == [y \in (1..N) \X S |-> Next1(y[1], y[2])]
<1>1. N \in Nat /\ 0 \in D /\ N \in D /\ (\A n \in 1..N : n \in D /\ n - 1 \in D /\ n # 0)
      /\ \A n \in D : n = 0 \/ n \in 1..N
  BY DEF MAX_DEPTH
<1>2. \A n \in 1..N : visits[n] = VisitsAbove(files, visits[n - 1])
  OBVIOUS
<1> HIDE DEF N
<1>3. Known1(0, first)
  BY NoLevel
<1>4. \A n \in 1..N : \A x : Known1(n - 1, x) => Known1(n, ReadAbove(files, x))
  BY <1>2, NextLevel
<1>5. first \in S
  BY DEF Reading
<1>6. ASSUME NEW n, NEW x, Known1(n, x) PROVE ReadAbove(files, x) \in S
  <2>1. \A file \in STRING, t \in SshdServer : ReadSshd(files, file, t, x) \in SshdServer
    BY <1>6, ReadSshdIs DEF Added
  <2>2. \A r \in Reading : r.file \in STRING /\ r.s \in SshdServer
    BY DEF Reading
  <2> QED
    BY <2>1, <2>2 DEF ReadAbove
<1>7. \A n \in 1..N, x \in S : Next1(n, x) \in S
  <2> HIDE DEF S, first, Known1
  <2> QED
    BY <1>5, <1>6
<1>8. \A n \in 1..N, x \in S : step[<<n, x>>] = Next1(n, x)
  <2> HIDE DEF S, Next1
  <2> QED
    OBVIOUS
<1>9. \A d : At1(d, 0) = first
  OBVIOUS
<1>10. \A d : \A n \in 1..N : At1(d, n) = ReadAbove(files, d[n - 1])
  BY <1>1 DEF ReadAbove
<1> HIDE DEF step, S, first, Known1, Next1, At1
<1>11. PICK f \in [D -> S] : f[0] = first /\ \A n \in 1..N : f[n] = step[<<n, f[n - 1]>>]
  <2>1. LoopOf(N, S, first, step)
    BY <1>1, <1>5, <1>7, <1>8, LoopIs
  <2> QED
    BY <2>1 DEF LoopOf
<1>12. \A n \in 1..N : f[n] = Next1(n, f[n - 1])
  BY <1>1, <1>8, <1>11
<1>13. \A n \in D : Known1(n, f[n])
  <2> DEFINE T == {n \in D : Known1(n, f[n])}
  <2>1. 0 \in T
    BY <1>1, <1>3, <1>11
  <2>2. \A n \in 1..N : n - 1 \in T => n \in T
    BY <1>1, <1>4, <1>12 DEF Next1
  <2>3. \A n \in 0..N : n \in T
    <3> HIDE DEF T
    <3> QED
      BY <1>1, <2>1, <2>2, Upward
  <2> QED
    BY <2>3
<1>14. \A n \in D : f[n] = At1(f, n)
  <2>1. f[0] = At1(f, 0)
    BY <1>9, <1>11
  <2>2. \A n \in 1..N : f[n] = At1(f, n)
    BY <1>1, <1>10, <1>12, <1>13 DEF Next1
  <2> QED
    BY <1>1, <2>1, <2>2
<1> DEFINE d == CHOOSE d : d = [n \in D |-> At1(d, n)]
<1>15. f = [n \in D |-> At1(f, n)]
  BY <1>14
<1>16. d = [n \in D |-> At1(d, n)]
  BY <1>15
<1>17. Server(files) = d[N][[file |-> Main,
         s |-> [set |-> [key \in Settings |-> Unset], unreadable |-> FALSE]]]
  BY DEF Server, At1, N, Reading
<1> HIDE DEF d
<1>18. \A n \in D : d[n] = At1(d, n)
  BY <1>16
<1>19. d[0] = first /\ \A n \in 1..N : d[n] = ReadAbove(files, d[n - 1])
  BY <1>1, <1>9, <1>10, <1>18
<1>20. LevelsOf(files, visits, d)
  BY <1>2, <1>19 DEF LevelsOf, first, N
<1> QED
  BY <1>17, <1>20 DEF N

LEMMA ServerIsRight ==
  ASSUME NEW files, SeenFiles(files)
  PROVE  TakesFirst(files, Server(files))
<1> DEFINE N == MAX_DEPTH + 1
           nothing == [set |-> [key \in Settings |-> Unset], unreadable |-> FALSE]
<1>1. PICK visits :
        /\ Visits(files) = visits[MAX_DEPTH + 1][Main]
        /\ visits[0] = [file \in STRING |-> {}]
        /\ \A n \in 1..(MAX_DEPTH + 1) : visits[n] = VisitsAbove(files, visits[n - 1])
  BY VisitsAre
<1>2. PICK read : Server(files) = read[MAX_DEPTH + 1][[file |-> Main, s |-> nothing]] /\ LevelsOf(files, visits, read)
  BY <1>1, ServerIs
<1>3. N \in 0..N
  BY DEF MAX_DEPTH
<1>4. Reads(files, visits[N], read[N])
  BY <1>2, <1>3, LevelsRead
<1>5. Main \in STRING
  BY DEF SeenFiles, SshdFiles
<1>6. nothing \in SshdServer /\ nothing.set = [key \in Settings |-> Unset] /\ nothing.unreadable = FALSE
  BY DEF SshdServer
<1> DEFINE here == Visits(files)
           s == Server(files)
<1> HIDE DEF nothing, N
<1>7. Added(PlacesIn(files, here), Missing(files, here), nothing, s)
  BY <1>1, <1>2, <1>4, <1>5, <1>6 DEF Reads, N
<1> HIDE DEF here, s
<1>8. ASSUME NEW key \in Settings
      PROVE  LET places == Places(files, here, key)
             IN  IF places = {} THEN s.set[key] = Unset
                 ELSE \E p \in places :
                        s.set[key] = p.value /\ \A q \in places \ {p} : Earlier(p.at, q.at)
  <2> DEFINE places == Places(files, here, key)
  <2>1. Firsts(places, Unset, s.set[key])
    BY <1>6, <1>7 DEF Added, PlacesIn
  <2> HIDE DEF places
  <2>2. IF places = {} THEN s.set[key] = Unset
        ELSE \E p \in places : s.set[key] = p.value /\ \A q \in places \ {p} : Earlier(p.at, q.at)
    BY <2>1 DEF Firsts
  <2> QED
    BY <2>2 DEF places
<1>9. s.unreadable <=> \E v \in here : ~Readable(files, v.file)
  <2>1. s.unreadable <=> Missing(files, here) # {}
    BY <1>6, <1>7 DEF Added
  <2>2. Missing(files, here) # {} <=> \E v \in here : ~Readable(files, v.file)
    BY DEF Missing
  <2> QED
    BY <2>1, <2>2
<1> QED
  BY <1>8, <1>9 DEF TakesFirst, here, s

(* FirstValuesShown: the settings shown are those that sshd takes, whatever  *)
(* files there are, of whatever lines, and which of them include each other, *)
(* if each Include is of one pattern and its folder can be listed.           *)
THEOREM FirstValuesShown == CallSpec => []FirstValueWins
<1> DEFINE Asked == call = "server" => input \in Configs
<1>1. CallInit => Asked /\ FirstValueWins
  BY DEF CallInit, FirstValueWins, Returned
<1>2. Asked /\ FirstValueWins /\ [CallNext]_vars => Asked' /\ FirstValueWins'
  <2> SUFFICES ASSUME Asked, FirstValueWins, [CallNext]_vars
               PROVE  Asked' /\ FirstValueWins'
    OBVIOUS
  <2>1. CASE FindClosest
    BY <2>1 DEF FindClosest, Called, FirstValueWins, Returned
  <2>2. CASE FindWords
    BY <2>2 DEF FindWords, Called, FirstValueWins, Returned
  <2>3. CASE Redact
    BY <2>3 DEF Redact, Called, FirstValueWins, Returned
  <2>4. CASE WrapText
    BY <2>4 DEF WrapText, Called, FirstValueWins, Returned
  <2>5. CASE ReadSections
    BY <2>5 DEF ReadSections, Called, FirstValueWins, Returned
  <2>6. CASE ResolvePath
    BY <2>6 DEF ResolvePath, Called, FirstValueWins, Returned
  <2>7. CASE ReadServer
    <3>1. call = "server" /\ call' = call /\ input' = input /\ output' = Server(input.files)
      BY <2>7 DEF ReadServer, Called
    <3>2. SshdFiles(input.files)
      BY <3>1, ConfigsAssumption
    <3>3. FirstWins(input.files, output')
      BY <3>1, <3>2, ServerIsRight DEF FirstWins, SeenFiles
    <3> QED
      BY <3>1, <3>3 DEF FirstValueWins
  <2>8. CASE UNCHANGED vars
    BY <2>8 DEF vars, FirstValueWins, Returned
  <2> QED
    BY <2>1, <2>2, <2>3, <2>4, <2>5, <2>6, <2>7, <2>8 DEF CallNext
<1> QED
  BY <1>1, <1>2, PTL DEF CallSpec
=============================================================================
