------------------------------ MODULE Closest ------------------------------
(***************************************************************************)
(* The pages closest to a query: fuzzy, cost and distance                  *)
(* (src/resolve.rs).                                                       *)
(*                                                                         *)
(* A word is a sequence of letters, as normalize leaves it.  A page has    *)
(* its kind, its chapter, the section of a card, and its keys: id, title   *)
(* and aliases.  The pages are a sequence, the hubs first, each kind in    *)
(* the order of the contents.                                              *)
(***************************************************************************)
EXTENDS Naturals, Sequences, FiniteSets, FiniteSetsExt, SequencesExt, Sorting

\* What the order of a page is packed by: a card comes after PACK hubs.
PACK == 1000

-----------------------------------------------------------------------------

CellWithoutSwaps(d, a, b, i, j) ==
  IF i = 0 THEN j
  ELSE IF j = 0 THEN i
  ELSE Min({d[<<i - 1, j>>] + 1, d[<<i, j - 1>>] + 1,
            d[<<i - 1, j - 1>>] + (IF a[i] = b[j] THEN 0 ELSE 1)})

\* A cell of the table of distance: the edits between the first i letters of a
\* and the first j of b, where a letter is inserted, deleted or replaced, or
\* swapped with its neighbour.
Cell(d, a, b, i, j) ==
  IF i = 0 THEN j
  ELSE IF j = 0 THEN i
  ELSE Min({d[<<i - 1, j>>] + 1, d[<<i, j - 1>>] + 1,
            d[<<i - 1, j - 1>>] + (IF a[i] = b[j] THEN 0 ELSE 1)}
           \cup (IF i > 1 /\ j > 1 /\ a[i] = b[j - 1] /\ a[i - 1] = b[j]
                 THEN {d[<<i - 2, j - 2>>] + 1} ELSE {}))

Table(a, b) ==
  LET d[x \in (0..Len(a)) \X (0..Len(b))] == Cell(d, a, b, x[1], x[2]) IN d

Distance(a, b) == Table(a, b)[<<Len(a), Len(b)>>]

MaxCost(query) == IF Len(query) <= 4 THEN 1 ELSE IF Len(query) <= 8 THEN 2 ELSE 3

\* The costs of the keys that are close enough: a typed prefix costs the most.
Costs(query, keys) ==
  LET max == MaxCost(query)
  IN  {Distance(query, k) : k \in {k \in keys : Distance(query, k) <= max}}
      \cup (IF \E k \in keys : Distance(query, k) > max /\ IsPrefix(query, k)
            THEN {max} ELSE {})

\* The tie-breaker, one number.
PageOrder(page) ==
  IF page.kind = "hub" THEN page.chapter
  ELSE PACK + (page.chapter * PACK + page.section)

\* What is suggested: a page, the cost of its best key, and the tie-breaker.
Scored(pages, query) ==
  {[page |-> p, cost |-> Min(Costs(query, pages[p].keys)), order |-> PageOrder(pages[p])] :
     p \in {q \in DOMAIN pages : Costs(query, pages[q].keys) # {}}}

Closer(s, t) ==
  \/ s.cost < t.cost
  \/ s.cost = t.cost /\ (s.order < t.order \/ (s.order = t.order /\ s.page < t.page))

\* fuzzy: the numbers of the pages, best first.
Fuzzy(pages, query) ==
  LET sorted == Sorted(Scored(pages, query), Closer)
  IN  IF Len(query) < 3 THEN <<>> ELSE [n \in DOMAIN sorted |-> sorted[n].page]

-----------------------------------------------------------------------------
(* What the distance counts, said by the edits themselves. *)

Without(w, i) == SubSeq(w, 1, i - 1) \o SubSeq(w, i + 1, Len(w))
Swapped(w, i) == [w EXCEPT ![i] = w[i + 1], ![i + 1] = w[i]]

\* b is a after one edit.
OneEdit(a, b) ==
  \/ Len(a) = Len(b) + 1 /\ \E i \in DOMAIN a : Without(a, i) = b
  \/ Len(b) = Len(a) + 1 /\ \E i \in DOMAIN b : Without(b, i) = a
  \/ Len(a) = Len(b) /\ Cardinality({i \in DOMAIN a : a[i] # b[i]}) = 1
  \/ \E i \in 1..(Len(a) - 1) : Swapped(a, i) = b

\* How close a key is: the same, one edit away, a prefix, or farther.
Near(query, keys) == \E k \in keys : k = query \/ OneEdit(query, k)
Starts(query, keys) == \E k \in keys : IsPrefix(query, k)
Rank(query, keys) ==
  IF query \in keys THEN 0 ELSE IF Near(query, keys) THEN 1 ELSE MaxCost(query)

(* ClosestFirst: every page with a key that the query is but one edit away  *)
(* from, or the beginning of, is suggested, and for short queries no other; *)
(* one that has the query as a key comes before one that is an edit away,   *)
(* for longer queries that before one that only begins with it; and among   *)
(* equals hubs come first, then cards in the order of the contents.  Of the *)
(* pages that a query of nine letters or more is two or three edits away    *)
(* from, or begins, it does not say which comes first.                      *)
ClosestFirst(pages, query, list) ==
  LET shown == {list[i] : i \in DOMAIN list}
      rank(i) == Rank(query, pages[list[i]].keys)
  IN  /\ Len(query) < 3 => list = <<>>
      /\ Len(query) >= 3 =>
           \A p \in DOMAIN pages :
             /\ Near(query, pages[p].keys) \/ Starts(query, pages[p].keys) => p \in shown
             /\ (p \in shown /\ Len(query) <= 4) =>
                   Near(query, pages[p].keys) \/ Starts(query, pages[p].keys)
      /\ Cardinality(shown) = Len(list)
      /\ \A i, j \in DOMAIN list : i < j =>
           \/ rank(i) < rank(j)
           \/ rank(i) = rank(j) /\ (list[i] < list[j] \/ rank(i) = 3)
=============================================================================
