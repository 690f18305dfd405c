---------------------------- MODULE MCAlgorithms ----------------------------
(***************************************************************************)
(* Small inputs for Algorithms.                                            *)
(***************************************************************************)
EXTENDS Algorithms

\* Trees of two folders with a file or a link each, where links may also be
\* in the place of the folders; paths of up to three names.
LinkTo(absolute, parts) == [kind |-> "link", absolute |-> absolute, parts |-> parts]
Nodes ==
  {[kind |-> "dir"], [kind |-> "file"],
   LinkTo(TRUE, <<"b">>), LinkTo(TRUE, <<"a", "x">>),
   LinkTo(FALSE, <<"..", "b">>), LinkTo(FALSE, <<"x">>), LinkTo(FALSE, <<"..", "..">>)}
TreePlaces == {<<"a">>, <<"a", "x">>, <<"b">>, <<"b", "x">>}
Trees ==
  {t \in UNION {[there -> Nodes] : there \in SUBSET TreePlaces} :
     \A path \in DOMAIN t : IsDir(t, Parent(path))}
MCWalks ==
  [tree : Trees, follow_last : BOOLEAN,
   path : {<<"a">>, <<"a", "x">>, <<"b", "x">>, <<"a", "..", "b">>, <<"a", "x", "x">>,
           <<"a", ".", "x">>, <<"..", "b", ".">>, <<"b", "..", "a">>}]

\* A main file of up to two lines and two drop-ins, which may include each
\* other, in a folder that can be listed or not.
Line(key, value) == [key |-> key, value |-> value, more |-> Unset]
SshdLines ==
  {Line("port", "22"), Line("port", "2222"), Line("permitrootlogin", "no"),
   Line("match", "user"), Line("include", Folder), Line("include", Main),
   Line("include", "a.conf"), [Line("include", "b.conf") EXCEPT !.more = "a.conf"]}
ReadableFile(lines) == [readable |-> TRUE, lines |-> lines]
UpTo(n, set) == UNION {[1..k -> set] : k \in 0..n}
MCConfigs ==
  {[files |-> [f \in {Main} \cup there |->
      CASE f = Main     -> ReadableFile(main)
        [] f = Folder   -> [readable |-> listed, lines |-> <<>>]
        [] f = "a.conf" -> ReadableFile(a)
        [] f = "b.conf" -> b]] :
     main \in UpTo(2, SshdLines), a \in UpTo(2, SshdLines),
     there \in {{}} \cup {{Folder} \cup names : names \in SUBSET {"a.conf", "b.conf"}},
     listed \in BOOLEAN,
     b \in {ReadableFile(<<Line("port", "2200")>>), [readable |-> FALSE, lines |-> <<>>],
            ReadableFile(<<Line("include", Main), Line("permitrootlogin", "yes")>>)}}
MCDropIns == <<"a.conf", "b.conf">>

\* Texts of up to five letters, and those that begin with a home; a user and
\* a host that are parts of each other or not, or that are not known, and a
\* home that has the user's name or another one.
System(home, user, hostname) == [home |-> home, user |-> user, hostname |-> hostname]
Systems ==
  [home : {Home \o <<"a">>, <<"/", "l">>}, user : {<<"a">>, <<"a", "l">>},
   hostname : {<<"l">>, <<"a", "-", "l">>}]
    \cup {System(<<"/">>, <<>>, <<"a", "a">>), System(<<"/", "/">>, <<"a">>, <<>>),
          System(<<"/", "l", "/">>, <<"home">>, <<"a">>)}
MCPrompts ==
  [text : UpTo(5, {"/", "home", "a", "l", "-", " "})
            \cup {Home \o t : t \in UpTo(4, {"/", "home", "a", "l", "-"})},
   sys : Systems]

\* Bodies of up to five lines, and the ones that differ in at most two lines
\* from a card with all that a card may have.
Card == <<TLDR, "text", "blank", PITFALLS, "text", DEEP_DIVE, "question", "text", "question">>
MCBodies ==
  [body : UpTo(5, Lines)
            \cup {[Card EXCEPT ![i] = l, ![j] = m] :
                    i \in DOMAIN Card, j \in DOMAIN Card, l \in Lines, m \in Lines}]

\* Two of three pages with a key each.  Of the cards one is the last that the
\* order has room for in its chapter.
Words(n) == [1..n -> {"a", "b"}]
Page(kind, chapter, section, key) ==
  [kind |-> kind, chapter |-> chapter, section |-> section, keys |-> {key}]
Keys == {<<"a">> \o w : w \in Words(2) \cup Words(3)} \cup {<<"b", "a", "b", "a", "b">>}
MCQueries ==
  [query : UNION {Words(n) : n \in 2..4} \cup {<<"a", "b">> \o w : w \in Words(3)},
   pages : UNION {{<<Page("hub", PACK, 0, k), Page("card", 1, PACK, l)>>,
                   <<Page("card", 1, PACK, k), Page("card", 2, 1, l)>>,
                   <<Page("hub", 1, 0, k), Page("hub", 2, 0, l)>>} : k \in Keys, l \in Keys}]

\* A query of up to two words, three pages of three fields.
Swap == <<"s", "w", "a", "p">>
Swaps == <<"s", "w", "a", "p", "s">>
Sway == <<"s", "w", "a", "y">>
Field(weight, lines) == [weight |-> weight, lines |-> lines]
SearchPages ==
  {<<Field(TITLE, <<title>>), Field(REFS, <<ref>>), Field(3, <<<<Sway>>, text>>)>> :
     title \in {<<>>, <<Swap>>, <<Swaps, Sway>>}, ref \in {<<>>, <<Sway>>},
     text \in {<<>>, <<Swap>>, <<Swaps>>}}
MCSearches ==
  [terms : UpTo(2, {Swap, Swaps, Sway, <<"s", "w", "a">>}), limit : {1, 2},
   pages : [1..2 -> SearchPages]
     \cup {<<<<Field(TITLE, <<<<Sway>>>>)>>, <<Field(TITLE, <<<<Swaps>>>>)>>, p>> : p \in SearchPages}]

\* Spans of up to six characters: letters, blanks, code with blanks in it and
\* a link; lines that begin at the same place, or the first one further right,
\* in panes of up to four columns, one of them without room for any text.
Char(blank, style, link) == [blank |-> blank, style |-> style, link |-> link]
SpanChars ==
  {Char(FALSE, "plain", NoLink), Char(FALSE, "plain", "5.1"), Char(TRUE, "plain", NoLink),
   Char(FALSE, "code", NoLink), Char(TRUE, "code", NoLink)}
MCWraps ==
  [spans : UpTo(6, SpanChars), first : {0}, rest : {0}, max : {3}]
    \cup [spans : UpTo(6, SpanChars), first : {2}, rest : {1}, max : {4}]
    \cup [spans : UpTo(4, SpanChars), first : {1}, rest : {1}, max : {1}]

\* Lists of two items, of which one may hold another list: bullets, and numbers
\* that get a second digit; with items that are empty or begin with code or a
\* list; texts in two styles, and code with a dangerous line.
Letter(blank, style) == Event("text", Char(blank, style, NoLink))
TextOf(inline) == [kind |-> "text", inline |-> inline]
Phrase ==
  TextOf(<<Letter(FALSE, "plain"), Letter(FALSE, "plain"), Letter(TRUE, "plain"),
           Letter(FALSE, "plain")>>)
Styled ==
  TextOf(<<Event("open", "bold"), Letter(FALSE, "bold"), Event("open", "emph"), Letter(FALSE, "emph"),
           Event("close", "emph"), Letter(FALSE, "bold"), Event("close", "bold"),
           Letter(FALSE, "plain"), Event("inline code", Char(FALSE, "code", NoLink))>>)
Command ==
  [kind |-> "code",
   lines |-> <<[line |-> 1, dangerous |-> TRUE], [line |-> 2, dangerous |-> FALSE]>>]
ListsOf(items) ==
  [kind : {"list"}, first : {Bullet, 1, 9}, tight : BOOLEAN, items : {items}]
FlatItems == {<<Phrase>>, <<Styled>>, <<Command>>, <<Phrase, Command>>, <<Command, Phrase>>}
InnerLists ==
  UNION {ListsOf(items) : items \in {<<item>> : item \in FlatItems}
           \cup {<<<<Phrase>>, <<>>, <<Styled>>>>, <<<<Phrase>>, <<Command, Styled>>>>}}
Items ==
  FlatItems \cup {<<>>}
    \cup UNION {{<<l>>, <<Styled, l>>, <<Phrase, l, Command>>} : l \in InnerLists}
OuterLists ==
  UNION {ListsOf(<<item, <<Phrase>>>>) \cup ListsOf(<<<<Phrase>>, item>>) : item \in Items}
MCDocuments ==
  [blocks : UNION {{<<Styled, l>>, <<l, Phrase>>, <<l, Command>>} : l \in OuterLists},
   indent : {2}, width : {9, 20}]
=============================================================================
