------------------------------ MODULE MCLibrary ------------------------------
(***************************************************************************)
(* Small contents for Library: a hub and two cards, in one chapter of the  *)
(* hub, the summary and the files of which vary independently.             *)
(***************************************************************************)
EXTENDS Library

MCTexts == {"", "a", "b", "h", "mem", "MEM", "free", "toc", "ghost", "mem.summary"}
MCLowerCase == [t \in MCTexts |-> IF t = "MEM" THEN "mem" ELSE t]

MCPaths == <<"SUMMARY.md", "a.md", "b.md", "h.md", "x.txt">>

Card(t) == [kind |-> "card", id |-> Word(t), title |-> t, aliases |-> {}, hubs |-> {},
            see_also |-> {}, cards |-> {}, probes |-> {}, mentions |-> {}, by_hand |-> FALSE]
BaseFiles ==
  [p \in {"a.md", "b.md", "h.md"} |->
     CASE p = "a.md" -> [Card("a") EXCEPT !.aliases = {Word("free")}, !.hubs = {Word("mem")},
                                          !.probes = {"mem.summary"}]
       [] p = "b.md" -> [Card("b") EXCEPT !.see_also = {Word("a"), Word("mem")},
                                          !.mentions = {Word("a"), Word("mem")}]
       [] p = "h.md" -> [Card("mem") EXCEPT !.kind = "hub", !.title = "h",
                                            !.cards = {Word("b")}]]

(* One file, or its absence, or one more, that the rules may reject. *)
Without(p) == [q \in DOMAIN BaseFiles \ {p} |-> BaseFiles[q]]
With(p, f) == Put(BaseFiles, p, f)
Variants ==
  {BaseFiles, Without("a.md"), Without("h.md")}
  \cup {With("x.txt", [Card("a") EXCEPT !.kind = "other"]),
        With("a.md", [Card("a") EXCEPT !.kind = "broken"])}
  \cup {With("b.md", f) : f \in
          {[Card("b") EXCEPT !.id = Word("a")],
           [Card("b") EXCEPT !.id = Word("mem")],
           [Card("b") EXCEPT !.aliases = {Word("MEM")}],
           [Card("b") EXCEPT !.aliases = {Word("free")}],
           [Card("b") EXCEPT !.id = Word("ghost")],
           [Card("b") EXCEPT !.hubs = {Word("a")}],
           [Card("b") EXCEPT !.see_also = {Word("ghost")}],
           [Card("b") EXCEPT !.mentions = {Word("ghost")}],
           [Card("b") EXCEPT !.by_hand = TRUE],
           [Card("b") EXCEPT !.probes = {"free"}]}}
  \cup {With("h.md", [BaseFiles["h.md"] EXCEPT !.aliases = {w}]) : w \in
          {Word("MEM"), Word("a"), Word("toc"), EmptyWord, Numeral(<<1, 1>>), Numeral(<<1>>)}}
  \cup {With("h.md", [BaseFiles["h.md"] EXCEPT !.cards = {Word("mem")}])}

Titled(p) == [file |-> p, title |-> IF p = "h.md" THEN "h" ELSE IF p = "a.md" THEN "a" ELSE "b"]
ToList == {"a.md", "b.md", "h.md", "SUMMARY.md", "ghost.md"}
Entries == UNION {[1..n -> {Titled(p) : p \in ToList}] : n \in 0..3}
Chapter(p, es) == [file |-> p, title |-> Titled(p).title, entries |-> es]
NoChapterPage == "cmd"

(* The chapters: their page and their entries vary; a second one may follow. *)
Tocs ==
  {<<Chapter(p, es)>> : p \in {"h.md", "a.md", NoChapterPage}, es \in Entries}
  \cup {<<Chapter("h.md", <<>>), Chapter(NoChapterPage, <<Titled(p), Titled(q)>>)>> :
          p \in ToList, q \in ToList}
  \cup {<<Chapter("h.md", <<[Titled("a.md") EXCEPT !.title = "b"], Titled("b.md")>>)>>}

Read(toc, files) == [summary |-> "read", toc |-> toc, files |-> files]
MCBooks ==
  {Read(toc, files) : toc \in Tocs, files \in Variants}
  \cup {[summary |-> s, toc |-> <<>>, files |-> BaseFiles] : s \in {"missing", "broken"}}
==============================================================================
