------------------------------ MODULE Markdown ------------------------------
(***************************************************************************)
(* Markdown to lines: Md (src/render/markdown.rs), which gets the events   *)
(* of the parser one after another and keeps stacks of what is open.       *)
(*                                                                         *)
(* A document is a sequence of blocks: a text, a block of code lines, or a *)
(* list of items, each a sequence of blocks; the texts of a tight list are *)
(* no paragraphs.  A text is a sequence of inline events.                  *)
(***************************************************************************)
EXTENDS Wrapping, SequencesExt

CONSTANT NoMarker   \* Option::None of a marker, a bullet's number or a code

CODE_INDENT == 4

-----------------------------------------------------------------------------
(* The parser *)

Event(what, of) == [what |-> what, of |-> of]

\* The events of blocks, as pulldown_cmark orders them.
RECURSIVE BlocksEvents(_, _)
BlockEvents(block, tight) ==
  CASE block.kind = "text" ->
         IF tight THEN block.inline
         ELSE <<Event("start", "paragraph")>> \o block.inline \o <<Event("end", "paragraph")>>
    [] block.kind = "code" ->
         <<Event("start", "code"), Event("code lines", block.lines), Event("end", "code")>>
    [] block.kind = "list" ->
         <<Event("list", block.first)>>
           \o FlattenSeq([i \in DOMAIN block.items |->
                <<Event("start", "item")>> \o BlocksEvents(block.items[i], block.tight)
                  \o <<Event("end", "item")>>])
           \o <<Event("end", "list")>>
BlocksEvents(blocks, tight) ==
  FlattenSeq([i \in DOMAIN blocks |-> BlockEvents(blocks[i], tight)])

-----------------------------------------------------------------------------
(* Md *)

\* A line of the page: its marker, if it is the first of an item, where its
\* text begins, and the text.
PageLine(kind, marker, column, cells) ==
  [kind |-> kind, marker |-> marker, column |-> column, cells |-> cells]
BlankLine == PageLine("blank", NoMarker, 0, <<>>)

NewMd(indent) ==
  [out |-> <<>>, spans |-> <<>>, kinds |-> <<>>, indents |-> <<indent>>,
   lists |-> <<>>, marker |-> NoMarker, blank |-> FALSE]

\* "- ", or a number from 1 to 99 with a dot and a space.
Bullet == 0
MarkerWidth(number) ==
  CASE number = Bullet -> 2
    [] number \in 1..9 -> 3
    [] OTHER           -> 4

\* push_lines
PushLines(md, lines) ==
  IF lines = <<>> THEN md
  ELSE [md EXCEPT !.out = @ \o (IF md.blank /\ @ # <<>> THEN <<BlankLine>> ELSE <<>>) \o lines,
                  !.blank = FALSE]

\* flush
Flush(md, width) ==
  IF md.spans = <<>> THEN md
  ELSE LET column == Last(md.indents)
           broken == Wrap(md.spans, column, column, width)
           marker(n) == IF n = 1 THEN md.marker ELSE NoMarker
       IN  PushLines([md EXCEPT !.spans = <<>>, !.marker = NoMarker],
                     [n \in DOMAIN broken |-> PageLine("text", marker(n), column, broken[n])])

\* code_block: no line of code is wrapped, and a dangerous one has a warning
\* under it.
CodeLines(lines, column) ==
  FlattenSeq([n \in DOMAIN lines |->
    <<PageLine("code", NoMarker, column, <<lines[n]>>)>>
      \o (IF lines[n].dangerous THEN <<PageLine("warning", NoMarker, column, <<>>)>> ELSE <<>>)])
CodeBlock(md, lines) == PushLines(md, CodeLines(lines, Last(md.indents) + CODE_INDENT))

\* Tag::Item
StartItem(md) ==
  LET number == Last(md.lists)
      parent == Last(md.indents)
  IN  [md EXCEPT !.lists = IF number = Bullet THEN @ ELSE Front(@) \o <<number + 1>>,
                 !.indents = Append(@, parent + MarkerWidth(number)),
                 !.marker = number]

\* TagEnd::Item
EndItemKeepingIndent(md) == [md EXCEPT !.marker = NoMarker]

EndItem(md) == [md EXCEPT !.indents = Front(@), !.marker = NoMarker]

\* text: a character of the innermost style.
AddText(md, char) ==
  [md EXCEPT !.spans = Append(@,
     [char EXCEPT !.style = IF md.kinds = <<>> THEN "plain" ELSE Last(md.kinds)])]

Md(md, e, width) ==
  CASE e.what = "text"       -> AddText(md, e.of)
    [] e.what = "inline code" -> [md EXCEPT !.spans = Append(@, e.of)]
    [] e.what = "open"       -> [md EXCEPT !.kinds = Append(@, e.of)]
    [] e.what = "close"      -> [md EXCEPT !.kinds = Front(@)]
    [] e.what = "list"       -> [Flush(md, width) EXCEPT !.lists = Append(@, e.of)]
    [] e.what = "code lines" -> CodeBlock(md, e.of)
    [] e.what = "start" ->
         CASE e.of = "item" -> StartItem(Flush(md, width))
           [] e.of = "code" -> Flush(md, width)
           [] OTHER         -> md
    [] e.what = "end" ->
         CASE e.of = "paragraph" -> [Flush(md, width) EXCEPT !.blank = TRUE]
           [] e.of = "item"      -> EndItem(Flush(md, width))
           [] e.of = "list"      -> [md EXCEPT !.lists = Front(@), !.blank = TRUE]
           [] e.of = "code"      -> [md EXCEPT !.blank = TRUE]

\* render
Render(blocks, indent, width) ==
  Flush(FoldLeft(LAMBDA md, e : Md(md, e, width), NewMd(indent), BlocksEvents(blocks, FALSE)),
        width).out

-----------------------------------------------------------------------------
(* What a page should look like *)

\* The texts and codes of a document in their order, each with the items that
\* it is in, the outermost first, and whether it begins the innermost one.
RECURSIVE Leaves(_, _, _)
Leaves(blocks, tight, path) ==
  LET Item(b, i) == [list |-> b, item |-> i,
                     marker |-> IF blocks[b].first = Bullet THEN Bullet ELSE blocks[b].first + i - 1]
      OfBlock(b) ==
        IF blocks[b].kind = "list"
        THEN FlattenSeq([i \in DOMAIN blocks[b].items |->
               Leaves(blocks[b].items[i], blocks[b].tight, Append(path, Item(b, i)))])
        ELSE <<[block |-> blocks[b], path |-> path, begins |-> b = 1 /\ path # <<>>,
                apart |-> blocks[b].kind = "code" \/ ~tight]>>
  IN  FlattenSeq([b \in DOMAIN blocks |-> OfBlock(b)])

\* An item's text stands to the right of its marker, and so does all else in it.
Column(indent, path) ==
  FoldLeft(LAMBDA column, item : column + MarkerWidth(item.marker), indent, path)

CharsOf(inline) ==
  LET chars == SelectSeq(inline, LAMBDA e : e.what \in {"text", "inline code"})
  IN  [i \in DOMAIN chars |-> chars[i].of]

LeafLines(leaf, indent, width) ==
  LET column == Column(indent, leaf.path)
      broken == Wrap(CharsOf(leaf.block.inline), column, column, width)
  IN  IF leaf.block.kind = "code" THEN CodeLines(leaf.block.lines, column + CODE_INDENT)
      ELSE [n \in DOMAIN broken |->
              PageLine("text", IF n = 1 /\ leaf.begins THEN Last(leaf.path).marker ELSE NoMarker,
                   column, broken[n])]

\* A list that leaf p is in, and leaf q is not.
ListEnds(p, q) ==
  \E d \in DOMAIN p.path :
    d > Len(q.path) \/ SubSeq(q.path, 1, d - 1) # SubSeq(p.path, 1, d - 1)
                    \/ q.path[d].list # p.path[d].list

\* The lines of the leaves, those apart from each other with a blank line.
Layout(blocks, indent, width) ==
  LET leaves == Leaves(blocks, FALSE, <<>>)
      Gap(n) == IF n > 1 /\ (leaves[n - 1].apart \/ ListEnds(leaves[n - 1], leaves[n]))
                THEN <<BlankLine>> ELSE <<>>
  IN  FlattenSeq([n \in DOMAIN leaves |-> Gap(n) \o LeafLines(leaves[n], indent, width)])

WithoutMarkers(lines) == [n \in DOMAIN lines |-> [lines[n] EXCEPT !.marker = NoMarker]]

\* No item is empty, nor begins with code or with a list.
RECURSIVE ItemsBeginWithText(_)
ItemsBeginWithText(blocks) ==
  \A b \in DOMAIN blocks : blocks[b].kind = "list" =>
    \A i \in DOMAIN blocks[b].items :
      LET item == blocks[b].items[i]
      IN  item # <<>> /\ item[1].kind = "text" /\ ItemsBeginWithText(item)

(* LaidOut: every text and code is shown, in order, in its style, at the  *)
(* column of the item it is in, with one blank line where blocks end and  *)
(* none elsewhere; and each item has its marker or number, on its first   *)
(* line, unless it begins with something else than text: the code gives   *)
(* such an item's marker to a later text of it, or drops it.              *)
LaidOut(blocks, indent, width, lines) ==
  LET layout == Layout(blocks, indent, width)
  IN  /\ WithoutMarkers(lines) = WithoutMarkers(layout)
      /\ ItemsBeginWithText(blocks) => lines = layout
=============================================================================
