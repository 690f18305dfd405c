--------------------------------- MODULE Tui ---------------------------------
(***************************************************************************)
(* The interactive mode: the state machine `App` of src/tui/app.rs, driven *)
(* by the event loop of src/tui/mod.rs, which draws the screen before it   *)
(* reads each event.                                                       *)
(*                                                                         *)
(* Pages are abstracted to what the state machine sees of them: a sequence *)
(* of links, each on one line, below the links of a "did you mean" header  *)
(* and some lines without links whose number a reload may change (the live *)
(* values of the probes).  An expanded question has Answer more lines.     *)
(* `selected` is 0 for None and k for the k-th link; rows of the table of  *)
(* contents count from 1, lines of a document from 0 as in the code.       *)
(* Messages of the footer are left out.                                    *)
(***************************************************************************)
EXTENDS Integers, Sequences, FiniteSets

CONSTANTS
  Handles,     (* Hub ids and card numbers.                                   *)
  NoHandle,    (* A row of the contents that opens nothing; no page.          *)
  Toc,         (* The rows of the contents: a handle or NoHandle.             *)
  Hubs,        (* The hubs listed by the welcome page.                        *)
  Links,       (* [Handles -> Seq(Action)]: the links of a page, in order.    *)
  Names,       (* What can be looked up: the handles and other words.         *)
  Lookup,      (* What a name shows: a handle and the links of its header.    *)
  Starts,      (* Arguments of `atfq tui`, a subset of Names.                 *)
  Queries,     (* What the search field can hold.                             *)
  EmptyQuery,
  Found,       (* [Queries -> Seq(Handles)]: the results of a search.         *)
  LiveLines,   (* How many lines the live values may take.                    *)
  Answer,      (* Lines of an expanded answer.                                *)
  AskLines,    (* Lines of the prompt overlay.                                *)
  Heights,     (* Heights of the panes: the terminal may be resized.          *)
  MaxUsize,    (* Largest usize; sums and products wrap, counts saturate.     *)
  Keys,        (* The keys pressed, digits apart.                             *)
  Digits,      (* The digits pressed.                                         *)
  Buttons,     (* The mouse events: "click", "right", "wheel".                *)
  MaxHistory   (* Bound: at most so many pages left behind.         *)

OpenLink(h) == [kind |-> "Open", handle |-> h, question |-> 0]
ToggleLink(i) == [kind |-> "Toggle", handle |-> NoHandle, question |-> i]

Action == [kind : {"Open"}, handle : Handles, question : {0}]
          \cup [kind : {"Toggle"}, handle : {NoHandle}, question : Nat]

ASSUME HandlesAssumption ==
  /\ NoHandle \notin Handles
  /\ Toc \in Seq(Handles \cup {NoHandle})
  /\ Toc # <<>>
  /\ Hubs \in Seq(Handles)
  /\ Links \in [Handles -> Seq(Action)]

(* A handle looks up the page it names; another word may look up nothing. *)
ASSUME LookupAssumption ==
  /\ Handles \subseteq Names
  /\ NoHandle \notin Names
  /\ Lookup \in [Names -> [handle : Handles \cup {NoHandle}, header : Seq(Handles)]]
  /\ \A h \in Handles : Lookup[h].handle = h
  /\ Starts \subseteq Names

ASSUME SearchAssumption ==
  /\ EmptyQuery \in Queries
  /\ Found \in [Queries -> Seq(Handles)]
  /\ Found[EmptyQuery] = <<>>

ASSUME SizeAssumption ==
  /\ LiveLines \subseteq Nat
  /\ Answer \in Nat
  /\ AskLines \in Nat
  /\ Heights \subseteq Nat
  /\ MaxUsize \in Nat \ {0}
  /\ Digits \subseteq 0..9
  /\ MaxHistory \in Nat

NoCount == -1

NewView == [scroll |-> 0, selected |-> 0, reveal |-> FALSE]

NoPage == [handle |-> NoHandle, query |-> NoHandle, live |-> 0,
           expanded |-> {}, view |-> NewView]

Normal == [kind |-> "Normal", query |-> EmptyQuery, about |-> NoHandle, view |-> NewView]
Search(q) == [Normal EXCEPT !.kind = "Search", !.query = q]
Ask(h) == [Normal EXCEPT !.kind = "Ask", !.about = h]

VARIABLES
  page,            (* The page shown, or NoPage.                              *)
  history,         (* The visits behind it.                                   *)
  mode,            (* Normal, or the overlay over the page.                   *)
  focus,           (* "Toc" or "Content".                                     *)
  toc_sel, toc_scroll, toc_reveal,
  count,           (* The count typed so far, or NoCount.                     *)
  pending_g,       (* The first g of gg was typed.                            *)
  mouse, quit,
  toc_height, content_height, items, regions,   (* What the last draw left.   *)
  phase            (* Where the event loop is: "start", "draw", "wait", "done". *)

drawn == <<toc_height, content_height, items, regions>>
shownPage == <<page, history, mode, toc_sel, toc_reveal>>
vars == <<page, history, mode, focus, toc_sel, toc_scroll, toc_reveal, count,
          pending_g, mouse, quit, toc_height, content_height, items, regions, phase>>

Init ==
  /\ page = NoPage
  /\ history = <<>>
  /\ mode = Normal
  /\ focus = "Toc"
  /\ \/ \E i \in DOMAIN Toc :
          /\ Toc[i] # NoHandle
          /\ \A j \in 1..(i - 1) : Toc[j] = NoHandle
          /\ toc_sel = i
     \/ /\ \A i \in DOMAIN Toc : Toc[i] = NoHandle
        /\ toc_sel = 1
  /\ toc_scroll = 0
  /\ toc_reveal = TRUE
  /\ count = NoCount
  /\ pending_g = FALSE
  /\ mouse = TRUE
  /\ quit = FALSE
  /\ toc_height = 0
  /\ content_height = 0
  /\ items = <<>>
  /\ regions = {}
  /\ phase = "start"

HasPage == page.handle # NoHandle
Min2(a, b) == IF a < b THEN a ELSE b
Max2(a, b) == IF a > b THEN a ELSE b
Wrapped(n) == n % (MaxUsize + 1)

-----------------------------------------------------------------------------
(***************************************************************************)
(* Documents: the links of a page and their lines.                         *)
(***************************************************************************)
Header(p) == [k \in 1..Len(Lookup[p.query].header) |-> OpenLink(Lookup[p.query].header[k])]
LinksOf(p) == Header(p) \o Links[p.handle]

(* The links before the k-th that are expanded questions. *)
ExpandedBefore(p, k) ==
  {j \in 1..(k - 1) : /\ LinksOf(p)[j].kind = "Toggle"
                      /\ LinksOf(p)[j].question \in p.expanded}

LineOf(p, k) ==
  (k - 1) + (IF k > Len(Header(p)) THEN p.live ELSE 0)
          + Answer * Cardinality(ExpandedBefore(p, k))

PageItems(p) ==
  [k \in 1..Len(LinksOf(p)) |-> [action |-> LinksOf(p)[k], line |-> LineOf(p, k)]]
PageLines(p) == LineOf(p, Len(LinksOf(p)) + 1)

SearchItems(q) ==
  [k \in 1..Len(Found[q]) |-> [action |-> OpenLink(Found[q][k]), line |-> k]]
SearchLines(q) == Len(Found[q]) + 1

WelcomeItems ==
  [k \in 1..Len(Hubs) |-> [action |-> OpenLink(Hubs[k]), line |-> k]]

Questions(h) ==
  {Links[h][k].question : k \in {j \in DOMAIN Links[h] : Links[h][j].kind = "Toggle"}}

-----------------------------------------------------------------------------
(***************************************************************************)
(* Navigation.                                                             *)
(***************************************************************************)

(* Mutant of Load: the contents stay where they were. *)
LoadKeepingRow(name, expanded, view) ==
  /\ \E n \in LiveLines :
       page' = [handle |-> Lookup[name].handle, query |-> name, live |-> n,
                expanded |-> expanded, view |-> view]
  /\ UNCHANGED <<toc_sel, toc_reveal>>

(* Shows what `name` looks up; the probes run again.  The first row of the *)
(* contents for it becomes the selected one.                               *)
Load(name, expanded, view) ==
  LET h == Lookup[name].handle
      rows == {i \in DOMAIN Toc : Toc[i] = h}
  IN /\ \E n \in LiveLines :
          page' = [handle |-> h, query |-> name, live |-> n,
                   expanded |-> expanded, view |-> view]
     /\ \/ \E i \in rows :
             /\ \A j \in rows : i <= j
             /\ toc_sel' = i
             /\ toc_reveal' = TRUE
        \/ /\ rows = {}
           /\ UNCHANGED <<toc_sel, toc_reveal>>

Visit == [handle |-> page.handle, expanded |-> page.expanded,
          view |-> [page.view EXCEPT !.reveal = FALSE]]

(* Mutant of Navigate: the expanded questions are not reset. *)
NavigateKeepingExpanded(name) ==
  \/ /\ Lookup[name].handle = NoHandle
     /\ UNCHANGED shownPage
  \/ /\ Lookup[name].handle # NoHandle
     /\ HasPage => Len(history) < MaxHistory
     /\ Load(name, page.expanded, NewView)
     /\ history' = IF HasPage THEN Append(history, Visit) ELSE history
     /\ mode' = Normal

(* Leaves everything alone when nothing matches. *)
Navigate(name) ==
  \/ /\ Lookup[name].handle = NoHandle
     /\ UNCHANGED shownPage
  \/ /\ Lookup[name].handle # NoHandle
     /\ HasPage => Len(history) < MaxHistory
     /\ Load(name, {}, NewView)
     /\ history' = IF HasPage THEN Append(history, Visit) ELSE history
     /\ mode' = Normal

(* Mutant of Back: the visit stays in the history. *)
BackKeepingVisit ==
  \/ /\ mode.kind # "Normal"
     /\ mode' = Normal
     /\ UNCHANGED <<page, history, toc_sel, toc_reveal>>
  \/ /\ mode.kind = "Normal"
     /\ history # <<>>
     /\ LET v == history[Len(history)]
        IN Load(v.handle, v.expanded, v.view)
     /\ UNCHANGED <<history, mode>>
  \/ /\ mode.kind = "Normal"
     /\ history = <<>>
     /\ UNCHANGED shownPage

(* Mutant of Back: it goes back whether or not an overlay is open. *)
BackUnderOverlay ==
  \/ /\ history # <<>>
     /\ LET v == history[Len(history)]
        IN Load(v.handle, v.expanded, v.view)
     /\ history' = SubSeq(history, 1, Len(history) - 1)
     /\ UNCHANGED mode
  \/ /\ history = <<>>
     /\ mode' = Normal
     /\ UNCHANGED <<page, history, toc_sel, toc_reveal>>

(* Closes an overlay, or goes back one page. *)
Back ==
  \/ /\ mode.kind # "Normal"
     /\ mode' = Normal
     /\ UNCHANGED <<page, history, toc_sel, toc_reveal>>
  \/ /\ mode.kind = "Normal"
     /\ history # <<>>
     /\ LET v == history[Len(history)]
        IN Load(v.handle, v.expanded, v.view)
     /\ history' = SubSeq(history, 1, Len(history) - 1)
     /\ UNCHANGED mode
  \/ /\ mode.kind = "Normal"
     /\ history = <<>>
     /\ UNCHANGED shownPage

Refresh ==
  \/ /\ HasPage
     /\ Load(page.handle, page.expanded, page.view)
     /\ UNCHANGED <<history, mode>>
  \/ ~HasPage /\ UNCHANGED shownPage

(* Collapses question i, or expands it and brings it to the top. *)
Toggle(i) ==
  /\ \/ /\ HasPage
        /\ i \in page.expanded
        /\ page' = [page EXCEPT !.expanded = @ \ {i}]
     \/ /\ HasPage
        /\ i \notin page.expanded
        /\ \E k \in DOMAIN items :
             /\ items[k].action = ToggleLink(i)
             /\ \A j \in 1..(k - 1) : items[j].action # ToggleLink(i)
             /\ page' = [page EXCEPT !.expanded = @ \cup {i},
                                     !.view.scroll = items[k].line]
     \/ ~HasPage /\ UNCHANGED page
  /\ UNCHANGED <<history, mode, toc_sel, toc_reveal>>

(* `pane` is the focus the caller sets: opening a page focuses the content. *)
Activate(action, pane) ==
  \/ /\ action.kind = "Open"
     /\ Navigate(action.handle)
     /\ focus' = "Content"
  \/ /\ action.kind = "Toggle"
     /\ Toggle(action.question)
     /\ focus' = pane

AskAi ==
  /\ mode' = IF HasPage THEN Ask(page.handle) ELSE mode
  /\ UNCHANGED <<page, history, toc_sel, toc_reveal, focus>>

-----------------------------------------------------------------------------
(***************************************************************************)
(* The view keys act on: the page's, or the overlay's.                     *)
(***************************************************************************)
HasView == mode.kind # "Normal" \/ HasPage
View == IF mode.kind = "Normal" THEN page.view ELSE mode.view

SetView(v) ==
  /\ \/ mode.kind = "Normal" /\ page' = [page EXCEPT !.view = v] /\ UNCHANGED mode
     \/ mode.kind # "Normal" /\ mode' = [mode EXCEPT !.view = v] /\ UNCHANGED page
  /\ UNCHANGED <<history, toc_sel, toc_reveal>>

(* Mutant of Scrolled: up does not stop at the top. *)
ScrolledUnchecked(v, down, n) ==
  [v EXCEPT !.scroll = IF down THEN Wrapped(@ + n) ELSE @ - n]

(* Scrolling down is a plain usize sum, scrolling up stops at 0. *)
Scrolled(v, down, n) ==
  [v EXCEPT !.scroll = IF down THEN Wrapped(@ + n) ELSE Max2(@ - n, 0)]

ScrollContent(down, n) ==
  \/ HasView /\ SetView(Scrolled(View, down, n))
  \/ ~HasView /\ UNCHANGED shownPage

FirstVisible(k) ==
  LET below == {j \in DOMAIN items : items[j].line >= View.scroll}
  IN IF below = {} THEN k = 1 ELSE k \in below /\ \A j \in below : k <= j

(* The link m steps after, or before, the k-th, around the ends. *)
Neighbour(k, forward, m) ==
  LET steps == IF forward THEN m ELSE m * (Len(items) - 1)
  IN ((k - 1 + steps) % Len(items)) + 1

SelectLink(k) == SetView([View EXCEPT !.selected = k, !.reveal = TRUE])

(* n links forward or backward; from no link, the first step goes to the   *)
(* first one in view.                                                      *)
StepLink(forward, n) ==
  \/ items = <<>> /\ UNCHANGED <<shownPage, focus>>
  \/ /\ items # <<>>
     /\ \/ /\ HasView /\ View.selected # 0
           /\ SelectLink(Neighbour(View.selected, forward, n))
        \/ /\ HasView /\ View.selected = 0
           /\ \E k \in DOMAIN items :
                FirstVisible(k) /\ SelectLink(Neighbour(k, forward, n - 1))
        \/ ~HasView /\ UNCHANGED shownPage
     /\ focus' = "Content"

(* The selected link; in a search the first result when none is selected. *)
ActivateSelected ==
  LET k == IF mode.kind = "Search" THEN Max2(mode.view.selected, 1) ELSE page.view.selected
  IN \/ k \in DOMAIN items /\ Activate(items[k].action, focus)
     \/ k \notin DOMAIN items /\ UNCHANGED <<shownPage, focus>>

-----------------------------------------------------------------------------
(***************************************************************************)
(* The table of contents.                                                  *)
(***************************************************************************)
PageRows == {i \in DOMAIN Toc : Toc[i] # NoHandle}
Ahead(down) == {i \in PageRows : IF down THEN i > toc_sel ELSE i < toc_sel}

SelectRow(i) ==
  /\ toc_sel' = i
  /\ toc_reveal' = TRUE
  /\ UNCHANGED <<page, history, mode>>

(* Mutant of MoveToc: every row is a step, headers too. *)
MoveTocByRows(down, n) ==
  SelectRow(IF down THEN Min2(toc_sel + n, Len(Toc)) ELSE Max2(toc_sel - n, 1))

(* n rows down or up, over the rows that open nothing, up to the last one. *)
MoveToc(down, n) ==
  LET ahead == Ahead(down)
      Passed(i) == {j \in ahead : IF down THEN j <= i ELSE j >= i}
  IN \/ (n = 0 \/ ahead = {}) /\ UNCHANGED shownPage
     \/ /\ n > 0
        /\ \E i \in ahead :
             /\ Cardinality(Passed(i)) = Min2(n, Cardinality(ahead))
             /\ SelectRow(i)

TocEdge(last) ==
  \/ PageRows = {} /\ UNCHANGED shownPage
  \/ \E i \in PageRows :
       /\ \A j \in PageRows : IF last THEN j <= i ELSE i <= j
       /\ SelectRow(i)

OpenToc(i) ==
  \/ Toc[i] # NoHandle /\ Navigate(Toc[i])
  \/ Toc[i] = NoHandle /\ UNCHANGED shownPage

-----------------------------------------------------------------------------
(***************************************************************************)
(* Keys.  "C-x" is x with Control.  Keys that a mode does not name behave  *)
(* alike in it; "x", "C-x" and "F1" stand for them.                        *)
(***************************************************************************)
EdgeKeys == {"g", "Home", "G", "End"}
DownKeys == {"j", "Down", "G", "End", "C-d", "PageDown", "Space", "C-f", "C-e"}
LineKeys == {"j", "Down", "k", "Up"}
HalfPageKeys == {"C-d", "C-u"}
PageKeys == {"PageDown", "Space", "C-f", "PageUp", "C-b"}
ScrollKeys == {"C-e", "C-y"}
MotionKeys == EdgeKeys \cup LineKeys \cup HalfPageKeys \cup PageKeys \cup ScrollKeys
CharKeys == {"g", "G", "j", "k", "Space", "q", "M", "/", "?", "r", "h", "l", "x"}

(* Mutant of TakePrefix: only the g is dropped. *)
TakeG == pending_g' = FALSE /\ UNCHANGED count

(* A key that is not a motion drops the count and the g typed before it. *)
TakePrefix == count' = NoCount /\ pending_g' = FALSE

Count == IF count = NoCount THEN 1 ELSE count
Pending == pending_g \/ count # NoCount

(* How many lines a motion goes in a pane of this height. *)
Distance(k, height) ==
  IF k \in HalfPageKeys THEN Wrapped(Count * Max2(height \div 2, 1))
  ELSE IF k \in PageKeys THEN Wrapped(Count * Max2(height - 1, 1))
  ELSE Count

Motion(pane, k) ==
  LET down == k \in DownKeys
  IN \/ /\ pane = "Toc" /\ k \in EdgeKeys
        /\ TocEdge(down)
     \/ /\ pane = "Toc" /\ k \notin EdgeKeys
        /\ MoveToc(down, Min2(Distance(k, toc_height), Len(Toc)))
     \/ /\ pane = "Content" /\ k \in EdgeKeys /\ HasView
        /\ SetView([View EXCEPT !.scroll = IF down THEN MaxUsize \div 2 ELSE 0])
     \/ /\ pane = "Content" /\ k \in EdgeKeys /\ ~HasView
        /\ UNCHANGED shownPage
     \/ /\ pane = "Content" /\ k \notin EdgeKeys
        /\ ScrollContent(down, Distance(k, content_height))

(* A digit of a count; a lone 0 is not one. *)
VimDigit(d) ==
  /\ count' = IF d = 0 /\ count = NoCount THEN NoCount
              ELSE Min2((IF count = NoCount THEN 0 ELSE count) * 10 + d, MaxUsize)
  /\ pending_g' = FALSE
  /\ UNCHANGED <<shownPage, focus, mouse, quit>>

(* Mutant of IsVimKey: Esc does not drop a prefix first. *)
IsMotionKey(k) == k \in MotionKeys

(* The keys the page and the prompt overlay share. *)
IsVimKey(k) == k \in MotionKeys \/ (k = "Esc" /\ Pending)

VimMotion(k, pane) ==
  /\ \/ /\ k = "Esc" /\ Pending
        /\ TakePrefix
        /\ UNCHANGED shownPage
     \/ /\ k = "g" /\ ~pending_g
        /\ pending_g' = TRUE
        /\ UNCHANGED <<shownPage, count>>
     \/ /\ k \in MotionKeys /\ (k = "g" => pending_g)
        /\ TakePrefix
        /\ IF k \in ScrollKeys THEN ScrollContent(k \in DownKeys, Count)
                               ELSE Motion(pane, k)
  /\ UNCHANGED <<focus, mouse, quit>>

(* The search field: prefixes are neither read nor dropped. *)
SearchKey(k) ==
  /\ \/ k \in {"C-n", "C-j", "Down", "Tab"} /\ StepLink(TRUE, 1)
     \/ k \in {"C-p", "C-k", "Up", "BackTab"} /\ StepLink(FALSE, 1)
     \/ /\ k = "C-u"
        /\ mode' = Search(EmptyQuery)
        /\ UNCHANGED <<page, history, toc_sel, toc_reveal, focus>>
     \/ /\ k \in {"C-w", "Backspace"}
        /\ \E q \in Queries : mode' = Search(q)
        /\ UNCHANGED <<page, history, toc_sel, toc_reveal, focus>>
     \/ /\ k \in CharKeys
        /\ \E q \in Queries \ {EmptyQuery} : mode' = Search(q)
        /\ UNCHANGED <<page, history, toc_sel, toc_reveal, focus>>
     \/ k = "Esc" /\ Back /\ UNCHANGED focus
     \/ k = "Enter" /\ ActivateSelected
     \/ /\ k \in {"C-d", "C-f", "C-b", "C-e", "C-y", "C-o", "C-x", "F1",
                  "Home", "End", "PageDown", "PageUp", "Left", "Right"}
        /\ UNCHANGED <<shownPage, focus>>
  /\ UNCHANGED <<count, pending_g, mouse, quit>>

(* The prompt overlay, for the keys that are not motions. *)
AskKey(k) ==
  /\ TakePrefix
  /\ IF k \in {"C-o", "Esc", "?"} THEN Back ELSE UNCHANGED shownPage
  /\ quit' = (quit \/ k = "q")
  /\ mouse' = IF k = "M" THEN ~mouse ELSE mouse
  /\ UNCHANGED focus

(* A page, for the keys that are not motions. *)
NormalKey(k) ==
  /\ TakePrefix
  /\ quit' = (quit \/ k \in {"q", "Esc"})
  /\ mouse' = IF k = "M" THEN ~mouse ELSE mouse
  /\ \/ k \in {"C-o", "Backspace"} /\ Back /\ UNCHANGED focus
     \/ /\ k = "/"
        /\ mode' = Search(EmptyQuery)
        /\ focus' = "Content"
        /\ UNCHANGED <<page, history, toc_sel, toc_reveal>>
     \/ k = "?" /\ AskAi
     \/ k = "r" /\ Refresh /\ UNCHANGED focus
     \/ /\ k \in {"Tab", "BackTab"}
        /\ StepLink(k = "Tab", Min2(Count, Max2(Len(items), 1)))
     \/ k \in {"h", "Left"} /\ focus' = "Toc" /\ UNCHANGED shownPage
     \/ k \in {"l", "Right"} /\ focus' = "Content" /\ UNCHANGED shownPage
     \/ k = "Enter" /\ focus = "Toc" /\ OpenToc(toc_sel) /\ UNCHANGED focus
     \/ k = "Enter" /\ focus = "Content" /\ ActivateSelected
     \/ /\ k \in {"q", "Esc", "M", "x", "C-x", "C-n", "C-p", "C-j", "C-k", "C-w", "F1"}
        /\ UNCHANGED <<shownPage, focus>>

PressDigit(d) ==
  \/ /\ mode.kind = "Search"
     /\ \E q \in Queries \ {EmptyQuery} : mode' = Search(q)
     /\ UNCHANGED <<page, history, toc_sel, toc_reveal, focus, count, pending_g, mouse, quit>>
  \/ mode.kind # "Search" /\ VimDigit(d)

Press(k) ==
  \/ /\ k = "C-c"
     /\ quit' = TRUE
     /\ UNCHANGED <<shownPage, focus, count, pending_g, mouse>>
  \/ /\ k # "C-c"
     /\ \/ mode.kind = "Search" /\ SearchKey(k)
        \/ mode.kind = "Ask" /\ IsVimKey(k) /\ VimMotion(k, "Content")
        \/ mode.kind = "Ask" /\ ~IsVimKey(k) /\ AskKey(k)
        \/ mode.kind = "Normal" /\ IsVimKey(k) /\ VimMotion(k, focus)
        \/ mode.kind = "Normal" /\ ~IsVimKey(k) /\ NormalKey(k)

-----------------------------------------------------------------------------
(***************************************************************************)
(* The mouse, while it is captured.                                        *)
(***************************************************************************)
Wheel == 3

LeftClick(r) ==
  \/ mode.kind = "Ask" /\ UNCHANGED <<shownPage, focus>>
  \/ /\ mode.kind # "Ask"
     /\ \/ /\ r.kind = "TocItem" /\ toc_sel = r.index
           /\ OpenToc(r.index)
           /\ focus' = "Toc"
        \/ /\ r.kind = "TocItem" /\ toc_sel # r.index
           /\ toc_sel' = r.index
           /\ focus' = "Toc"
           /\ UNCHANGED <<page, history, mode, toc_reveal>>
        \/ /\ r.kind = "Item" /\ HasView /\ View.selected = r.index
           /\ Activate(items[r.index].action, "Content")
        \/ /\ r.kind = "Item" /\ HasView /\ View.selected # r.index
           /\ SetView([View EXCEPT !.selected = r.index])
           /\ focus' = "Content"
        \/ /\ r.kind = "Item" /\ ~HasView
           /\ focus' = "Content"
           /\ UNCHANGED shownPage
        \/ r.kind = "TocPane" /\ focus' = "Toc" /\ UNCHANGED shownPage
        \/ r.kind = "ContentPane" /\ focus' = "Content" /\ UNCHANGED shownPage

TurnWheel(r, down) ==
  /\ \/ /\ r.kind \in {"TocItem", "TocPane"}
        /\ toc_scroll' = IF down THEN toc_scroll + Wheel ELSE Max2(toc_scroll - Wheel, 0)
        /\ UNCHANGED shownPage
     \/ /\ r.kind \in {"Item", "ContentPane"}
        /\ ScrollContent(down, Wheel)
        /\ UNCHANGED toc_scroll
  /\ UNCHANGED focus

MouseEvent ==
  /\ mouse
  /\ \/ /\ "click" \in Buttons
        /\ \E r \in regions : LeftClick(r)
        /\ UNCHANGED toc_scroll
     \/ "right" \in Buttons /\ Back /\ UNCHANGED <<focus, toc_scroll>>
     \/ /\ "wheel" \in Buttons
        /\ \E r \in regions, down \in BOOLEAN : TurnWheel(r, down)
  /\ UNCHANGED <<count, pending_g, mouse, quit>>

-----------------------------------------------------------------------------
(***************************************************************************)
(* Drawing.                                                                *)
(***************************************************************************)

(* Mutant of DrawDoc: the scroll is not kept in the document. *)
DrawDocUnclamped(v, its, lines, height) ==
  LET sel == IF v.selected > Len(its) THEN 0 ELSE v.selected
      line == IF sel = 0 THEN v.scroll ELSE its[sel].line
      revealed == IF ~v.reveal \/ sel = 0 THEN v.scroll
                  ELSE IF line < v.scroll THEN line
                  ELSE IF height > 0 /\ line >= v.scroll + height THEN line + 1 - height
                  ELSE v.scroll
  IN [scroll |-> revealed, selected |-> sel, reveal |-> FALSE]

(* Drops a selection the document does not have, reveals the selection, and *)
(* keeps the scroll in the document.                                        *)
DrawDoc(v, its, lines, height) ==
  LET sel == IF v.selected > Len(its) THEN 0 ELSE v.selected
      line == IF sel = 0 THEN v.scroll ELSE its[sel].line
      revealed == IF ~v.reveal \/ sel = 0 THEN v.scroll
                  ELSE IF line < v.scroll THEN line
                  ELSE IF height > 0 /\ line >= v.scroll + height THEN line + 1 - height
                  ELSE v.scroll
  IN [scroll |-> Min2(revealed, Max2(lines - height, 0)), selected |-> sel, reveal |-> FALSE]

(* Mutant of DrawToc: a row below the pane ends up one row below it. *)
DrawTocOffByOne(height) ==
  LET row == toc_sel - 1
      revealed == IF ~toc_reveal THEN toc_scroll
                  ELSE IF row < toc_scroll THEN row
                  ELSE IF height > 0 /\ row >= toc_scroll + height THEN row - height
                  ELSE toc_scroll
  IN /\ toc_height' = height
     /\ toc_scroll' = Min2(revealed, Max2(Len(Toc) - height, 0))
     /\ toc_reveal' = FALSE

DrawToc(height) ==
  LET row == toc_sel - 1
      revealed == IF ~toc_reveal THEN toc_scroll
                  ELSE IF row < toc_scroll THEN row
                  ELSE IF height > 0 /\ row >= toc_scroll + height THEN row + 1 - height
                  ELSE toc_scroll
  IN /\ toc_height' = height
     /\ toc_scroll' = Min2(revealed, Max2(Len(Toc) - height, 0))
     /\ toc_reveal' = FALSE

DrawContent(height) ==
  \/ /\ mode.kind = "Search"
     /\ content_height' = Max2(height - 2, 0)
     /\ items' = SearchItems(mode.query)
     /\ mode' = [mode EXCEPT !.view = DrawDoc(@, items', SearchLines(mode.query), content_height')]
     /\ UNCHANGED page
  \/ /\ mode.kind # "Search"
     /\ content_height' = height
     /\ items' = IF HasPage THEN PageItems(page) ELSE WelcomeItems
     /\ page' = IF HasPage
                THEN [page EXCEPT !.view = DrawDoc(@, items', PageLines(page), height)]
                ELSE page
     /\ mode' = IF mode.kind = "Ask"
                THEN [mode EXCEPT !.view = DrawDoc(@, <<>>, AskLines, height)]
                ELSE mode

(* What the pointer can be over: what was drawn last at that place.  The   *)
(* prompt overlay covers both panes.                                       *)
DrawRegions(scroll, contentScroll) ==
  regions' =
    IF mode.kind = "Ask" THEN {[kind |-> "ContentPane", index |-> 0]}
    ELSE {[kind |-> "TocPane", index |-> 0], [kind |-> "ContentPane", index |-> 0]}
         \cup {[kind |-> "TocItem", index |-> i] :
                i \in {j \in PageRows : scroll < j /\ j <= scroll + toc_height'}}
         \cup {[kind |-> "Item", index |-> k] :
                k \in {j \in DOMAIN items' :
                         /\ contentScroll <= items'[j].line
                         /\ items'[j].line < contentScroll + content_height'}}

Draw ==
  /\ phase = "draw"
  /\ \E height \in Heights :
       /\ DrawToc(height)
       /\ DrawContent(height)
       /\ DrawRegions(toc_scroll', IF mode.kind = "Search" THEN mode'.view.scroll
                                   ELSE page'.view.scroll)
  /\ phase' = IF quit THEN "done" ELSE "wait"
  /\ UNCHANGED <<history, focus, toc_sel, count, pending_g, mouse, quit>>

-----------------------------------------------------------------------------
(***************************************************************************)
(* The event loop.                                                         *)
(***************************************************************************)

(* `atfq tui [name]`: the page given, if any, is opened before the first draw. *)
Start ==
  /\ phase = "start"
  /\ phase' = "draw"
  /\ \/ UNCHANGED shownPage
     \/ \E name \in Starts : Navigate(name)
  /\ UNCHANGED <<focus, toc_scroll, count, pending_g, mouse, quit, drawn>>

(* Mutant of Waiting: the next event is read before the screen is drawn. *)
WaitingUndrawn == phase = "wait" /\ UNCHANGED <<phase, drawn>>

Waiting == phase = "wait" /\ phase' = "draw" /\ UNCHANGED drawn

KeyEvent(k) == Waiting /\ Press(k) /\ UNCHANGED toc_scroll
DigitEvent(d) == Waiting /\ PressDigit(d) /\ UNCHANGED toc_scroll
Pointer == Waiting /\ MouseEvent

(* A resize, a key release, a move of the mouse: only the next draw changes. *)
Ignored ==
  /\ Waiting
  /\ UNCHANGED <<shownPage, focus, toc_scroll, count, pending_g, mouse, quit>>

Next ==
  \/ Start
  \/ Draw
  \/ \E k \in Keys : KeyEvent(k)
  \/ \E d \in Digits : DigitEvent(d)
  \/ Pointer
  \/ Ignored

Spec == Init /\ [][Next]_vars

-----------------------------------------------------------------------------
(***************************************************************************)
(* Properties.                                                             *)
(***************************************************************************)
ViewType == [scroll : Nat, selected : Nat, reveal : BOOLEAN]

PageType == [handle : Handles, query : Names, live : Nat,
             expanded : SUBSET Nat, view : ViewType]

VisitType == [handle : Handles, expanded : SUBSET Nat, view : ViewType]

ModeType == [kind : {"Normal", "Search", "Ask"}, query : Queries,
             about : Handles \cup {NoHandle}, view : ViewType]

(* What the pointer can hit names a row of the contents or a link drawn. *)
RegionType == [kind : {"TocPane", "ContentPane"}, index : {0}]
              \cup [kind : {"TocItem"}, index : DOMAIN Toc]
              \cup [kind : {"Item"}, index : DOMAIN items]

(* Every variable has its type.  A scroll position is a usize: no motion,  *)
(* wheel turn or draw takes it below 0; and a count is never the 0 that is *)
(* no count (app.rs, `scroll_content` and `vim_motion`).                   *)
TypeOK ==
  /\ page \in PageType \cup {NoPage}
  /\ history \in Seq(VisitType)
  /\ mode \in ModeType
  /\ focus \in {"Toc", "Content"}
  /\ toc_sel \in DOMAIN Toc
  /\ toc_scroll \in Nat
  /\ toc_reveal \in BOOLEAN
  /\ count \in {NoCount} \cup 1..MaxUsize
  /\ pending_g \in BOOLEAN
  /\ mouse \in BOOLEAN
  /\ quit \in BOOLEAN
  /\ toc_height \in Nat
  /\ content_height \in Nat
  /\ items \in Seq([action : Action, line : Nat])
  /\ regions \subseteq RegionType
  /\ phase \in {"start", "draw", "wait", "done"}

(* Keys act on what the reader sees: whenever an event is awaited, the     *)
(* links that Tab, Enter and a click index are those of the page or of the *)
(* results on the screen (`items`, set by the last draw, is never stale).  *)
ItemsAreTheScreens ==
  phase = "wait" =>
    items = CASE mode.kind = "Search" -> SearchItems(mode.query)
              [] mode.kind # "Search" /\ HasPage -> PageItems(page)
              [] OTHER -> WelcomeItems

(* After every draw, the selected link exists and the scroll leaves no     *)
(* blank screen below the end: a page reloaded with fewer lines or links,  *)
(* G, a resize or a restored visit cannot leave the view outside of it.    *)
ViewFits(v, its, lines) ==
  /\ v.selected <= Len(its)
  /\ v.scroll <= Max2(lines - content_height, 0)

ViewInDocument ==
  phase = "wait" =>
    /\ HasPage /\ mode.kind # "Search" => ViewFits(page.view, PageItems(page), PageLines(page))
    /\ mode.kind = "Search" => ViewFits(mode.view, SearchItems(mode.query), SearchLines(mode.query))
    /\ mode.kind = "Ask" => ViewFits(mode.view, <<>>, AskLines)

(* Only questions of a page are expanded on it, for the page shown and for *)
(* every visit of the history: an expansion never leaks to another page    *)
(* through Enter, a click, a search, back or a reload.                     *)
ExpandedAreQuestions ==
  /\ HasPage => page.expanded \subseteq Questions(page.handle)
  /\ \A i \in DOMAIN history : history[i].expanded \subseteq Questions(history[i].handle)

(* The prompt overlay is about the page under it for as long as it is      *)
(* open: no event changes the page without closing the overlay.            *)
AskIsAboutThePage == mode.kind = "Ask" => HasPage /\ mode.about = page.handle

(* A count or a g typed on a page never follows the reader into a search,  *)
(* where vim keys are text: it would act on the page after the search.     *)
NoPrefixInSearch == mode.kind = "Search" => count = NoCount /\ ~pending_g

(* The selected row of the contents always opens a page. *)
TocOnAPage == PageRows # {} => toc_sel \in PageRows

(* The pages shown and left behind are those of a browser: opening keeps   *)
(* the page left, back returns to it, and nothing else (a lookup that      *)
(* finds nothing, a reload, an overlay, a motion) changes them.            *)
Pages == INSTANCE Browser WITH
  shown <- page.handle,
  past <- [i \in DOMAIN history |-> history[i].handle]

IsABrowser == Pages!Spec

(* Nobody quits by surprise: typing in a search, q included, never quits   *)
(* (only Ctrl-c does there), and Esc does not quit as long as there is a   *)
(* search, a prompt, a count or a g to close first.                        *)
QuitsOnlyWhenAsked ==
  [][/\ quit' # quit /\ mode.kind = "Search" => KeyEvent("C-c")
     /\ KeyEvent("Esc") /\ (Pending \/ mode.kind # "Normal") => ~quit']_vars

(* A draw asked to reveal a selection shows it: the row of the contents    *)
(* and the link or the result chosen with the keyboard are on the screen,  *)
(* whatever the new height of the terminal.                                *)
SelectionShown(v, its, height) ==
  v.selected # 0 /\ height > 0 =>
    v.scroll <= its[v.selected].line /\ its[v.selected].line < v.scroll + height

RevealShows ==
  [][phase = "draw" =>
       /\ toc_reveal /\ toc_height' > 0 =>
            toc_scroll' < toc_sel /\ toc_sel <= toc_scroll' + toc_height'
       /\ mode.kind = "Normal" /\ page.view.reveal =>
            SelectionShown(page'.view, items', content_height')
       /\ mode.kind = "Search" /\ mode.view.reveal =>
            SelectionShown(mode'.view, items', content_height')]_vars

(* Opening a page, by whatever way, selects a row of the contents for it.  *)
ContentsFollowThePage ==
  [][page'.handle # page.handle =>
       Toc[toc_sel'] = page'.handle \/ \A i \in DOMAIN Toc : Toc[i] # page'.handle]_vars

(* `5j` is five lines: a downward motion on the page never moves it up.    *)
(* The code's sum of scroll and count wraps around.                        *)
DownGoesDown ==
  [][(\E k \in DownKeys : mode.kind = "Normal" /\ focus = "Content" /\ KeyEvent(k))
       => page'.view.scroll >= page.view.scroll]_vars
==============================================================================
