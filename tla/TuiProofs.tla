------------------------------ MODULE TuiProofs ------------------------------
(***************************************************************************)
(* What holds of Tui for every book, every terminal and every usize: the   *)
(* types, then the safety and action properties and the refinement.        *)
(***************************************************************************)
EXTENDS Tui, FiniteSetTheorems, TLAPS

(* The part of TypeOK that navigation changes. *)
ShownOK ==
  /\ page \in PageType \cup {NoPage}
  /\ history \in Seq(VisitType)
  /\ mode \in ModeType
  /\ toc_sel \in DOMAIN Toc
  /\ toc_reveal \in BOOLEAN

LEMMA NewViewType == NewView \in ViewType
  BY DEF NewView, ViewType

(* A page with a handle is a page; a page without one is NoPage. *)
LEMMA PageCases ==
  ASSUME TypeOK
  PROVE  /\ HasPage => page \in PageType
         /\ ~HasPage => page = NoPage
  BY HandlesAssumption DEF TypeOK, HasPage, PageType, NoPage

LEMMA PageView ==
  ASSUME TypeOK
  PROVE  page.view \in ViewType /\ page.expanded \in SUBSET Nat
  BY NewViewType DEF TypeOK, PageType, NoPage

LEMMA ElementType ==
  ASSUME NEW S, NEW s \in Seq(S), NEW k \in DOMAIN s
  PROVE  s[k] \in S
  OBVIOUS

LEMMA ItemType ==
  ASSUME TypeOK, NEW k \in DOMAIN items
  PROVE  items[k].action \in Action /\ items[k].line \in Nat
<1>1. items \in Seq([action : Action, line : Nat])
  BY DEF TypeOK
<1>2. items[k] \in [action : Action, line : Nat]
  BY <1>1, ElementType
<1> QED
  BY <1>2

LEMMA ModeTypes ==
  /\ Normal \in ModeType
  /\ \A q \in Queries : Search(q) \in ModeType
  /\ \A h \in Handles : Ask(h) \in ModeType
  BY NewViewType, SearchAssumption DEF Normal, Search, Ask, ModeType

LEMMA LoadType ==
  ASSUME TypeOK, NEW name \in Names, Lookup[name].handle # NoHandle,
         NEW expanded \in SUBSET Nat, NEW view \in ViewType,
         Load(name, expanded, view)
  PROVE  /\ page' \in PageType
         /\ page'.handle = Lookup[name].handle
         /\ page'.expanded = expanded
         /\ toc_sel' \in DOMAIN Toc
         /\ toc_reveal' \in BOOLEAN
<1>1. Lookup[name].handle \in Handles
  BY LookupAssumption
<1>2. PICK n \in LiveLines :
        page' = [handle |-> Lookup[name].handle, query |-> name, live |-> n,
                 expanded |-> expanded, view |-> view]
  BY DEF Load
<1>3. n \in Nat
  BY SizeAssumption
<1>4. page' \in PageType
  BY <1>1, <1>2, <1>3 DEF PageType
<1>5. toc_sel' \in DOMAIN Toc /\ toc_reveal' \in BOOLEAN
  BY DEF Load, TypeOK
<1> QED
  BY <1>2, <1>4, <1>5

LEMMA VisitInType ==
  ASSUME TypeOK, HasPage
  PROVE  Visit \in VisitType
  BY PageCases DEF Visit, VisitType, PageType, ViewType

LEMMA NavigateType ==
  ASSUME TypeOK, NEW name \in Names, Navigate(name)
  PROVE  ShownOK'
<1>1. CASE Lookup[name].handle = NoHandle
  BY <1>1 DEF Navigate, TypeOK, ShownOK, shownPage
<1>2. CASE Lookup[name].handle # NoHandle
  <2>1. Load(name, {}, NewView) /\ mode' = Normal
    BY <1>2 DEF Navigate
  <2>2. history' \in Seq(VisitType)
    <3>1. CASE HasPage
      <4>1. Visit \in VisitType /\ history \in Seq(VisitType)
        BY <3>1, VisitInType DEF TypeOK
      <4>2. history' = Append(history, Visit)
        BY <1>2, <3>1 DEF Navigate
      <4> QED
        BY <4>1, <4>2
    <3>2. CASE ~HasPage
      BY <1>2, <3>2 DEF Navigate, TypeOK
    <3> QED
      BY <3>1, <3>2
  <2> QED
    BY <1>2, <2>1, <2>2, LoadType, NewViewType, ModeTypes DEF ShownOK
<1> QED
  BY <1>1, <1>2

LEMMA BackType ==
  ASSUME TypeOK, Back
  PROVE  ShownOK'
<1>1. CASE mode.kind # "Normal"
  BY <1>1, ModeTypes DEF Back, TypeOK, ShownOK
<1>2. CASE mode.kind = "Normal" /\ history = <<>>
  BY <1>2 DEF Back, TypeOK, ShownOK, shownPage
<1>3. CASE mode.kind = "Normal" /\ history # <<>>
  <2> DEFINE v == history[Len(history)]
  <2>1. v \in VisitType
    BY <1>3 DEF TypeOK
  <2>2. Load(v.handle, v.expanded, v.view) /\ UNCHANGED mode
    BY <1>3 DEF Back
  <2>3. history' \in Seq(VisitType)
    BY <1>3 DEF Back, TypeOK
  <2>4. v.handle \in Names /\ Lookup[v.handle].handle # NoHandle
    BY <2>1, LookupAssumption, HandlesAssumption DEF VisitType
  <2> HIDE DEF v
  <2> QED
    BY <2>1, <2>2, <2>3, <2>4, LoadType DEF ShownOK, VisitType, TypeOK
<1> QED
  BY <1>1, <1>2, <1>3

LEMMA RefreshType ==
  ASSUME TypeOK, Refresh
  PROVE  ShownOK'
<1>1. CASE ~HasPage
  BY <1>1 DEF Refresh, TypeOK, ShownOK, shownPage
<1>2. CASE HasPage
  <2>1. page \in PageType /\ page.handle \in Names /\ Lookup[page.handle].handle # NoHandle
    BY <1>2, PageCases, LookupAssumption, HandlesAssumption DEF PageType
  <2>2. Load(page.handle, page.expanded, page.view) /\ UNCHANGED <<history, mode>>
    BY <1>2 DEF Refresh
  <2> QED
    BY <2>1, <2>2, LoadType, PageView DEF ShownOK, TypeOK
<1> QED
  BY <1>1, <1>2

LEMMA ToggleType ==
  ASSUME TypeOK, NEW i \in Nat, Toggle(i)
  PROVE  ShownOK'
<1>1. UNCHANGED <<history, mode, toc_sel, toc_reveal>>
  BY DEF Toggle
<1>2. page' \in PageType \cup {NoPage}
  <2>1. CASE ~HasPage
    BY <2>1 DEF Toggle, TypeOK
  <2>2. CASE HasPage /\ i \in page.expanded
    <3>1. page \in PageType /\ page' = [page EXCEPT !.expanded = @ \ {i}]
      BY <2>2, PageCases DEF Toggle
    <3> QED
      BY <3>1 DEF PageType
  <2>3. CASE HasPage /\ i \notin page.expanded
    <3>1. PICK k \in DOMAIN items :
            page' = [page EXCEPT !.expanded = @ \cup {i}, !.view.scroll = items[k].line]
      BY <2>3 DEF Toggle
    <3>2. page \in PageType
      BY <2>3, PageCases
    <3>3. items[k].line \in Nat
      BY ItemType
    <3>4. page'.view = [page.view EXCEPT !.scroll = items[k].line] /\ page'.view \in ViewType
      BY <3>1, <3>2, <3>3 DEF PageType, ViewType
    <3>5. page'.expanded \in SUBSET Nat
      BY <3>1, <3>2 DEF PageType
    <3> QED
      BY <3>1, <3>2, <3>4, <3>5 DEF PageType
  <2> QED
    BY <2>1, <2>2, <2>3
<1> QED
  BY <1>1, <1>2 DEF ShownOK, TypeOK

LEMMA ActivateType ==
  ASSUME TypeOK, NEW action \in Action, NEW pane \in {"Toc", "Content"},
         Activate(action, pane)
  PROVE  ShownOK' /\ focus' \in {"Toc", "Content"}
<1>1. CASE action.kind = "Open"
  <2>1. action.handle \in Names
    BY <1>1, LookupAssumption DEF Action
  <2>2. Navigate(action.handle) /\ focus' = "Content"
    BY <1>1 DEF Activate
  <2> QED
    BY <2>1, <2>2, NavigateType
<1>2. CASE action.kind = "Toggle"
  <2>1. action.question \in Nat
    BY <1>2 DEF Action
  <2>2. Toggle(action.question) /\ focus' = pane
    BY <1>2 DEF Activate
  <2> QED
    BY <2>1, <2>2, ToggleType
<1> QED
  BY <1>1, <1>2 DEF Action

LEMMA ViewInType ==
  ASSUME TypeOK
  PROVE  View \in ViewType
  BY PageView DEF View, TypeOK, ModeType

LEMMA SetViewType ==
  ASSUME TypeOK, HasView, NEW v \in ViewType, SetView(v)
  PROVE  ShownOK'
<1>1. CASE mode.kind = "Normal"
  <2>1. page \in PageType /\ page' = [page EXCEPT !.view = v] /\ UNCHANGED mode
    BY <1>1, PageCases DEF HasView, SetView
  <2>2. page' \in PageType
    BY <2>1 DEF PageType
  <2> QED
    BY <2>1, <2>2 DEF SetView, ShownOK, TypeOK
<1>2. CASE mode.kind # "Normal"
  <2>1. mode' = [mode EXCEPT !.view = v] /\ UNCHANGED page
    BY <1>2 DEF SetView
  <2>2. mode' \in ModeType
    BY <2>1 DEF ModeType, TypeOK
  <2> QED
    BY <2>1, <2>2 DEF SetView, ShownOK, TypeOK
<1> QED
  BY <1>1, <1>2

LEMMA WrappedType ==
  ASSUME NEW n \in Nat
  PROVE  Wrapped(n) \in 0..MaxUsize
  BY SizeAssumption DEF Wrapped

LEMMA ScrollContentType ==
  ASSUME TypeOK, NEW down \in BOOLEAN, NEW n \in Nat, ScrollContent(down, n)
  PROVE  ShownOK'
<1>1. CASE ~HasView
  BY <1>1 DEF ScrollContent, shownPage, TypeOK, ShownOK
<1>2. CASE HasView
  <2>1. View \in ViewType
    BY ViewInType
  <2>2. Wrapped(View.scroll + n) \in Nat /\ Max2(View.scroll - n, 0) \in Nat
    BY <2>1, WrappedType DEF ViewType, Max2
  <2>3. Scrolled(View, down, n) \in ViewType
    BY <2>1, <2>2 DEF Scrolled, ViewType
  <2> QED
    BY <1>2, <2>3, SetViewType DEF ScrollContent
<1> QED
  BY <1>1, <1>2

LEMMA NeighbourType ==
  ASSUME TypeOK, items # <<>>, NEW k \in Nat \ {0}, NEW forward \in BOOLEAN, NEW m \in Nat
  PROVE  Neighbour(k, forward, m) \in Nat
<1> DEFINE c == Len(items)
           steps == IF forward THEN m ELSE m * (c - 1)
<1>1. c \in Nat /\ c > 0
  <2>1. items \in Seq([action : Action, line : Nat])
    BY DEF TypeOK
  <2> QED
    BY <2>1
<1>2. steps \in Nat
  <2>1. c - 1 \in Nat
    BY <1>1
  <2> HIDE DEF c
  <2> QED
    BY <2>1
<1>3. Neighbour(k, forward, m) = ((k - 1 + steps) % c) + 1
  BY DEF Neighbour
<1> HIDE DEF c, steps
<1> QED
  BY <1>1, <1>2, <1>3

LEMMA SelectLinkType ==
  ASSUME TypeOK, HasView, NEW k \in Nat, SelectLink(k)
  PROVE  ShownOK'
<1>1. [View EXCEPT !.selected = k, !.reveal = TRUE] \in ViewType
  BY ViewInType DEF ViewType
<1> QED
  BY <1>1, SetViewType DEF SelectLink

LEMMA StepLinkType ==
  ASSUME TypeOK, NEW forward \in BOOLEAN, NEW n \in Nat \ {0}, StepLink(forward, n)
  PROVE  ShownOK' /\ focus' \in {"Toc", "Content"}
<1>1. CASE UNCHANGED shownPage
  BY <1>1 DEF StepLink, shownPage, TypeOK, ShownOK
<1>2. CASE items # <<>> /\ HasView /\ View.selected # 0
  <2>1. View.selected \in Nat \ {0}
    BY <1>2, ViewInType DEF ViewType
  <2>2. SelectLink(Neighbour(View.selected, forward, n)) /\ focus' = "Content"
    BY <1>2 DEF StepLink
  <2> QED
    BY <1>2, <2>1, <2>2, NeighbourType, SelectLinkType
<1>3. CASE items # <<>> /\ HasView /\ View.selected = 0
  <2>1. PICK k \in DOMAIN items : SelectLink(Neighbour(k, forward, n - 1))
    BY <1>3 DEF StepLink
  <2>2. items \in Seq([action : Action, line : Nat])
    BY DEF TypeOK
  <2>3. k \in Nat \ {0} /\ n - 1 \in Nat
    BY <2>2
  <2>4. focus' = "Content"
    BY <1>3 DEF StepLink
  <2> QED
    BY <1>3, <2>1, <2>3, <2>4, NeighbourType, SelectLinkType
<1> QED
  BY <1>1, <1>2, <1>3 DEF StepLink

LEMMA ActivateSelectedType ==
  ASSUME TypeOK, ActivateSelected
  PROVE  ShownOK' /\ focus' \in {"Toc", "Content"}
<1> DEFINE k == IF mode.kind = "Search" THEN Max2(mode.view.selected, 1)
                ELSE page.view.selected
<1>1. CASE k \notin DOMAIN items
  BY <1>1 DEF ActivateSelected, shownPage, TypeOK, ShownOK
<1>2. CASE k \in DOMAIN items
  <2>1. items[k].action \in Action
    BY <1>2, ItemType
  <2>2. Activate(items[k].action, focus) /\ focus \in {"Toc", "Content"}
    BY <1>2 DEF ActivateSelected, TypeOK
  <2> HIDE DEF k
  <2> QED
    BY <2>1, <2>2, ActivateType
<1> QED
  BY <1>1, <1>2

LEMMA SelectRowType ==
  ASSUME TypeOK, NEW i \in DOMAIN Toc, SelectRow(i)
  PROVE  ShownOK'
  BY DEF SelectRow, TypeOK, ShownOK

LEMMA MoveTocType ==
  ASSUME TypeOK, NEW down \in BOOLEAN, NEW n \in Nat, MoveToc(down, n)
  PROVE  ShownOK'
<1>1. CASE UNCHANGED shownPage
  BY <1>1 DEF shownPage, TypeOK, ShownOK
<1>2. CASE \E i \in Ahead(down) : SelectRow(i)
  <2>1. Ahead(down) \subseteq DOMAIN Toc
    BY DEF Ahead, PageRows
  <2> QED
    BY <1>2, <2>1, SelectRowType
<1> QED
  BY <1>1, <1>2 DEF MoveToc

LEMMA TocEdgeType ==
  ASSUME TypeOK, NEW last \in BOOLEAN, TocEdge(last)
  PROVE  ShownOK'
<1>1. CASE UNCHANGED shownPage
  BY <1>1 DEF shownPage, TypeOK, ShownOK
<1>2. CASE \E i \in PageRows : SelectRow(i)
  BY <1>2, SelectRowType DEF PageRows
<1> QED
  BY <1>1, <1>2 DEF TocEdge

LEMMA OpenTocType ==
  ASSUME TypeOK, NEW i \in DOMAIN Toc, OpenToc(i)
  PROVE  ShownOK'
<1>1. CASE Toc[i] = NoHandle
  BY <1>1 DEF OpenToc, shownPage, TypeOK, ShownOK
<1>2. CASE Toc[i] # NoHandle
  <2>1. Toc[i] \in Names
    BY <1>2, HandlesAssumption, LookupAssumption
  <2> QED
    BY <1>2, <2>1, NavigateType DEF OpenToc
<1> QED
  BY <1>1, <1>2

LEMMA CountType ==
  ASSUME TypeOK
  PROVE  Count \in Nat \ {0}
  BY SizeAssumption DEF TypeOK, Count, NoCount

LEMMA DistanceType ==
  ASSUME TypeOK, NEW k, NEW height \in Nat
  PROVE  Distance(k, height) \in Nat
<1>1. Count \in Nat
  BY CountType
<1>2. Max2(height \div 2, 1) \in Nat /\ Max2(height - 1, 1) \in Nat
  BY DEF Max2
<1>3. \A a, b \in Nat : a * b \in Nat
  OBVIOUS
<1>4. /\ Wrapped(Count * Max2(height \div 2, 1)) \in Nat
      /\ Wrapped(Count * Max2(height - 1, 1)) \in Nat
  BY <1>1, <1>2, <1>3, WrappedType
<1> QED
  BY <1>1, <1>4 DEF Distance

LEMMA MotionType ==
  ASSUME TypeOK, NEW pane \in {"Toc", "Content"}, NEW k, Motion(pane, k)
  PROVE  ShownOK'
<1> DEFINE down == k \in DownKeys
<1>1. down \in BOOLEAN
  OBVIOUS
<1>2. CASE TocEdge(down)
  BY <1>1, <1>2, TocEdgeType
<1>3. CASE MoveToc(down, Min2(Distance(k, toc_height), Len(Toc)))
  <2>1. Distance(k, toc_height) \in Nat /\ Len(Toc) \in Nat
    BY DistanceType, HandlesAssumption DEF TypeOK
  <2>2. Min2(Distance(k, toc_height), Len(Toc)) \in Nat
    BY <2>1 DEF Min2
  <2> QED
    BY <1>1, <1>3, <2>2, MoveTocType
<1>4. CASE /\ HasView
           /\ SetView([View EXCEPT !.scroll = IF down THEN MaxUsize \div 2 ELSE 0])
  <2>1. MaxUsize \div 2 \in Nat
    BY SizeAssumption
  <2>2. [View EXCEPT !.scroll = IF down THEN MaxUsize \div 2 ELSE 0] \in ViewType
    BY <2>1, ViewInType DEF ViewType
  <2> QED
    BY <1>4, <2>2, SetViewType
<1>5. CASE UNCHANGED shownPage
  BY <1>5 DEF shownPage, TypeOK, ShownOK
<1>6. CASE ScrollContent(down, Distance(k, content_height))
  <2>1. Distance(k, content_height) \in Nat
    BY DistanceType DEF TypeOK
  <2> QED
    BY <1>1, <1>6, <2>1, ScrollContentType
<1> QED
  BY <1>2, <1>3, <1>4, <1>5, <1>6 DEF Motion

(* The part of TypeOK that keys and clicks change. *)
PrefixOK ==
  /\ focus \in {"Toc", "Content"}
  /\ count \in {NoCount} \cup 1..MaxUsize
  /\ pending_g \in BOOLEAN
  /\ mouse \in BOOLEAN
  /\ quit \in BOOLEAN

LEMMA VimMotionType ==
  ASSUME TypeOK, NEW pane \in {"Toc", "Content"}, NEW k, VimMotion(k, pane)
  PROVE  ShownOK' /\ PrefixOK'
<1>1. PrefixOK'
  BY DEF VimMotion, TakePrefix, PrefixOK, TypeOK
<1>2. CASE UNCHANGED shownPage
  BY <1>1, <1>2 DEF shownPage, TypeOK, ShownOK
<1>3. CASE ScrollContent(k \in DownKeys, Count)
  <2>1. (k \in DownKeys) \in BOOLEAN /\ Count \in Nat
    BY CountType
  <2> QED
    BY <1>1, <1>3, <2>1, ScrollContentType
<1>4. CASE Motion(pane, k)
  BY <1>1, <1>4, MotionType
<1> QED
  BY <1>2, <1>3, <1>4 DEF VimMotion

LEMMA VimDigitType ==
  ASSUME TypeOK, NEW d \in Digits, VimDigit(d)
  PROVE  ShownOK' /\ PrefixOK'
<1>1. d \in 0..9
  BY SizeAssumption
<1>2. count' \in {NoCount} \cup 1..MaxUsize
  BY <1>1, SizeAssumption DEF VimDigit, TypeOK, NoCount, Min2
<1> QED
  BY <1>2 DEF VimDigit, shownPage, TypeOK, ShownOK, PrefixOK

LEMMA SearchKeyType ==
  ASSUME TypeOK, NEW k, SearchKey(k)
  PROVE  ShownOK' /\ PrefixOK'
<1>0. UNCHANGED <<count, pending_g, mouse, quit>>
  BY DEF SearchKey
<1> SUFFICES ShownOK' /\ focus' \in {"Toc", "Content"}
  BY <1>0 DEF TypeOK, PrefixOK
<1>1. CASE \E forward \in BOOLEAN : StepLink(forward, 1)
  <2>1. 1 \in Nat \ {0}
    OBVIOUS
  <2> QED
    BY <1>1, <2>1, StepLinkType
<1>2. CASE (\E q \in Queries : mode' = Search(q))
           /\ UNCHANGED <<page, history, toc_sel, toc_reveal, focus>>
  BY <1>2, ModeTypes DEF ShownOK, TypeOK
<1>3. CASE Back /\ UNCHANGED focus
  BY <1>3, BackType DEF TypeOK
<1>4. CASE ActivateSelected
  BY <1>4, ActivateSelectedType
<1>5. CASE UNCHANGED <<shownPage, focus>>
  BY <1>5 DEF shownPage, ShownOK, TypeOK
<1> QED
  BY <1>1, <1>2, <1>3, <1>4, <1>5, SearchAssumption DEF SearchKey

LEMMA AskKeyType ==
  ASSUME TypeOK, NEW k, AskKey(k)
  PROVE  ShownOK' /\ PrefixOK'
<1>1. PrefixOK'
  BY DEF AskKey, TakePrefix, PrefixOK, TypeOK
<1>2. CASE Back
  BY <1>1, <1>2, BackType
<1>3. CASE UNCHANGED shownPage
  BY <1>1, <1>3 DEF shownPage, ShownOK, TypeOK
<1> QED
  BY <1>2, <1>3 DEF AskKey

LEMMA NormalKeyType ==
  ASSUME TypeOK, NEW k, NormalKey(k)
  PROVE  ShownOK' /\ PrefixOK'
<1> SUFFICES ShownOK' /\ focus' \in {"Toc", "Content"}
  BY DEF NormalKey, TakePrefix, TypeOK, PrefixOK
<1>1. CASE Back /\ UNCHANGED focus
  BY <1>1, BackType DEF TypeOK
<1>2. CASE /\ mode' = Search(EmptyQuery) /\ focus' = "Content"
           /\ UNCHANGED <<page, history, toc_sel, toc_reveal>>
  BY <1>2, ModeTypes, SearchAssumption DEF ShownOK, TypeOK
<1>3. CASE AskAi
  <2>1. HasPage => page.handle \in Handles
    BY PageCases DEF PageType
  <2>2. mode' \in ModeType
    BY <1>3, <2>1, ModeTypes DEF AskAi, TypeOK
  <2> QED
    BY <1>3, <2>2 DEF AskAi, ShownOK, TypeOK
<1>4. CASE Refresh /\ UNCHANGED focus
  BY <1>4, RefreshType DEF TypeOK
<1>5. CASE StepLink(k = "Tab", Min2(Count, Max2(Len(items), 1)))
  <2>1. items \in Seq([action : Action, line : Nat])
    BY DEF TypeOK
  <2>2. Len(items) \in Nat
    BY <2>1
  <2>3. Min2(Count, Max2(Len(items), 1)) \in Nat \ {0}
    BY <2>2, CountType DEF Min2, Max2
  <2> QED
    BY <1>5, <2>3, StepLinkType
<1>6. CASE focus' \in {"Toc", "Content"} /\ UNCHANGED shownPage
  BY <1>6 DEF shownPage, ShownOK, TypeOK
<1>7. CASE OpenToc(toc_sel) /\ UNCHANGED focus
  BY <1>7, OpenTocType DEF TypeOK
<1>8. CASE ActivateSelected
  BY <1>8, ActivateSelectedType
<1>9. CASE UNCHANGED <<shownPage, focus>>
  BY <1>9 DEF shownPage, ShownOK, TypeOK
<1> QED
  BY <1>1, <1>2, <1>3, <1>4, <1>5, <1>6, <1>7, <1>8, <1>9 DEF NormalKey

LEMMA PressType ==
  ASSUME TypeOK, NEW k, Press(k)
  PROVE  ShownOK' /\ PrefixOK'
<1>1. CASE k = "C-c"
  BY <1>1 DEF Press, shownPage, TypeOK, ShownOK, PrefixOK
<1>2. CASE SearchKey(k)
  BY <1>2, SearchKeyType
<1>3. CASE VimMotion(k, "Content")
  BY <1>3, VimMotionType
<1>4. CASE AskKey(k)
  BY <1>4, AskKeyType
<1>5. CASE VimMotion(k, focus)
  BY <1>5, VimMotionType DEF TypeOK
<1>6. CASE NormalKey(k)
  BY <1>6, NormalKeyType
<1> QED
  BY <1>1, <1>2, <1>3, <1>4, <1>5, <1>6 DEF Press

LEMMA PressDigitType ==
  ASSUME TypeOK, NEW d \in Digits, PressDigit(d)
  PROVE  ShownOK' /\ PrefixOK'
<1>1. CASE VimDigit(d)
  BY <1>1, VimDigitType
<1>2. CASE mode.kind = "Search"
  BY <1>2, ModeTypes DEF PressDigit, ShownOK, PrefixOK, TypeOK
<1> QED
  BY <1>1, <1>2 DEF PressDigit

LEMMA LeftClickType ==
  ASSUME TypeOK, NEW r \in regions, LeftClick(r)
  PROVE  ShownOK' /\ focus' \in {"Toc", "Content"}
<1>0. r \in RegionType
  BY DEF TypeOK
<1>1. CASE UNCHANGED <<shownPage, focus>>
  BY <1>1 DEF shownPage, ShownOK, TypeOK
<1>2. CASE r.kind = "TocItem" /\ OpenToc(r.index) /\ focus' = "Toc"
  <2>1. r.index \in DOMAIN Toc
    BY <1>0, <1>2 DEF RegionType
  <2> QED
    BY <1>2, <2>1, OpenTocType
<1>3. CASE /\ r.kind = "TocItem" /\ toc_sel' = r.index /\ focus' = "Toc"
           /\ UNCHANGED <<page, history, mode, toc_reveal>>
  <2>1. r.index \in DOMAIN Toc
    BY <1>0, <1>3 DEF RegionType
  <2> QED
    BY <1>3, <2>1 DEF ShownOK, TypeOK
<1>4. CASE r.kind = "Item" /\ Activate(items[r.index].action, "Content")
  <2>1. r.index \in DOMAIN items
    BY <1>0, <1>4 DEF RegionType
  <2> QED
    BY <1>4, <2>1, ActivateType, ItemType
<1>5. CASE /\ r.kind = "Item" /\ HasView /\ focus' = "Content"
           /\ SetView([View EXCEPT !.selected = r.index])
  <2>1. items \in Seq([action : Action, line : Nat]) /\ r.index \in DOMAIN items
    BY <1>0, <1>5 DEF RegionType, TypeOK
  <2>2. r.index \in Nat
    BY <2>1
  <2>3. [View EXCEPT !.selected = r.index] \in ViewType
    BY <2>2, ViewInType DEF ViewType
  <2> QED
    BY <1>5, <2>3, SetViewType
<1>6. CASE focus' \in {"Toc", "Content"} /\ UNCHANGED shownPage
  BY <1>6 DEF shownPage, ShownOK, TypeOK
<1> QED
  BY <1>1, <1>2, <1>3, <1>4, <1>5, <1>6 DEF LeftClick

LEMMA TurnWheelType ==
  ASSUME TypeOK, NEW r \in regions, NEW down \in BOOLEAN, TurnWheel(r, down)
  PROVE  ShownOK' /\ toc_scroll' \in Nat /\ UNCHANGED focus
<1>1. CASE /\ toc_scroll' = IF down THEN toc_scroll + Wheel ELSE Max2(toc_scroll - Wheel, 0)
           /\ UNCHANGED shownPage
  BY <1>1 DEF TurnWheel, Wheel, Max2, shownPage, ShownOK, TypeOK
<1>2. CASE ScrollContent(down, Wheel) /\ UNCHANGED toc_scroll
  BY <1>2, ScrollContentType DEF TurnWheel, Wheel, TypeOK
<1> QED
  BY <1>1, <1>2 DEF TurnWheel

LEMMA MouseEventType ==
  ASSUME TypeOK, MouseEvent
  PROVE  ShownOK' /\ PrefixOK' /\ toc_scroll' \in Nat
<1>0. UNCHANGED <<count, pending_g, mouse, quit>>
  BY DEF MouseEvent
<1> SUFFICES ShownOK' /\ focus' \in {"Toc", "Content"} /\ toc_scroll' \in Nat
  BY <1>0 DEF TypeOK, PrefixOK
<1>1. CASE \E r \in regions : LeftClick(r) /\ UNCHANGED toc_scroll
  BY <1>1, LeftClickType DEF TypeOK
<1>2. CASE Back /\ UNCHANGED <<focus, toc_scroll>>
  BY <1>2, BackType DEF TypeOK
<1>3. CASE \E r \in regions, down \in BOOLEAN : TurnWheel(r, down)
  BY <1>3, TurnWheelType DEF TypeOK
<1> QED
  BY <1>1, <1>2, <1>3 DEF MouseEvent

-----------------------------------------------------------------------------
(***************************************************************************)
(* Drawing.                                                                *)
(***************************************************************************)
LEMMA LinksType ==
  ASSUME NEW p \in PageType
  PROVE  /\ Header(p) \in Seq(Action)
         /\ Links[p.handle] \in Seq(Action)
         /\ LinksOf(p) \in Seq(Action)
<1>1. Lookup[p.query].header \in Seq(Handles)
  <2>1. Lookup[p.query] \in [handle : Handles \cup {NoHandle}, header : Seq(Handles)]
    BY LookupAssumption DEF PageType
  <2> QED
    BY <2>1
<1>2. \A h \in Handles : OpenLink(h) \in Action
  BY DEF OpenLink, Action
<1>3. Header(p) \in Seq(Action)
  <2> DEFINE hs == Lookup[p.query].header
  <2>1. Len(hs) \in Nat /\ \A k \in 1..Len(hs) : hs[k] \in Handles
    BY <1>1
  <2>2. Header(p) = [k \in 1..Len(hs) |-> OpenLink(hs[k])]
    BY DEF Header
  <2> HIDE DEF hs
  <2> QED
    BY <1>2, <2>1, <2>2
<1>4. Links[p.handle] \in Seq(Action)
  BY HandlesAssumption DEF PageType
<1> QED
  BY <1>3, <1>4 DEF LinksOf

LEMMA LineType ==
  ASSUME NEW p \in PageType, NEW k \in Nat \ {0}
  PROVE  LineOf(p, k) \in Nat
<1>1. IsFiniteSet(1..(k - 1))
  BY FS_Interval
<1>2. ExpandedBefore(p, k) \subseteq 1..(k - 1)
  BY DEF ExpandedBefore
<1>3. Cardinality(ExpandedBefore(p, k)) \in Nat
  BY <1>1, <1>2, FS_Subset, FS_CardinalityType
<1>4. Answer * Cardinality(ExpandedBefore(p, k)) \in Nat
  BY <1>3, SizeAssumption
<1>5. p.live \in Nat
  BY DEF PageType
<1> QED
  BY <1>4, <1>5 DEF LineOf

LEMMA PageItemsType ==
  ASSUME NEW p \in PageType
  PROVE  /\ PageItems(p) \in Seq([action : Action, line : Nat])
         /\ PageLines(p) \in Nat
<1>1. LinksOf(p) \in Seq(Action) /\ Len(LinksOf(p)) \in Nat
  BY LinksType
<1>2. \A k \in 1..Len(LinksOf(p)) : LinksOf(p)[k] \in Action
  BY <1>1
<1>3. \A k \in 1..Len(LinksOf(p)) : k \in Nat \ {0} /\ LineOf(p, k) \in Nat
  BY <1>1, LineType
<1>4. PageItems(p) \in Seq([action : Action, line : Nat])
  BY <1>1, <1>2, <1>3 DEF PageItems
<1>5. Len(LinksOf(p)) + 1 \in Nat \ {0}
  BY <1>1
<1> QED
  BY <1>4, <1>5, LineType DEF PageLines

LEMMA OpenItemsType ==
  ASSUME NEW hs \in Seq(Handles)
  PROVE  [k \in 1..Len(hs) |-> [action |-> OpenLink(hs[k]), line |-> k]]
           \in Seq([action : Action, line : Nat])
<1>1. \A k \in 1..Len(hs) : OpenLink(hs[k]) \in Action /\ k \in Nat
  BY DEF OpenLink, Action
<1>2. Len(hs) \in Nat
  OBVIOUS
<1> QED
  BY <1>1, <1>2

LEMMA DrawDocType ==
  ASSUME NEW v \in ViewType, NEW its \in Seq([action : Action, line : Nat]),
         NEW lines \in Nat, NEW height \in Nat
  PROVE  /\ DrawDoc(v, its, lines, height) \in ViewType
         /\ DrawDoc(v, its, lines, height).selected <= Len(its)
         /\ DrawDoc(v, its, lines, height).scroll <= Max2(lines - height, 0)
<1> DEFINE sel == IF v.selected > Len(its) THEN 0 ELSE v.selected
           line == IF sel = 0 THEN v.scroll ELSE its[sel].line
           revealed == IF ~v.reveal \/ sel = 0 THEN v.scroll
                       ELSE IF line < v.scroll THEN line
                       ELSE IF height > 0 /\ line >= v.scroll + height THEN line + 1 - height
                       ELSE v.scroll
<1>1. sel \in Nat /\ sel <= Len(its) /\ v.scroll \in Nat
  BY DEF ViewType
<1>2. line \in Nat
  <2>1. CASE sel = 0
    BY <1>1, <2>1
  <2>2. CASE sel # 0
    <3>1. sel \in DOMAIN its
      BY <1>1, <2>2
    <3>2. its[sel] \in [action : Action, line : Nat]
      BY <3>1, ElementType
    <3> QED
      BY <2>2, <3>2
  <2> QED
    BY <2>1, <2>2
<1>3. DrawDoc(v, its, lines, height) =
        [scroll |-> Min2(revealed, Max2(lines - height, 0)), selected |-> sel, reveal |-> FALSE]
  BY DEF DrawDoc
<1> HIDE DEF sel, line
<1>4. revealed \in Nat
  BY <1>1, <1>2
<1> HIDE DEF revealed
<1>5. /\ Min2(revealed, Max2(lines - height, 0)) \in Nat
      /\ Min2(revealed, Max2(lines - height, 0)) <= Max2(lines - height, 0)
  BY <1>4 DEF Min2, Max2
<1> QED
  BY <1>1, <1>3, <1>5 DEF ViewType

LEMMA DrawTocType ==
  ASSUME TypeOK, NEW height \in Nat, DrawToc(height)
  PROVE  toc_height' \in Nat /\ toc_scroll' \in Nat /\ toc_reveal' \in BOOLEAN
<1> DEFINE row == toc_sel - 1
           revealed == IF ~toc_reveal THEN toc_scroll
                       ELSE IF row < toc_scroll THEN row
                       ELSE IF height > 0 /\ row >= toc_scroll + height THEN row + 1 - height
                       ELSE toc_scroll
<1>1. row \in Nat /\ Len(Toc) \in Nat
  <2>1. Toc \in Seq(Handles \cup {NoHandle}) /\ toc_sel \in DOMAIN Toc
    BY HandlesAssumption DEF TypeOK
  <2> QED
    BY <2>1
<1>2. toc_scroll \in Nat
  BY DEF TypeOK
<1>3. /\ toc_height' = height
      /\ toc_scroll' = Min2(revealed, Max2(Len(Toc) - height, 0))
      /\ toc_reveal' = FALSE
  BY DEF DrawToc
<1> HIDE DEF row
<1>4. revealed \in Nat
  BY <1>1, <1>2
<1> HIDE DEF revealed
<1>5. Min2(revealed, Max2(Len(Toc) - height, 0)) \in Nat
  BY <1>1, <1>4 DEF Min2, Max2
<1> QED
  BY <1>3, <1>5

LEMMA DrawContentType ==
  ASSUME TypeOK, NEW height \in Nat, DrawContent(height)
  PROVE  /\ page' \in PageType \cup {NoPage}
         /\ mode' \in ModeType
         /\ content_height' \in Nat
         /\ items' \in Seq([action : Action, line : Nat])
<1>1. CASE mode.kind = "Search"
  <2>1. mode.query \in Queries /\ mode.view \in ViewType /\ mode \in ModeType
    BY DEF TypeOK, ModeType
  <2>2. Found[mode.query] \in Seq(Handles)
    BY <2>1, SearchAssumption
  <2>3. items' \in Seq([action : Action, line : Nat])
    BY <1>1, <2>2, OpenItemsType DEF DrawContent, SearchItems
  <2>4. content_height' \in Nat
    BY <1>1 DEF DrawContent, Max2
  <2>5. SearchLines(mode.query) \in Nat
    BY <2>2 DEF SearchLines
  <2>6. mode' = [mode EXCEPT !.view =
                   DrawDoc(mode.view, items', SearchLines(mode.query), content_height')]
    BY <1>1, <2>1 DEF DrawContent
  <2>7. DrawDoc(mode.view, items', SearchLines(mode.query), content_height') \in ViewType
    BY <2>1, <2>3, <2>4, <2>5, DrawDocType
  <2>8. mode' \in ModeType
    BY <2>1, <2>6, <2>7 DEF ModeType
  <2>9. UNCHANGED page
    BY <1>1 DEF DrawContent
  <2> QED
    BY <2>3, <2>4, <2>8, <2>9 DEF TypeOK
<1>2. CASE mode.kind # "Search"
  <2>1. content_height' \in Nat
    BY <1>2 DEF DrawContent
  <2>2. items' \in Seq([action : Action, line : Nat])
    <3>1. CASE HasPage
      BY <1>2, <3>1, PageCases, PageItemsType DEF DrawContent
    <3>2. CASE ~HasPage
      <4>1. WelcomeItems \in Seq([action : Action, line : Nat])
        BY HandlesAssumption, OpenItemsType DEF WelcomeItems
      <4> QED
        BY <1>2, <3>2, <4>1 DEF DrawContent
    <3> QED
      BY <3>1, <3>2
  <2>3. page' \in PageType \cup {NoPage}
    <3>1. CASE ~HasPage
      BY <1>2, <3>1 DEF DrawContent, TypeOK
    <3>2. CASE HasPage
      <4>1. page \in PageType /\ PageLines(page) \in Nat /\ page.view \in ViewType
        BY <3>2, PageCases, PageItemsType, PageView
      <4>2. DrawDoc(page.view, items', PageLines(page), height) \in ViewType
        BY <2>2, <4>1, DrawDocType
      <4>3. page' = [page EXCEPT !.view = DrawDoc(page.view, items', PageLines(page), height)]
        BY <1>2, <3>2 DEF DrawContent
      <4> QED
        BY <4>1, <4>2, <4>3 DEF PageType
    <3> QED
      BY <3>1, <3>2
  <2>4. mode' \in ModeType
    <3>1. mode \in ModeType /\ mode.view \in ViewType
      BY DEF TypeOK, ModeType
    <3>2. <<>> \in Seq([action : Action, line : Nat])
      OBVIOUS
    <3>3. DrawDoc(mode.view, <<>>, AskLines, height) \in ViewType
      BY <3>1, <3>2, SizeAssumption, DrawDocType
    <3>4. CASE mode.kind = "Ask"
      <4>1. mode' = [mode EXCEPT !.view = DrawDoc(mode.view, <<>>, AskLines, height)]
        BY <1>2, <3>4 DEF DrawContent
      <4> QED
        BY <3>1, <3>3, <4>1 DEF ModeType
    <3>5. CASE mode.kind # "Ask"
      BY <1>2, <3>1, <3>5 DEF DrawContent
    <3> QED
      BY <3>4, <3>5
  <2> QED
    BY <2>1, <2>2, <2>3, <2>4
<1> QED
  BY <1>1, <1>2

LEMMA DrawRegionsType ==
  ASSUME NEW scroll, NEW contentScroll, DrawRegions(scroll, contentScroll)
  PROVE  (regions \subseteq RegionType)'
  BY DEF DrawRegions, RegionType, PageRows

LEMMA DrawType ==
  ASSUME TypeOK, Draw
  PROVE  TypeOK'
<1>1. PICK height \in Heights :
        /\ DrawToc(height)
        /\ DrawContent(height)
        /\ DrawRegions(toc_scroll', IF mode.kind = "Search" THEN mode'.view.scroll
                                    ELSE page'.view.scroll)
  BY DEF Draw
<1>2. height \in Nat
  BY SizeAssumption
<1>3. toc_height' \in Nat /\ toc_scroll' \in Nat /\ toc_reveal' \in BOOLEAN
  BY <1>1, <1>2, DrawTocType
<1>4. /\ page' \in PageType \cup {NoPage}
      /\ mode' \in ModeType
      /\ content_height' \in Nat
      /\ items' \in Seq([action : Action, line : Nat])
  BY <1>1, <1>2, DrawContentType
<1>5. (regions \subseteq RegionType)'
  BY <1>1, DrawRegionsType
<1>6. UNCHANGED <<history, focus, toc_sel, count, pending_g, mouse, quit>>
      /\ phase' \in {"done", "wait"}
  BY DEF Draw
<1> QED
  BY <1>3, <1>4, <1>5, <1>6 DEF TypeOK

-----------------------------------------------------------------------------
(***************************************************************************)
(* Theorems.                                                               *)
(***************************************************************************)

(* An event changes neither what was drawn nor, but for the wheel, where   *)
(* the contents are scrolled.                                              *)
LEMMA EventType ==
  ASSUME TypeOK, UNCHANGED drawn, ShownOK', PrefixOK', toc_scroll' \in Nat,
         phase' \in {"start", "draw", "wait", "done"}
  PROVE  TypeOK'
<1>1. (regions \subseteq RegionType)'
  BY DEF TypeOK, drawn, RegionType
<1> QED
  BY <1>1 DEF TypeOK, drawn, ShownOK, PrefixOK

LEMMA InitType == Init => TypeOK
<1> SUFFICES ASSUME Init PROVE TypeOK
  OBVIOUS
<1>1. toc_sel \in DOMAIN Toc
  <2>1. CASE toc_sel = 1
    <3>1. Toc \in Seq(Handles \cup {NoHandle}) /\ Toc # <<>>
      BY HandlesAssumption
    <3>2. Len(Toc) > 0
      BY <3>1
    <3> QED
      BY <2>1, <3>1, <3>2
  <2>2. CASE \E i \in DOMAIN Toc : toc_sel = i
    BY <2>2
  <2> QED
    BY <2>1, <2>2 DEF Init
<1>2. regions \subseteq RegionType
  BY DEF Init
<1>3. history \in Seq(VisitType) /\ items \in Seq([action : Action, line : Nat])
  BY DEF Init
<1>4. mode \in ModeType /\ page \in PageType \cup {NoPage}
  BY ModeTypes DEF Init
<1>5. /\ focus \in {"Toc", "Content"}
      /\ toc_scroll \in Nat /\ toc_reveal \in BOOLEAN
      /\ count \in {NoCount} \cup 1..MaxUsize
      /\ pending_g \in BOOLEAN /\ mouse \in BOOLEAN /\ quit \in BOOLEAN
      /\ toc_height \in Nat /\ content_height \in Nat
      /\ phase \in {"start", "draw", "wait", "done"}
  BY DEF Init
<1> QED
  BY <1>1, <1>2, <1>3, <1>4, <1>5 DEF TypeOK

LEMMA NextType == TypeOK /\ [Next]_vars => TypeOK'
<1> SUFFICES ASSUME TypeOK, [Next]_vars PROVE TypeOK'
  OBVIOUS
<1>1. CASE Start
  <2>1. CASE UNCHANGED shownPage
    BY <1>1, <2>1, EventType DEF Start, shownPage, ShownOK, PrefixOK, TypeOK
  <2>2. CASE \E name \in Starts : Navigate(name)
    <3>1. ShownOK'
      BY <2>2, NavigateType, LookupAssumption
    <3> QED
      BY <1>1, <3>1, EventType DEF Start, PrefixOK, TypeOK
  <2> QED
    BY <1>1, <2>1, <2>2 DEF Start
<1>2. CASE Draw
  BY <1>2, DrawType
<1>3. ASSUME NEW k \in Keys, KeyEvent(k)
      PROVE  TypeOK'
  <2>1. ShownOK' /\ PrefixOK'
    BY <1>3, PressType DEF KeyEvent
  <2> QED
    BY <1>3, <2>1, EventType DEF KeyEvent, Waiting, TypeOK
<1>4. ASSUME NEW d \in Digits, DigitEvent(d)
      PROVE  TypeOK'
  <2>1. ShownOK' /\ PrefixOK'
    BY <1>4, PressDigitType DEF DigitEvent
  <2> QED
    BY <1>4, <2>1, EventType DEF DigitEvent, Waiting, TypeOK
<1>5. CASE Pointer
  BY <1>5, MouseEventType, EventType DEF Pointer, Waiting
<1>6. CASE Ignored
  <2>1. ShownOK' /\ PrefixOK'
    BY <1>6 DEF Ignored, shownPage, ShownOK, PrefixOK, TypeOK
  <2> QED
    BY <1>6, <2>1, EventType DEF Ignored, Waiting, TypeOK
<1>7. CASE UNCHANGED vars
  BY <1>7 DEF vars, TypeOK, RegionType
<1> QED
  BY <1>1, <1>2, <1>3, <1>4, <1>5, <1>6, <1>7 DEF Next

(* Every variable of the interactive mode keeps its type, in every book,   *)
(* on every terminal, for every width of usize: selections and regions     *)
(* index the rows and links that exist.                                    *)
THEOREM TypeCorrect == Spec => []TypeOK
  BY InitType, NextType, PTL DEF Spec

-----------------------------------------------------------------------------
(***************************************************************************)
(* The safety properties.  Every step is of one of three shapes: it opens  *)
(* a page, it returns to the page left last, or it stays on the page; the  *)
(* invariants and the refinement of Browser follow from the shapes.        *)
(***************************************************************************)

(* The questions the links on the screen expand. *)
Toggled == {i \in Nat : \E k \in DOMAIN items : items[k].action = ToggleLink(i)}

SamePage ==
  /\ page'.handle = page.handle
  /\ page'.expanded \subseteq page.expanded \cup Toggled
  /\ UNCHANGED history

SameMode == mode'.kind = mode.kind /\ mode'.about = mode.about

(* The view of the page or of the overlay moves. *)
Looks == SamePage /\ SameMode

Opens == \E name \in Names : Lookup[name].handle # NoHandle /\ Navigate(name)

Returns == mode.kind = "Normal" /\ history # <<>> /\ Back

Stays ==
  /\ SamePage
  /\ \/ SameMode
     \/ mode' = Normal
     \/ \E q \in Queries : mode' = Search(q)
     \/ HasPage /\ mode' = Ask(page.handle)

Shape == Opens \/ Returns \/ Stays

-----------------------------------------------------------------------------
(***************************************************************************)
(* The shape of each handler.                                              *)
(***************************************************************************)
LEMMA ShownLooks ==
  ASSUME UNCHANGED <<page, history, mode>>
  PROVE  Looks
  BY DEF Looks, SamePage, SameMode

LEMMA LooksStays ==
  ASSUME Looks
  PROVE  Shape
  BY DEF Looks, Shape, Stays

LEMMA SetViewLooks ==
  ASSUME TypeOK, HasView, NEW v, SetView(v)
  PROVE  Looks
<1>1. CASE mode.kind = "Normal"
  <2>1. page \in PageType /\ page' = [page EXCEPT !.view = v] /\ UNCHANGED mode
    BY <1>1, PageCases DEF HasView, SetView
  <2> QED
    BY <2>1 DEF Looks, SamePage, SameMode, SetView, PageType
<1>2. CASE mode.kind # "Normal"
  <2>1. mode \in ModeType /\ mode' = [mode EXCEPT !.view = v] /\ UNCHANGED page
    BY <1>2 DEF SetView, TypeOK
  <2> QED
    BY <2>1 DEF Looks, SamePage, SameMode, SetView, ModeType
<1> QED
  BY <1>1, <1>2

LEMMA ScrollContentLooks ==
  ASSUME TypeOK, NEW down, NEW n, ScrollContent(down, n)
  PROVE  Looks
  BY SetViewLooks, ShownLooks DEF ScrollContent, shownPage

LEMMA StepLinkLooks ==
  ASSUME TypeOK, NEW forward, NEW n, StepLink(forward, n)
  PROVE  Looks
  BY SetViewLooks, ShownLooks DEF StepLink, SelectLink, shownPage

LEMMA MotionLooks ==
  ASSUME TypeOK, NEW pane, NEW k, Motion(pane, k)
  PROVE  Looks
<1>1. CASE UNCHANGED <<page, history, mode>>
  BY <1>1, ShownLooks
<1>2. CASE HasView /\ \E v : SetView(v)
  BY <1>2, SetViewLooks
<1>3. CASE \E down, n : ScrollContent(down, n)
  BY <1>3, ScrollContentLooks
<1> QED
  BY <1>1, <1>2, <1>3 DEF Motion, TocEdge, MoveToc, SelectRow, shownPage

LEMMA VimMotionLooks ==
  ASSUME TypeOK, NEW pane, NEW k, VimMotion(k, pane)
  PROVE  Looks
  BY MotionLooks, ScrollContentLooks, ShownLooks DEF VimMotion, shownPage

LEMMA NavigateShape ==
  ASSUME NEW name \in Names, Navigate(name)
  PROVE  Shape
<1>1. CASE Lookup[name].handle = NoHandle
  BY <1>1, ShownLooks, LooksStays DEF Navigate, shownPage
<1>2. CASE Lookup[name].handle # NoHandle
  BY <1>2 DEF Opens, Shape
<1> QED
  BY <1>1, <1>2

LEMMA BackShape ==
  ASSUME Back
  PROVE  Shape
<1>1. CASE mode.kind # "Normal"
  BY <1>1 DEF Back, Shape, Stays, SamePage
<1>2. CASE mode.kind = "Normal" /\ history = <<>>
  BY <1>2, ShownLooks, LooksStays DEF Back, shownPage
<1>3. CASE mode.kind = "Normal" /\ history # <<>>
  BY <1>3 DEF Shape, Returns
<1> QED
  BY <1>1, <1>2, <1>3

LEMMA RefreshShape ==
  ASSUME TypeOK, Refresh
  PROVE  Shape
<1>1. CASE ~HasPage
  BY <1>1, ShownLooks, LooksStays DEF Refresh, shownPage
<1>2. CASE HasPage
  <2>1. page \in PageType /\ page.handle \in Names
        /\ Lookup[page.handle].handle = page.handle /\ page.handle # NoHandle
    BY <1>2, PageCases, LookupAssumption, HandlesAssumption DEF PageType
  <2>2. Load(page.handle, page.expanded, page.view) /\ UNCHANGED <<history, mode>>
    BY <1>2 DEF Refresh
  <2>3. page'.handle = page.handle /\ page'.expanded = page.expanded
    BY <2>1, <2>2, LoadType, PageView
  <2> QED
    BY <2>2, <2>3 DEF Shape, Stays, SamePage, SameMode
<1> QED
  BY <1>1, <1>2

LEMMA ToggleShape ==
  ASSUME TypeOK, NEW i \in Nat, Toggle(i)
  PROVE  Shape
<1>1. UNCHANGED <<history, mode>>
  BY DEF Toggle
<1>2. page'.handle = page.handle /\ page'.expanded \subseteq page.expanded \cup Toggled
  <2>1. CASE ~HasPage
    BY <2>1 DEF Toggle
  <2>2. CASE HasPage /\ i \in page.expanded
    <3>1. page \in PageType /\ page' = [page EXCEPT !.expanded = @ \ {i}]
      BY <2>2, PageCases DEF Toggle
    <3> QED
      BY <3>1 DEF PageType
  <2>3. CASE HasPage /\ i \notin page.expanded
    <3>1. PICK k \in DOMAIN items :
            /\ items[k].action = ToggleLink(i)
            /\ page' = [page EXCEPT !.expanded = @ \cup {i}, !.view.scroll = items[k].line]
      BY <2>3 DEF Toggle
    <3>2. page \in PageType /\ i \in Toggled
      BY <2>3, <3>1, PageCases DEF Toggled
    <3> QED
      BY <3>1, <3>2 DEF PageType
  <2> QED
    BY <2>1, <2>2, <2>3
<1> QED
  BY <1>1, <1>2 DEF Shape, Stays, SamePage, SameMode

LEMMA ActivateShape ==
  ASSUME TypeOK, NEW action \in Action, NEW pane, Activate(action, pane)
  PROVE  Shape
<1>1. CASE action.kind = "Open"
  <2>1. action.handle \in Names /\ Navigate(action.handle)
    BY <1>1, LookupAssumption DEF Action, Activate
  <2> QED
    BY <2>1, NavigateShape
<1>2. CASE action.kind = "Toggle"
  <2>1. action.question \in Nat /\ Toggle(action.question)
    BY <1>2 DEF Action, Activate
  <2> QED
    BY <2>1, ToggleShape
<1> QED
  BY <1>1, <1>2 DEF Activate

LEMMA ActivateSelectedShape ==
  ASSUME TypeOK, ActivateSelected
  PROVE  Shape
<1> DEFINE k == IF mode.kind = "Search" THEN Max2(mode.view.selected, 1)
                ELSE page.view.selected
<1>1. CASE k \notin DOMAIN items
  BY <1>1, ShownLooks, LooksStays DEF ActivateSelected, shownPage
<1>2. CASE k \in DOMAIN items
  <2>1. items[k].action \in Action
    BY <1>2, ItemType
  <2>2. Activate(items[k].action, focus)
    BY <1>2 DEF ActivateSelected
  <2> HIDE DEF k
  <2> QED
    BY <2>1, <2>2, ActivateShape
<1> QED
  BY <1>1, <1>2

LEMMA OpenTocShape ==
  ASSUME TypeOK, NEW i \in DOMAIN Toc, OpenToc(i)
  PROVE  Shape
<1>1. CASE Toc[i] = NoHandle
  BY <1>1, ShownLooks, LooksStays DEF OpenToc, shownPage
<1>2. CASE Toc[i] # NoHandle
  <2>1. Toc[i] \in Names
    BY <1>2, HandlesAssumption, LookupAssumption
  <2> QED
    BY <1>2, <2>1, NavigateShape DEF OpenToc
<1> QED
  BY <1>1, <1>2
LEMMA SearchKeyShape ==
  ASSUME TypeOK, NEW k, SearchKey(k)
  PROVE  Shape
<1>1. CASE \E forward \in BOOLEAN : StepLink(forward, 1)
  BY <1>1, StepLinkLooks, LooksStays
<1>2. CASE (\E q \in Queries : mode' = Search(q)) /\ UNCHANGED <<page, history>>
  BY <1>2 DEF Shape, Stays, SamePage
<1>3. CASE Back
  BY <1>3, BackShape
<1>4. CASE ActivateSelected
  BY <1>4, ActivateSelectedShape
<1>5. CASE UNCHANGED shownPage
  BY <1>5, ShownLooks, LooksStays DEF shownPage
<1> QED
  BY <1>1, <1>2, <1>3, <1>4, <1>5, SearchAssumption DEF SearchKey

LEMMA NormalKeyShape ==
  ASSUME TypeOK, NEW k, NormalKey(k)
  PROVE  Shape
<1>1. CASE Back
  BY <1>1, BackShape
<1>2. CASE mode' = Search(EmptyQuery) /\ UNCHANGED <<page, history>>
  BY <1>2, SearchAssumption DEF Shape, Stays, SamePage
<1>3. CASE AskAi
  <2>1. CASE HasPage
    BY <1>3, <2>1 DEF AskAi, Shape, Stays, SamePage
  <2>2. CASE ~HasPage
    BY <1>3, <2>2, ShownLooks, LooksStays DEF AskAi
  <2> QED
    BY <2>1, <2>2
<1>4. CASE Refresh
  BY <1>4, RefreshShape
<1>5. CASE \E forward, n : StepLink(forward, n)
  BY <1>5, StepLinkLooks, LooksStays
<1>6. CASE OpenToc(toc_sel)
  BY <1>6, OpenTocShape DEF TypeOK
<1>7. CASE ActivateSelected
  BY <1>7, ActivateSelectedShape
<1>8. CASE UNCHANGED shownPage
  BY <1>8, ShownLooks, LooksStays DEF shownPage
<1> QED
  BY <1>1, <1>2, <1>3, <1>4, <1>5, <1>6, <1>7, <1>8 DEF NormalKey

LEMMA AskKeyShape ==
  ASSUME NEW k, AskKey(k)
  PROVE  Shape
  BY BackShape, ShownLooks, LooksStays DEF AskKey, shownPage

LEMMA PressShape ==
  ASSUME TypeOK, NEW k, Press(k)
  PROVE  Shape
<1>1. CASE UNCHANGED shownPage
  BY <1>1, ShownLooks, LooksStays DEF shownPage
<1>2. CASE \E pane : VimMotion(k, pane)
  BY <1>2, VimMotionLooks, LooksStays
<1>3. CASE SearchKey(k)
  BY <1>3, SearchKeyShape
<1>4. CASE AskKey(k)
  BY <1>4, AskKeyShape
<1>5. CASE NormalKey(k)
  BY <1>5, NormalKeyShape
<1> QED
  BY <1>1, <1>2, <1>3, <1>4, <1>5 DEF Press

LEMMA PressDigitShape ==
  ASSUME NEW d, PressDigit(d)
  PROVE  Shape
<1>1. CASE VimDigit(d)
  BY <1>1, ShownLooks, LooksStays DEF VimDigit, shownPage
<1>2. CASE (\E q \in Queries : mode' = Search(q)) /\ UNCHANGED <<page, history>>
  BY <1>2 DEF Shape, Stays, SamePage
<1> QED
  BY <1>1, <1>2 DEF PressDigit

LEMMA LeftClickShape ==
  ASSUME TypeOK, NEW r \in regions, LeftClick(r)
  PROVE  Shape
<1>0. r \in RegionType
  BY DEF TypeOK
<1>1. CASE UNCHANGED <<page, history, mode>>
  BY <1>1, ShownLooks, LooksStays
<1>2. CASE r.kind = "TocItem" /\ OpenToc(r.index)
  <2>1. r.index \in DOMAIN Toc
    BY <1>0, <1>2 DEF RegionType
  <2> QED
    BY <1>2, <2>1, OpenTocShape
<1>3. CASE r.kind = "Item" /\ Activate(items[r.index].action, "Content")
  <2>1. items[r.index].action \in Action
    BY <1>0, <1>3, ItemType DEF RegionType
  <2> QED
    BY <1>3, <2>1, ActivateShape
<1>4. CASE HasView /\ \E v : SetView(v)
  BY <1>4, SetViewLooks, LooksStays
<1> QED
  BY <1>1, <1>2, <1>3, <1>4 DEF LeftClick, shownPage

LEMMA MouseEventShape ==
  ASSUME TypeOK, MouseEvent
  PROVE  Shape
<1>1. CASE \E r \in regions : LeftClick(r)
  BY <1>1, LeftClickShape
<1>2. CASE Back
  BY <1>2, BackShape
<1>3. CASE \E r, down : TurnWheel(r, down)
  BY <1>3, ScrollContentLooks, ShownLooks, LooksStays DEF TurnWheel, shownPage
<1> QED
  BY <1>1, <1>2, <1>3 DEF MouseEvent

LEMMA DrawLooks ==
  ASSUME TypeOK, Draw
  PROVE  Looks /\ page'.expanded = page.expanded
<1>1. PICK height : DrawContent(height)
  BY DEF Draw
<1>2. UNCHANGED history
  BY DEF Draw
<1>3. SameMode
  <2>1. mode \in ModeType
    BY DEF TypeOK
  <2>2. CASE UNCHANGED mode
    BY <2>2 DEF SameMode
  <2>3. CASE \E v : mode' = [mode EXCEPT !.view = v]
    BY <2>1, <2>3 DEF SameMode, ModeType
  <2> QED
    BY <1>1, <2>2, <2>3 DEF DrawContent
<1>4. page'.handle = page.handle /\ page'.expanded = page.expanded
  <2>1. CASE UNCHANGED page
    BY <2>1
  <2>2. CASE HasPage /\ \E v : page' = [page EXCEPT !.view = v]
    BY <2>2, PageCases DEF PageType
  <2> QED
    BY <1>1, <2>1, <2>2 DEF DrawContent
<1> QED
  BY <1>2, <1>3, <1>4 DEF Looks, SamePage

(* Every step opens a page, returns to one or stays on the page.           *)
LEMMA NextShape == TypeOK /\ [Next]_vars => Shape
<1> SUFFICES ASSUME TypeOK, [Next]_vars PROVE Shape
  OBVIOUS
<1>1. CASE UNCHANGED shownPage
  BY <1>1, ShownLooks, LooksStays DEF shownPage
<1>2. CASE Start
  BY <1>1, <1>2, NavigateShape, LookupAssumption DEF Start
<1>3. CASE Draw
  BY <1>3, DrawLooks, LooksStays
<1>4. ASSUME NEW k \in Keys, KeyEvent(k) PROVE Shape
  BY <1>4, PressShape DEF KeyEvent
<1>5. ASSUME NEW d \in Digits, DigitEvent(d) PROVE Shape
  BY <1>5, PressDigitShape DEF DigitEvent
<1>6. CASE Pointer
  BY <1>6, MouseEventShape DEF Pointer
<1>7. CASE Ignored
  BY <1>1, <1>7 DEF Ignored
<1>8. CASE UNCHANGED vars
  BY <1>1, <1>8 DEF vars, shownPage
<1> QED
  BY <1>2, <1>3, <1>4, <1>5, <1>6, <1>7, <1>8 DEF Next
-----------------------------------------------------------------------------
(***************************************************************************)
(* The prompt overlay.                                                     *)
(***************************************************************************)
LEMMA AskStep == TypeOK /\ AskIsAboutThePage /\ [Next]_vars => AskIsAboutThePage'
<1> SUFFICES ASSUME TypeOK, AskIsAboutThePage, [Next]_vars
             PROVE  AskIsAboutThePage'
  OBVIOUS
<1>1. CASE Opens
  BY <1>1 DEF Opens, Navigate, AskIsAboutThePage, Normal
<1>2. CASE Returns
  BY <1>2 DEF Returns, Back, AskIsAboutThePage
<1>3. CASE Stays
  <2>1. page'.handle = page.handle
    BY <1>3 DEF Stays, SamePage
  <2>2. CASE SameMode
    BY <2>1, <2>2 DEF SameMode, AskIsAboutThePage, HasPage
  <2>3. CASE mode' = Normal
    BY <2>3 DEF Normal, AskIsAboutThePage
  <2>4. CASE \E q \in Queries : mode' = Search(q)
    BY <2>4 DEF Normal, Search, AskIsAboutThePage
  <2>5. CASE HasPage /\ mode' = Ask(page.handle)
    BY <2>1, <2>5 DEF Normal, Ask, AskIsAboutThePage, HasPage
  <2> QED
    BY <1>3, <2>2, <2>3, <2>4, <2>5 DEF Stays
<1> QED
  BY <1>1, <1>2, <1>3, NextShape DEF Shape

(* The prompt overlay is always about the page under it: the prompt it     *)
(* prints is that of the page the reader sees.                             *)
THEOREM AskCorrect == Spec => []AskIsAboutThePage
<1>1. Init => AskIsAboutThePage
  BY DEF Init, AskIsAboutThePage, Normal
<1> QED
  BY <1>1, AskStep, TypeCorrect, PTL DEF Spec

-----------------------------------------------------------------------------
(***************************************************************************)
(* The interactive mode is a browser.                                      *)
(***************************************************************************)
Past == [i \in DOMAIN history |-> history[i].handle]

LEMMA PastType ==
  ASSUME TypeOK
  PROVE  Past \in Seq(Handles) /\ Len(Past) = Len(history) /\ DOMAIN Past = DOMAIN history
<1>1. history \in Seq(VisitType)
  BY DEF TypeOK
<1>2. \A i \in DOMAIN history : history[i] \in VisitType
  BY <1>1, ElementType
<1>3. \A i \in DOMAIN history : history[i].handle \in Handles
  BY <1>2 DEF VisitType
<1>4. Len(history) \in Nat /\ DOMAIN history = 1..Len(history)
  BY <1>1
<1> QED
  BY <1>3, <1>4 DEF Past

(* A page shown after Load is the one the name looks up, and the contents  *)
(* follow it.                                                              *)
LEMMA LoadShows ==
  ASSUME NEW name, NEW expanded, NEW view, Load(name, expanded, view)
  PROVE  /\ page'.handle = Lookup[name].handle
         /\ page'.expanded = expanded
         /\ Toc[toc_sel'] = page'.handle \/ \A i \in DOMAIN Toc : Toc[i] # page'.handle
  BY DEF Load

LEMMA OpensPage ==
  ASSUME TypeOK, Opens
  PROVE  /\ page'.handle \in Handles
         /\ page'.expanded = {}
         /\ Past' = IF HasPage THEN Append(Past, page.handle) ELSE Past
         /\ Toc[toc_sel'] = page'.handle \/ \A i \in DOMAIN Toc : Toc[i] # page'.handle
<1>1. PICK name \in Names :
        /\ Lookup[name].handle # NoHandle
        /\ Load(name, {}, NewView)
        /\ history' = IF HasPage THEN Append(history, Visit) ELSE history
  BY DEF Opens, Navigate
<1>2. Lookup[name].handle \in Handles
  BY <1>1, LookupAssumption
<1>3. Past' = IF HasPage THEN Append(Past, page.handle) ELSE Past
  <2>1. CASE ~HasPage
    BY <1>1, <2>1 DEF Past
  <2>2. CASE HasPage
    <3>1. history \in Seq(VisitType) /\ Visit \in VisitType /\ Visit.handle = page.handle
      BY <2>2, VisitInType DEF TypeOK, Visit
    <3>2. history' = Append(history, Visit)
      BY <1>1, <2>2
    <3>3. /\ DOMAIN history' = 1..(Len(history) + 1)
          /\ \A i \in 1..Len(history) : history'[i] = history[i]
          /\ history'[Len(history) + 1] = Visit
      BY <3>1, <3>2
    <3>4. Past \in Seq(Handles) /\ Len(Past) = Len(history)
      BY PastType
    <3>5. Past' = Append(Past, page.handle)
      BY <3>1, <3>3, <3>4 DEF Past
    <3> QED
      BY <2>2, <3>5
  <2> QED
    BY <2>1, <2>2
<1> QED
  BY <1>1, <1>2, <1>3, LoadShows

LEMMA ReturnsToPage ==
  ASSUME TypeOK, Returns
  PROVE  /\ Past # <<>>
         /\ page'.handle = Past[Len(Past)]
         /\ page'.expanded = history[Len(history)].expanded
         /\ Past' = SubSeq(Past, 1, Len(Past) - 1)
         /\ Toc[toc_sel'] = page'.handle \/ \A i \in DOMAIN Toc : Toc[i] # page'.handle
<1>1. history \in Seq(VisitType) /\ history # <<>>
  BY DEF TypeOK, Returns
<1>2. Len(history) \in Nat \ {0} /\ history[Len(history)] \in VisitType
  BY <1>1
<1>3. Past \in Seq(Handles) /\ Len(Past) = Len(history) /\ DOMAIN Past = DOMAIN history
  BY PastType
<1>4. Past[Len(Past)] = history[Len(history)].handle
  BY <1>1, <1>2, <1>3 DEF Past
<1>5. /\ Load(history[Len(history)].handle, history[Len(history)].expanded,
              history[Len(history)].view)
      /\ history' = SubSeq(history, 1, Len(history) - 1)
  BY DEF Returns, Back
<1>6. Lookup[history[Len(history)].handle].handle = history[Len(history)].handle
  BY <1>2, LookupAssumption DEF VisitType
<1>7. Past' = SubSeq(Past, 1, Len(Past) - 1)
  <2>1. /\ DOMAIN history' = 1..(Len(history) - 1)
        /\ \A i \in 1..(Len(history) - 1) : history'[i] = history[i]
    BY <1>1, <1>2, <1>5
  <2>2. /\ SubSeq(Past, 1, Len(Past) - 1) = [i \in 1..(Len(history) - 1) |-> Past[i]]
    BY <1>2, <1>3
  <2>3. \A i \in 1..(Len(history) - 1) : Past[i] = history[i].handle
    BY <1>1, <1>2 DEF Past
  <2> QED
    BY <2>1, <2>2, <2>3 DEF Past
<1> QED
  BY <1>2, <1>3, <1>4, <1>5, <1>6, <1>7, LoadShows

(* The interactive mode implements Browser: it opens pages, returns to the *)
(* page left last, and changes the pages in no other way.                  *)
THEOREM Refinement == Spec => IsABrowser
<1>1. Init => Pages!Init
  BY DEF Init, NoPage, Pages!Init
<1>2. TypeOK /\ [Next]_vars => [Pages!Next]_(Pages!vars)
  <2> SUFFICES ASSUME TypeOK, [Next]_vars
               PROVE  [Pages!Next]_(Pages!vars)
    OBVIOUS
  <2>1. CASE Opens
    BY <2>1, OpensPage DEF Pages!Next, Pages!Open, Past, HasPage
  <2>2. CASE Returns
    BY <2>2, ReturnsToPage DEF Pages!Next, Pages!Back, Past
  <2>3. CASE Stays
    BY <2>3 DEF Stays, SamePage, Pages!vars
  <2> QED
    BY <2>1, <2>2, <2>3, NextShape DEF Shape
<1> QED
  BY <1>1, <1>2, TypeCorrect, PTL DEF Spec, IsABrowser, Pages!Spec

(* The contents select the row of the page shown, whichever way it was     *)
(* opened.                                                                 *)
THEOREM ContentsCorrect == Spec => ContentsFollowThePage
<1>1. TypeOK /\ [Next]_vars =>
        [page'.handle # page.handle =>
           Toc[toc_sel'] = page'.handle \/ \A i \in DOMAIN Toc : Toc[i] # page'.handle]_vars
  BY NextShape, OpensPage, ReturnsToPage DEF Shape, Stays, SamePage
<1> QED
  BY <1>1, TypeCorrect, PTL DEF Spec, ContentsFollowThePage
-----------------------------------------------------------------------------
(***************************************************************************)
(* What an event acts on is what was drawn.                                *)
(***************************************************************************)

(* The links of a page do not depend on its view.                          *)
LEMMA ViewChangesNoLink ==
  ASSUME NEW p \in PageType, NEW v
  PROVE  LET q == [p EXCEPT !.view = v]
         IN PageItems(q) = PageItems(p) /\ PageLines(q) = PageLines(p)
<1> DEFINE q == [p EXCEPT !.view = v]
<1>1. /\ q.handle = p.handle /\ q.query = p.query
      /\ q.live = p.live /\ q.expanded = p.expanded
  BY DEF PageType
<1> HIDE DEF q
<1>2. Header(q) = Header(p) /\ LinksOf(q) = LinksOf(p)
  BY <1>1 DEF Header, LinksOf
<1>3. \A k : ExpandedBefore(q, k) = ExpandedBefore(p, k)
  BY <1>1, <1>2 DEF ExpandedBefore
<1>4. \A k : LineOf(q, k) = LineOf(p, k)
  BY <1>1, <1>2, <1>3 DEF LineOf
<1>5. PageItems(q) = PageItems(p) /\ PageLines(q) = PageLines(p)
  BY <1>2, <1>4 DEF PageItems, PageLines
<1> QED
  BY <1>5 DEF q

(* What a draw leaves: the links of the screen, and views that fit.        *)
DrawnOK ==
  /\ items = CASE mode.kind = "Search" -> SearchItems(mode.query)
               [] mode.kind # "Search" /\ HasPage -> PageItems(page)
               [] OTHER -> WelcomeItems
  /\ HasPage /\ mode.kind # "Search" => ViewFits(page.view, PageItems(page), PageLines(page))
  /\ mode.kind = "Search" => ViewFits(mode.view, SearchItems(mode.query), SearchLines(mode.query))
  /\ mode.kind = "Ask" => ViewFits(mode.view, <<>>, AskLines)

LEMMA DrawSearchOK ==
  ASSUME TypeOK, NEW height \in Nat, mode.kind = "Search", DrawContent(height)
  PROVE  DrawnOK'
<1>1. mode \in ModeType /\ mode.view \in ViewType /\ mode.query \in Queries
  BY DEF TypeOK, ModeType
<1>2. Found[mode.query] \in Seq(Handles)
  BY <1>1, SearchAssumption
<1>3. items' = SearchItems(mode.query) /\ content_height' = Max2(height - 2, 0)
  BY DEF DrawContent
<1>4. items' \in Seq([action : Action, line : Nat])
  BY <1>2, <1>3, OpenItemsType DEF SearchItems
<1>5. content_height' \in Nat /\ SearchLines(mode.query) \in Nat
  BY <1>2, <1>3 DEF Max2, SearchLines
<1> DEFINE w == DrawDoc(mode.view, items', SearchLines(mode.query), content_height')
<1>6. mode' = [mode EXCEPT !.view = w]
  BY DEF DrawContent
<1>7. /\ w.selected <= Len(items')
      /\ w.scroll <= Max2(SearchLines(mode.query) - content_height', 0)
  BY <1>1, <1>4, <1>5, DrawDocType
<1> HIDE DEF w
<1>8. mode'.kind = "Search" /\ mode'.query = mode.query /\ mode'.view = w
  BY <1>1, <1>6 DEF ModeType
<1> QED
  BY <1>3, <1>7, <1>8 DEF DrawnOK, ViewFits, SearchItems, SearchLines

LEMMA DrawPageOK ==
  ASSUME TypeOK, NEW height \in Nat, mode.kind # "Search", DrawContent(height)
  PROVE  DrawnOK'
<1>1. mode \in ModeType /\ mode.view \in ViewType /\ mode.kind \in {"Normal", "Ask"}
  BY DEF TypeOK, ModeType
<1>2. /\ content_height' = height
      /\ items' = IF HasPage THEN PageItems(page) ELSE WelcomeItems
  BY DEF DrawContent
<1>3. /\ mode'.kind = mode.kind
      /\ mode.kind = "Ask" => ViewFits(mode.view, <<>>, AskLines)'
  <2>1. CASE mode.kind = "Normal"
    BY <2>1 DEF DrawContent
  <2>2. CASE mode.kind = "Ask"
    <3> DEFINE w == DrawDoc(mode.view, <<>>, AskLines, height)
    <3>1. mode' = [mode EXCEPT !.view = w]
      BY <2>2 DEF DrawContent
    <3>2. <<>> \in Seq([action : Action, line : Nat]) /\ AskLines \in Nat
      BY SizeAssumption
    <3>3. w.selected <= Len(<<>>) /\ w.scroll <= Max2(AskLines - height, 0)
      BY <1>1, <3>2, DrawDocType
    <3> HIDE DEF w
    <3>4. mode'.kind = "Ask" /\ mode'.view = w
      BY <1>1, <2>2, <3>1 DEF ModeType
    <3> QED
      BY <1>2, <2>2, <3>3, <3>4 DEF ViewFits
  <2> QED
    BY <1>1, <2>1, <2>2
<1>4. CASE ~HasPage
  <2>1. UNCHANGED page
    BY <1>4 DEF DrawContent
  <2> QED
    BY <1>1, <1>2, <1>3, <1>4, <2>1 DEF DrawnOK, HasPage, WelcomeItems
<1>5. CASE HasPage
  <2> DEFINE w == DrawDoc(page.view, PageItems(page), PageLines(page), height)
  <2>1. page \in PageType /\ page.view \in ViewType
    BY <1>5, PageCases, PageView
  <2>2. page' = [page EXCEPT !.view = w]
    BY <1>2, <1>5 DEF DrawContent
  <2>3. /\ w.selected <= Len(PageItems(page))
        /\ w.scroll <= Max2(PageLines(page) - height, 0)
    BY <2>1, PageItemsType, DrawDocType
  <2> HIDE DEF w
  <2>4. page'.view = w /\ page'.handle = page.handle
    BY <2>1, <2>2 DEF PageType
  <2>5. PageItems(page)' = PageItems(page) /\ PageLines(page)' = PageLines(page)
    <3>1. PageItems(page') = PageItems(page) /\ PageLines(page') = PageLines(page)
      BY <2>1, <2>2, ViewChangesNoLink
    <3>2. PageItems(page)' = PageItems(page') /\ PageLines(page)' = PageLines(page')
      BY DEF PageItems, PageLines, LinksOf, Header, LineOf, ExpandedBefore
    <3> QED
      BY <3>1, <3>2
  <2>6. ViewFits(page.view, PageItems(page), PageLines(page))'
    BY <1>2, <2>3, <2>4, <2>5 DEF ViewFits
  <2> QED
    BY <1>1, <1>2, <1>3, <1>5, <2>4, <2>5, <2>6 DEF DrawnOK, HasPage
<1> QED
  BY <1>4, <1>5
LEMMA DrawOK ==
  ASSUME TypeOK, Draw
  PROVE  DrawnOK'
<1>1. PICK height \in Heights : DrawContent(height)
  BY DEF Draw
<1>2. height \in Nat
  BY SizeAssumption
<1> QED
  BY <1>1, <1>2, DrawSearchOK, DrawPageOK

(* Only a draw makes the loop wait: no event is read on a stale screen.    *)
LEMMA DrawnStep == TypeOK /\ (phase = "wait" => DrawnOK) /\ [Next]_vars
                     => (phase = "wait" => DrawnOK)'
<1> SUFFICES ASSUME TypeOK, phase = "wait" => DrawnOK, [Next]_vars, phase' = "wait"
             PROVE  DrawnOK'
  OBVIOUS
<1>1. CASE Draw
  BY <1>1, DrawOK
<1>2. CASE UNCHANGED vars
  <2>1. phase = "wait"
    BY <1>2 DEF vars
  <2>2. UNCHANGED <<page, mode, items, content_height>>
    BY <1>2 DEF vars
  <2>3. UNCHANGED <<PageItems(page), PageLines(page), HasPage>>
    BY <2>2 DEF HasPage, PageItems, PageLines, LinksOf, Header, LineOf, ExpandedBefore
  <2>4. UNCHANGED <<SearchItems(mode.query), SearchLines(mode.query), WelcomeItems>>
    BY <2>2 DEF SearchItems, SearchLines, WelcomeItems
  <2> QED
    BY <2>1, <2>2, <2>3, <2>4 DEF DrawnOK, ViewFits
<1>3. CASE Next /\ ~Draw
  BY <1>3 DEF Next, Start, KeyEvent, DigitEvent, Pointer, Ignored, Waiting
<1> QED
  BY <1>1, <1>2, <1>3

(* Tab, Enter and a click act on the links the reader sees.                *)
THEOREM ItemsCorrect == Spec => []ItemsAreTheScreens
<1>1. Init => (phase = "wait" => DrawnOK)
  BY DEF Init
<1>2. (phase = "wait" => DrawnOK) => ItemsAreTheScreens
  BY DEF DrawnOK, ItemsAreTheScreens
<1> QED
  BY <1>1, <1>2, DrawnStep, TypeCorrect, PTL DEF Spec

(* After every draw the selection exists and the scroll is in the document.*)
THEOREM ViewCorrect == Spec => []ViewInDocument
<1>1. Init => (phase = "wait" => DrawnOK)
  BY DEF Init
<1>2. (phase = "wait" => DrawnOK) => ViewInDocument
  BY DEF DrawnOK, ViewInDocument
<1> QED
  BY <1>1, <1>2, DrawnStep, TypeCorrect, PTL DEF Spec

-----------------------------------------------------------------------------
(***************************************************************************)
(* What a draw reveals.                                                    *)
(***************************************************************************)

(* Each link is on a line of its page. *)
LEMMA LinesOfThePage ==
  ASSUME NEW p \in PageType, NEW k \in 1..Len(LinksOf(p))
  PROVE  LineOf(p, k) < PageLines(p)
<1> DEFINE n == Len(LinksOf(p))
           before(j) == Cardinality(ExpandedBefore(p, j))
           live(j) == IF j > Len(Header(p)) THEN p.live ELSE 0
<1>1. n \in Nat /\ k \in Nat /\ k <= n /\ Len(Header(p)) \in Nat /\ p.live \in Nat
  BY LinksType DEF PageType
<1>2. before(k) \in Nat /\ before(n + 1) \in Nat /\ before(k) <= before(n + 1)
  <2>1. ExpandedBefore(p, k) \subseteq ExpandedBefore(p, n + 1)
    BY <1>1 DEF ExpandedBefore
  <2>2. ExpandedBefore(p, n + 1) \subseteq 1..n
    BY <1>1 DEF ExpandedBefore
  <2>3. IsFiniteSet(ExpandedBefore(p, n + 1))
    <3> HIDE DEF n
    <3>1. IsFiniteSet(1..n)
      BY <1>1, FS_Interval
    <3> QED
      BY <2>2, <3>1, FS_Subset
  <2> QED
    BY <2>1, <2>3, FS_Subset, FS_CardinalityType
<1>3. Answer * before(k) <= Answer * before(n + 1)
        /\ Answer * before(k) \in Nat /\ Answer * before(n + 1) \in Nat
  <2> HIDE DEF before
  <2>1. Answer \in Nat
    BY SizeAssumption
  <2>2. \A a, b, c \in Nat : b <= c => a * b <= a * c /\ a * b \in Nat /\ a * c \in Nat
    OBVIOUS
  <2> QED
    BY <1>2, <2>1, <2>2
<1>4. live(k) \in Nat /\ live(n + 1) \in Nat /\ live(k) <= live(n + 1)
  BY <1>1
<1>5. /\ LineOf(p, k) = (k - 1) + live(k) + Answer * before(k)
      /\ PageLines(p) = n + live(n + 1) + Answer * before(n + 1)
  BY <1>1 DEF LineOf, PageLines
<1> HIDE DEF n, before, live
<1> QED
  BY <1>1, <1>3, <1>4, <1>5

LEMMA DrawDocShows ==
  ASSUME NEW v \in ViewType, NEW its \in Seq([action : Action, line : Nat]),
         NEW lines \in Nat, NEW height \in Nat, v.reveal,
         \A k \in DOMAIN its : its[k].line < lines
  PROVE  SelectionShown(DrawDoc(v, its, lines, height), its, height)
<1> DEFINE sel == IF v.selected > Len(its) THEN 0 ELSE v.selected
           line == its[sel].line
<1>1. sel \in Nat /\ sel <= Len(its) /\ v.scroll \in Nat
  BY DEF ViewType
<1>2. CASE sel = 0
  BY <1>2 DEF DrawDoc, SelectionShown
<1>3. CASE sel # 0
  <2>1. sel \in DOMAIN its
    BY <1>1, <1>3
  <2>2. line \in Nat /\ line < lines
    <3>1. its[sel] \in [action : Action, line : Nat]
      BY <2>1, ElementType
    <3> QED
      BY <2>1, <3>1
  <2> DEFINE revealed == IF line < v.scroll THEN line
                         ELSE IF height > 0 /\ line >= v.scroll + height THEN line + 1 - height
                         ELSE v.scroll
             w == DrawDoc(v, its, lines, height)
  <2>3. w.selected = sel /\ w.scroll = Min2(revealed, Max2(lines - height, 0))
    BY <1>3 DEF DrawDoc
  <2> HIDE DEF w, line, sel
  <2>4. height > 0 => w.scroll <= line /\ line < w.scroll + height
    BY <1>1, <2>2, <2>3 DEF Min2, Max2
  <2> QED
    BY <2>3, <2>4 DEF SelectionShown, w, line
<1> QED
  BY <1>2, <1>3

LEMMA DrawTocShows ==
  ASSUME TypeOK, NEW height \in Nat, DrawToc(height), toc_reveal, toc_height' > 0
  PROVE  toc_scroll' < toc_sel /\ toc_sel <= toc_scroll' + toc_height'
<1>1. /\ toc_sel \in 1..Len(Toc) /\ Len(Toc) \in Nat /\ toc_scroll \in Nat
      /\ toc_height' = height
  BY HandlesAssumption DEF TypeOK, DrawToc
<1> QED
  BY <1>1 DEF DrawToc, Min2, Max2

LEMMA DrawContentShows ==
  ASSUME TypeOK, NEW height \in Nat, DrawContent(height)
  PROVE  /\ mode.kind = "Normal" /\ page.view.reveal =>
              SelectionShown(page'.view, items', content_height')
         /\ mode.kind = "Search" /\ mode.view.reveal =>
              SelectionShown(mode'.view, items', content_height')
<1>1. ASSUME mode.kind = "Normal", page.view.reveal
      PROVE  SelectionShown(page'.view, items', content_height')
  <2>1. HasPage
    BY <1>1, PageCases DEF NoPage, NewView
  <2>2. page \in PageType /\ page.view \in ViewType
    BY <2>1, PageCases, PageView
  <2> DEFINE w == DrawDoc(page.view, PageItems(page), PageLines(page), height)
  <2>3. page'.view = w /\ items' = PageItems(page) /\ content_height' = height
    <3>1. /\ page' = [page EXCEPT !.view = w] /\ items' = PageItems(page)
          /\ content_height' = height
      BY <1>1, <2>1 DEF DrawContent
    <3> HIDE DEF w
    <3> QED
      BY <2>2, <3>1 DEF PageType
  <2>4. \A k \in DOMAIN PageItems(page) : PageItems(page)[k].line < PageLines(page)
    BY <2>2, LinesOfThePage, LinksType DEF PageItems
  <2>5. SelectionShown(w, PageItems(page), height)
    BY <1>1, <2>2, <2>4, PageItemsType, DrawDocShows
  <2> HIDE DEF w
  <2> QED
    BY <2>3, <2>5
<1>2. ASSUME mode.kind = "Search", mode.view.reveal
      PROVE  SelectionShown(mode'.view, items', content_height')
  <2>1. mode \in ModeType /\ mode.view \in ViewType /\ mode.query \in Queries
    BY DEF TypeOK, ModeType
  <2>2. Found[mode.query] \in Seq(Handles)
    BY <2>1, SearchAssumption
  <2>3. items' = SearchItems(mode.query) /\ content_height' = Max2(height - 2, 0)
    BY <1>2 DEF DrawContent
  <2>4. items' \in Seq([action : Action, line : Nat])
    BY <2>2, <2>3, OpenItemsType DEF SearchItems
  <2>5. content_height' \in Nat /\ SearchLines(mode.query) \in Nat
    BY <2>2, <2>3 DEF Max2, SearchLines
  <2> DEFINE w == DrawDoc(mode.view, items', SearchLines(mode.query), content_height')
  <2>6. mode'.view = w
    <3>1. mode' = [mode EXCEPT !.view = w]
      BY <1>2 DEF DrawContent
    <3> HIDE DEF w
    <3> QED
      BY <2>1, <3>1 DEF ModeType
  <2>7. \A k \in DOMAIN items' : items'[k].line < SearchLines(mode.query)
    BY <2>2, <2>3 DEF SearchItems, SearchLines
  <2>8. SelectionShown(w, items', content_height')
    BY <1>2, <2>1, <2>4, <2>5, <2>7, DrawDocShows
  <2> HIDE DEF w
  <2> QED
    BY <2>6, <2>8
<1> QED
  BY <1>1, <1>2

(* A selection made with the keyboard is on the screen after the next draw, *)
(* for every document and every height of the terminal (app.rs, `draw`).   *)
THEOREM RevealCorrect == Spec => RevealShows
<1>1. TypeOK /\ [Next]_vars =>
        [phase = "draw" =>
           /\ toc_reveal /\ toc_height' > 0 =>
                toc_scroll' < toc_sel /\ toc_sel <= toc_scroll' + toc_height'
           /\ mode.kind = "Normal" /\ page.view.reveal =>
                SelectionShown(page'.view, items', content_height')
           /\ mode.kind = "Search" /\ mode.view.reveal =>
                SelectionShown(mode'.view, items', content_height')]_vars
  <2> SUFFICES ASSUME TypeOK, Next, phase = "draw"
               PROVE  /\ toc_reveal /\ toc_height' > 0 =>
                           toc_scroll' < toc_sel /\ toc_sel <= toc_scroll' + toc_height'
                      /\ mode.kind = "Normal" /\ page.view.reveal =>
                           SelectionShown(page'.view, items', content_height')
                      /\ mode.kind = "Search" /\ mode.view.reveal =>
                           SelectionShown(mode'.view, items', content_height')
    OBVIOUS
  <2>1. Draw
    BY DEF Next, Start, KeyEvent, DigitEvent, Pointer, Ignored, Waiting
  <2>2. PICK height \in Heights : DrawToc(height) /\ DrawContent(height)
    BY <2>1 DEF Draw
  <2>3. height \in Nat
    BY SizeAssumption
  <2> QED
    BY <2>2, <2>3, DrawTocShows, DrawContentShows
<1> QED
  BY <1>1, TypeCorrect, PTL DEF Spec, RevealShows

-----------------------------------------------------------------------------
(***************************************************************************)
(* The expanded questions.                                                 *)
(***************************************************************************)

(* The links of a page expand only its own questions.                      *)
LEMMA PageToggles ==
  ASSUME NEW p \in PageType, NEW k \in DOMAIN PageItems(p), NEW i,
         PageItems(p)[k].action = ToggleLink(i)
  PROVE  i \in Questions(p.handle)
<1>1. Header(p) \in Seq(Action) /\ Links[p.handle] \in Seq(Action)
  BY LinksType
<1>2. LinksOf(p) \in Seq(Action) /\ Len(LinksOf(p)) = Len(Header(p)) + Len(Links[p.handle])
  BY <1>1 DEF LinksOf
<1>3. DOMAIN PageItems(p) = 1..Len(LinksOf(p)) /\ PageItems(p)[k].action = LinksOf(p)[k]
  BY <1>2 DEF PageItems
<1>4. LinksOf(p)[k] = ToggleLink(i) /\ k \in 1..Len(LinksOf(p))
  BY <1>3
<1>5. CASE k <= Len(Header(p))
  <2>1. LinksOf(p)[k] = Header(p)[k] /\ k \in DOMAIN Header(p)
    BY <1>1, <1>2, <1>4, <1>5 DEF LinksOf
  <2>2. Header(p)[k].kind = "Open"
    BY <2>1 DEF Header, OpenLink
  <2> QED
    BY <1>4, <2>1, <2>2 DEF ToggleLink
<1>6. CASE k > Len(Header(p))
  <2> DEFINE j == k - Len(Header(p))
  <2>1. j \in DOMAIN Links[p.handle] /\ LinksOf(p)[k] = Links[p.handle][j]
    BY <1>1, <1>2, <1>4, <1>6 DEF LinksOf
  <2>2. Links[p.handle][j].kind = "Toggle" /\ Links[p.handle][j].question = i
    BY <1>4, <2>1 DEF ToggleLink
  <2> QED
    BY <2>1, <2>2 DEF Questions
<1> QED
  BY <1>2, <1>4, <1>5, <1>6

(* On a page, the questions the screen toggles are its own.                *)
LEMMA ScreenToggles ==
  ASSUME TypeOK, ItemsAreTheScreens, phase = "wait", HasPage
  PROVE  Toggled \subseteq Questions(page.handle)
<1> SUFFICES ASSUME NEW i \in Nat, NEW k \in DOMAIN items, items[k].action = ToggleLink(i)
             PROVE  i \in Questions(page.handle)
  BY DEF Toggled
<1>1. CASE mode.kind = "Search"
  <2>1. items = SearchItems(mode.query)
    BY <1>1 DEF ItemsAreTheScreens
  <2>2. items[k].action.kind = "Open"
    BY <2>1 DEF SearchItems, OpenLink
  <2> QED
    BY <2>2 DEF ToggleLink
<1>2. CASE mode.kind # "Search"
  <2>1. items = PageItems(page) /\ page \in PageType
    BY <1>2, PageCases DEF ItemsAreTheScreens
  <2> QED
    BY <2>1, PageToggles
<1> QED
  BY <1>1, <1>2
(* Questions are toggled only while an event is handled.                   *)
LEMMA TogglesWaiting ==
  ASSUME TypeOK, [Next]_vars
  PROVE  phase = "wait" \/ page'.expanded \in {{}, page.expanded}
<1>1. CASE Start
  BY <1>1, LoadShows DEF Start, Navigate, shownPage
<1>2. CASE Draw
  BY <1>2, DrawLooks
<1>3. CASE UNCHANGED vars
  BY <1>3 DEF vars
<1>4. CASE Next /\ ~Start /\ ~Draw
  BY <1>4 DEF Next, KeyEvent, DigitEvent, Pointer, Ignored, Waiting
<1> QED
  BY <1>1, <1>2, <1>3, <1>4

LEMMA ExpandedStep ==
  ASSUME TypeOK, ItemsAreTheScreens, ExpandedAreQuestions, [Next]_vars
  PROVE  ExpandedAreQuestions'
<1>0. history \in Seq(VisitType)
  BY DEF TypeOK
<1>1. CASE Opens
  <2>1. page'.expanded = {}
    BY <1>1, OpensPage
  <2>2. history' = IF HasPage THEN Append(history, Visit) ELSE history
    BY <1>1 DEF Opens, Navigate
  <2>3. CASE ~HasPage
    BY <2>1, <2>2, <2>3 DEF ExpandedAreQuestions, Questions
  <2>4. CASE HasPage
    <3>1. Visit \in VisitType /\ Visit.handle = page.handle /\ Visit.expanded = page.expanded
      BY <2>4, VisitInType DEF Visit
    <3>2. /\ DOMAIN history' = 1..(Len(history) + 1)
          /\ \A i \in 1..Len(history) : i \in DOMAIN history /\ history'[i] = history[i]
          /\ history'[Len(history) + 1] = Visit
      BY <1>0, <2>2, <2>4, <3>1
    <3>3. \A i \in DOMAIN history' : i \in 1..Len(history) \/ i = Len(history) + 1
      BY <1>0, <3>2
    <3>4. \A i \in 1..Len(history) :
            history'[i].expanded \subseteq Questions(history'[i].handle)
      BY <3>2 DEF ExpandedAreQuestions
    <3>5. Visit.expanded \subseteq Questions(Visit.handle)
      BY <2>4, <3>1 DEF ExpandedAreQuestions
    <3>6. \A i \in DOMAIN history' :
            history'[i].expanded \subseteq Questions(history'[i].handle)
      BY <3>2, <3>3, <3>4, <3>5
    <3> QED
      BY <2>1, <3>6 DEF ExpandedAreQuestions, Questions
  <2> QED
    BY <2>3, <2>4
<1>2. CASE Returns
  <2>1. history # <<>> /\ history' = SubSeq(history, 1, Len(history) - 1)
    BY <1>2 DEF Returns, Back
  <2>2. \A i \in DOMAIN history' : i \in DOMAIN history /\ history'[i] = history[i]
    BY <1>0, <2>1
  <2>3. Len(history) \in DOMAIN history
    BY <1>0, <2>1
  <2>4. /\ page'.handle = history[Len(history)].handle
        /\ page'.expanded = history[Len(history)].expanded
    BY <1>2, <2>3, ReturnsToPage, PastType DEF Past
  <2> QED
    BY <2>2, <2>3, <2>4 DEF ExpandedAreQuestions, Questions
<1>3. CASE Stays
  <2>1. /\ page'.handle = page.handle /\ UNCHANGED history
        /\ page'.expanded \subseteq page.expanded \cup Toggled
    BY <1>3 DEF Stays, SamePage
  <2>2. HasPage => page'.expanded \subseteq Questions(page.handle)
    <3>1. CASE phase = "wait"
      BY <2>1, <3>1, ScreenToggles DEF ExpandedAreQuestions
    <3>2. CASE page'.expanded \in {{}, page.expanded}
      BY <3>2 DEF ExpandedAreQuestions
    <3> QED
      BY <3>1, <3>2, TogglesWaiting
  <2> QED
    BY <2>1, <2>2 DEF ExpandedAreQuestions, Questions, HasPage
<1> QED
  BY <1>1, <1>2, <1>3, NextShape DEF Shape

(* Only questions of a page are expanded on it, now and when a reader      *)
(* returns to it.                                                          *)
THEOREM ExpandedCorrect == Spec => []ExpandedAreQuestions
<1>1. Init => ExpandedAreQuestions
  BY DEF Init, ExpandedAreQuestions, HasPage, NoPage
<1> QED
  BY <1>1, ExpandedStep, TypeCorrect, ItemsCorrect, PTL DEF Spec
-----------------------------------------------------------------------------
(***************************************************************************)
(* The selected row of the contents.                                       *)
(***************************************************************************)
RowRegions == \A r \in regions : r.kind = "TocItem" => r.index \in PageRows

TocInv == TocOnAPage /\ RowRegions

(* A step keeps the row or selects one that opens a page.                  *)
KeepsRow == UNCHANGED toc_sel \/ toc_sel' \in PageRows

LEMMA LoadRow ==
  ASSUME NEW name, Lookup[name].handle # NoHandle, NEW expanded, NEW view,
         Load(name, expanded, view)
  PROVE  KeepsRow
  BY DEF Load, KeepsRow, PageRows

LEMMA NavigateRow ==
  ASSUME NEW name, Navigate(name)
  PROVE  KeepsRow
  BY LoadRow DEF Navigate, shownPage, KeepsRow

LEMMA BackRow ==
  ASSUME TypeOK, Back
  PROVE  KeepsRow
<1>1. CASE UNCHANGED toc_sel
  BY <1>1 DEF KeepsRow
<1>2. CASE history # <<>> /\ \E e, v : Load(history[Len(history)].handle, e, v)
  <2>1. Len(history) \in DOMAIN history /\ history \in Seq(VisitType)
    BY <1>2 DEF TypeOK
  <2>2. history[Len(history)].handle \in Handles
    <3>1. history[Len(history)] \in VisitType
      BY <2>1, ElementType
    <3> QED
      BY <3>1 DEF VisitType
  <2>3. Lookup[history[Len(history)].handle].handle # NoHandle
    BY <2>2, LookupAssumption, HandlesAssumption
  <2> QED
    BY <1>2, <2>3, LoadRow
<1> QED
  BY <1>1, <1>2 DEF Back, shownPage

LEMMA RefreshRow ==
  ASSUME TypeOK, Refresh
  PROVE  KeepsRow
<1>1. CASE ~HasPage
  BY <1>1 DEF Refresh, shownPage, KeepsRow
<1>2. CASE HasPage
  <2>1. Lookup[page.handle].handle # NoHandle
    BY <1>2, PageCases, LookupAssumption, HandlesAssumption DEF PageType
  <2> QED
    BY <1>2, <2>1, LoadRow DEF Refresh
<1> QED
  BY <1>1, <1>2

LEMMA ActivateRow ==
  ASSUME NEW action, NEW pane, Activate(action, pane)
  PROVE  KeepsRow
  BY NavigateRow DEF Activate, Toggle, KeepsRow

LEMMA MotionRow ==
  ASSUME NEW pane, NEW k, Motion(pane, k)
  PROVE  KeepsRow
<1>1. CASE UNCHANGED toc_sel
  BY <1>1 DEF KeepsRow
<1>2. CASE \E i \in PageRows : SelectRow(i)
  BY <1>2 DEF SelectRow, KeepsRow
<1> QED
  BY <1>1, <1>2 DEF Motion, TocEdge, MoveToc, Ahead, ScrollContent, SetView, shownPage

LEMMA StepLinkRow ==
  ASSUME NEW forward, NEW n, StepLink(forward, n)
  PROVE  KeepsRow
  BY DEF StepLink, SelectLink, SetView, shownPage, KeepsRow

LEMMA PressRow ==
  ASSUME TypeOK, NEW k, Press(k)
  PROVE  KeepsRow
<1>1. CASE UNCHANGED toc_sel
  BY <1>1 DEF KeepsRow
<1>2. CASE Back
  BY <1>2, BackRow
<1>3. CASE ActivateSelected
  BY <1>1, <1>3, ActivateRow DEF ActivateSelected, shownPage
<1>4. CASE \E forward, n : StepLink(forward, n)
  BY <1>4, StepLinkRow
<1>5. CASE SearchKey(k)
  BY <1>1, <1>2, <1>3, <1>4, <1>5 DEF SearchKey, shownPage
<1>6. CASE \E pane : VimMotion(k, pane)
  BY <1>1, <1>6, MotionRow DEF VimMotion, ScrollContent, SetView, shownPage
<1>7. CASE AskKey(k)
  BY <1>1, <1>2, <1>7 DEF AskKey, shownPage
<1>8. CASE Refresh
  BY <1>8, RefreshRow
<1>9. CASE \E i : OpenToc(i)
  BY <1>1, <1>9, NavigateRow DEF OpenToc, shownPage
<1>10. CASE NormalKey(k)
  BY <1>1, <1>2, <1>3, <1>4, <1>8, <1>9, <1>10 DEF NormalKey, AskAi, shownPage
<1> QED
  BY <1>1, <1>5, <1>6, <1>7, <1>10 DEF Press, shownPage

LEMMA MouseEventRow ==
  ASSUME TypeOK, RowRegions, MouseEvent
  PROVE  KeepsRow
<1>1. CASE UNCHANGED toc_sel
  BY <1>1 DEF KeepsRow
<1>2. CASE Back
  BY <1>2, BackRow
<1>3. CASE \E r \in regions : LeftClick(r)
  <2>1. PICK r \in regions : LeftClick(r)
    BY <1>3
  <2>2. CASE r.kind = "TocItem" /\ toc_sel' = r.index
    BY <2>2 DEF RowRegions, KeepsRow
  <2>3. CASE \E i : OpenToc(i)
    BY <1>1, <2>3, NavigateRow DEF OpenToc, shownPage
  <2>4. CASE \E action, pane : Activate(action, pane)
    BY <2>4, ActivateRow
  <2> QED
    BY <1>1, <2>1, <2>2, <2>3, <2>4 DEF LeftClick, SetView, shownPage
<1>4. CASE \E r, down : TurnWheel(r, down)
  BY <1>1, <1>4 DEF TurnWheel, ScrollContent, SetView, shownPage
<1> QED
  BY <1>1, <1>2, <1>3, <1>4 DEF MouseEvent

LEMMA TocStep == TypeOK /\ TocInv /\ [Next]_vars => TocInv'
<1> SUFFICES ASSUME TypeOK, TocInv, [Next]_vars PROVE TocInv'
  OBVIOUS
<1>1. KeepsRow
  <2>1. CASE UNCHANGED toc_sel
    BY <2>1 DEF KeepsRow
  <2>2. ASSUME NEW k \in Keys, KeyEvent(k) PROVE KeepsRow
    BY <2>2, PressRow DEF KeyEvent
  <2>3. CASE Pointer
    BY <2>3, MouseEventRow DEF Pointer, TocInv
  <2>4. CASE Start
    BY <2>1, <2>4, NavigateRow DEF Start, shownPage
  <2> QED
    BY <2>1, <2>2, <2>3, <2>4
    DEF Next, Draw, DigitEvent, PressDigit, VimDigit, Ignored, vars, shownPage
<1>2. RowRegions'
  <2>1. CASE UNCHANGED regions
    BY <2>1 DEF TocInv, RowRegions, PageRows
  <2>2. CASE Draw
    BY <2>2 DEF Draw, DrawRegions, RowRegions, PageRows
  <2> QED
    BY <2>1, <2>2
    DEF Next, Start, KeyEvent, DigitEvent, Pointer, Ignored, Waiting, drawn, vars
<1> QED
  BY <1>1, <1>2 DEF TocInv, TocOnAPage, KeepsRow, PageRows

(* The selected row of the contents opens a page, if any row does.         *)
THEOREM TocCorrect == Spec => []TocOnAPage
<1>1. Init => TocInv
  BY DEF Init, TocInv, TocOnAPage, RowRegions, PageRows
<1>2. TocInv => TocOnAPage
  BY DEF TocInv
<1> QED
  BY <1>1, <1>2, TocStep, TypeCorrect, PTL DEF Spec
-----------------------------------------------------------------------------
(***************************************************************************)
(* Prefixes and quitting.                                                  *)
(***************************************************************************)

(* The pointer opens no search.                                            *)
LEMMA PointerOpensNoSearch ==
  ASSUME TypeOK, MouseEvent
  PROVE  mode'.kind = "Search" => mode.kind = "Search"
<1>1. CASE UNCHANGED mode \/ mode' = Normal
  BY <1>1 DEF Normal
<1>2. CASE Looks
  BY <1>2 DEF Looks, SameMode
<1>3. CASE Back
  BY <1>1, <1>3 DEF Back, shownPage
<1>4. CASE \E name : Navigate(name)
  BY <1>1, <1>4 DEF Navigate, shownPage
<1>5. CASE \E action, pane : Activate(action, pane)
  BY <1>1, <1>4, <1>5 DEF Activate, Toggle
<1>6. CASE HasView /\ \E v : SetView(v)
  BY <1>2, <1>6, SetViewLooks
<1>7. CASE \E r : LeftClick(r)
  BY <1>1, <1>4, <1>5, <1>6, <1>7 DEF LeftClick, OpenToc, shownPage
<1>8. CASE \E r, down : TurnWheel(r, down)
  BY <1>1, <1>2, <1>8, ScrollContentLooks DEF TurnWheel, shownPage
<1> QED
  BY <1>3, <1>7, <1>8 DEF MouseEvent

(* A key in a search leaves the prefix alone; on the page, it drops it     *)
(* before it opens a search, and motions do not open one.                  *)
LEMMA PressPrefix ==
  ASSUME TypeOK, NoPrefixInSearch, NEW k, Press(k)
  PROVE  NoPrefixInSearch'
<1>1. CASE mode.kind = "Search" /\ UNCHANGED <<count, pending_g>>
  BY <1>1 DEF NoPrefixInSearch
<1>2. CASE UNCHANGED <<mode, count, pending_g>>
  BY <1>2 DEF NoPrefixInSearch
<1>3. CASE mode.kind # "Search" /\ \E pane : VimMotion(k, pane)
  BY <1>3, VimMotionLooks DEF Looks, SameMode, NoPrefixInSearch
<1>4. CASE TakePrefix
  BY <1>4 DEF TakePrefix, NoPrefixInSearch
<1> QED
  BY <1>1, <1>2, <1>3, <1>4 DEF Press, SearchKey, AskKey, NormalKey, shownPage

LEMMA PrefixStep == TypeOK /\ NoPrefixInSearch /\ [Next]_vars => NoPrefixInSearch'
<1> SUFFICES ASSUME TypeOK, NoPrefixInSearch, [Next]_vars PROVE NoPrefixInSearch'
  OBVIOUS
<1>1. CASE UNCHANGED <<count, pending_g>> /\ (mode'.kind = "Search" => mode.kind = "Search")
  BY <1>1 DEF NoPrefixInSearch
<1>2. CASE Start
  BY <1>1, <1>2 DEF Start, Navigate, Normal, shownPage
<1>3. CASE Draw
  BY <1>1, <1>3, DrawLooks DEF Draw, Looks, SameMode
<1>4. ASSUME NEW k \in Keys, KeyEvent(k) PROVE NoPrefixInSearch'
  BY <1>4, PressPrefix DEF KeyEvent
<1>5. ASSUME NEW d \in Digits, DigitEvent(d) PROVE NoPrefixInSearch'
  BY <1>5 DEF DigitEvent, PressDigit, VimDigit, NoPrefixInSearch, shownPage
<1>6. CASE Pointer
  BY <1>1, <1>6, PointerOpensNoSearch DEF Pointer, MouseEvent
<1>7. CASE Ignored
  BY <1>1, <1>7 DEF Ignored, shownPage
<1>8. CASE UNCHANGED vars
  BY <1>1, <1>8 DEF vars
<1> QED
  BY <1>2, <1>3, <1>4, <1>5, <1>6, <1>7, <1>8 DEF Next

(* No count and no g follow the reader into a search.                      *)
THEOREM PrefixCorrect == Spec => []NoPrefixInSearch
<1>1. Init => NoPrefixInSearch
  BY DEF Init, NoPrefixInSearch, Normal
<1> QED
  BY <1>1, PrefixStep, TypeCorrect, PTL DEF Spec

(* The loop ends with the draw after the key that quits.                   *)
Running == phase = "wait" => ~quit

LEMMA RunningStep == TypeOK /\ Running /\ [Next]_vars => Running'
<1> SUFFICES ASSUME TypeOK, Running, [Next]_vars PROVE Running'
  OBVIOUS
<1>1. CASE UNCHANGED vars
  BY <1>1 DEF vars, Running
<1>2. CASE Next
  BY <1>2 DEF Next, Start, Draw, KeyEvent, DigitEvent, Pointer, Ignored, Waiting, Running
<1> QED
  BY <1>1, <1>2

QuitStep ==
  /\ quit' # quit /\ mode.kind = "Search" => KeyEvent("C-c")
  /\ KeyEvent("Esc") /\ (Pending \/ mode.kind # "Normal") => ~quit'

LEMMA QuitsOnKeys ==
  ASSUME TypeOK, Running, [Next]_vars
  PROVE  QuitStep
<1>1. ASSUME quit' # quit, mode.kind = "Search"
      PROVE  KeyEvent("C-c")
  <2>1. PICK k \in Keys : KeyEvent(k)
    BY <1>1 DEF Next, Start, Draw, DigitEvent, PressDigit, VimDigit, Pointer, MouseEvent,
       Ignored, vars
  <2>2. k = "C-c"
    BY <1>1, <2>1 DEF KeyEvent, Press, SearchKey
  <2> QED
    BY <2>1, <2>2
<1>2. ASSUME KeyEvent("Esc"), Pending \/ mode.kind # "Normal"
      PROVE  ~quit'
  <2>1. phase = "wait" /\ ~quit
    BY <1>2 DEF KeyEvent, Waiting, Running
  <2>2. mode.kind = "Normal" => IsVimKey("Esc")
    BY <1>2 DEF IsVimKey
  <2> QED
    BY <1>2, <2>1, <2>2 DEF KeyEvent, Press, SearchKey, VimMotion, AskKey
<1> QED
  BY <1>1, <1>2 DEF QuitStep

(* Typing in a search never quits, and Esc closes what is open first.      *)
THEOREM QuitCorrect == Spec => QuitsOnlyWhenAsked
<1>1. Init => Running
  BY DEF Init, Running
<1>2. TypeOK /\ Running /\ [Next]_vars => [QuitStep]_vars
  BY QuitsOnKeys
<1>3. QuitsOnlyWhenAsked <=> [][QuitStep]_vars
  BY DEF QuitsOnlyWhenAsked, QuitStep
<1> QED
  BY <1>1, <1>2, <1>3, RunningStep, TypeCorrect, PTL DEF Spec
==============================================================================
