---------------------------- MODULE LibraryProofs ----------------------------
(***************************************************************************)
(* What a library that loads keeps: every page is in the contents once,    *)
(* and its handle, its words and what refers to it open it, proved for     *)
(* every set of content files and every SUMMARY.md; and that the loading   *)
(* accepts exactly the books that follow the rules as a whole.             *)
(***************************************************************************)
EXTENDS Library, TLAPS

-----------------------------------------------------------------------------
(***************************************************************************)
(* The inductive invariant.                                                *)
(***************************************************************************)

(* The loops before SUMMARY.md is compared with the files. *)
Reading == stage \in {"summary", "parse"}

(* The paths the parsing is done with. *)
PathsRead == {Paths[k] : k \in {j \in DOMAIN Paths : Reading => j < at}}

(* The places of SUMMARY.md, and those the numbering is done with. *)
TocPlaces == IF book.summary = "read" THEN Places(book) ELSE {}
FileAt(pl) == Listing(book, pl).file
Visited ==
  {pl \in TocPlaces : ~Reading /\ (pl[1] < at \/ (pl[1] = at /\ pl[2] < nth))}

(* Where each loop begins, stands and ends. *)
ControlInv ==
  /\ book \in Books
  /\ stage \in {"summary", "parse", "number", "expand", "refer", "keys", "done"}
  /\ at \in Nat \ {0}
  /\ nth \in Nat
  /\ stage = "summary" => at = 1 /\ problems = {} /\ by_path = Nothing
  /\ Reading => nth = 0 /\ chapters = <<>> /\ listed = Nothing
                /\ number = Nothing /\ chapter = Nothing
  /\ stage = "number" =>
       /\ at <= Len(Toc) + 1
       /\ nth <= IF at \in DOMAIN Toc THEN Len(Toc[at].entries) + 1 ELSE 0
  /\ ~Reading /\ stage # "number" => at = Len(Toc) + 1 /\ nth = 0
  /\ stage \notin {"keys", "done"} =>
       keyed = {} /\ hub_keys = Nothing /\ card_keys = Nothing
  /\ stage = "done" => keyed = Pages

(* A page is the file that by_path remembers for it, and of its kind. *)
ParsedInv ==
  /\ DOMAIN by_path \subseteq PathsRead \cap DOMAIN book.files
  /\ \A p \in DOMAIN by_path :
       /\ by_path[p] = book.files[p].id
       /\ \/ book.files[p].kind = "hub" /\ by_path[p] \in DOMAIN hubs /\ hubs[by_path[p]] = p
          \/ book.files[p].kind = "card" /\ by_path[p] \in DOMAIN cards /\ cards[by_path[p]] = p
  /\ \A id \in DOMAIN hubs : hubs[id] \in DOMAIN by_path /\ by_path[hubs[id]] = id
  /\ \A id \in DOMAIN cards : cards[id] \in DOMAIN by_path /\ by_path[cards[id]] = id
  /\ DOMAIN hubs \cap DOMAIN cards = {}

(* What SUMMARY.md was found to list, and how often. *)
ListedInv ==
  /\ DOMAIN listed = {FileAt(pl) : pl \in Visited}
  /\ \A p \in DOMAIN listed :
       /\ listed[p] \in Nat \ {0}
       /\ listed[p] > 1 <=>
            \E x, y \in Visited : x # y /\ FileAt(x) = p /\ FileAt(y) = p

(* The place of an entry whose file is a card. *)
CardPlaces == {pl \in Visited : pl[2] # 0 /\ IsCard(FileAt(pl))}

ChapterRecord == [hub : DOMAIN hubs \cup {EmptyWord}, cards : Seq(DOMAIN cards)]

ChaptersInv ==
  /\ DOMAIN chapter \subseteq DOMAIN hubs
  /\ chapters \in Seq(ChapterRecord)
  /\ ~Reading => Len(chapters) = IF nth = 0 THEN at - 1 ELSE at
  /\ \A c \in DOMAIN chapters :
       chapters[c].hub = IF Toc[c].file # NoFile /\ IsHub(Toc[c].file)
                         THEN by_path[Toc[c].file] ELSE EmptyWord

(* The cards of a chapter are those of its entries.  Their positions may   *)
(* differ, but no card is there twice unless it is listed twice.           *)
CardsInv ==
  /\ \A pl \in CardPlaces :
       \E m \in DOMAIN chapters[pl[1]].cards :
         chapters[pl[1]].cards[m] = by_path[FileAt(pl)]
  /\ \A c \in DOMAIN chapters : \A m \in DOMAIN chapters[c].cards :
       \E pl \in CardPlaces : chapters[c].cards[m] = by_path[FileAt(pl)]
  /\ \A c, d \in DOMAIN chapters :
       \A m \in DOMAIN chapters[c].cards : \A k \in DOMAIN chapters[d].cards :
         (chapters[c].cards[m] = chapters[d].cards[k] /\ <<c, m>> # <<d, k>>) =>
           \E x, y \in Visited : x # y /\ FileAt(x) = FileAt(y)

NumbersInv ==
  /\ DOMAIN number = {by_path[FileAt(pl)] : pl \in CardPlaces}
  /\ \A id \in DOMAIN number :
       number[id] \in CardPlaces /\ by_path[FileAt(number[id])] = id

(* The keys of a kind: each is a key of the page that has it, and every    *)
(* page keyed has its own, or the page that claimed them first.            *)
KeysOfKind(known, ids) ==
  /\ \A k \in DOMAIN known : known[k] \in ids /\ k \in KeysOf(known[k]) \ {EmptyWord}
  /\ \A id \in ids : KeysOf(id) \ {EmptyWord} \subseteq DOMAIN known

KeysInv ==
  /\ keyed \subseteq Pages
  /\ KeysOfKind(hub_keys, keyed \cap DOMAIN hubs)
  /\ KeysOfKind(card_keys, keyed \cap DOMAIN cards)

(* The files and places seen, if no problem was found in them. *)
SoundFiles ==
  /\ stage # "summary" => book.summary = "read"
  /\ DOMAIN book.files \cap PathsRead \subseteq DOMAIN by_path

SoundPlace(pl) ==
  \/ FileAt(pl) = SUMMARY
  \/ /\ FileAt(pl) \in DOMAIN by_path
     /\ book.files[FileAt(pl)].kind = IF pl[2] = 0 THEN "hub" ELSE "card"
     /\ book.files[FileAt(pl)].title = Listing(book, pl).title

(* Each entry is at its number, unless SUMMARY.md lists itself. *)
EntriesDone(c) == IF c < at THEN Len(Toc[c].entries) ELSE nth - 1
Aligned ==
  \A c \in DOMAIN chapters :
    /\ Len(chapters[c].cards) = EntriesDone(c)
    /\ \A n \in 1..EntriesDone(c) : chapters[c].cards[n] = by_path[Toc[c].entries[n].file]

SoundSummary ==
  /\ \A pl \in Visited : SoundPlace(pl)
  /\ ~ListsItself(book) => Aligned
  /\ ~Reading /\ stage # "number" =>
       DOMAIN by_path \subseteq DOMAIN listed /\ \A p \in DOMAIN listed : ~(listed[p] > 1)

SoundText ==
  stage \in {"refer", "keys", "done"} =>
    /\ DOMAIN prose = Pages
    /\ \A id \in Pages :
         /\ ~FileOf(id).by_hand
         /\ FileOf(id).mentions \subseteq Pages
         /\ prose[id] = [m \in FileOf(id).mentions |-> Printed(m)]

SoundReferences ==
  stage \in {"keys", "done"} => \A id \in Pages : Dangling(id) = {} /\ NoProbe(id) = {}

SoundKey(k) == k # EmptyWord /\ k.number = <<>> /\ k.text \notin RESERVED
SoundKeys ==
  /\ \A id \in keyed \cap DOMAIN hubs : \A k \in KeysOf(id) : SoundKey(k) /\ hub_keys[k] = id
  /\ \A id \in keyed \cap DOMAIN cards : \A k \in KeysOf(id) : SoundKey(k) /\ card_keys[k] = id

(* A problem, once found, stays: without one, nothing was wrong so far. *)
SoundInv ==
  problems = {} => SoundFiles /\ SoundSummary /\ SoundText /\ SoundReferences /\ SoundKeys

Inv ==
  /\ ControlInv /\ ParsedInv /\ ListedInv /\ ChaptersInv /\ CardsInv /\ NumbersInv
  /\ KeysInv /\ SoundInv

(* No problem is found in a book that follows the rules. *)
Valid(b) == ValidFiles(b) /\ ValidSummary(b) /\ ValidReferences(b) /\ ValidKeys(b)
CompleteInv == Valid(book) => problems = {}

-----------------------------------------------------------------------------
(***************************************************************************)
(* The places of SUMMARY.md.                                               *)
(***************************************************************************)

LEMMA PathsTyped == DOMAIN Paths = 1..Len(Paths) /\ Len(Paths) \in Nat
<1>1. Paths \in Seq(STRING)
  BY LibraryAssumption
<1> QED
  BY <1>1

(* What the operators say of the book at hand. *)
LEMMA TocTyped ==
  ASSUME book \in Books
  PROVE  /\ Toc \in Seq(TocChapter)
         /\ DOMAIN Toc = 1..Len(Toc) /\ Len(Toc) \in Nat
         /\ \A c \in DOMAIN Toc : /\ Toc[c].entries \in Seq(Entry)
                                /\ DOMAIN Toc[c].entries = 1..Len(Toc[c].entries)
                                /\ Len(Toc[c].entries) \in Nat
<1>1. book.toc \in Seq(TocChapter)
  BY LibraryAssumption
<1>2. Toc \in Seq(TocChapter)
  BY <1>1 DEF Toc
<1>3. \A c \in DOMAIN Toc : Toc[c] \in TocChapter
  BY <1>2
<1> QED
  BY <1>2, <1>3 DEF TocChapter

LEMMA PlacesOfToc ==
  ASSUME book \in Books
  PROVE  /\ \A c, n : <<c, n>> \in TocPlaces <=>
              /\ c \in DOMAIN Toc
              /\ n \in 0..Len(Toc[c].entries)
              /\ n = 0 => Toc[c].file # NoFile
         /\ \A pl \in TocPlaces : pl = <<pl[1], pl[2]>>
<1>1. CASE book.summary # "read"
  BY <1>1 DEF TocPlaces, Toc
<1>2. CASE book.summary = "read"
  <2>1. TocPlaces = Places(book) /\ Toc = book.toc
    BY <1>2 DEF TocPlaces, Toc
  <2>2. \A c \in DOMAIN Toc : Len(Toc[c].entries) \in Nat
    BY TocTyped
  <2> QED
    BY <2>1, <2>2 DEF Places
<1> QED
  BY <1>1, <1>2

LEMMA FilesOfToc ==
  ASSUME book \in Books
  PROVE  \A c, n : <<c, n>> \in TocPlaces =>
           /\ n = 0 => FileAt(<<c, n>>) = Toc[c].file
           /\ n # 0 => FileAt(<<c, n>>) = Toc[c].entries[n].file
           /\ n = 0 => Listing(book, <<c, n>>) = Toc[c]
           /\ n # 0 => Listing(book, <<c, n>>) = Toc[c].entries[n]
BY DEF TocPlaces, FileAt, Listing, Toc

LEMMA VisitedIs ==
  ASSUME ControlInv
  PROVE  /\ \A c, n : <<c, n>> \in Visited <=>
              /\ <<c, n>> \in TocPlaces
              /\ ~Reading
              /\ c < at \/ (c = at /\ n < nth)
         /\ \A pl \in Visited : pl \in TocPlaces /\ pl = <<pl[1], pl[2]>>
BY PlacesOfToc DEF ControlInv, Visited

-----------------------------------------------------------------------------
(***************************************************************************)
(* The steps that leave a part of the invariant alone.                     *)
(***************************************************************************)

LEMMA ParsedFrame ==
  ASSUME ParsedInv, UNCHANGED <<book, parsed>>, PathsRead \subseteq PathsRead'
  PROVE  ParsedInv'
BY DEF ParsedInv, parsed

LEMMA ListedFrame ==
  ASSUME ListedInv, UNCHANGED <<book, listed, Visited>>
  PROVE  ListedInv'
BY DEF ListedInv, FileAt

LEMMA CardPlacesFrame ==
  ASSUME UNCHANGED <<book, parsed, Visited>>
  PROVE  UNCHANGED CardPlaces
BY DEF CardPlaces, FileAt, IsCard, parsed

LEMMA ChaptersFrame ==
  ASSUME ChaptersInv, UNCHANGED <<book, parsed, chapter, chapters>>,
         ~Reading' => Len(chapters) = IF nth' = 0 THEN at' - 1 ELSE at'
  PROVE  ChaptersInv'
BY DEF ChaptersInv, ChapterRecord, Toc, IsHub, parsed

LEMMA CardsFrame ==
  ASSUME CardsInv, NumbersInv, UNCHANGED <<book, parsed, numbered, Visited>>
  PROVE  CardsInv' /\ NumbersInv'
<1>1. UNCHANGED CardPlaces
  BY CardPlacesFrame
<1> QED
  BY <1>1 DEF CardsInv, NumbersInv, FileAt, parsed, numbered

LEMMA KeysFrame ==
  ASSUME KeysInv, UNCHANGED <<book, parsed, keys>>
  PROVE  KeysInv'
BY DEF KeysInv, KeysOfKind, KeysOf, FileOf, Pages, parsed, keys

(* What problems are found in the text cannot be undone. *)
LEMMA TextFrame ==
  ASSUME UNCHANGED <<book, stage, parsed, number, prose>>
  PROVE  /\ SoundText => SoundText'
         /\ SoundReferences => SoundReferences'
BY DEF SoundText, SoundReferences, FileOf, Pages, Printed, NumberOf, Dangling, NoProbe, parsed

LEMMA SoundKeysFrame ==
  ASSUME SoundKeys, UNCHANGED <<book, parsed, keys>>
  PROVE  SoundKeys'
BY DEF SoundKeys, SoundKey, KeysOf, FileOf, parsed, keys

LEMMA SummaryFrame ==
  ASSUME SoundSummary, UNCHANGED <<book, parsed, numbered, Visited, at, nth>>,
         (~Reading' /\ stage' # "number") => (~Reading /\ stage # "number")
  PROVE  SoundSummary'
BY DEF SoundSummary, SoundPlace, FileAt, Aligned, EntriesDone, Toc, parsed, numbered

LEMMA FilesFrame ==
  ASSUME SoundFiles, UNCHANGED <<book, parsed, PathsRead>>, stage # "summary"
  PROVE  SoundFiles'
BY DEF SoundFiles, parsed

-----------------------------------------------------------------------------
(***************************************************************************)
(* The invariant holds at first, and is kept by each step.                 *)
(***************************************************************************)

LEMMA InitInv == Init => Inv /\ CompleteInv
<1> SUFFICES ASSUME Init PROVE Inv /\ CompleteInv
  OBVIOUS
<1>1. ControlInv
  BY DEF Init, ControlInv, Reading
<1>2. Visited = {}
  BY DEF Init, Visited, Reading
<1>3. ParsedInv /\ KeysInv
  BY DEF Init, ParsedInv, KeysInv, KeysOfKind, Pages, Nothing
<1>4. ListedInv /\ CardsInv /\ NumbersInv
  BY <1>2 DEF Init, ListedInv, CardsInv, NumbersInv, CardPlaces, Nothing
<1>5. ChaptersInv
  BY DEF Init, ChaptersInv, Reading, Nothing
<1>6. SoundFiles
  <2>1. PathsRead = {}
    BY PathsTyped DEF Init, PathsRead, Reading
  <2> QED
    BY <2>1 DEF Init, SoundFiles
<1>7. SoundSummary /\ SoundText /\ SoundReferences /\ SoundKeys
  BY <1>2 DEF Init, SoundSummary, Aligned, SoundText, SoundReferences, SoundKeys, Reading
<1> QED
  BY <1>1, <1>3, <1>4, <1>5, <1>6, <1>7 DEF Inv, SoundInv, CompleteInv, Init

LEMMA ReadSummaryKeeps ==
  ASSUME Inv, ReadSummary
  PROVE  Inv'
<1> USE DEF Inv
<1>1. ControlInv'
  <2>1. CASE stage' = "parse"
    BY <2>1 DEF ReadSummary, ControlInv, Reading, numbered, keys
  <2>2. CASE stage' = "done"
    <3>1. Toc' = <<>>
      BY <2>2 DEF ReadSummary, Toc
    <3>2. Pages' = {}
      BY DEF ReadSummary, ControlInv, ParsedInv, Pages, Nothing, parsed
    <3> QED
      BY <2>2, <3>1, <3>2 DEF ReadSummary, ControlInv, Reading, numbered, keys
  <2> QED
    BY <2>1, <2>2 DEF ReadSummary
<1>2. UNCHANGED Visited /\ PathsRead \subseteq PathsRead'
  <2>1. Visited = {}
    BY DEF ReadSummary, Visited, Reading
  <2>2. Visited' = {}
    BY DEF ReadSummary, Visited, Reading, TocPlaces
  <2>3. PathsRead \subseteq PathsRead'
    BY DEF ReadSummary, PathsRead, Reading
  <2> QED
    BY <2>1, <2>2, <2>3
<1>3. ParsedInv' /\ KeysInv'
  BY <1>2, ParsedFrame, KeysFrame DEF ReadSummary
<1>4. ListedInv' /\ CardsInv' /\ NumbersInv'
  BY <1>2, ListedFrame, CardsFrame DEF ReadSummary, numbered
<1>5. ChaptersInv'
  <2>1. at = 1 /\ nth = 0 /\ Len(chapters) = 0
    BY DEF ReadSummary, ControlInv, Reading
  <2> QED
    BY <2>1, ChaptersFrame DEF ReadSummary, numbered
<1>6. ASSUME problems' = {} PROVE SoundFiles' /\ SoundSummary'
  <2>1. book'.summary = "read" /\ stage' = "parse" /\ problems = {}
    BY <1>6, LibraryAssumption DEF ReadSummary, ControlInv
  <2>2. SoundFiles /\ SoundSummary /\ UNCHANGED PathsRead
    BY <2>1 DEF SoundInv, PathsRead, Reading, ReadSummary
  <2> QED
    BY <2>1, <2>2, <1>2, SummaryFrame DEF SoundFiles, ReadSummary, parsed, Reading
<1>7. ASSUME problems' = {} PROVE SoundText' /\ SoundReferences' /\ SoundKeys'
  <2>1. stage' = "parse" /\ keyed' = {}
    BY <1>7, LibraryAssumption DEF ReadSummary, ControlInv, keys
  <2> QED
    BY <2>1 DEF SoundText, SoundReferences, SoundKeys
<1> QED
  BY <1>1, <1>3, <1>4, <1>5, <1>6, <1>7 DEF SoundInv

(* A file that is parsed adds its own path to those read. *)
LEMMA PathsReadNext ==
  ASSUME ControlInv, ParseFile
  PROVE  PathsRead' = PathsRead \cup {Paths[at]} /\ Paths[at] \notin PathsRead
<1>1. at \in 1..Len(Paths) /\ at' = at + 1 /\ stage = "parse" /\ stage' = "parse"
  BY PathsTyped DEF ParseFile
<1>2. PathsRead = {Paths[k] : k \in 1..at - 1} /\ PathsRead' = {Paths[k] : k \in 1..at}
  BY <1>1, PathsTyped DEF PathsRead, Reading
<1>3. 1..at = (1..at - 1) \cup {at}
  BY <1>1
<1>4. \A j, k \in DOMAIN Paths : Paths[j] = Paths[k] => j = k
  BY LibraryAssumption
<1> QED
  BY <1>1, <1>2, <1>3, <1>4, PathsTyped

(* What parsing a file adds: nothing, or a page of its kind under its id. *)
LEMMA ParseFileAdds ==
  ASSUME Inv, ParseFile
  PROVE  LET p == Paths[at]
             f == book.files[p]
         IN  \/ p \notin DOMAIN book.files /\ UNCHANGED <<problems, parsed>>
             \/ problems' # {} /\ UNCHANGED parsed
             \/ /\ p \in DOMAIN book.files /\ f.kind \in {"hub", "card"} /\ f.id \notin Pages
                /\ by_path' = Put(by_path, p, f.id)
                /\ hubs' = IF f.kind = "hub" THEN Put(hubs, f.id, p) ELSE hubs
                /\ cards' = IF f.kind = "card" THEN Put(cards, f.id, p) ELSE cards
                /\ UNCHANGED problems
BY DEF ParseFile, IsTaken

LEMMA ParseFileKeeps ==
  ASSUME Inv, ParseFile
  PROVE  Inv'
<1> USE DEF Inv
<1> DEFINE p == Paths[at]
           f == book.files[p]
<1>1. /\ stage = "parse" /\ stage' = "parse" /\ at' = at + 1 /\ Reading /\ Reading'
      /\ UNCHANGED <<book, nth, numbered, prose, keys>>
  BY DEF ParseFile, Reading
<1>2. PathsRead' = PathsRead \cup {p} /\ p \notin PathsRead
  BY PathsReadNext
<1>3. p \notin DOMAIN by_path
  BY <1>2 DEF ParsedInv
<1>4. ControlInv'
  BY <1>1 DEF ControlInv, Reading, numbered, keys
<1>5. Visited = {} /\ Visited' = {}
  BY <1>1 DEF Visited
<1>6. ParsedInv'
  <2>1. CASE UNCHANGED parsed
    BY <1>1, <1>2, <2>1, ParsedFrame
  <2>2. CASE /\ p \in DOMAIN book.files /\ f.kind = "hub" /\ f.id \notin Pages
             /\ by_path' = Put(by_path, p, f.id)
             /\ hubs' = Put(hubs, f.id, p) /\ cards' = cards
    BY <1>1, <1>2, <1>3, <2>2 DEF ParsedInv, Put, Pages
  <2>3. CASE /\ p \in DOMAIN book.files /\ f.kind = "card" /\ f.id \notin Pages
             /\ by_path' = Put(by_path, p, f.id)
             /\ hubs' = hubs /\ cards' = Put(cards, f.id, p)
    BY <1>1, <1>2, <1>3, <2>3 DEF ParsedInv, Put, Pages
  <2> QED
    BY <2>1, <2>2, <2>3, ParseFileAdds
<1>7. chapters = <<>> /\ chapter = Nothing /\ listed = Nothing /\ number = Nothing
  BY <1>1 DEF ControlInv
<1>8. ListedInv'
  BY <1>1, <1>5, ListedFrame DEF numbered
<1>9. ChaptersInv' /\ CardsInv' /\ NumbersInv'
  BY <1>1, <1>5, <1>7 DEF ChaptersInv, CardsInv, NumbersInv, CardPlaces, numbered, Nothing
<1>10. keyed' = {} /\ hub_keys' = Nothing /\ card_keys' = Nothing
  BY <1>1, <1>4 DEF ControlInv
<1>11. KeysInv'
  BY <1>10 DEF KeysInv, KeysOfKind, Nothing
<1>12. ASSUME problems' = {} PROVE SoundFiles' /\ SoundSummary'
  <2>1. problems = {}
    BY <1>12 DEF ParseFile
  <2>2. SoundFiles'
    BY <1>1, <1>2, <1>12, <2>1, ParseFileAdds DEF SoundInv, SoundFiles, Put, parsed
  <2> QED
    BY <1>1, <1>5, <1>7, <2>2 DEF SoundSummary, Aligned, numbered
<1>13. SoundText' /\ SoundReferences' /\ SoundKeys'
  BY <1>1, <1>10 DEF SoundText, SoundReferences, SoundKeys
<1> QED
  BY <1>4, <1>6, <1>8, <1>9, <1>11, <1>12, <1>13 DEF SoundInv

LEMMA AllParsedKeeps ==
  ASSUME Inv, AllParsed
  PROVE  Inv'
<1> USE DEF Inv
<1>1. /\ stage = "parse" /\ stage' = "number" /\ at' = 1 /\ nth = 0 /\ Reading /\ ~Reading'
      /\ UNCHANGED <<book, nth, problems, parsed, numbered, prose, keys>>
  BY DEF AllParsed, Reading, ControlInv
<1>2. Visited = {} /\ Visited' = {}
  <2>1. \A pl \in TocPlaces : pl[1] \in Nat \ {0} /\ pl[2] \in Nat
    BY PlacesOfToc, TocTyped DEF ControlInv
  <2>2. TocPlaces' = TocPlaces
    BY <1>1 DEF TocPlaces
  <2> QED
    BY <1>1, <2>1, <2>2 DEF Visited
<1>3. PathsRead' = PathsRead
  BY <1>1, PathsTyped DEF PathsRead, ControlInv, AllParsed
<1>4. ControlInv'
  <2>1. Len(Toc') \in Nat /\ (1 \in DOMAIN Toc' => Len(Toc'[1].entries) \in Nat)
    BY <1>1, TocTyped DEF ControlInv, Toc
  <2> QED
    BY <1>1, <2>1 DEF ControlInv, Reading, numbered, keys
<1>5. ParsedInv' /\ ListedInv' /\ CardsInv' /\ NumbersInv' /\ KeysInv'
  BY <1>1, <1>2, <1>3, ParsedFrame, ListedFrame, CardsFrame, KeysFrame DEF numbered
<1>6. ChaptersInv'
  <2>1. Len(chapters) = 0
    BY <1>1 DEF ControlInv
  <2> QED
    BY <1>1, <2>1, ChaptersFrame DEF numbered
<1>7. ASSUME problems' = {} PROVE SoundFiles' /\ SoundSummary'
  <2>1. SoundFiles'
    BY <1>1, <1>3, <1>7, FilesFrame DEF SoundInv
  <2>2. chapters' = <<>>
    BY <1>1 DEF ControlInv, numbered
  <2> QED
    BY <1>1, <1>2, <2>1, <2>2 DEF SoundSummary, Aligned
<1>8. SoundText' /\ SoundReferences' /\ SoundKeys'
  BY <1>1, <1>4 DEF SoundText, SoundReferences, SoundKeys, ControlInv
<1> QED
  BY <1>4, <1>5, <1>6, <1>7, <1>8 DEF SoundInv

(* The place that a step of the numbering is done with. *)
LEMMA VisitedNext ==
  ASSUME ControlInv, stage = "number", at' = at, nth' = nth + 1, UNCHANGED <<book, stage>>
  PROVE  /\ Visited' = Visited \cup ({<<at, nth>>} \cap TocPlaces)
         /\ <<at, nth>> \notin Visited
<1>1. TocPlaces' = TocPlaces
  BY DEF TocPlaces
<1>2. \A pl \in TocPlaces : pl[1] \in Nat /\ pl[2] \in Nat /\ pl = <<pl[1], pl[2]>>
  BY PlacesOfToc, TocTyped DEF ControlInv
<1>3. at \in Nat /\ nth \in Nat /\ ~Reading /\ ~Reading'
  BY DEF ControlInv, Reading
<1> QED
  BY <1>1, <1>2, <1>3 DEF Visited

(* The count of a path tells if two places list it. *)
LEMMA CountListedKeeps ==
  ASSUME ListedInv, UNCHANGED book, NEW pl \in TocPlaces \ Visited,
         Visited' = Visited \cup {pl}, listed' = CountListed(FileAt(pl))
  PROVE  ListedInv'
<1> DEFINE q == FileAt(pl)
<1>1. \A x : FileAt(x)' = FileAt(x)
  BY DEF FileAt
<1>2. DOMAIN listed' = DOMAIN listed \cup {q}
  BY DEF CountListed, Put
<1>3. \A p \in DOMAIN listed \ {q} : listed'[p] = listed[p]
  BY DEF CountListed, Put
<1>4. listed'[q] = IF q \in DOMAIN listed THEN listed[q] + 1 ELSE 1
  BY DEF CountListed, Put
<1>5. q \in DOMAIN listed <=> \E x \in Visited : FileAt(x) = q
  BY DEF ListedInv
<1>6. listed'[q] \in Nat \ {0} /\ (listed'[q] > 1 <=> q \in DOMAIN listed)
  BY <1>4 DEF ListedInv
<1>7. q \in DOMAIN listed <=> \E x, y \in Visited' : x # y /\ FileAt(x) = q /\ FileAt(y) = q
  BY <1>5
<1>8. \A p \in DOMAIN listed \ {q} :
        /\ listed'[p] \in Nat \ {0}
        /\ listed'[p] > 1 <=>
             \E x, y \in Visited' : x # y /\ FileAt(x) = p /\ FileAt(y) = p
  BY <1>3 DEF ListedInv
<1>9. DOMAIN listed' = {FileAt(x) : x \in Visited'}
  BY <1>2 DEF ListedInv
<1> QED
  BY <1>1, <1>2, <1>6, <1>7, <1>8, <1>9 DEF ListedInv

(* A page is known to be of the kind of the map that holds it. *)
LEMMA KindsOfPages ==
  ASSUME ParsedInv
  PROVE  \A p :
    /\ IsHub(p) <=> p \in DOMAIN by_path /\ book.files[p].kind = "hub"
    /\ IsCard(p) <=> p \in DOMAIN by_path /\ book.files[p].kind = "card"
    /\ ~(IsHub(p) /\ IsCard(p))
    /\ \A q \in DOMAIN by_path : p \in DOMAIN by_path /\ by_path[p] = by_path[q] => p = q
BY DEF ParsedInv, IsHub, IsCard

(* What the numbering leaves alone. *)
LEMMA NumberingFrame ==
  ASSUME Inv, stage = "number", stage' = "number",
         UNCHANGED <<book, parsed, prose, keys>>
  PROVE  /\ ParsedInv' /\ KeysInv' /\ SoundText' /\ SoundReferences'
         /\ SoundKeys' /\ keyed' = {} /\ hub_keys' = Nothing /\ card_keys' = Nothing
         /\ problems = {} => SoundFiles'
<1> USE DEF Inv
<1>1. PathsRead' = PathsRead
  BY DEF PathsRead, Reading
<1>2. keyed' = {} /\ hub_keys' = Nothing /\ card_keys' = Nothing
  BY DEF ControlInv, keys
<1>3. ParsedInv' /\ KeysInv'
  BY <1>1, ParsedFrame, KeysFrame
<1>4. SoundText' /\ SoundReferences' /\ SoundKeys'
  BY <1>2 DEF SoundText, SoundReferences, SoundKeys
<1>5. problems = {} => SoundFiles'
  BY <1>1, FilesFrame DEF SoundInv
<1> QED
  BY <1>2, <1>3, <1>4, <1>5

LEMMA ChapterPageKeeps ==
  ASSUME Inv, ChapterPage
  PROVE  Inv'
<1> USE DEF Inv
<1> DEFINE p == Toc[at].file
           pl == <<at, 0>>
<1>1. /\ stage = "number" /\ stage' = "number" /\ at' = at /\ nth = 0 /\ nth' = 1
      /\ at \in DOMAIN Toc /\ UNCHANGED <<book, parsed, number, prose, keys>>
  BY DEF ChapterPage
<1>2. /\ at \in 1..Len(Toc) /\ Len(Toc) \in Nat /\ Len(Toc[at].entries) \in Nat
      /\ Toc' = Toc /\ ~Reading /\ ~Reading'
  BY <1>1, TocTyped DEF ControlInv, Toc, Reading
<1>3. pl \in TocPlaces <=> p # NoFile
  BY <1>1, <1>2, PlacesOfToc DEF ControlInv
<1>4. /\ Visited' = IF p # NoFile THEN Visited \cup {pl} ELSE Visited
      /\ pl \notin Visited
  BY <1>1, <1>3, VisitedNext
<1>5. p # NoFile => FileAt(pl) = p /\ Listing(book, pl) = Toc[at]
  BY <1>3, FilesOfToc DEF ControlInv
<1>6. chapters' = Append(chapters,
                         [hub |-> IF p # NoFile /\ IsHub(p) THEN by_path[p] ELSE EmptyWord,
                          cards |-> <<>>])
  BY DEF ChapterPage
<1>7. listed' = IF p # NoFile THEN CountListed(p) ELSE listed
  BY DEF ChapterPage
<1>8. ParsedInv' /\ KeysInv'
  BY <1>1, NumberingFrame
<1>9. ControlInv'
  BY <1>1, <1>2, NumberingFrame DEF ControlInv
<1>10. ListedInv'
  <2>1. CASE p = NoFile
    BY <2>1, <1>1, <1>4, <1>7, ListedFrame
  <2>2. CASE p # NoFile
    BY <2>2, <1>1, <1>3, <1>4, <1>5, <1>7, CountListedKeeps
  <2> QED
    BY <2>1, <2>2
<1>11. CardPlaces' = CardPlaces
  BY <1>1, <1>4 DEF CardPlaces, FileAt, IsCard, parsed
<1>12. /\ Len(chapters) = at - 1 /\ chapters \in Seq(ChapterRecord)
       /\ DOMAIN chapters = 1..at - 1
  BY <1>1, <1>2 DEF ChaptersInv
<1>13. /\ DOMAIN chapters' = 1..at /\ chapters'[at].cards = <<>> /\ Len(chapters') = at
       /\ \A c \in 1..at - 1 : chapters'[c] = chapters[c]
       /\ chapters'[at].hub = IF p # NoFile /\ IsHub(p) THEN by_path[p] ELSE EmptyWord
  BY <1>2, <1>6, <1>12
<1>14. ChaptersInv'
  <2>1. DOMAIN chapter' \subseteq DOMAIN hubs'
    BY <1>1 DEF ChapterPage, ChaptersInv, parsed, IsHub, Put
  <2>2. ChapterRecord' = ChapterRecord
    BY <1>1 DEF ChapterRecord, parsed
  <2>3. [hub |-> IF p # NoFile /\ IsHub(p) THEN by_path[p] ELSE EmptyWord,
         cards |-> <<>>] \in ChapterRecord
    BY DEF ChapterRecord, IsHub
  <2>4. chapters' \in Seq(ChapterRecord)
    BY <1>6, <1>12, <2>3
  <2> QED
    BY <1>1, <1>2, <1>12, <1>13, <2>1, <2>2, <2>4 DEF ChaptersInv, IsHub, parsed
<1>15. CardsInv'
  <2>1. \A x \in CardPlaces : x[1] \in 1..at - 1
    BY <1>1, <1>2, VisitedIs, PlacesOfToc, TocTyped DEF CardPlaces, ControlInv
  <2>2. \A x : FileAt(x)' = FileAt(x)
    BY <1>1 DEF FileAt
  <2> QED
    BY <1>1, <1>4, <1>11, <1>12, <1>13, <2>1, <2>2 DEF CardsInv, parsed
<1>16. NumbersInv'
  BY <1>1, <1>11 DEF NumbersInv, FileAt, parsed
<1>17. ASSUME problems' = {} PROVE SoundSummary'
  <2>1. problems = {} /\ SoundSummary /\ SoundFiles
    BY <1>17 DEF ChapterPage, SoundInv
  <2>2. p # NoFile => SoundPlace(pl)
    <3>1. CASE IsHub(p)
      BY <1>5, <1>17, <3>1, KindsOfPages DEF ChapterPage, SoundPlace, Retitled
    <3>2. CASE p # NoFile /\ ~IsHub(p)
      <4>1. ~IsCard(p) /\ Missing(p) = {}
        BY <1>17, <3>2 DEF ChapterPage
      <4>2. p \notin DOMAIN by_path
        BY <4>1, <3>2, KindsOfPages DEF ParsedInv
      <4>3. DOMAIN book.files \subseteq PathsRead
        BY <1>1, <1>2, LibraryAssumption DEF PathsRead, ControlInv
      <4> QED
        BY <1>5, <2>1, <3>2, <4>1, <4>2, <4>3 DEF SoundPlace, Missing, SoundFiles
    <3> QED
      BY <3>1, <3>2
  <2>3. \A x : SoundPlace(x)' <=> SoundPlace(x)
    BY <1>1 DEF SoundPlace, FileAt, parsed
  <2>4. \A x \in Visited' : SoundPlace(x)'
    BY <1>4, <2>1, <2>2, <2>3 DEF SoundSummary
  <2>5. ASSUME ~ListsItself(book) PROVE Aligned'
    <3>1. Aligned
      BY <2>1, <2>5 DEF SoundSummary
    <3>2. \A c \in 1..at - 1 : EntriesDone(c)' = EntriesDone(c)
      BY <1>1, <1>2 DEF EntriesDone
    <3>3. EntriesDone(at)' = 0
      BY <1>1, <1>2 DEF EntriesDone
    <3> QED
      BY <1>1, <1>2, <1>12, <1>13, <3>1, <3>2, <3>3 DEF Aligned, parsed
  <2> QED
    BY <1>1, <2>4, <2>5 DEF SoundSummary
<1> QED
  BY <1>1, <1>8, <1>9, <1>10, <1>14, <1>15, <1>16, <1>17, NumberingFrame
     DEF SoundInv, ChapterPage

LEMMA ChapterEntryKeeps ==
  ASSUME Inv, ChapterEntry
  PROVE  Inv'
<1> USE DEF Inv
<1> DEFINE p == Toc[at].entries[nth].file
           pl == <<at, nth>>
<1>1. /\ stage = "number" /\ stage' = "number" /\ at' = at /\ nth' = nth + 1
      /\ at \in DOMAIN Toc /\ nth \in DOMAIN Toc[at].entries
      /\ UNCHANGED <<book, parsed, chapter, prose, keys>>
      /\ listed' = CountListed(p)
  BY DEF ChapterEntry
<1>2. /\ at \in 1..Len(Toc) /\ Len(Toc) \in Nat /\ Len(Toc[at].entries) \in Nat
      /\ nth \in 1..Len(Toc[at].entries) /\ Toc' = Toc /\ ~Reading /\ ~Reading'
  BY <1>1, TocTyped DEF ControlInv, Toc, Reading
<1>3. pl \in TocPlaces
  BY <1>1, <1>2, PlacesOfToc DEF ControlInv
<1>4. Visited' = Visited \cup {pl} /\ pl \notin Visited
  BY <1>1, <1>3, VisitedNext
<1>5. FileAt(pl) = p /\ Listing(book, pl) = Toc[at].entries[nth]
  BY <1>2, <1>3, FilesOfToc DEF ControlInv
<1>6. \/ /\ IsCard(p)
         /\ number' = Put(number, by_path[p], pl)
         /\ chapters' = [chapters EXCEPT ![at].cards = Append(@, by_path[p])]
         /\ problems' = problems \cup Retitled(p, Toc[at].entries[nth].title)
      \/ /\ ~IsCard(p)
         /\ problems' = problems \cup NotACard(p)
         /\ UNCHANGED <<chapters, number>>
  BY DEF ChapterEntry, EntryNumber
<1>7. /\ ParsedInv' /\ KeysInv' /\ SoundText' /\ SoundReferences' /\ SoundKeys'
      /\ problems' = {} => SoundFiles'
  BY <1>1, <1>6, NumberingFrame
<1>8. ControlInv'
  BY <1>1, <1>2, NumberingFrame DEF ControlInv
<1>9. ListedInv'
  BY <1>1, <1>3, <1>4, <1>5, CountListedKeeps
<1>10. /\ \A x : FileAt(x)' = FileAt(x)
       /\ \A q : IsCard(q)' = IsCard(q)
       /\ ChapterRecord' = ChapterRecord
  BY <1>1 DEF FileAt, IsCard, parsed, ChapterRecord
<1>11. CardPlaces' = IF IsCard(p) THEN CardPlaces \cup {pl} ELSE CardPlaces
  BY <1>2, <1>4, <1>5, <1>10 DEF CardPlaces
<1>12. /\ chapters \in Seq(ChapterRecord) /\ Len(chapters) = at /\ DOMAIN chapters = 1..at
       /\ \A c \in 1..at : chapters[c] \in ChapterRecord
  BY <1>1, <1>2 DEF ChaptersInv
<1>13. \A c \in 1..at : /\ DOMAIN chapters[c].cards = 1..Len(chapters[c].cards)
                        /\ Len(chapters[c].cards) \in Nat
                        /\ chapters[c].cards \in Seq(DOMAIN cards)
  BY <1>12 DEF ChapterRecord
<1> DEFINE old == chapters[at].cards
<1>14. ASSUME IsCard(p)
       PROVE  /\ chapters' \in Seq(ChapterRecord) /\ Len(chapters') = at
              /\ DOMAIN chapters' = 1..at
              /\ \A c \in 1..at : chapters'[c].hub = chapters[c].hub
              /\ \A c \in 1..at - 1 : chapters'[c].cards = chapters[c].cards
              /\ chapters'[at].cards = Append(old, by_path[p])
              /\ DOMAIN chapters'[at].cards = 1..Len(old) + 1
              /\ Len(chapters'[at].cards) = Len(old) + 1
              /\ \A m \in 1..Len(old) : chapters'[at].cards[m] = old[m]
              /\ chapters'[at].cards[Len(old) + 1] = by_path[p]
  <2> DEFINE new == Append(old, by_path[p])
  <2>1. by_path[p] \in DOMAIN cards
    BY <1>14 DEF IsCard
  <2>2. /\ new \in Seq(DOMAIN cards) /\ DOMAIN new = 1..Len(old) + 1
        /\ Len(new) = Len(old) + 1
        /\ \A m \in 1..Len(old) : new[m] = old[m]
        /\ new[Len(old) + 1] = by_path[p]
    BY <1>2, <1>13, <2>1
  <2>3. chapters' = [chapters EXCEPT ![at].cards = new]
    BY <1>6, <1>14
  <2>4. chapters[at] \in ChapterRecord
    BY <1>2, <1>12
  <2>5. [chapters[at] EXCEPT !.cards = new] \in ChapterRecord
    BY <2>2, <2>4 DEF ChapterRecord
  <2>6. chapters'[at].cards = new /\ chapters'[at].hub = chapters[at].hub
    BY <1>2, <1>12, <2>3, <2>4 DEF ChapterRecord
  <2>7. chapters' \in Seq(ChapterRecord) /\ Len(chapters') = at /\ DOMAIN chapters' = 1..at
    BY <1>2, <1>12, <2>3, <2>5
  <2>8. \A c \in 1..at - 1 : chapters'[c] = chapters[c]
    BY <1>2, <1>12, <2>3
  <2> HIDE DEF new
  <2>9. \A c \in 1..at : chapters'[c].hub = chapters[c].hub
    BY <1>2, <2>6, <2>8
  <2> QED
    BY <1>2, <2>2, <2>6, <2>7, <2>8, <2>9 DEF new
<1>. HIDE DEF p, pl, old
<1>15. ChaptersInv'
  <2>1. Len(chapters') = at /\ chapters' \in Seq(ChapterRecord') /\ DOMAIN chapters' = 1..at
    BY <1>6, <1>10, <1>12, <1>14
  <2>2. \A c \in 1..at : chapters'[c].hub = chapters[c].hub
    BY <1>6, <1>14
  <2> QED
    BY <1>1, <1>2, <1>12, <2>1, <2>2 DEF ChaptersInv, IsHub, parsed
<1>16. CardsInv'
  <2>1. CASE ~IsCard(p)
    BY <1>1, <1>4, <1>6, <1>10, <1>11, <2>1 DEF CardsInv, parsed
  <2>2. CASE IsCard(p)
    <3>1. \A x \in CardPlaces' :
            \E m \in DOMAIN chapters'[x[1]].cards :
              chapters'[x[1]].cards[m] = by_path[FileAt(x)]
      <4>1. \A x \in CardPlaces : x[1] \in 1..at
        BY <1>1, <1>2, VisitedIs, PlacesOfToc, TocTyped DEF CardPlaces, ControlInv
      <4>2. pl[1] = at /\ Len(old) + 1 \in DOMAIN chapters'[at].cards
        BY <1>2, <1>13, <1>14, <2>2 DEF old, pl
      <4>3. ASSUME NEW x \in CardPlaces
            PROVE  \E m \in DOMAIN chapters'[x[1]].cards :
                     chapters'[x[1]].cards[m] = by_path[FileAt(x)]
        <5>1. PICK m \in DOMAIN chapters[x[1]].cards :
                chapters[x[1]].cards[m] = by_path[FileAt(x)]
          BY DEF CardsInv
        <5>2. CASE x[1] = at
          <6>1. m \in 1..Len(old) /\ old[m] = by_path[FileAt(x)]
            BY <1>2, <1>13, <5>1, <5>2 DEF old
          <6>2. m \in DOMAIN chapters'[at].cards /\ chapters'[at].cards[m] = by_path[FileAt(x)]
            BY <1>2, <1>13, <1>14, <2>2, <6>1 DEF old
          <6> QED
            BY <5>2, <6>2
        <5>3. CASE x[1] # at
          BY <1>2, <1>14, <2>2, <4>1, <5>1, <5>3
        <5> QED
          BY <5>2, <5>3
      <4>4. CardPlaces' = CardPlaces \cup {pl}
        BY <1>11, <2>2
      <4> QED
        BY <1>5, <1>14, <2>2, <4>2, <4>3, <4>4
    <3>2. \A c \in 1..at : \A m \in DOMAIN chapters'[c].cards :
            \/ c = at /\ m = Len(old) + 1
            \/ m \in DOMAIN chapters[c].cards /\ chapters'[c].cards[m] = chapters[c].cards[m]
      <4> SUFFICES ASSUME NEW c \in 1..at, NEW m \in DOMAIN chapters'[c].cards
                   PROVE  \/ c = at /\ m = Len(old) + 1
                          \/ /\ m \in DOMAIN chapters[c].cards
                             /\ chapters'[c].cards[m] = chapters[c].cards[m]
        OBVIOUS
      <4>1. CASE c = at
        <5>1. m \in 1..Len(old) + 1 /\ Len(old) \in Nat
          BY <1>2, <1>13, <1>14, <2>2, <4>1 DEF old
        <5>2. CASE m \in 1..Len(old)
          BY <1>2, <1>13, <1>14, <2>2, <4>1, <5>2 DEF old
        <5> QED
          BY <4>1, <5>1, <5>2
      <4>2. CASE c \in 1..at - 1
        BY <1>14, <2>2, <4>2
      <4> QED
        BY <1>2, <4>1, <4>2
    <3>3. \A c \in 1..at : \A m \in DOMAIN chapters'[c].cards :
            \E x \in CardPlaces' : chapters'[c].cards[m] = by_path[FileAt(x)]
      <4>1. pl \in CardPlaces' /\ CardPlaces \subseteq CardPlaces'
        BY <1>11, <2>2
      <4> QED
        <5> SUFFICES ASSUME NEW c \in 1..at, NEW m \in DOMAIN chapters'[c].cards
                     PROVE  \E x \in CardPlaces' : chapters'[c].cards[m] = by_path[FileAt(x)]
          OBVIOUS
        <5>1. CASE c = at /\ m = Len(old) + 1
          BY <1>5, <1>14, <2>2, <4>1, <5>1
        <5>2. CASE m \in DOMAIN chapters[c].cards /\ chapters'[c].cards[m] = chapters[c].cards[m]
          BY <1>12, <4>1, <5>2 DEF CardsInv
        <5> QED
          BY <3>2, <5>1, <5>2
    <3>4. \A c \in 1..at : \A m \in DOMAIN chapters[c].cards :
            chapters[c].cards[m] = by_path[p] =>
              \E x \in Visited : x # pl /\ FileAt(x) = FileAt(pl)
      <4> SUFFICES ASSUME NEW c \in 1..at, NEW m \in DOMAIN chapters[c].cards,
                          chapters[c].cards[m] = by_path[p]
                   PROVE  \E x \in Visited : x # pl /\ FileAt(x) = FileAt(pl)
        OBVIOUS
      <4>1. PICK x \in CardPlaces : chapters[c].cards[m] = by_path[FileAt(x)]
        BY <1>12 DEF CardsInv
      <4>2. x \in Visited /\ IsCard(FileAt(x))
        BY DEF CardPlaces
      <4>3. FileAt(x) = p
        BY <2>2, <4>1, <4>2, KindsOfPages DEF IsCard
      <4> QED
        BY <1>4, <1>5, <4>2, <4>3
    <3>5. ASSUME NEW c \in 1..at, NEW d \in 1..at, NEW m \in DOMAIN chapters'[c].cards,
                 NEW k \in DOMAIN chapters'[d].cards,
                 chapters'[c].cards[m] = chapters'[d].cards[k], <<c, m>> # <<d, k>>
          PROVE  \E x, y \in Visited' : x # y /\ FileAt(x) = FileAt(y)
      <4>1. CASE c = at /\ m = Len(old) + 1
        <5>1. k \in DOMAIN chapters[d].cards /\ chapters[d].cards[k] = by_path[p]
          BY <1>14, <2>2, <3>2, <3>5, <4>1
        <5> QED
          BY <1>4, <3>4, <5>1
      <4>2. CASE d = at /\ k = Len(old) + 1
        <5>1. m \in DOMAIN chapters[c].cards /\ chapters[c].cards[m] = by_path[p]
          BY <1>14, <2>2, <3>2, <3>5, <4>2
        <5> QED
          BY <1>4, <3>4, <5>1
      <4>3. CASE ~(c = at /\ m = Len(old) + 1) /\ ~(d = at /\ k = Len(old) + 1)
        BY <1>4, <1>12, <3>2, <3>5, <4>3 DEF CardsInv
      <4> QED
        BY <4>1, <4>2, <4>3
    <3>6. DOMAIN chapters' = 1..at /\ by_path' = by_path
      BY <1>1, <1>14, <2>2 DEF parsed
    <3> QED
      BY <1>10, <3>1, <3>3, <3>5, <3>6 DEF CardsInv
  <2> QED
    BY <2>1, <2>2
<1>17. NumbersInv'
  <2>1. CASE ~IsCard(p)
    BY <1>1, <1>6, <1>10, <1>11, <2>1 DEF NumbersInv, parsed
  <2>2. CASE IsCard(p)
    <3>1. number' = Put(number, by_path[p], pl) /\ CardPlaces' = CardPlaces \cup {pl}
      BY <1>6, <1>11, <2>2
    <3> QED
      BY <1>1, <1>5, <1>10, <3>1 DEF NumbersInv, Put, parsed
  <2> QED
    BY <2>1, <2>2
<1>18. ASSUME problems' = {} PROVE SoundSummary'
  <2>1. problems = {} /\ SoundSummary /\ SoundFiles
    BY <1>6, <1>18 DEF SoundInv
  <2>2. SoundPlace(pl) /\ (p # SUMMARY => IsCard(p))
    <3>1. CASE IsCard(p)
      <4>1. Retitled(p, Toc[at].entries[nth].title) = {}
        BY <1>6, <1>18, <3>1
      <4>2. p \in DOMAIN by_path /\ book.files[p].kind = "card"
        BY <3>1, KindsOfPages
      <4>3. pl[2] # 0
        BY <1>2 DEF pl
      <4> QED
        BY <1>5, <3>1, <4>1, <4>2, <4>3 DEF SoundPlace, Retitled
    <3>2. CASE ~IsCard(p)
      <4>1. ~IsHub(p) /\ Missing(p) = {}
        BY <1>6, <1>18, <3>2 DEF NotACard
      <4>2. p \notin DOMAIN by_path
        BY <4>1, <3>2, KindsOfPages DEF ParsedInv
      <4>3. DOMAIN book.files \subseteq PathsRead
        BY <1>1, <1>2, LibraryAssumption DEF PathsRead, ControlInv
      <4> QED
        BY <1>5, <2>1, <3>2, <4>1, <4>2, <4>3 DEF SoundPlace, Missing, SoundFiles
    <3> QED
      BY <3>1, <3>2
  <2>3. \A x : SoundPlace(x)' <=> SoundPlace(x)
    BY <1>1 DEF SoundPlace, FileAt, parsed
  <2>4. \A x \in Visited' : SoundPlace(x)'
    BY <1>4, <2>1, <2>2, <2>3 DEF SoundSummary
  <2>5. ASSUME ~ListsItself(book) PROVE Aligned'
    <3>1. Aligned
      BY <2>1, <2>5 DEF SoundSummary
    <3>2. pl \in Places(book) /\ Listing(book, pl).file = p
      BY <1>3, <1>5 DEF TocPlaces, FileAt
    <3>3. IsCard(p)
      BY <2>2, <2>5, <3>2 DEF ListsItself
    <3>4. \A c \in 1..at - 1 : EntriesDone(c)' = EntriesDone(c)
      BY <1>1, <1>2 DEF EntriesDone
    <3>5. EntriesDone(at)' = nth /\ EntriesDone(at) = nth - 1
      BY <1>1, <1>2 DEF EntriesDone
    <3>6. Len(old) = nth - 1 /\ Len(chapters'[at].cards) = nth
      <4>1. at \in DOMAIN chapters
        BY <1>2, <1>12
      <4>2. Len(old) = nth - 1
        BY <3>1, <3>5, <4>1 DEF Aligned, old
      <4> QED
        BY <1>2, <1>14, <3>3, <4>2
    <3>7. \A n \in 1..nth : chapters'[at].cards[n] = by_path[Toc[at].entries[n].file]
      <4>1. \A n \in 1..nth - 1 : old[n] = by_path[Toc[at].entries[n].file]
        BY <1>2, <1>12, <3>1, <3>5 DEF Aligned, old
      <4>2. \A n \in 1..nth - 1 : chapters'[at].cards[n] = old[n]
        BY <1>14, <3>3, <3>6
      <4>3. chapters'[at].cards[nth] = by_path[Toc[at].entries[nth].file]
        BY <1>2, <1>14, <3>3, <3>6 DEF p
      <4>4. 1..nth = (1..nth - 1) \cup {nth}
        BY <1>2
      <4> QED
        BY <4>1, <4>2, <4>3, <4>4
    <3>8. \A c \in 1..at - 1 :
            /\ Len(chapters'[c].cards) = EntriesDone(c)
            /\ \A n \in 1..EntriesDone(c) :
                 chapters'[c].cards[n] = by_path[Toc[c].entries[n].file]
      <4> SUFFICES ASSUME NEW c \in 1..at - 1
                   PROVE  /\ Len(chapters'[c].cards) = EntriesDone(c)
                          /\ \A n \in 1..EntriesDone(c) :
                               chapters'[c].cards[n] = by_path[Toc[c].entries[n].file]
        OBVIOUS
      <4>1. c \in DOMAIN chapters /\ chapters'[c].cards = chapters[c].cards
        BY <1>2, <1>12, <1>14, <3>3
      <4> QED
        BY <3>1, <4>1 DEF Aligned
    <3>9. DOMAIN chapters' = 1..at
      BY <1>14, <3>3
    <3> QED
      <4>1. \A c \in 1..at :
              /\ Len(chapters'[c].cards) = EntriesDone(c)'
              /\ \A n \in 1..EntriesDone(c)' :
                   chapters'[c].cards[n] = by_path[Toc[c].entries[n].file]
        <5>1. 1..at = (1..at - 1) \cup {at}
          BY <1>2
        <5> QED
          BY <1>1, <3>4, <3>5, <3>6, <3>7, <3>8, <5>1
      <4>2. Toc' = Toc /\ by_path' = by_path
        BY <1>1, <1>2 DEF parsed
      <4> QED
        BY <3>9, <4>1, <4>2 DEF Aligned
  <2> QED
    BY <1>1, <2>4, <2>5 DEF SoundSummary
<1> QED
  BY <1>7, <1>8, <1>9, <1>15, <1>16, <1>17, <1>18 DEF SoundInv

LEMMA ChapterEndKeeps ==
  ASSUME Inv, ChapterEnd
  PROVE  Inv'
<1> USE DEF Inv
<1>1. /\ stage = "number" /\ stage' = "number" /\ at' = at + 1 /\ nth' = 0
      /\ at \in DOMAIN Toc /\ nth > Len(Toc[at].entries)
      /\ UNCHANGED <<book, problems, parsed, numbered, prose, keys>>
  BY DEF ChapterEnd
<1>2. /\ at \in 1..Len(Toc) /\ Len(Toc) \in Nat /\ Len(Toc[at].entries) \in Nat
      /\ nth = Len(Toc[at].entries) + 1 /\ Toc' = Toc /\ ~Reading /\ ~Reading'
  BY <1>1, TocTyped DEF ControlInv, Toc, Reading
<1>3. Visited' = Visited
  <2>1. TocPlaces' = TocPlaces
    BY <1>1 DEF TocPlaces
  <2>2. \A pl \in TocPlaces : /\ pl[1] \in 1..Len(Toc)
                              /\ pl[2] \in Nat
                              /\ pl[2] \in 0..Len(Toc[pl[1]].entries)
    BY <1>1, PlacesOfToc, TocTyped DEF ControlInv
  <2>3. \A pl \in TocPlaces : (pl[1] < at' \/ (pl[1] = at' /\ pl[2] < nth'))
                                <=> (pl[1] < at \/ (pl[1] = at /\ pl[2] < nth))
    BY <1>1, <1>2, <2>2
  <2> QED
    BY <1>2, <2>1, <2>3 DEF Visited
<1>4. /\ ParsedInv' /\ KeysInv' /\ SoundText' /\ SoundReferences' /\ SoundKeys'
      /\ problems' = {} => SoundFiles'
      /\ keyed' = {} /\ hub_keys' = Nothing /\ card_keys' = Nothing
  BY <1>1, NumberingFrame
<1>5. ControlInv'
  <2>1. at + 1 \in DOMAIN Toc => Len(Toc[at + 1].entries) \in Nat
    BY <1>1, TocTyped DEF ControlInv
  <2> QED
    BY <1>1, <1>2, <1>4, <2>1 DEF ControlInv
<1>6. ListedInv' /\ CardsInv' /\ NumbersInv'
  BY <1>1, <1>3, ListedFrame, CardsFrame DEF numbered
<1>7. ChaptersInv'
  <2>1. Len(chapters) = at
    BY <1>2 DEF ChaptersInv
  <2> QED
    BY <1>1, <1>2, <2>1, ChaptersFrame DEF numbered
<1>8. ASSUME problems' = {} PROVE SoundSummary'
  <2>1. SoundSummary
    BY <1>1, <1>8 DEF SoundInv
  <2>2. \A x \in Visited' : SoundPlace(x)'
    BY <1>1, <1>3, <2>1 DEF SoundSummary, SoundPlace, FileAt, parsed
  <2>3. DOMAIN chapters = 1..at
    BY <1>2 DEF ChaptersInv
  <2>4. \A c \in 1..at : EntriesDone(c)' = EntriesDone(c)
    BY <1>1, <1>2 DEF EntriesDone
  <2>5. Aligned => Aligned'
    BY <1>1, <1>2, <2>3, <2>4 DEF Aligned, parsed, numbered
  <2> QED
    BY <1>1, <2>1, <2>2, <2>5 DEF SoundSummary
<1> QED
  BY <1>4, <1>5, <1>6, <1>7, <1>8 DEF SoundInv

(* Nothing of the numbering changes from here on. *)
LEMMA NumberedFrame ==
  ASSUME Inv, stage \in {"number", "expand", "refer", "keys"},
         stage' \in {"expand", "refer", "keys", "done"}, stage = "number" => at \notin DOMAIN Toc,
         UNCHANGED <<book, at, nth, parsed, numbered>>
  PROVE  /\ Visited' = Visited /\ Toc' = Toc /\ at = Len(Toc) + 1 /\ nth = 0
         /\ ParsedInv' /\ ListedInv' /\ ChaptersInv' /\ CardsInv' /\ NumbersInv'
         /\ problems = {} => SoundFiles'
         /\ problems = {} /\ stage # "number" => SoundSummary'
<1> USE DEF Inv
<1>1. ~Reading /\ ~Reading' /\ stage # "summary" /\ stage' # "number"
  BY DEF Reading
<1>2. Visited' = Visited /\ PathsRead' = PathsRead /\ Toc' = Toc
  BY <1>1 DEF Visited, TocPlaces, PathsRead, Toc
<1>3. at = Len(Toc) + 1 /\ nth = 0
  BY <1>1, TocTyped DEF ControlInv
<1>4. ParsedInv' /\ ListedInv' /\ ChaptersInv' /\ CardsInv' /\ NumbersInv'
  <2>1. Len(chapters) = IF nth' = 0 THEN at' - 1 ELSE at'
    BY <1>1 DEF ChaptersInv
  <2> QED
    BY <1>2, <2>1, ParsedFrame, ListedFrame, ChaptersFrame, CardsFrame DEF numbered
<1>5. problems = {} => SoundFiles'
  BY <1>1, <1>2, FilesFrame DEF SoundInv
<1>6. problems = {} /\ stage # "number" => SoundSummary'
  BY <1>1, <1>2, SummaryFrame DEF SoundInv
<1> QED
  BY <1>2, <1>3, <1>4, <1>5, <1>6

(* After the last chapter every place has been visited. *)
LEMMA AllVisited ==
  ASSUME ControlInv, ~Reading, at = Len(Toc) + 1
  PROVE  Visited = TocPlaces
<1>1. \A pl \in TocPlaces : pl[1] \in 1..Len(Toc) /\ Len(Toc) \in Nat
  BY PlacesOfToc, TocTyped DEF ControlInv
<1> QED
  BY <1>1 DEF Visited

LEMMA CheckListedKeeps ==
  ASSUME Inv, CheckListed
  PROVE  Inv'
<1> USE DEF Inv
<1>1. /\ stage = "number" /\ stage' = "expand" /\ at \notin DOMAIN Toc /\ Reading' = Reading
      /\ UNCHANGED <<book, at, nth, parsed, numbered, prose, keys>> /\ ~Reading
      /\ problems' = problems \cup ListedAgain \cup Unlisted
  BY DEF CheckListed, Reading
<1>2. /\ Visited' = Visited /\ Toc' = Toc /\ at = Len(Toc) + 1 /\ nth = 0
      /\ ParsedInv' /\ ListedInv' /\ ChaptersInv' /\ CardsInv' /\ NumbersInv'
      /\ problems = {} => SoundFiles'
  BY <1>1, NumberedFrame
<1>3. keyed = {} /\ hub_keys = Nothing /\ card_keys = Nothing
  BY <1>1 DEF ControlInv
<1>4. ControlInv' /\ KeysInv'
  BY <1>1, <1>2, <1>3, KeysFrame DEF ControlInv, keys
<1>5. SoundText' /\ SoundReferences' /\ SoundKeys'
  BY <1>1, <1>3 DEF SoundText, SoundReferences, SoundKeys, keys
<1>6. ASSUME problems' = {} PROVE SoundSummary'
  <2>1. problems = {} /\ ListedAgain = {} /\ Unlisted = {}
    BY <1>1, <1>6
  <2>2. SoundSummary
    BY <2>1 DEF SoundInv
  <2>3. DOMAIN by_path \subseteq DOMAIN listed /\ \A p \in DOMAIN listed : ~(listed[p] > 1)
    BY <2>1 DEF ListedAgain, Unlisted
  <2> QED
    BY <1>1, <1>2, <2>2, <2>3
       DEF SoundSummary, SoundPlace, FileAt, Aligned, EntriesDone, parsed, numbered
<1> QED
  BY <1>1, <1>2, <1>4, <1>5, <1>6 DEF SoundInv

LEMMA ExpandKeeps ==
  ASSUME Inv, Expand
  PROVE  Inv'
<1> USE DEF Inv
<1>1. /\ stage = "expand" /\ stage' = "refer" /\ ~Reading /\ ~Reading'
      /\ UNCHANGED <<book, at, nth, parsed, numbered, keys>>
      /\ prose' = [id \in Pages |-> [m \in FileOf(id).mentions \cap Pages |-> Printed(m)]]
  BY DEF Expand, Reading
<1>2. /\ Toc' = Toc
      /\ ParsedInv' /\ ListedInv' /\ ChaptersInv' /\ CardsInv' /\ NumbersInv'
      /\ problems = {} => SoundFiles' /\ SoundSummary'
  BY <1>1, NumberedFrame
<1>3. keyed = {} /\ hub_keys = Nothing /\ card_keys = Nothing
  BY <1>1 DEF ControlInv
<1>4. ControlInv' /\ KeysInv'
  BY <1>1, <1>2, <1>3, KeysFrame DEF ControlInv, keys
<1>5. SoundReferences' /\ SoundKeys'
  BY <1>1, <1>3 DEF SoundReferences, SoundKeys, keys
<1>6. ASSUME problems' = {} PROVE problems = {} /\ SoundText'
  <2>1. problems = {} /\ {p \in Pages : FileOf(p).by_hand} = {}
          /\ (UNION {FileOf(id).mentions : id \in Pages}) \ Pages = {}
    BY <1>6 DEF Expand
  <2>2. \A id \in Pages : ~FileOf(id).by_hand /\ FileOf(id).mentions \subseteq Pages
    <3>1. \A id \in Pages : ~FileOf(id).by_hand
      BY <2>1, Zenon
    <3>2. \A id \in Pages : FileOf(id).mentions \subseteq Pages
      BY <2>1
    <3> QED
      BY <3>1, <3>2
  <2>3. Pages' = Pages /\ (\A id : FileOf(id)' = FileOf(id)) /\ (\A m : Printed(m)' = Printed(m))
    BY <1>1 DEF Pages, FileOf, Printed, NumberOf, parsed, numbered
  <2>4. \A id \in Pages : FileOf(id).mentions \cap Pages = FileOf(id).mentions
    BY <2>2
  <2>5. \A id \in Pages : prose'[id] = [m \in FileOf(id).mentions |-> Printed(m)]
    BY <1>1, <2>4
  <2> QED
    BY <1>1, <2>1, <2>2, <2>3, <2>5 DEF SoundText
<1> QED
  BY <1>2, <1>4, <1>5, <1>6 DEF SoundInv

LEMMA CheckReferencesKeeps ==
  ASSUME Inv, CheckReferences
  PROVE  Inv'
<1> USE DEF Inv
<1>1. /\ stage = "refer" /\ stage' = "keys" /\ ~Reading /\ ~Reading'
      /\ UNCHANGED <<book, at, nth, parsed, numbered, prose, keys>>
  BY DEF CheckReferences, Reading
<1>2. /\ Toc' = Toc
      /\ ParsedInv' /\ ListedInv' /\ ChaptersInv' /\ CardsInv' /\ NumbersInv'
      /\ problems = {} => SoundFiles' /\ SoundSummary'
  BY <1>1, NumberedFrame
<1>3. keyed = {} /\ hub_keys = Nothing /\ card_keys = Nothing
  BY <1>1 DEF ControlInv
<1>4. ControlInv' /\ KeysInv'
  BY <1>1, <1>2, <1>3, KeysFrame DEF ControlInv
<1>5. SoundKeys'
  BY <1>1, <1>3 DEF SoundKeys, keys
<1>6. ASSUME problems' = {} PROVE problems = {} /\ SoundText' /\ SoundReferences'
  <2>1. /\ problems = {} /\ {p \in Pages : Dangling(p) # {}} = {}
        /\ {p \in Pages : NoProbe(p) # {}} = {}
    BY <1>6 DEF CheckReferences
  <2>2. \A id \in Pages : Dangling(id) = {} /\ NoProbe(id) = {}
    BY <2>1
  <2>3. Pages' = Pages /\ (\A id : FileOf(id)' = FileOf(id)) /\ (\A m : Printed(m)' = Printed(m))
    BY <1>1 DEF Pages, FileOf, Printed, NumberOf, parsed, numbered
  <2>4. \A id : Dangling(id)' = Dangling(id) /\ NoProbe(id)' = NoProbe(id)
    BY <1>1, <2>3 DEF Dangling, NoProbe, parsed
  <2>5. SoundText
    BY <2>1 DEF SoundInv
  <2>6. SoundText'
    BY <1>1, <2>3, <2>5 DEF SoundText
  <2> QED
    BY <2>1, <2>2, <2>3, <2>4, <2>6 DEF SoundReferences
<1> QED
  BY <1>2, <1>4, <1>5, <1>6 DEF SoundInv

(* The keys of one kind of page: `known` before, and what id adds. *)
LEMMA AddKeysKeeps ==
  ASSUME NEW known, NEW ids, NEW id, KeysOfKind(known, ids)
  PROVE  KeysOfKind(AddKeys(known, id), ids \cup {id})
<1> DEFINE new == AddKeys(known, id)
<1>1. /\ DOMAIN new = DOMAIN known \cup (KeysOf(id) \ {EmptyWord})
      /\ \A k \in DOMAIN known : new[k] = known[k]
      /\ \A k \in (KeysOf(id) \ {EmptyWord}) \ DOMAIN known : new[k] = id
  BY DEF AddKeys
<1> HIDE DEF new
<1>2. \A k \in DOMAIN new : new[k] \in ids \cup {id} /\ k \in KeysOf(new[k]) \ {EmptyWord}
  BY <1>1 DEF KeysOfKind
<1>3. \A x \in ids \cup {id} : KeysOf(x) \ {EmptyWord} \subseteq DOMAIN new
  BY <1>1 DEF KeysOfKind
<1> QED
  BY <1>2, <1>3 DEF KeysOfKind, new

(* Without a problem, the keys of the page are its own and those before it *)
(* are kept.                                                               *)
LEMMA AddKeysSound ==
  ASSUME NEW known, NEW id, BadKeys(KeysOf(id), known, id) = {}
  PROVE  /\ \A k \in KeysOf(id) : SoundKey(k) /\ AddKeys(known, id)[k] = id
         /\ \A k \in DOMAIN known : AddKeys(known, id)[k] = known[k]
<1>1. /\ KeysOf(id) \cap {EmptyWord} = {}
      /\ {w \in KeysOf(id) : w.number = <<>> /\ w.text \in RESERVED} = {}
      /\ {w \in KeysOf(id) : w.number # <<>>} = {}
      /\ {w \in KeysOf(id) \cap DOMAIN known : known[w] # id} = {}
  BY DEF BadKeys
<1>2. \A k \in KeysOf(id) : SoundKey(k)
  BY <1>1 DEF SoundKey
<1>3. \A k \in KeysOf(id) : AddKeys(known, id)[k] = id
  BY <1>1 DEF AddKeys
<1>4. \A k \in DOMAIN known : AddKeys(known, id)[k] = known[k]
  BY DEF AddKeys
<1> QED
  BY <1>2, <1>3, <1>4

LEMMA HubKeysKeeps ==
  ASSUME Inv, NEW id \in DOMAIN hubs, HubKeys(id)
  PROVE  Inv'
<1> USE DEF Inv
<1>1. /\ stage = "keys" /\ stage' = "keys" /\ ~Reading /\ ~Reading'
      /\ UNCHANGED <<book, at, nth, parsed, numbered, prose, card_keys>>
      /\ problems' = problems \cup BadKeys(KeysOf(id), hub_keys, id)
      /\ hub_keys' = AddKeys(hub_keys, id) /\ keyed' = keyed \cup {id} /\ id \notin keyed
  BY DEF HubKeys, Reading
<1>2. /\ Toc' = Toc
      /\ ParsedInv' /\ ListedInv' /\ ChaptersInv' /\ CardsInv' /\ NumbersInv'
      /\ problems = {} => SoundFiles' /\ SoundSummary'
  BY <1>1, NumberedFrame
<1>3. /\ Pages' = Pages /\ \A x : KeysOf(x)' = KeysOf(x)
      /\ hubs' = hubs /\ cards' = cards
  BY <1>1 DEF Pages, KeysOf, FileOf, parsed
<1>4. /\ (keyed \cap DOMAIN hubs)' = (keyed \cap DOMAIN hubs) \cup {id}
      /\ (keyed \cap DOMAIN cards)' = keyed \cap DOMAIN cards
  BY <1>1, <1>3 DEF ParsedInv
<1>5. ControlInv'
  BY <1>1, <1>2 DEF ControlInv
<1>6. KeysInv'
  <2>1. KeysOfKind(hub_keys', (keyed \cap DOMAIN hubs)')
    BY <1>1, <1>4, AddKeysKeeps DEF KeysInv
  <2>2. KeysOfKind(hub_keys, keyed \cap DOMAIN hubs)'
    BY <1>3, <2>1 DEF KeysOfKind
  <2>3. KeysOfKind(card_keys, keyed \cap DOMAIN cards)'
    BY <1>1, <1>3, <1>4 DEF KeysInv, KeysOfKind
  <2> QED
    BY <1>1, <1>3, <2>2, <2>3 DEF KeysInv, Pages
<1>7. ASSUME problems' = {} PROVE problems = {} /\ SoundText' /\ SoundReferences' /\ SoundKeys'
  <2>1. problems = {} /\ BadKeys(KeysOf(id), hub_keys, id) = {}
    BY <1>1, <1>7
  <2>2. SoundText' /\ SoundReferences'
    BY <1>1, <2>1, TextFrame DEF SoundInv, numbered
  <2>3. /\ \A k \in KeysOf(id) : SoundKey(k) /\ hub_keys'[k] = id
        /\ \A k \in DOMAIN hub_keys : hub_keys'[k] = hub_keys[k]
    BY <1>1, <2>1, AddKeysSound
  <2>4. \A x \in keyed \cap DOMAIN hubs :
          \A k \in KeysOf(x) : SoundKey(k) /\ k \in DOMAIN hub_keys /\ hub_keys[k] = x
    BY <2>1 DEF SoundInv, SoundKeys, KeysInv, KeysOfKind, SoundKey
  <2>5. SoundKeys
    BY <2>1 DEF SoundInv
  <2>6. SoundKeys'
    BY <1>1, <1>3, <1>4, <2>3, <2>4, <2>5 DEF SoundKeys, SoundKey
  <2> QED
    BY <2>1, <2>2, <2>6
<1> QED
  BY <1>2, <1>5, <1>6, <1>7 DEF SoundInv

LEMMA CardKeysKeeps ==
  ASSUME Inv, NEW id \in DOMAIN cards, CardKeys(id)
  PROVE  Inv'
<1> USE DEF Inv
<1>1. /\ stage = "keys" /\ stage' = "keys" /\ ~Reading /\ ~Reading'
      /\ UNCHANGED <<book, at, nth, parsed, numbered, prose, hub_keys>>
      /\ problems' = problems \cup BadKeys(KeysOf(id), card_keys, id)
      /\ card_keys' = AddKeys(card_keys, id) /\ keyed' = keyed \cup {id} /\ id \notin keyed
  BY DEF CardKeys, Reading
<1>2. /\ Toc' = Toc
      /\ ParsedInv' /\ ListedInv' /\ ChaptersInv' /\ CardsInv' /\ NumbersInv'
      /\ problems = {} => SoundFiles' /\ SoundSummary'
  BY <1>1, NumberedFrame
<1>3. /\ Pages' = Pages /\ \A x : KeysOf(x)' = KeysOf(x)
      /\ hubs' = hubs /\ cards' = cards
  BY <1>1 DEF Pages, KeysOf, FileOf, parsed
<1>4. /\ (keyed \cap DOMAIN cards)' = (keyed \cap DOMAIN cards) \cup {id}
      /\ (keyed \cap DOMAIN hubs)' = keyed \cap DOMAIN hubs
  BY <1>1, <1>3 DEF ParsedInv
<1>5. ControlInv'
  BY <1>1, <1>2 DEF ControlInv
<1>6. KeysInv'
  <2>1. KeysOfKind(card_keys', (keyed \cap DOMAIN cards)')
    BY <1>1, <1>4, AddKeysKeeps DEF KeysInv
  <2>2. KeysOfKind(card_keys, keyed \cap DOMAIN cards)'
    BY <1>3, <2>1 DEF KeysOfKind
  <2>3. KeysOfKind(hub_keys, keyed \cap DOMAIN hubs)'
    BY <1>1, <1>3, <1>4 DEF KeysInv, KeysOfKind
  <2> QED
    BY <1>1, <1>3, <2>2, <2>3 DEF KeysInv, Pages
<1>7. ASSUME problems' = {} PROVE problems = {} /\ SoundText' /\ SoundReferences' /\ SoundKeys'
  <2>1. problems = {} /\ BadKeys(KeysOf(id), card_keys, id) = {}
    BY <1>1, <1>7
  <2>2. SoundText' /\ SoundReferences'
    BY <1>1, <2>1, TextFrame DEF SoundInv, numbered
  <2>3. /\ \A k \in KeysOf(id) : SoundKey(k) /\ card_keys'[k] = id
        /\ \A k \in DOMAIN card_keys : card_keys'[k] = card_keys[k]
    BY <1>1, <2>1, AddKeysSound
  <2>4. \A x \in keyed \cap DOMAIN cards :
          \A k \in KeysOf(x) : SoundKey(k) /\ k \in DOMAIN card_keys /\ card_keys[k] = x
    BY <2>1 DEF SoundInv, SoundKeys, KeysInv, KeysOfKind, SoundKey
  <2>5. SoundKeys
    BY <2>1 DEF SoundInv
  <2>6. SoundKeys'
    BY <1>1, <1>3, <1>4, <2>3, <2>4, <2>5 DEF SoundKeys, SoundKey
  <2> QED
    BY <2>1, <2>2, <2>6
<1> QED
  BY <1>2, <1>5, <1>6, <1>7 DEF SoundInv

LEMMA FinishKeeps ==
  ASSUME Inv, Finish
  PROVE  Inv'
<1> USE DEF Inv
<1>1. /\ stage = "keys" /\ stage' = "done" /\ ~Reading /\ ~Reading' /\ keyed = Pages
      /\ UNCHANGED <<book, at, nth, problems, parsed, numbered, prose, keys>>
  BY DEF Finish, Reading
<1>2. /\ Toc' = Toc
      /\ ParsedInv' /\ ListedInv' /\ ChaptersInv' /\ CardsInv' /\ NumbersInv'
      /\ problems = {} => SoundFiles' /\ SoundSummary'
  BY <1>1, NumberedFrame
<1>3. ControlInv' /\ KeysInv'
  BY <1>1, <1>2, KeysFrame DEF ControlInv, keys, Pages, parsed
<1>4. ASSUME problems = {} PROVE SoundText' /\ SoundReferences' /\ SoundKeys'
  <2>1. /\ Pages' = Pages /\ (\A id : FileOf(id)' = FileOf(id))
        /\ (\A m : Printed(m)' = Printed(m))
    BY <1>1 DEF Pages, FileOf, Printed, NumberOf, parsed, numbered
  <2>2. \A id : Dangling(id)' = Dangling(id) /\ NoProbe(id)' = NoProbe(id)
    BY <1>1, <2>1 DEF Dangling, NoProbe, parsed
  <2>3. SoundText /\ SoundReferences /\ SoundKeys
    BY <1>4 DEF SoundInv
  <2> QED
    BY <1>1, <2>1, <2>2, <2>3, SoundKeysFrame DEF SoundText, SoundReferences
<1> QED
  BY <1>1, <1>2, <1>3, <1>4 DEF SoundInv

LEMMA NextInv == Inv /\ [Next]_vars => Inv'
<1> SUFFICES ASSUME Inv, [Next]_vars PROVE Inv'
  OBVIOUS
<1>1. CASE UNCHANGED vars
  <2> USE DEF Inv
  <2>1. UNCHANGED <<book, stage, at, nth, problems, parsed, numbered, prose, keys>>
    BY <1>1 DEF vars
  <2>2. /\ UNCHANGED <<Reading, Toc, PathsRead, Visited, Pages>>
        /\ \A id : UNCHANGED FileOf(id)
    BY <2>1 DEF Reading, Toc, PathsRead, Visited, TocPlaces, Pages, FileOf, parsed
  <2>3. ControlInv'
    BY <2>1, <2>2 DEF ControlInv, parsed, numbered, keys
  <2>4. ParsedInv' /\ ListedInv' /\ ChaptersInv' /\ CardsInv' /\ NumbersInv' /\ KeysInv'
    <3>1. ~Reading' => Len(chapters) = IF nth' = 0 THEN at' - 1 ELSE at'
      BY <2>1, <2>2 DEF ChaptersInv
    <3> QED
      BY <2>1, <2>2, <3>1, ParsedFrame, ListedFrame, ChaptersFrame, CardsFrame, KeysFrame
         DEF numbered
  <2>5. ASSUME problems = {}
        PROVE  SoundFiles' /\ SoundSummary' /\ SoundText' /\ SoundReferences' /\ SoundKeys'
    <3>1. SoundFiles'
      BY <2>1, <2>2, <2>5 DEF SoundInv, SoundFiles, parsed
    <3> QED
      BY <2>1, <2>2, <2>5, <3>1, SummaryFrame, TextFrame, SoundKeysFrame DEF SoundInv, numbered
  <2> QED
    BY <2>1, <2>3, <2>4, <2>5 DEF SoundInv
<1> QED
  BY <1>1, ReadSummaryKeeps, ParseFileKeeps, AllParsedKeeps, ChapterPageKeeps, ChapterEntryKeeps,
     ChapterEndKeeps, CheckListedKeeps, ExpandKeeps, CheckReferencesKeeps, HubKeysKeeps,
     CardKeysKeeps, FinishKeeps DEF Next

THEOREM Invariance == Spec => []Inv
<1> QED
  BY InitInv, NextInv, PTL DEF Spec

-----------------------------------------------------------------------------
(***************************************************************************)
(* What follows of a library that loaded.                                  *)
(***************************************************************************)

(* Every variable has its type; an id names one page, a hub or a card, and *)
(* the file it was read from is the one by_path remembers for it, for every *)
(* set of files (library.rs:100-139).                                      *)
THEOREM TypeCorrect == Spec => []TypeOK
<1>1. Inv => TypeOK
  <2> SUFFICES ASSUME Inv PROVE TypeOK
    OBVIOUS
  <2>1. /\ stage \in {"summary", "parse", "number", "expand", "refer", "keys", "done"}
        /\ at \in Nat /\ nth \in Nat
    BY DEF Inv, ControlInv
  <2>2. /\ DOMAIN hubs \cap DOMAIN cards = {}
        /\ \A id \in DOMAIN hubs : by_path[hubs[id]] = id
        /\ \A id \in DOMAIN cards : by_path[cards[id]] = id
        /\ \A p \in DOMAIN by_path : by_path[p] \in Pages
    BY DEF Inv, ParsedInv, Pages
  <2>3. DOMAIN number \subseteq DOMAIN cards
    BY DEF Inv, NumbersInv, CardPlaces, IsCard
  <2>4. \A c \in DOMAIN chapters : chapters[c].hub \in DOMAIN hubs \cup {EmptyWord}
    <3>1. \A c \in DOMAIN chapters : chapters[c] \in ChapterRecord
      BY DEF Inv, ChaptersInv
    <3> QED
      BY <3>1 DEF ChapterRecord
  <2>5. /\ DOMAIN chapter \subseteq DOMAIN hubs
        /\ \A p \in DOMAIN listed : listed[p] \in Nat \ {0}
    BY DEF Inv, ChaptersInv, ListedInv
  <2>6. /\ keyed \subseteq Pages
        /\ \A k \in DOMAIN hub_keys : hub_keys[k] \in DOMAIN hubs
        /\ \A k \in DOMAIN card_keys : card_keys[k] \in DOMAIN cards
    BY DEF Inv, KeysInv, KeysOfKind
  <2> QED
    BY <2>1, <2>2, <2>3, <2>4, <2>5, <2>6 DEF TypeOK
<1> QED
  BY <1>1, Invariance, PTL

(* Every place has been compared, every file is a page, and no page is at  *)
(* two places.                                                             *)
LEMMA LoadedSummary ==
  ASSUME Inv, Loaded
  PROVE  /\ book.summary = "read" /\ Toc = book.toc /\ TocPlaces = Places(book)
         /\ Visited = TocPlaces /\ at = Len(Toc) + 1 /\ nth = 0 /\ ~Reading
         /\ DOMAIN by_path = DOMAIN book.files
         /\ \A p \in DOMAIN by_path : \E pl \in TocPlaces : FileAt(pl) = p
         /\ \A x, y \in TocPlaces : FileAt(x) = FileAt(y) => x = y
         /\ \A pl \in TocPlaces : SoundPlace(pl)
<1> USE DEF Inv
<1>1. stage = "done" /\ problems = {} /\ ~Reading
  BY DEF Loaded, Reading
<1>2. SoundFiles /\ SoundSummary
  BY <1>1 DEF SoundInv
<1>3. book.summary = "read" /\ Toc = book.toc /\ TocPlaces = Places(book)
  BY <1>1, <1>2 DEF SoundFiles, TocPlaces, Toc
<1>4. at = Len(Toc) + 1 /\ nth = 0
  BY <1>1 DEF ControlInv
<1>5. Visited = TocPlaces
  BY <1>1, <1>4, AllVisited
<1>6. DOMAIN by_path = DOMAIN book.files
  <2>1. DOMAIN book.files \subseteq PathsRead
    BY <1>1, LibraryAssumption DEF PathsRead, ControlInv
  <2> QED
    BY <1>2, <2>1 DEF SoundFiles, ParsedInv
<1>7. DOMAIN by_path \subseteq DOMAIN listed /\ \A p \in DOMAIN listed : ~(listed[p] > 1)
  BY <1>1, <1>2 DEF SoundSummary
<1>8. \A p \in DOMAIN by_path : \E pl \in TocPlaces : FileAt(pl) = p
  BY <1>5, <1>7 DEF ListedInv
<1>9. \A x, y \in TocPlaces : FileAt(x) = FileAt(y) => x = y
  BY <1>5, <1>7 DEF ListedInv
<1>10. \A pl \in TocPlaces : SoundPlace(pl)
  BY <1>2, <1>5 DEF SoundSummary
<1> QED
  BY <1>1, <1>3, <1>4, <1>5, <1>6, <1>8, <1>9, <1>10

(* The place of a page: that of a chapter, or of an entry. *)
LEMMA PlaceOfPage ==
  ASSUME Inv, Loaded
  PROVE  /\ \A id \in DOMAIN hubs :
              \E c \in DOMAIN Toc : /\ <<c, 0>> \in TocPlaces /\ Toc[c].file # NoFile
                                    /\ Toc[c].file = hubs[id] /\ IsHub(Toc[c].file)
         /\ \A id \in DOMAIN cards :
              \E pl \in CardPlaces : by_path[FileAt(pl)] = id
<1> USE DEF Inv
<1>1. \A id \in Pages : LET p == IF id \in DOMAIN hubs THEN hubs[id] ELSE cards[id]
                        IN  p \in DOMAIN by_path /\ by_path[p] = id /\ p # SUMMARY
  <2>1. \A p \in DOMAIN by_path : p # SUMMARY
    <3>1. SUMMARY \notin DOMAIN book.files
      BY LibraryAssumption DEF ControlInv
    <3> QED
      BY <3>1, LoadedSummary
  <2> QED
    BY <2>1 DEF ParsedInv, Pages
<1>2. ASSUME NEW id \in DOMAIN hubs
      PROVE  \E c \in DOMAIN Toc : /\ <<c, 0>> \in TocPlaces /\ Toc[c].file # NoFile
                                   /\ Toc[c].file = hubs[id] /\ IsHub(Toc[c].file)
  <2>1. hubs[id] \in DOMAIN by_path /\ hubs[id] # SUMMARY /\ IsHub(hubs[id])
    BY <1>1 DEF Pages, IsHub
  <2>2. PICK pl \in TocPlaces : FileAt(pl) = hubs[id]
    BY <2>1, LoadedSummary
  <2>3. SoundPlace(pl) /\ pl = <<pl[1], pl[2]>>
    BY LoadedSummary, PlacesOfToc DEF ControlInv
  <2>4. pl[2] = 0
    BY <2>1, <2>2, <2>3, KindsOfPages DEF SoundPlace
  <2>5. pl[1] \in DOMAIN Toc /\ Toc[pl[1]].file # NoFile /\ Toc[pl[1]].file = hubs[id]
    BY <2>2, <2>3, <2>4, PlacesOfToc, FilesOfToc DEF ControlInv
  <2> QED
    BY <2>1, <2>3, <2>4, <2>5
<1>3. ASSUME NEW id \in DOMAIN cards
      PROVE  \E pl \in CardPlaces : by_path[FileAt(pl)] = id
  <2>1. /\ cards[id] \in DOMAIN by_path /\ cards[id] # SUMMARY /\ IsCard(cards[id])
        /\ by_path[cards[id]] = id
    BY <1>1 DEF Pages, IsCard, ParsedInv
  <2>2. PICK pl \in TocPlaces : FileAt(pl) = cards[id]
    BY <2>1, LoadedSummary
  <2>3. SoundPlace(pl) /\ pl \in Visited
    BY LoadedSummary
  <2>4. pl[2] # 0
    BY <2>1, <2>2, <2>3, KindsOfPages DEF SoundPlace
  <2> QED
    BY <2>1, <2>2, <2>3, <2>4 DEF CardPlaces
<1> QED
  BY <1>2, <1>3

(* The keys of a page are not empty, no number, and its own. *)
LEMMA LoadedKeys ==
  ASSUME Inv, Loaded
  PROVE  /\ \A id \in DOMAIN hubs : \A k \in KeysOf(id) :
              SoundKey(k) /\ k \in DOMAIN hub_keys /\ hub_keys[k] = id
         /\ \A id \in DOMAIN cards : \A k \in KeysOf(id) :
              SoundKey(k) /\ k \in DOMAIN card_keys /\ card_keys[k] = id
         /\ \A k \in DOMAIN hub_keys : hub_keys[k] \in DOMAIN hubs /\ SoundKey(k)
         /\ \A k \in DOMAIN card_keys : card_keys[k] \in DOMAIN cards /\ SoundKey(k)
<1> USE DEF Inv
<1>1. keyed = Pages /\ SoundKeys
  BY DEF Loaded, ControlInv, SoundInv
<1>2. keyed \cap DOMAIN hubs = DOMAIN hubs /\ keyed \cap DOMAIN cards = DOMAIN cards
  BY <1>1 DEF Pages
<1>3. /\ \A id \in DOMAIN hubs : \A k \in KeysOf(id) :
           SoundKey(k) /\ k \in DOMAIN hub_keys /\ hub_keys[k] = id
      /\ \A id \in DOMAIN cards : \A k \in KeysOf(id) :
           SoundKey(k) /\ k \in DOMAIN card_keys /\ card_keys[k] = id
  BY <1>1, <1>2 DEF SoundKeys, KeysInv, KeysOfKind, SoundKey
<1>4. /\ \A k \in DOMAIN hub_keys : hub_keys[k] \in DOMAIN hubs /\ k \in KeysOf(hub_keys[k])
      /\ \A k \in DOMAIN card_keys : card_keys[k] \in DOMAIN cards /\ k \in KeysOf(card_keys[k])
  BY <1>2 DEF KeysInv, KeysOfKind
<1> QED
  BY <1>3, <1>4

LEMMA NormalizeRecord ==
  ASSUME NEW t, NEW n
  PROVE  Normalize([text |-> t, number |-> n]) = [text |-> LowerCase[t], number |-> n]
BY DEF Normalize

(* No page has the empty word as its id. *)
LEMMA IdsNotEmpty ==
  ASSUME Inv, Loaded
  PROVE  EmptyWord \notin Pages
<1>1. Normalize(EmptyWord) = EmptyWord
  <2>1. LowerCase[""] = ""
    BY LibraryAssumption
  <2> QED
    BY <2>1, NormalizeRecord DEF EmptyWord, Word
<1>2. \A id : Normalize(id) \in KeysOf(id)
  BY DEF KeysOf
<1> QED
  BY <1>1, <1>2, LoadedKeys DEF Pages, SoundKey

(* An id or alias opens its page; the only page that may take it over is a *)
(* hub, and then the card is offered next to it, for every content         *)
(* (resolve.rs:64-107, library.rs:271-280).                                *)
THEOREM KeysCorrect == Spec => []KeysOpen
<1>1. Inv => KeysOpen
  <2> SUFFICES ASSUME Inv, Loaded, NEW id \in Pages, NEW w \in {id} \cup FileOf(id).aliases
               PROVE  \/ Resolve(w).target = id
                      \/ /\ id \in DOMAIN cards
                         /\ Resolve(w).target \in DOMAIN hubs
                         /\ Resolve(w).also_card = id
    BY DEF KeysOpen
  <2>1. Normalize(w) \in KeysOf(id)
    BY DEF KeysOf
  <2>2. CASE id \in DOMAIN hubs
    BY <2>1, <2>2, LoadedKeys DEF Resolve, Exact
  <2>3. CASE id \in DOMAIN cards /\ Normalize(w) \in DOMAIN hub_keys
    BY <2>1, <2>3, LoadedKeys DEF Resolve, Exact
  <2>4. CASE id \in DOMAIN cards /\ Normalize(w) \notin DOMAIN hub_keys
    BY <2>1, <2>4, LoadedKeys DEF Resolve, Exact
  <2> QED
    BY <2>2, <2>3, <2>4 DEF Pages
<1> QED
  BY <1>1, Invariance, PTL

(* The number of a card is the position of its id in its chapter. *)
LEMMA NumberIsPosition ==
  ASSUME Inv, Loaded, ~ListsItself(book), NEW id \in DOMAIN cards
  PROVE  \E c, n : /\ NumberOf(id) = <<c, n>>
                   /\ c \in DOMAIN chapters /\ n \in DOMAIN chapters[c].cards
                   /\ chapters[c].cards[n] = id
<1> USE DEF Inv
<1>1. PICK pl \in CardPlaces : number[id] = pl /\ by_path[FileAt(pl)] = id /\ id \in DOMAIN number
  <2>1. id \in DOMAIN number
    BY PlaceOfPage DEF NumbersInv
  <2> QED
    BY <2>1 DEF NumbersInv
<1> DEFINE c == pl[1]
           n == pl[2]
<1>2. pl = <<c, n>> /\ pl \in TocPlaces /\ n # 0
  BY VisitedIs DEF CardPlaces
<1>3. c \in DOMAIN Toc /\ n \in 1..Len(Toc[c].entries) /\ FileAt(pl) = Toc[c].entries[n].file
  BY <1>2, PlacesOfToc, FilesOfToc, TocTyped DEF ControlInv
<1>4. DOMAIN chapters = DOMAIN Toc /\ c < at
  BY <1>3, LoadedSummary, TocTyped DEF ChaptersInv, ControlInv
<1>5. Aligned
  BY LoadedSummary DEF SoundInv, SoundSummary, Loaded
<1>6. /\ Len(chapters[c].cards) = Len(Toc[c].entries)
      /\ chapters[c].cards[n] = by_path[Toc[c].entries[n].file]
  BY <1>3, <1>4, <1>5 DEF Aligned, EntriesDone
<1>7. n \in DOMAIN chapters[c].cards
  <2>1. chapters[c] \in ChapterRecord
    BY <1>3, <1>4 DEF ChaptersInv
  <2> QED
    BY <1>3, <1>6, <2>1 DEF ChapterRecord
<1> QED
  BY <1>1, <1>2, <1>3, <1>4, <1>6, <1>7 DEF NumberOf

LEMMA HandleOpens ==
  ASSUME Inv, Loaded, ~ListsItself(book), NEW id \in Pages
  PROVE  Resolve(Handle(id)).target = id
<1>1. CASE id \in DOMAIN hubs
  <2>1. Normalize(id) \in KeysOf(id)
    BY DEF KeysOf
  <2> QED
    BY <1>1, <2>1, LoadedKeys DEF Handle, Resolve, Exact
<1>2. CASE id \in DOMAIN cards
  <2>1. PICK c, n : /\ NumberOf(id) = <<c, n>>
                    /\ c \in DOMAIN chapters /\ n \in DOMAIN chapters[c].cards
                    /\ chapters[c].cards[n] = id
    BY <1>2, NumberIsPosition
  <2> DEFINE w == Numeral(<<c, n>>)
  <2>2. Handle(id) = w
    BY <1>2, <2>1 DEF Handle, Inv, ParsedInv
  <2>3. Normalize(w).number = <<c, n>> /\ w.number = <<c, n>>
    <3>1. w = [text |-> "", number |-> <<c, n>>]
      BY DEF Numeral
    <3>2. Normalize(w) = [text |-> LowerCase[""], number |-> <<c, n>>]
      BY <3>1, NormalizeRecord
    <3> DEFINE r(t) == [text |-> t, number |-> <<c, n>>]
    <3>3. \A t : r(t).number = <<c, n>>
      OBVIOUS
    <3> QED
      BY <3>1, <3>2, <3>3, Zenon
  <2>4. Normalize(w) \notin DOMAIN hub_keys /\ Normalize(w) \notin DOMAIN card_keys
    BY <2>3, LoadedKeys DEF SoundKey
  <2>5. CardByNumber(w.number) = id
    BY <2>1, <2>3 DEF CardByNumber
  <2>6. Len(w.number) = 2
    BY <2>3
  <2> HIDE DEF w
  <2>7. Resolve(w).target = CardByNumber(w.number)
    BY <2>4, <2>6 DEF Resolve, Exact
  <2> QED
    BY <2>2, <2>5, <2>7
<1> QED
  BY <1>1, <1>2 DEF Pages

(* Typing the handle of a page, as every link does, opens that page and no *)
(* other, in any library that loads, whatever its files and its SUMMARY.md *)
(* (resolve.rs, `handle`).                                                 *)
THEOREM HandlesCorrect == Spec => []HandlesOpen
<1>1. Inv => HandlesOpen
  BY HandleOpens DEF HandlesOpen
<1> QED
  BY <1>1, Invariance, PTL

(* Whatever a text refers to opens: the number or the hub that a mention   *)
(* is replaced with, and every page listed as related, for every content   *)
(* (library.rs:200-269).                                                   *)
THEOREM ReferencesCorrect == Spec => []ReferencesOpen
<1>1. Inv => ReferencesOpen
  <2> SUFFICES ASSUME Inv, Loaded, ~ListsItself(book), NEW id \in Pages
               PROVE  /\ \A m \in FileOf(id).mentions : Resolve(prose[id][m]).target = m
                      /\ \A r \in FileOf(id).hubs \cup FileOf(id).see_also \cup FileOf(id).cards :
                           r \in Pages /\ Resolve(Handle(r)).target = r
    BY DEF ReferencesOpen
  <2>1. SoundText /\ SoundReferences /\ stage = "done"
    BY DEF Inv, SoundInv, Loaded
  <2>2. ASSUME NEW m \in FileOf(id).mentions
        PROVE  Resolve(prose[id][m]).target = m
    <3>1. m \in Pages /\ prose[id][m] = Printed(m)
      BY <2>1 DEF SoundText
    <3>2. Printed(m) = Handle(m)
      BY <3>1 DEF Printed, Handle, Pages, Inv, ParsedInv
    <3> QED
      BY <3>1, <3>2, HandleOpens
  <2>3. FileOf(id).hubs \cup FileOf(id).see_also \cup FileOf(id).cards \subseteq Pages
    <3>1. Dangling(id) = {}
      BY <2>1 DEF SoundReferences
    <3>2. CASE id \in DOMAIN cards
      <4>1. FileOf(id) = book.files[cards[id]] /\ cards[id] \in DOMAIN book.files
              /\ book.files[cards[id]].kind = "card"
        BY <3>2 DEF FileOf, Inv, ParsedInv
      <4>2. FileOf(id).cards = {}
        BY <4>1, LibraryAssumption DEF Inv, ControlInv, FieldsOfItsKind
      <4> QED
        BY <3>1, <3>2, <4>2 DEF Dangling, Pages
    <3>3. CASE id \in DOMAIN hubs
      <4>1. /\ FileOf(id) = book.files[hubs[id]] /\ hubs[id] \in DOMAIN book.files
            /\ book.files[hubs[id]].kind = "hub" /\ id \notin DOMAIN cards
        BY <3>3 DEF FileOf, Inv, ParsedInv
      <4>2. FileOf(id).hubs = {} /\ FileOf(id).see_also = {}
        BY <4>1, LibraryAssumption DEF Inv, ControlInv, FieldsOfItsKind
      <4> QED
        BY <3>1, <4>1, <4>2 DEF Dangling, Pages
    <3> QED
      BY <3>2, <3>3 DEF Pages
  <2> QED
    BY <2>2, <2>3, HandleOpens
<1> QED
  BY <1>1, Invariance, PTL

(* Every page is in the contents once, in every library that loads: hubs() *)
(* and cards() meet each page that was parsed, none twice, even where      *)
(* SUMMARY.md lists itself (library.rs:308-322).                           *)
THEOREM ContentsCorrect == Spec => []EachPageOnce
<1>1. Inv => EachPageOnce
  <2> USE DEF Inv
  <2> SUFFICES ASSUME Inv, Loaded
               PROVE  /\ \A id \in DOMAIN hubs :
                           \E c \in DOMAIN chapters :
                             \A d \in DOMAIN chapters : chapters[d].hub = id <=> d = c
                      /\ \A id \in DOMAIN cards :
                           \E c \in DOMAIN chapters : \E n \in DOMAIN chapters[c].cards :
                             \A d \in DOMAIN chapters : \A m \in DOMAIN chapters[d].cards :
                               chapters[d].cards[m] = id <=> d = c /\ m = n
    BY DEF EachPageOnce
  <2>1. DOMAIN chapters = DOMAIN Toc
    BY LoadedSummary, TocTyped DEF ChaptersInv, ControlInv
  <2>2. ASSUME NEW id \in DOMAIN hubs
        PROVE  \E c \in DOMAIN chapters :
                 \A d \in DOMAIN chapters : chapters[d].hub = id <=> d = c
    <3>1. PICK c \in DOMAIN Toc : /\ <<c, 0>> \in TocPlaces /\ Toc[c].file # NoFile
                                  /\ Toc[c].file = hubs[id] /\ IsHub(Toc[c].file)
      BY PlaceOfPage
    <3>2. chapters[c].hub = id
      BY <2>1, <3>1 DEF ChaptersInv, ParsedInv
    <3>3. ASSUME NEW d \in DOMAIN chapters, chapters[d].hub = id PROVE d = c
      <4>1. id # EmptyWord
        BY IdsNotEmpty DEF Pages
      <4>2. /\ Toc[d].file # NoFile /\ IsHub(Toc[d].file) /\ by_path[Toc[d].file] = id
        BY <3>3, <4>1 DEF ChaptersInv
      <4>3. Toc[d].file = hubs[id]
        BY <4>2, KindsOfPages DEF IsHub, ParsedInv
      <4>4. d \in DOMAIN Toc /\ Len(Toc[d].entries) \in Nat
        BY <2>1, TocTyped DEF ControlInv
      <4>5. <<d, 0>> \in TocPlaces
        BY <4>2, <4>4, PlacesOfToc DEF ControlInv
      <4>6. FileAt(<<d, 0>>) = FileAt(<<c, 0>>)
        BY <3>1, <4>3, <4>5, FilesOfToc DEF ControlInv
      <4>7. <<d, 0>> = <<c, 0>>
        BY <3>1, <4>5, <4>6, LoadedSummary
      <4> QED
        BY <4>7
    <3> QED
      BY <2>1, <3>2, <3>3
  <2>3. ASSUME NEW id \in DOMAIN cards
        PROVE  \E c \in DOMAIN chapters : \E n \in DOMAIN chapters[c].cards :
                 \A d \in DOMAIN chapters : \A m \in DOMAIN chapters[d].cards :
                   chapters[d].cards[m] = id <=> d = c /\ m = n
    <3>1. PICK pl \in CardPlaces : by_path[FileAt(pl)] = id
      BY PlaceOfPage
    <3>2. pl[1] \in DOMAIN chapters
      BY <2>1, VisitedIs, PlacesOfToc DEF CardPlaces, ControlInv
    <3>3. PICK n \in DOMAIN chapters[pl[1]].cards : chapters[pl[1]].cards[n] = id
      BY <3>1 DEF CardsInv
    <3>4. ~ \E x, y \in Visited : x # y /\ FileAt(x) = FileAt(y)
      BY LoadedSummary
    <3>5. ASSUME NEW d \in DOMAIN chapters, NEW m \in DOMAIN chapters[d].cards,
                 chapters[d].cards[m] = id
          PROVE  d = pl[1] /\ m = n
      <4>1. <<d, m>> = <<pl[1], n>>
        BY <3>2, <3>3, <3>4, <3>5 DEF CardsInv
      <4> QED
        BY <4>1
    <3> QED
      BY <3>2, <3>3, <3>5
  <2> QED
    BY <2>2, <2>3
<1> QED
  BY <1>1, Invariance, PTL

-----------------------------------------------------------------------------
(***************************************************************************)
(* The loading accepts exactly the valid books.                            *)
(***************************************************************************)

(* The words of a file are the keys of its page. *)
LEMMA KeysAreWords ==
  ASSUME Inv, NEW p \in DOMAIN by_path
  PROVE  /\ FileOf(by_path[p]) = book.files[p]
         /\ KeysOf(by_path[p]) = WordsOf(book.files[p])
<1>1. FileOf(by_path[p]) = book.files[p]
  BY DEF Inv, ParsedInv, FileOf
<1> QED
  BY <1>1 DEF Inv, ParsedInv, KeysOf, WordsOf

(* The ids of the files are the pages, when every file is one. *)
LEMMA IdsArePages ==
  ASSUME Inv, DOMAIN by_path = DOMAIN book.files
  PROVE  /\ IdsOf(book, {"hub"}) = DOMAIN hubs
         /\ IdsOf(book, {"card"}) = DOMAIN cards
         /\ IdsOf(book, {"hub", "card"}) = Pages
         /\ \A id \in Pages : \E p \in DOMAIN book.files : by_path[p] = id
<1> USE DEF Inv, ParsedInv
<1>1. IdsOf(book, {"hub"}) = DOMAIN hubs
  <2>1. \A id \in DOMAIN hubs :
          hubs[id] \in DOMAIN book.files /\ book.files[hubs[id]].kind = "hub" /\ book.files[hubs[id]].id = id
    OBVIOUS
  <2>2. \A p \in DOMAIN book.files : book.files[p].kind = "hub" => book.files[p].id \in DOMAIN hubs
    OBVIOUS
  <2>3. IdsOf(book, {"hub"}) = {book.files[p].id : p \in {q \in DOMAIN book.files : book.files[q].kind = "hub"}}
    BY DEF IdsOf
  <2> HIDE DEF Inv, ParsedInv
  <2> QED
    BY <2>1, <2>2, <2>3
<1>2. IdsOf(book, {"card"}) = DOMAIN cards
  <2>1. \A id \in DOMAIN cards :
          cards[id] \in DOMAIN book.files /\ book.files[cards[id]].kind = "card" /\ book.files[cards[id]].id = id
    OBVIOUS
  <2>2. \A p \in DOMAIN book.files : book.files[p].kind = "card" => book.files[p].id \in DOMAIN cards
    OBVIOUS
  <2>3. IdsOf(book, {"card"}) = {book.files[p].id : p \in {q \in DOMAIN book.files : book.files[q].kind = "card"}}
    BY DEF IdsOf
  <2> HIDE DEF Inv, ParsedInv
  <2> QED
    BY <2>1, <2>2, <2>3
<1>3. IdsOf(book, {"hub", "card"}) = IdsOf(book, {"hub"}) \cup IdsOf(book, {"card"})
  BY DEF IdsOf
<1> QED
  BY <1>1, <1>2, <1>3 DEF Pages

(* Once they are all parsed, every file of a library without problems is a page. *)
LEMMA AllPages ==
  ASSUME Inv, problems = {}, ~Reading
  PROVE  DOMAIN by_path = DOMAIN book.files /\ SUMMARY \notin DOMAIN by_path
<1>1. book \in Books /\ stage # "summary"
  BY DEF Inv, ControlInv, Reading
<1>2. DOMAIN book.files \subseteq PathsRead /\ SUMMARY \notin DOMAIN book.files
  BY <1>1, LibraryAssumption DEF PathsRead
<1> QED
  BY <1>2 DEF Inv, SoundInv, SoundFiles, ParsedInv

(* No step finds a problem in a valid book. *)
LEMMA ParsesValid ==
  ASSUME Inv, Valid(book), problems = {}, ParseFile
  PROVE  problems' = {}
<1> DEFINE p == Paths[at]
           f == book.files[p]
<1>1. p \in DOMAIN book.files => f.kind \in {"hub", "card"}
  BY DEF Valid, ValidFiles
<1>2. ASSUME p \in DOMAIN book.files, f.id \in Pages PROVE FALSE
  <2>1. PICK q \in DOMAIN by_path : by_path[q] = f.id
    BY <1>2 DEF Inv, ParsedInv, Pages
  <2>2. q \in DOMAIN book.files /\ book.files[q].id = f.id /\ q # p
    BY <2>1, PathsReadNext DEF Inv, ParsedInv
  <2> QED
    BY <1>2, <2>2 DEF Valid, ValidFiles
<1> QED
  BY <1>1, <1>2 DEF ParseFile, IsTaken

(* What a valid book has at a place. *)
LEMMA ValidPlace ==
  ASSUME Inv, Valid(book), problems = {}, ~Reading, NEW pl \in TocPlaces
  PROVE  LET p == FileAt(pl)
         IN  \/ p = SUMMARY /\ ~IsHub(p) /\ ~IsCard(p) /\ Missing(p) = {}
             \/ /\ p \in DOMAIN by_path
                /\ IF pl[2] = 0 THEN IsHub(p) ELSE IsCard(p)
                /\ Retitled(p, Listing(book, pl).title) = {}
<1> DEFINE p == FileAt(pl)
<1>1. pl \in Places(book)
  BY DEF TocPlaces
<1>2. CASE p = SUMMARY
  BY <1>2, AllPages DEF IsHub, IsCard, Missing
<1>3. CASE p # SUMMARY
  <2>1. /\ p \in DOMAIN book.files
        /\ book.files[p].kind = IF pl[2] = 0 THEN "hub" ELSE "card"
        /\ book.files[p].title = Listing(book, pl).title
    BY <1>1, <1>3 DEF Valid, ValidSummary, FileAt
  <2>2. p \in DOMAIN by_path
    BY <2>1, AllPages
  <2>3. IF pl[2] = 0 THEN IsHub(p) ELSE IsCard(p)
    BY <2>1, <2>2, KindsOfPages DEF Inv
  <2> QED
    BY <2>1, <2>2, <2>3 DEF Retitled
<1> QED
  BY <1>2, <1>3

LEMMA NumbersValid ==
  ASSUME Inv, Valid(book), problems = {}, ChapterPage \/ ChapterEntry
  PROVE  problems' = {}
<1>1. ~Reading /\ at \in DOMAIN Toc /\ book \in Books
  BY DEF ChapterPage, ChapterEntry, Reading, Inv, ControlInv
<1>2. CASE ChapterPage /\ Toc[at].file = NoFile
  BY <1>2 DEF ChapterPage
<1>3. CASE ChapterPage /\ Toc[at].file # NoFile
  <2>1. Len(Toc[at].entries) \in Nat
    BY <1>1, TocTyped
  <2>2. <<at, 0>> \in TocPlaces
    BY <1>1, <1>3, <2>1, PlacesOfToc
  <2>3. FileAt(<<at, 0>>) = Toc[at].file /\ Listing(book, <<at, 0>>) = Toc[at]
    BY <1>1, <2>2, FilesOfToc
  <2>4. LET p == Toc[at].file
        IN  \/ ~IsHub(p) /\ ~IsCard(p) /\ Missing(p) = {}
            \/ IsHub(p) /\ Retitled(p, Toc[at].title) = {}
    BY <1>1, <2>2, <2>3, ValidPlace
  <2> QED
    BY <1>3, <2>4 DEF ChapterPage
<1>4. CASE ChapterEntry
  <2>1. nth \in 1..Len(Toc[at].entries) /\ Len(Toc[at].entries) \in Nat
    BY <1>1, <1>4, TocTyped DEF ChapterEntry
  <2>2. <<at, nth>> \in TocPlaces
    BY <1>1, <2>1, PlacesOfToc
  <2>3. /\ FileAt(<<at, nth>>) = Toc[at].entries[nth].file
        /\ Listing(book, <<at, nth>>) = Toc[at].entries[nth]
    BY <1>1, <2>1, <2>2, FilesOfToc
  <2>4. LET p == Toc[at].entries[nth].file
        IN  \/ ~IsHub(p) /\ ~IsCard(p) /\ Missing(p) = {}
            \/ IsCard(p) /\ Retitled(p, Toc[at].entries[nth].title) = {}
    BY <1>1, <2>1, <2>2, <2>3, ValidPlace
  <2> QED
    BY <1>4, <2>4 DEF ChapterEntry, NotACard
<1> QED
  BY <1>2, <1>3, <1>4

LEMMA ListsValid ==
  ASSUME Inv, Valid(book), problems = {}, CheckListed
  PROVE  problems' = {}
<1>1. ~Reading /\ Visited = TocPlaces /\ TocPlaces = Places(book)
  <2>1. ~Reading /\ at = Len(Toc) + 1
    BY TocTyped DEF CheckListed, Reading, Inv, ControlInv
  <2> QED
    BY <2>1, AllVisited DEF Inv, TocPlaces, Valid, ValidFiles
<1>2. ListedAgain = {}
  BY <1>1 DEF ListedAgain, Inv, ListedInv, Valid, ValidSummary, FileAt
<1>3. Unlisted = {}
  <2>1. \A p \in DOMAIN by_path : \E pl \in Places(book) : FileAt(pl) = p
    BY <1>1, AllPages DEF Valid, ValidSummary, FileAt
  <2> QED
    BY <1>1, <2>1 DEF Unlisted, Inv, ListedInv
<1> QED
  BY <1>2, <1>3 DEF CheckListed

LEMMA RefersValid ==
  ASSUME Inv, Valid(book), problems = {}, Expand \/ CheckReferences
  PROVE  problems' = {}
<1>1. DOMAIN by_path = DOMAIN book.files
  BY AllPages DEF Expand, CheckReferences, Reading
<1>2. ASSUME NEW id \in Pages
      PROVE  LET f == FileOf(id)
             IN  /\ f.mentions \cup f.see_also \subseteq Pages
                 /\ f.hubs \subseteq DOMAIN hubs /\ f.cards \subseteq DOMAIN cards
                 /\ f.probes \subseteq Registry /\ ~f.by_hand
  <2>1. PICK p \in DOMAIN book.files : FileOf(id) = book.files[p]
    BY <1>1, IdsArePages, KeysAreWords
  <2> QED
    BY <1>1, <2>1, IdsArePages DEF Valid, ValidReferences
<1>3. CASE Expand
  <2>1. {p \in Pages : FileOf(p).by_hand} = {}
    BY <1>2, Zenon
  <2>2. (UNION {FileOf(id).mentions : id \in Pages}) \ Pages = {}
    BY <1>2
  <2> QED
    BY <1>3, <2>1, <2>2 DEF Expand
<1>4. CASE CheckReferences
  <2>1. \A id \in Pages : Dangling(id) = {} /\ NoProbe(id) = {}
    BY <1>2 DEF Dangling, NoProbe
  <2> QED
    BY <1>4, <2>1 DEF CheckReferences
<1> QED
  BY <1>3, <1>4

(* The keys of a page are no words of another page of its kind. *)
LEMMA KeysValid ==
  ASSUME Inv, Valid(book), problems = {},
         \/ \E id \in DOMAIN hubs : HubKeys(id)
         \/ \E id \in DOMAIN cards : CardKeys(id)
  PROVE  problems' = {}
<1>1. DOMAIN by_path = DOMAIN book.files
  BY AllPages DEF HubKeys, CardKeys, Reading
<1>2. ASSUME NEW id \in Pages, NEW k \in KeysOf(id)
      PROVE  k # EmptyWord /\ k.number = <<>> /\ k.text \notin RESERVED
  <2>1. PICK p \in DOMAIN book.files : by_path[p] = id
    BY <1>1, IdsArePages
  <2>2. k \in WordsOf(book.files[p])
    BY <1>1, <2>1, KeysAreWords
  <2>3. k.number = <<>> /\ k.text \notin RESERVED \cup {""}
    BY <2>2 DEF Valid, ValidKeys
  <2>4. EmptyWord.text = ""
    BY DEF EmptyWord, Word
  <2> QED
    BY <2>3, <2>4
<1>3. ASSUME NEW x \in Pages, NEW y \in Pages, NEW k \in KeysOf(x) \cap KeysOf(y),
             x \in DOMAIN hubs <=> y \in DOMAIN hubs
      PROVE  x = y
  <2>1. PICK p \in DOMAIN book.files : by_path[p] = x
    BY <1>1, IdsArePages
  <2>2. PICK q \in DOMAIN book.files : by_path[q] = y
    BY <1>1, IdsArePages
  <2>3. k \in WordsOf(book.files[p]) \cap WordsOf(book.files[q])
    BY <1>1, <2>1, <2>2, KeysAreWords
  <2>4. book.files[p].kind = book.files[q].kind
    BY <1>1, <1>3, <2>1, <2>2 DEF Inv, ParsedInv
  <2> QED
    BY <2>1, <2>2, <2>3, <2>4 DEF Valid, ValidKeys
<1>4. ASSUME NEW id \in DOMAIN hubs PROVE BadKeys(KeysOf(id), hub_keys, id) = {}
  <2>1. \A k \in KeysOf(id) \cap DOMAIN hub_keys : hub_keys[k] = id
    BY <1>3 DEF Inv, KeysInv, KeysOfKind, Pages
  <2> QED
    BY <1>2, <2>1 DEF BadKeys, Pages
<1>5. ASSUME NEW id \in DOMAIN cards PROVE BadKeys(KeysOf(id), card_keys, id) = {}
  <2>1. \A k \in KeysOf(id) \cap DOMAIN card_keys : card_keys[k] = id
    BY <1>3 DEF Inv, ParsedInv, KeysInv, KeysOfKind, Pages
  <2> QED
    BY <1>2, <2>1 DEF BadKeys, Pages
<1> QED
  BY <1>4, <1>5 DEF HubKeys, CardKeys

LEMMA NextComplete == Inv /\ CompleteInv /\ [Next]_vars => CompleteInv'
<1> SUFFICES ASSUME Inv, CompleteInv, [Next]_vars, Valid(book') PROVE problems' = {}
  BY DEF CompleteInv
<1>1. book' = book
  BY DEF Next, vars, ReadSummary, ParseFile, AllParsed, ChapterPage, ChapterEntry, ChapterEnd,
         CheckListed, Expand, CheckReferences, HubKeys, CardKeys, Finish
<1>2. Valid(book) /\ problems = {}
  BY <1>1 DEF CompleteInv
<1>3. CASE ReadSummary
  BY <1>2, <1>3 DEF ReadSummary, Valid, ValidFiles
<1>4. CASE UNCHANGED problems
  BY <1>2, <1>4
<1> QED
  BY <1>2, <1>3, <1>4, ParsesValid, NumbersValid, ListsValid, RefersValid, KeysValid
     DEF Next, AllParsed, ChapterEnd, Finish, vars

(* A book in which no problem was found is valid. *)
LEMMA LoadedIsValid ==
  ASSUME Inv, Loaded
  PROVE  Valid(book)
<1>1. DOMAIN by_path = DOMAIN book.files /\ TocPlaces = Places(book) /\ book.summary = "read"
  BY LoadedSummary
<1>2. ValidFiles(book)
  BY <1>1 DEF ValidFiles, Inv, ParsedInv
<1>3. ValidSummary(book)
  <2>1. \A p \in DOMAIN book.files : \E pl \in Places(book) : Listing(book, pl).file = p
    BY <1>1, LoadedSummary DEF FileAt
  <2>2. \A x, y \in Places(book) : x # y => Listing(book, x).file # Listing(book, y).file
    BY <1>1, LoadedSummary DEF FileAt
  <2>3. \A pl \in Places(book) :
          \/ Listing(book, pl).file = SUMMARY
          \/ /\ Listing(book, pl).file \in DOMAIN book.files
             /\ book.files[Listing(book, pl).file].kind = IF pl[2] = 0 THEN "hub" ELSE "card"
             /\ book.files[Listing(book, pl).file].title = Listing(book, pl).title
    BY <1>1, LoadedSummary DEF FileAt, SoundPlace
  <2> QED
    BY <2>1, <2>2, <2>3 DEF ValidSummary
<1>4. ValidReferences(book)
  <2> SUFFICES ASSUME NEW p \in DOMAIN book.files
               PROVE  LET f == book.files[p]
                      IN /\ f.mentions \cup f.see_also \subseteq IdsOf(book, {"hub", "card"})
                         /\ f.hubs \subseteq IdsOf(book, {"hub"})
                         /\ f.cards \subseteq IdsOf(book, {"card"})
                         /\ f.probes \subseteq Registry
                         /\ ~f.by_hand
    BY DEF ValidReferences
  <2> DEFINE id == by_path[p]
             f == book.files[p]
  <2>1. id \in Pages /\ FileOf(id) = f
    BY <1>1, KeysAreWords DEF Inv, ParsedInv, Pages
  <2>2. SoundText /\ SoundReferences /\ stage = "done"
    BY DEF Loaded, Inv, SoundInv
  <2>3. ~f.by_hand /\ f.mentions \subseteq Pages
    BY <2>1, <2>2 DEF SoundText
  <2>4. Dangling(id) = {} /\ f.probes \subseteq Registry
    BY <2>1, <2>2 DEF SoundReferences, NoProbe
  <2>5. f.see_also \subseteq Pages /\ f.hubs \subseteq DOMAIN hubs /\ f.cards \subseteq DOMAIN cards
    <3>1. CASE id \in DOMAIN cards
      <4>1. f.kind = "card"
        BY <1>1, <3>1 DEF Inv, ParsedInv
      <4>2. f.cards = {}
        BY <4>1, LibraryAssumption DEF Inv, ControlInv, FieldsOfItsKind
      <4> QED
        BY <2>1, <2>4, <3>1, <4>2 DEF Dangling
    <3>2. CASE id \notin DOMAIN cards
      <4>1. f.kind = "hub"
        BY <1>1, <3>2 DEF Inv, ParsedInv
      <4>2. f.hubs = {} /\ f.see_also = {}
        BY <4>1, LibraryAssumption DEF Inv, ControlInv, FieldsOfItsKind
      <4> QED
        BY <2>1, <2>4, <3>2, <4>2 DEF Dangling
    <3> QED
      BY <3>1, <3>2
  <2> QED
    BY <1>1, <2>3, <2>4, <2>5, IdsArePages
<1>5. ValidKeys(book)
  <2> USE DEF Inv, ParsedInv
  <2>1. ASSUME NEW p \in DOMAIN book.files, NEW w \in WordsOf(book.files[p])
        PROVE  w.number = <<>> /\ w.text \notin RESERVED \cup {""}
    <3>1. w \in KeysOf(by_path[p]) /\ by_path[p] \in Pages
      BY <1>1, <2>1, KeysAreWords DEF Pages
    <3>2. SoundKey(w)
      BY <3>1, LoadedKeys DEF Pages
    <3>3. w = [text |-> w.text, number |-> w.number]
      <4>1. book.files[p] \in File
        BY LibraryAssumption DEF ControlInv
      <4>2. PICK v \in Words : w = Normalize(v)
        BY <4>1 DEF File, WordsOf
      <4> QED
        BY <4>2 DEF Words, Normalize
    <3> QED
      BY <3>2, <3>3 DEF SoundKey, EmptyWord, Word
  <2>2. ASSUME NEW p \in DOMAIN book.files, NEW q \in DOMAIN book.files, p # q,
               book.files[p].kind = book.files[q].kind,
               NEW w \in WordsOf(book.files[p]) \cap WordsOf(book.files[q])
        PROVE  FALSE
    <3>1. w \in KeysOf(by_path[p]) /\ w \in KeysOf(by_path[q])
      BY <1>1, <2>2, KeysAreWords
    <3>2. by_path[p] # by_path[q]
      BY <1>1, <2>2
    <3>3. CASE book.files[p].kind = "hub"
      <4>1. by_path[p] \in DOMAIN hubs /\ by_path[q] \in DOMAIN hubs
        BY <1>1, <2>2, <3>3
      <4> HIDE DEF Inv, ParsedInv
      <4> QED
        BY <3>1, <3>2, <4>1, LoadedKeys
    <3>4. CASE book.files[p].kind = "card"
      <4>1. by_path[p] \in DOMAIN cards /\ by_path[q] \in DOMAIN cards
        BY <1>1, <2>2, <3>4
      <4> HIDE DEF Inv, ParsedInv
      <4> QED
        BY <3>1, <3>2, <4>1, LoadedKeys
    <3> QED
      BY <1>1, <3>3, <3>4
  <2> QED
    BY <2>1, <2>2 DEF ValidKeys
<1> QED
  BY <1>2, <1>3, <1>4, <1>5 DEF Valid

(* from_files accepts exactly the books that follow the rules as a whole,  *)
(* for every set of content files and every SUMMARY.md (library.rs:95-299). *)
THEOREM AcceptsCorrect == Spec => []AcceptsValidBooks
<1>1. Spec => []CompleteInv
  BY InitInv, NextInv, NextComplete, PTL DEF Spec
<1>2. Inv /\ CompleteInv => AcceptsValidBooks
  BY LoadedIsValid DEF AcceptsValidBooks, CompleteInv, Valid, Loaded
<1> QED
  BY <1>1, <1>2, Invariance, PTL
==============================================================================
