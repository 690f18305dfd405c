------------------------------- MODULE Library -------------------------------
(***************************************************************************)
(* The content library: `Library::from_files` of src/content/library.rs,   *)
(* which reads, numbers and checks the content files, and `resolve` of     *)
(* src/resolve.rs, which finds a page by what the reader types.            *)
(*                                                                         *)
(* A word (an id, an alias, a query) is a text or a chapter number: what   *)
(* `parse_number` tells apart.  A file is what parsing its frontmatter and *)
(* its text keeps: its id, its aliases, and the ids it refers to.  Steps   *)
(* follow the loops of the code; a problem never stops them.               *)
(***************************************************************************)
EXTENDS Naturals, Sequences, FiniteSets

CONSTANTS
  SUMMARY,     (* The path of SUMMARY.md.                                     *)
  Paths,       (* All paths, in the order of the map of files: a sequence.    *)
  NoFile,      (* The target of a chapter without a page.                     *)
  Texts,
  LowerCase,   (* [Texts -> Texts]                                            *)
  RESERVED,    (* The names of the commands, a subset of Texts.               *)
  Registry,    (* The names of the probes there are.                          *)
  Books        (* The contents a build may embed.                             *)

Word(t) == [text |-> t, number |-> <<>>]
Numeral(n) == [text |-> "", number |-> n]
EmptyWord == Word("")
Words == [text : Texts, number : Seq(Nat)]

File == [kind : {"card", "hub", "broken", "other"}, id : Words, title : Texts,
         aliases : SUBSET Words, hubs : SUBSET Words, see_also : SUBSET Words,
         cards : SUBSET Words, probes : SUBSET Texts, mentions : SUBSET Words,
         by_hand : BOOLEAN]
(* No field of the frontmatter of the other kind is accepted. *)
FieldsOfItsKind(f) ==
  /\ f.kind = "hub" => f.hubs = {} /\ f.see_also = {}
  /\ f.kind = "card" => f.cards = {}
Entry == [title : Texts, file : STRING]
TocChapter == [title : Texts, file : STRING, entries : Seq(Entry)]

ASSUME LibraryAssumption ==
  /\ Paths \in Seq(STRING)
  /\ SUMMARY \in STRING
  /\ NoFile \in STRING
  /\ \A k \in DOMAIN Paths : Paths[k] # NoFile
  /\ \A j, k \in DOMAIN Paths : Paths[j] = Paths[k] => j = k
  /\ "" \in Texts
  /\ LowerCase \in [Texts -> Texts]
  /\ LowerCase[""] = ""
  /\ RESERVED \subseteq Texts
  /\ \A b \in Books :
       /\ b.summary \in {"read", "broken", "missing"}
       /\ b.toc \in Seq(TocChapter)
       /\ DOMAIN b.files \subseteq {Paths[k] : k \in DOMAIN Paths} \ {SUMMARY}
       /\ \A p \in DOMAIN b.files : b.files[p] \in File /\ FieldsOfItsKind(b.files[p])

VARIABLES
  book,        (* The files, by path, and SUMMARY.md.                         *)
  stage,       (* Which loop of from_files runs.                              *)
  at,          (* The file, or the chapter, it is at.                         *)
  nth,         (* The entry of the chapter it is at; 0 is its page.           *)
  problems,    (* What was found wrong.                                       *)
  by_path,     (* The id of each file parsed.                                 *)
  hubs, cards, (* The file of each hub and of each card, by id.               *)
  chapter,     (* The chapter of each hub numbered.                           *)
  number,      (* The number of each card numbered.                           *)
  listed,      (* How often SUMMARY.md lists a path.                          *)
  chapters,    (* The chapters: a hub or EmptyWord, and the ids of the cards. *)
  prose,       (* What the mentions in each page were replaced with.          *)
  keyed,       (* The pages whose keys were added.                            *)
  hub_keys, card_keys   (* Normalized ids and aliases, to ids.                *)

parsed == <<by_path, hubs, cards>>
numbered == <<chapter, number, listed, chapters>>
keys == <<keyed, hub_keys, card_keys>>
vars == <<book, stage, at, nth, problems, parsed, numbered, prose, keys>>

Nothing == [x \in {} |-> x]
Put(f, k, v) == [x \in DOMAIN f \cup {k} |-> IF x = k THEN v ELSE f[x]]

(* Words as they are compared: lowercase. *)
Normalize(w) == [w EXCEPT !.text = LowerCase[@]]

Pages == DOMAIN hubs \cup DOMAIN cards
FileOf(id) == book.files[IF id \in DOMAIN hubs THEN hubs[id] ELSE cards[id]]

(* A summary that cannot be parsed has no chapters. *)
Toc == IF book.summary = "read" THEN book.toc ELSE <<>>

Init ==
  /\ book \in Books
  /\ stage = "summary"
  /\ at = 1
  /\ nth = 0
  /\ problems = {}
  /\ by_path = Nothing
  /\ hubs = Nothing
  /\ cards = Nothing
  /\ chapter = Nothing
  /\ number = Nothing
  /\ listed = Nothing
  /\ chapters = <<>>
  /\ prose = Nothing
  /\ keyed = {}
  /\ hub_keys = Nothing
  /\ card_keys = Nothing

-----------------------------------------------------------------------------
(***************************************************************************)
(* Parsing.                                                                *)
(***************************************************************************)

(* The only problem that stops the loading at once. *)
ReadSummary ==
  /\ stage = "summary"
  /\ stage' = IF book.summary = "missing" THEN "done" ELSE "parse"
  /\ problems' = IF book.summary = "read" THEN {} ELSE {<<book.summary, SUMMARY>>}
  /\ UNCHANGED <<book, at, nth, parsed, numbered, prose, keys>>

(* Mutant of IsTaken: a card may have the id of a hub. *)
IsTakenByItsKind(f) == f.id \in IF f.kind = "hub" THEN DOMAIN hubs ELSE DOMAIN cards

IsTaken(f) == f.id \in Pages

(* The next file, SUMMARY.md apart. *)
ParseFile ==
  /\ stage = "parse"
  /\ at \in DOMAIN Paths
  /\ LET p == Paths[at]
         f == book.files[p]
     IN \/ p \notin DOMAIN book.files /\ UNCHANGED <<problems, parsed>>
        \/ /\ p \in DOMAIN book.files
           /\ f.kind \in {"broken", "other"}
           /\ problems' = problems \cup {<<f.kind, p>>}
           /\ UNCHANGED parsed
        \/ /\ p \in DOMAIN book.files
           /\ f.kind \in {"hub", "card"}
           /\ IsTaken(f)
           /\ problems' = problems \cup {<<"duplicate", p>>}
           /\ UNCHANGED parsed
        \/ /\ p \in DOMAIN book.files
           /\ f.kind \in {"hub", "card"}
           /\ ~IsTaken(f)
           /\ by_path' = Put(by_path, p, f.id)
           /\ hubs' = IF f.kind = "hub" THEN Put(hubs, f.id, p) ELSE hubs
           /\ cards' = IF f.kind = "card" THEN Put(cards, f.id, p) ELSE cards
           /\ UNCHANGED problems
  /\ at' = at + 1
  /\ UNCHANGED <<book, stage, nth, numbered, prose, keys>>

AllParsed ==
  /\ stage = "parse"
  /\ at \notin DOMAIN Paths
  /\ stage' = "number"
  /\ at' = 1
  /\ UNCHANGED <<book, nth, problems, parsed, numbered, prose, keys>>

-----------------------------------------------------------------------------
(***************************************************************************)
(* Numbering: SUMMARY.md against the files.                                *)
(***************************************************************************)
IsHub(p) == p \in DOMAIN by_path /\ by_path[p] \in DOMAIN hubs
IsCard(p) == p \in DOMAIN by_path /\ by_path[p] \in DOMAIN cards

CountListed(p) == Put(listed, p, (IF p \in DOMAIN listed THEN listed[p] ELSE 0) + 1)

(* Nothing is reported of a file that is there but is no page: the problem *)
(* is taken to be reported already.                                        *)
Missing(p) ==
  IF p \in DOMAIN book.files \cup {SUMMARY} THEN {} ELSE {<<"missing", p>>}

Retitled(p, title) ==
  IF book.files[p].title = title THEN {} ELSE {<<"title", p>>}

(* The page of the chapter, when it has one. *)
ChapterPage ==
  /\ stage = "number"
  /\ at \in DOMAIN Toc
  /\ nth = 0
  /\ LET p == Toc[at].file
         Add(hub) == chapters' = Append(chapters, [hub |-> hub, cards |-> <<>>])
     IN \/ /\ p = NoFile
           /\ Add(EmptyWord)
           /\ UNCHANGED <<problems, chapter, listed>>
        \/ /\ p # NoFile
           /\ IsHub(p)
           /\ Add(by_path[p])
           /\ chapter' = Put(chapter, by_path[p], at)
           /\ problems' = problems \cup Retitled(p, Toc[at].title)
           /\ listed' = CountListed(p)
        \/ /\ p # NoFile
           /\ ~IsHub(p)
           /\ Add(EmptyWord)
           /\ problems' = problems \cup (IF IsCard(p) THEN {<<"chapter", p>>} ELSE Missing(p))
           /\ listed' = CountListed(p)
           /\ UNCHANGED chapter
  /\ nth' = 1
  /\ UNCHANGED <<book, stage, at, parsed, number, prose, keys>>

(* Mutant of EntryNumber: sections count from 0. *)
EntryNumberFromZero == <<at, nth - 1>>

(* The place of the entry in SUMMARY.md. *)
EntryNumber == <<at, nth>>

(* Mutant of NotACard: an entry may name a hub. *)
NotACardOrHub(p) == Missing(p)

NotACard(p) == IF IsHub(p) THEN {<<"entry", p>>} ELSE Missing(p)

(* A card is pushed after the cards of the chapter found so far. *)
ChapterEntry ==
  /\ stage = "number"
  /\ at \in DOMAIN Toc
  /\ nth \in DOMAIN Toc[at].entries
  /\ LET p == Toc[at].entries[nth].file
         title == Toc[at].entries[nth].title
     IN /\ listed' = CountListed(p)
        /\ \/ /\ IsCard(p)
              /\ number' = Put(number, by_path[p], EntryNumber)
              /\ chapters' = [chapters EXCEPT ![at].cards = Append(@, by_path[p])]
              /\ problems' = problems \cup Retitled(p, title)
           \/ /\ ~IsCard(p)
              /\ problems' = problems \cup NotACard(p)
              /\ UNCHANGED <<chapters, number>>
  /\ nth' = nth + 1
  /\ UNCHANGED <<book, stage, at, parsed, chapter, prose, keys>>

ChapterEnd ==
  /\ stage = "number"
  /\ at \in DOMAIN Toc
  /\ nth > Len(Toc[at].entries)
  /\ at' = at + 1
  /\ nth' = 0
  /\ UNCHANGED <<book, stage, problems, parsed, numbered, prose, keys>>

(* Mutant of ListedAgain: a file may be listed twice. *)
ListedAnyhow == {}

ListedAgain == {<<"listed", p>> : p \in {q \in DOMAIN listed : listed[q] > 1}}

Unlisted == {<<"unlisted", p>> : p \in DOMAIN by_path \ DOMAIN listed}

CheckListed ==
  /\ stage = "number"
  /\ at \notin DOMAIN Toc
  /\ problems' = problems \cup ListedAgain \cup Unlisted
  /\ stage' = "expand"
  /\ UNCHANGED <<book, at, nth, parsed, numbered, prose, keys>>

-----------------------------------------------------------------------------
(***************************************************************************)
(* Mentions, references and keys.                                          *)
(***************************************************************************)

(* A card that SUMMARY.md does not list keeps the number 0.0. *)
NumberOf(id) == IF id \in DOMAIN number THEN number[id] ELSE <<0, 0>>

(* What a mention is replaced with: a number, or the hub to open. *)
Printed(id) == IF id \in DOMAIN cards THEN Numeral(NumberOf(id)) ELSE id

Expand ==
  /\ stage = "expand"
  /\ prose' = [id \in Pages |-> [m \in FileOf(id).mentions \cap Pages |-> Printed(m)]]
  /\ problems' = problems
       \cup {<<"by_hand", id>> : id \in {p \in Pages : FileOf(p).by_hand}}
       \cup {<<"mention", m>> : m \in (UNION {FileOf(id).mentions : id \in Pages}) \ Pages}
  /\ stage' = "refer"
  /\ UNCHANGED <<book, at, nth, parsed, numbered, keys>>

(* References of a page that name no page. *)
Dangling(id) ==
  LET f == FileOf(id)
  IN IF id \in DOMAIN cards
     THEN (f.hubs \ DOMAIN hubs) \cup (f.see_also \ Pages)
     ELSE f.cards \ DOMAIN cards

(* Probes of a page that there are not. *)
NoProbe(id) == FileOf(id).probes \ Registry

CheckReferences ==
  /\ stage = "refer"
  /\ problems' = problems
       \cup {<<"reference", id>> : id \in {p \in Pages : Dangling(p) # {}}}
       \cup {<<"probe", id>> : id \in {p \in Pages : NoProbe(p) # {}}}
  /\ stage' = "keys"
  /\ UNCHANGED <<book, at, nth, parsed, numbered, prose, keys>>

KeysOf(id) == {Normalize(w) : w \in {id} \cup FileOf(id).aliases}

(* Mutant of BadKeys: an alias may look like a chapter number. *)
BadKeysButNumbers(ks, known, id) ==
  {<<"empty", id>> : k \in ks \cap {EmptyWord}}
  \cup {<<"command", k>> : k \in {w \in ks : w.number = <<>> /\ w.text \in RESERVED}}
  \cup {<<"collision", k>> : k \in {w \in ks \cap DOMAIN known : known[w] # id}}

BadKeys(ks, known, id) ==
  {<<"empty", id>> : k \in ks \cap {EmptyWord}}
  \cup {<<"command", k>> : k \in {w \in ks : w.number = <<>> /\ w.text \in RESERVED}}
  \cup {<<"number", k>> : k \in {w \in ks : w.number # <<>>}}
  \cup {<<"collision", k>> : k \in {w \in ks \cap DOMAIN known : known[w] # id}}

(* The first page to claim a key keeps it. *)
AddKeys(known, id) ==
  [k \in DOMAIN known \cup (KeysOf(id) \ {EmptyWord}) |->
     IF k \in DOMAIN known THEN known[k] ELSE id]

HubKeys(id) ==
  /\ stage = "keys"
  /\ id \in DOMAIN hubs \ keyed
  /\ problems' = problems \cup BadKeys(KeysOf(id), hub_keys, id)
  /\ hub_keys' = AddKeys(hub_keys, id)
  /\ keyed' = keyed \cup {id}
  /\ UNCHANGED <<book, stage, at, nth, parsed, numbered, prose, card_keys>>

CardKeys(id) ==
  /\ stage = "keys"
  /\ DOMAIN hubs \subseteq keyed
  /\ id \in DOMAIN cards \ keyed
  /\ problems' = problems \cup BadKeys(KeysOf(id), card_keys, id)
  /\ card_keys' = AddKeys(card_keys, id)
  /\ keyed' = keyed \cup {id}
  /\ UNCHANGED <<book, stage, at, nth, parsed, numbered, prose, hub_keys>>

Finish ==
  /\ stage = "keys"
  /\ keyed = Pages
  /\ stage' = "done"
  /\ UNCHANGED <<book, at, nth, problems, parsed, numbered, prose, keys>>

Next ==
  \/ ReadSummary \/ ParseFile \/ AllParsed
  \/ ChapterPage \/ ChapterEntry \/ ChapterEnd \/ CheckListed
  \/ Expand \/ CheckReferences
  \/ \E id \in DOMAIN hubs : HubKeys(id)
  \/ \E id \in DOMAIN cards : CardKeys(id)
  \/ Finish

Spec == Init /\ [][Next]_vars

(* from_files returned a library: `Ok`. *)
Loaded == stage = "done" /\ problems = {}

-----------------------------------------------------------------------------
(***************************************************************************)
(* Looking up a page.                                                      *)
(***************************************************************************)
NoPage == EmptyWord

(* `5.1` is the first card of the fifth chapter. *)
CardByNumber(n) ==
  IF n[1] \in DOMAIN chapters /\ n[2] \in DOMAIN chapters[n[1]].cards
  THEN chapters[n[1]].cards[n[2]] ELSE NoPage

(* `5` is the page of the fifth chapter. *)
HubByNumber(c) == IF c \in DOMAIN chapters THEN chapters[c].hub ELSE NoPage

(* The page a query names exactly, and the card that shares a hub's name. *)
Exact(target, also) == [target |-> target, also_card |-> also]

(* Mutant of Resolve: a card wins over a hub. *)
ResolveCardsFirst(query) ==
  LET k == Normalize(query)
  IN CASE k \in DOMAIN card_keys -> Exact(card_keys[k], NoPage)
       [] k \in DOMAIN hub_keys \ DOMAIN card_keys -> Exact(hub_keys[k], NoPage)
       [] OTHER ->
            Exact(CASE Len(query.number) = 2 -> CardByNumber(query.number)
                    [] Len(query.number) = 1 -> HubByNumber(query.number[1])
                    [] OTHER -> NoPage, NoPage)

Resolve(query) ==
  LET k == Normalize(query)
  IN CASE k \in DOMAIN hub_keys ->
            Exact(hub_keys[k], IF k \in DOMAIN card_keys THEN card_keys[k] ELSE NoPage)
       [] k \in DOMAIN card_keys \ DOMAIN hub_keys -> Exact(card_keys[k], NoPage)
       [] OTHER ->
            Exact(CASE Len(query.number) = 2 -> CardByNumber(query.number)
                    [] Len(query.number) = 1 -> HubByNumber(query.number[1])
                    [] OTHER -> NoPage, NoPage)

(* What to type to come back to a page: the id of a hub, a card's number. *)
Handle(id) == IF id \in DOMAIN hubs THEN id ELSE Numeral(NumberOf(id))
-----------------------------------------------------------------------------
(***************************************************************************)
(* Properties.                                                             *)
(***************************************************************************)

(* Every variable has its type; an id names one page, a hub or a card, and *)
(* the file it was read from is the one by_path remembers for it.          *)
TypeOK ==
  /\ stage \in {"summary", "parse", "number", "expand", "refer", "keys", "done"}
  /\ at \in Nat
  /\ nth \in Nat
  /\ DOMAIN hubs \cap DOMAIN cards = {}
  /\ \A id \in DOMAIN hubs : by_path[hubs[id]] = id
  /\ \A id \in DOMAIN cards : by_path[cards[id]] = id
  /\ \A p \in DOMAIN by_path : by_path[p] \in Pages
  /\ DOMAIN chapter \subseteq DOMAIN hubs
  /\ DOMAIN number \subseteq DOMAIN cards
  /\ \A p \in DOMAIN listed : listed[p] \in Nat \ {0}
  /\ \A c \in DOMAIN chapters : chapters[c].hub \in DOMAIN hubs \cup {EmptyWord}
  /\ keyed \subseteq Pages
  /\ \A k \in DOMAIN hub_keys : hub_keys[k] \in DOMAIN hubs
  /\ \A k \in DOMAIN card_keys : card_keys[k] \in DOMAIN cards

(* The places of SUMMARY.md: an entry of a chapter, or 0 for its page.     *)
Places(b) ==
  UNION {{<<c, n>> : n \in (IF b.toc[c].file = NoFile THEN 1 ELSE 0)..Len(b.toc[c].entries)} :
           c \in DOMAIN b.toc}
Listing(b, pl) == IF pl[2] = 0 THEN b.toc[pl[1]] ELSE b.toc[pl[1]].entries[pl[2]]

ListsItself(b) == \E pl \in Places(b) : Listing(b, pl).file = SUMMARY

IdsOf(b, kinds) == {b.files[p].id : p \in {q \in DOMAIN b.files : b.files[q].kind \in kinds}}
WordsOf(f) == {Normalize(w) : w \in {f.id} \cup f.aliases}

(* The rules of ROADMAP.md section 6.3, of a book as a whole.              *)
ValidFiles(b) ==
  /\ b.summary = "read"
  /\ \A p \in DOMAIN b.files : b.files[p].kind \in {"hub", "card"}
  /\ \A p, q \in DOMAIN b.files : p # q => b.files[p].id # b.files[q].id

ValidSummary(b) ==
  /\ \A p \in DOMAIN b.files : \E pl \in Places(b) : Listing(b, pl).file = p
  /\ \A x, y \in Places(b) : x # y => Listing(b, x).file # Listing(b, y).file
  /\ \A pl \in Places(b) :
       \/ Listing(b, pl).file = SUMMARY
       \/ /\ Listing(b, pl).file \in DOMAIN b.files
          /\ b.files[Listing(b, pl).file].kind = IF pl[2] = 0 THEN "hub" ELSE "card"
          /\ b.files[Listing(b, pl).file].title = Listing(b, pl).title

ValidReferences(b) ==
  \A p \in DOMAIN b.files :
    LET f == b.files[p]
    IN /\ f.mentions \cup f.see_also \subseteq IdsOf(b, {"hub", "card"})
       /\ f.hubs \subseteq IdsOf(b, {"hub"})
       /\ f.cards \subseteq IdsOf(b, {"card"})
       /\ f.probes \subseteq Registry
       /\ ~f.by_hand

ValidKeys(b) ==
  \A p \in DOMAIN b.files :
    /\ \A w \in WordsOf(b.files[p]) : w.number = <<>> /\ w.text \notin RESERVED \cup {""}
    /\ \A q \in DOMAIN b.files :
         p # q /\ b.files[p].kind = b.files[q].kind
           => WordsOf(b.files[p]) \cap WordsOf(b.files[q]) = {}

(* The loops of from_files, one check here and one there, accept exactly   *)
(* the books that follow the rules as a whole: no problem is missed, and   *)
(* none is reported of a valid book.  (That a summary may list itself is   *)
(* an exception ListedFilesAreThere is about.)                             *)
AcceptsValidBooks ==
  stage = "done" =>
    (problems = {} <=> /\ ValidFiles(book)
                       /\ ValidSummary(book)
                       /\ ValidReferences(book)
                       /\ ValidKeys(book))

(* Typing the handle of a page, as every link does, opens that page and no *)
(* other, in any library that loads: no id, alias or number of another     *)
(* page stands in its way (resolve.rs, `handle`; history, reload and links *)
(* of the interactive mode rest on it).                                    *)
HandlesOpen ==
  Loaded /\ ~ListsItself(book) =>
    \A id \in Pages : Resolve(Handle(id)).target = id

(* An id or alias opens its page; the only page that may take it over is a *)
(* hub, and then the card is offered next to it.                           *)
KeysOpen ==
  Loaded =>
    \A id \in Pages : \A w \in {id} \cup FileOf(id).aliases :
      \/ Resolve(w).target = id
      \/ /\ id \in DOMAIN cards
         /\ Resolve(w).target \in DOMAIN hubs
         /\ Resolve(w).also_card = id

(* Whatever a text refers to opens: a mention printed as a number or as a  *)
(* hub, and every page listed as related.  A mention follows any           *)
(* renumbering.                                                            *)
ReferencesOpen ==
  Loaded /\ ~ListsItself(book) =>
    \A id \in Pages :
      /\ \A m \in FileOf(id).mentions : Resolve(prose[id][m]).target = m
      /\ \A r \in FileOf(id).hubs \cup FileOf(id).see_also \cup FileOf(id).cards :
           r \in Pages /\ Resolve(Handle(r)).target = r

(* Every page is in the contents once: hubs() and cards() walk the         *)
(* chapters and meet each page that was parsed, none twice.                *)
EachPageOnce ==
  Loaded =>
    /\ \A id \in DOMAIN hubs :
         \E c \in DOMAIN chapters :
           \A d \in DOMAIN chapters : chapters[d].hub = id <=> d = c
    /\ \A id \in DOMAIN cards :
         \E c \in DOMAIN chapters : \E n \in DOMAIN chapters[c].cards :
           \A d \in DOMAIN chapters : \A m \in DOMAIN chapters[d].cards :
             chapters[d].cards[m] = id <=> d = c /\ m = n

(* "Every file is listed in SUMMARY.md exactly once, and vice versa"       *)
(* (ROADMAP.md:222).  False: SUMMARY.md may list itself, and the cards     *)
(* after it then have the number of their right neighbour.                 *)
ListedFilesAreThere ==
  Loaded => DOMAIN listed = DOMAIN by_path
==============================================================================
