------------------------------ MODULE Calls ------------------------------
(***************************************************************************)
(* The pure functions about which more is shown than TLC can: the pages    *)
(* closest to a query, the pages with its words, what of a prompt is       *)
(* hidden, how text is broken into lines, how a card is split into its     *)
(* sections, which file a probe reads, and which settings sshd takes.      *)
(* Each is called once, on an input of its own.                            *)
(***************************************************************************)
EXTENDS Search, Redaction, Wrapping, Sections, Paths, Sshd

CONSTANTS
  Queries,    \* pages and queries, for fuzzy
  Searches,   \* pages, queries and limits, for search
  Prompts,    \* texts and names, for redact_text
  Wraps,      \* spans and widths, for wrap
  Bodies,     \* lines, for card_sections
  Walks,      \* trees and paths, for resolve
  Configs,    \* files of sshd, for server
  Pending     \* before the call

\* A page as fuzzy sees it: chapters and sections are counted from one.
QueryPage ==
  [kind : {"hub"}, chapter : 1..PACK, section : {0}, keys : SUBSET Word]
    \cup [kind : {"card"}, chapter : 1..PACK, section : 1..PACK, keys : SUBSET Word]

\* The pages as Library's hubs and cards list them.
InContents(pages) ==
  \A i, j \in DOMAIN pages : i < j =>
    \/ pages[i].kind = "hub" /\ pages[j].kind = "card"
    \/ /\ pages[i].kind = pages[j].kind
       /\ \/ pages[i].chapter < pages[j].chapter
          \/ pages[i].chapter = pages[j].chapter /\ pages[i].section < pages[j].section

ASSUME QueriesAssumption ==
  \A in \in Queries :
    /\ in.query \in Word
    /\ in.pages \in Seq(QueryPage)
    /\ InContents(in.pages)

(* Every page has a title, so that there is a best field. *)
ASSUME SearchesAssumption ==
  /\ NoLine \notin WordLine
  /\ \A in \in Searches :
       /\ in.terms \in Seq(Word)
       /\ in.limit \in Nat
       /\ in.pages \in Seq(Seq(SearchField) \ {<<>>})

(* Names of users and hosts begin and end with a letter of a word, and do  *)
(* not begin again after a hyphen: of "a-a", "aa-a-a" would leave the end, *)
(* which is behind a match that is not whole.                              *)
Name ==
  {name \in Seq(InWord \cup {"-"}) :
     name # <<>> =>
       /\ name[1] \in InWord /\ name[Len(name)] \in InWord
       /\ \A n \in 2..Len(name) : name[n - 1] \notin InWord =>
            SubSeq(name, n, Len(name)) # SubSeq(name, 1, Len(name) - n + 1)}

ASSUME PromptsAssumption ==
  \A in \in Prompts :
    /\ in.text \in Text /\ in.sys.home \in Text
    /\ in.sys.user \in Name /\ in.sys.hostname \in Name

(* A character of a span, with the page that a link opens. *)
Style == {"plain", "bold", "emph", "code", "dim", "warn"}
SpanChar == [blank : BOOLEAN, style : Style, link : STRING \cup {NoLink}]

(* A first line has a marker or a label, and the others begin under what is  *)
(* after it, or to the left: of a cut word, a first line that began to the   *)
(* left of the others would have room for two pieces.                        *)
ASSUME WrapsAssumption ==
  \A in \in Wraps :
    /\ in.spans \in Seq(SpanChar)
    /\ in.first \in Nat /\ in.rest \in Nat /\ in.max \in Nat
    /\ in.first >= in.rest

ASSUME BodiesAssumption == \A in \in Bodies : in.body \in Seq(Lines)

ASSUME WalksAssumption ==
  \A in \in Walks : Tree(in.tree) /\ in.path \in Path /\ in.follow_last \in BOOLEAN

ASSUME ConfigsAssumption == \A in \in Configs : SshdFiles(in.files)

VARIABLES call, input, output

vars == <<call, input, output>>

CallInit ==
  /\ output = Pending
  /\ \/ call = "fuzzy" /\ input \in Queries
     \/ call = "search" /\ input \in Searches
     \/ call = "redact_text" /\ input \in Prompts
     \/ call = "wrap" /\ input \in Wraps
     \/ call = "card_sections" /\ input \in Bodies
     \/ call = "resolve" /\ input \in Walks
     \/ call = "server" /\ input \in Configs

Called(name) == call = name /\ output = Pending /\ UNCHANGED <<call, input>>
Returned(name) == call = name /\ output # Pending

FindClosest ==
  /\ Called("fuzzy")
  /\ output' = Fuzzy(input.pages, input.query)

FindWords ==
  /\ Called("search")
  /\ output' = Search(input.pages, input.terms, input.limit)

Redact ==
  /\ Called("redact_text")
  /\ output' = RedactText(input.text, input.sys)

WrapText ==
  /\ Called("wrap")
  /\ output' = Wrap(input.spans, input.first, input.rest, input.max)

ReadSections ==
  /\ Called("card_sections")
  /\ output' = CardSections(input.body)

ResolvePath ==
  /\ Called("resolve")
  /\ output' = Resolved(input.tree, input.path, input.follow_last)

ReadServer ==
  /\ Called("server")
  /\ output' = Server(input.files)

CallNext ==
  \/ FindClosest \/ FindWords \/ Redact \/ WrapText
  \/ ReadSections \/ ResolvePath \/ ReadServer

CallSpec == CallInit /\ [][CallNext]_vars

-----------------------------------------------------------------------------
(* Properties *)

(* ClosestComesFirst: what a typo opens, and what is suggested with it. *)
ClosestComesFirst ==
  Returned("fuzzy") => ClosestFirst(input.pages, input.query, output)

(* BestHitsShown: what a search shows, and in which order. *)
BestHitsShown ==
  Returned("search") => BestShown(input.pages, input.terms, input.limit, output)

(* NamesHidden: a redacted prompt names neither user nor host nor any      *)
(* folder of /home, though each replacement works on what the one before   *)
(* has left, and a text without those names is not changed                 *)
(* (prompt.rs:137-139).                                                    *)
NamesHidden == Returned("redact_text") => HiddenIn(input.text, input.sys, output)

(* WrapsWhole: a narrow pane shows all of a text: nothing is lost between *)
(* lines, code stays in one piece to be copied, and what can be in the    *)
(* width is (text.rs:163-165, 172).                                       *)
WrapsWhole ==
  Returned("wrap") => Wrapped(input.spans, input.first, input.rest, input.max, output)

(* SectionsByTheRules: a card is accepted if and only if its body follows  *)
(* the rules, and then all of its text is in its sections.  What begins    *)
(* with a question is the exception: such a body is accepted as well, and  *)
(* the text before its TL;DR is lost (entry.rs:192, 231).                  *)
SectionsByTheRules ==
  (Returned("card_sections") /\ HeadingFirst(input.body) # "question") =>
    ReadByTheRules(input.body, output)

(* WalksAsChroot: what a probe reads is the file that a chroot into the    *)
(* root would open, whatever links lie on the way, relative or absolute,   *)
(* out of the root or in a loop (mod.rs:280-283).                          *)
WalksAsChroot ==
  Returned("resolve") =>
    WalkedAsChroot(input.tree, input.path, input.follow_last, output)

(* FirstValueWins: the settings shown are those that sshd takes, whatever *)
(* files include each other, and where, if the folders that are included  *)
(* can be listed and each Include is of one pattern (ssh.rs:118-120).     *)
FirstValueWins == Returned("server") => FirstWins(input.files, output)

(* FirstValueOrUnreadable: "sshd keeps the first value it reads for each   *)
(* setting ... so a drop-in wins over the main file" (ssh.rs:118-120), and *)
(* what could not be read is said (ssh.rs:52).  A folder that cannot be    *)
(* listed is taken as empty, and nothing is said.                          *)
FirstValueOrUnreadable ==
  Returned("server") => output.unreadable \/ TakesFirst(input.files, output)
=============================================================================
