# Verification of atfq

TLA+ models of [atfq](../src/README.md), a terminal program that explains Linux
and reads the live state of the machine, with the TLC runs that check them and
the TLAPS proofs about them. Paths below are relative to the repository; line
numbers are those of the modelled commit.

| File | What it is |
|---|---|
| `Tui.tla` | The interactive mode: `App` and its event loop |
| `Browser.tla` | What the interactive mode promises about pages; `Tui` implements it |
| `MCTui.tla`, `MCTui_*.cfg` | A book of two pages for TLC, and three runs |
| `TuiProofs.tla` | `Tui`'s types, safety and action properties and the refinement, proved |
| `SystemCommand.tla`, `SystemCommand_*.cfg` | How a probe asks an external program, and two runs |
| `SystemCommandProofs.tla` | Its safety properties, proved |
| `Library.tla` | Loading and checking the content, and looking up a page |
| `MCLibrary.tla`, `MCLibrary_*.cfg` | Small contents for TLC, and two runs |
| `LibraryProofs.tla` | What it accepts and what a handle opens, proved |
| `ProbeResults.tla` | What a probe reads (sites) and answers (status, fields, notes) |
| `HardwareProbes.tla`, `SystemProbes.tla`, `SettingsProbes.tla` | Forty-five probes, each from its sites to its answer |
| `Probes.tla`, `MCProbes.tla`, `MCProbes_any.cfg` | The registry, a run, a run as root; machines for TLC, and a run |
| `ProbesProofs.tla` | Every probe says why it cannot answer and shows no less of the host as root, proved |
| `Processes.tla`, `MCProcesses.tla`, `MCProcesses_reads.cfg` | The probes that read a machine that changes meanwhile; bounds for each, and a run |
| `ProcessesProofs.tla` | What proc.states, proc.top, proc.threads and systemd.status show, proved |
| `Program.tla`, `Program.cfg` | One run of the program: command line, terminal, MCP server; and a run |
| `ProgramProofs.tla` | Terminal, mouse and exit codes, proved |
| `Sorting.tla`, `DataProofs.tla` | A finite set in its order, and lemmas about sets, sequences and loops |
| `Paths.tla`, `Sshd.tla`, `Redaction.tla`, `Sections.tla`, `Closest.tla`, `Search.tla`, `Wrapping.tla`, `Markdown.tla` | Pure functions, each with a definition of what it should do |
| `Calls.tla`, `CallsProofs.tla` | The calls of `fuzzy`, `search`, `redact_text`, `wrap`, `card_sections`, `resolve` and `server`, and what they return, proved |
| `Algorithms.tla`, `MCAlgorithms.tla`, `MCAlgorithms_*.cfg` | The call of `render` as well, small inputs for TLC, and two runs |
| `PROJECT.json` | The same, by line of source: map, runs, mutants, hazards, theorems |

## 1. Inventory

| Component | State it keeps | Operations | Correct when |
|---|---|---|---|
| **Interactive mode**, `tui/app.rs` | page, history, mode (page, search, prompt), focus, selections and scrolls, count and `g` prefix, what the last draw left (`items`, `regions`, heights) | a handler for each key, mouse event and draw | keys act on what is on the screen; history is a browser's; nothing of a page leaks to another; the view stays in the document; nobody quits by surprise |
| **Terminal**, `tui/mod.rs` | raw mode, alternate screen, mouse capture, panic hook | `run`, `event_loop`, `restore` | the terminal is given back on every way out |
| **External programs**, `probes/sys.rs` | a child, a pipe, a reader thread, a clock | `run` | whole answers, no zombie, no deadlock on a full pipe, bounded in time |
| **Content library**, `content/library.rs` | pages by path, id, key and number; chapters | `from_files` and lookups | accepts exactly the contents that follow the rules; every page and reference opens |
| **Content files**, `content/{entry,summary,mod,danger}.rs` | none | parsing | headings in order, one title, known keys |
| **Resolve**, `resolve.rs` | none | hub key, card key, number, closest match | a handle opens its page; a typo opens the closest |
| **Search**, `search.rs` | none | ranking | best first, ties in the order of the contents, at most *limit* |
| **View**, `view.rs` | none | `lookup`, `toc` | probes of the page found run, and no others |
| **Probe framework**, `probes/mod.rs` | root, fixed answers for tests | `run`, `path`, `resolve`, `read*` | stays inside the root; ends on loops of links |
| **Probes**, `probes/*.rs` (49) | none; they read /proc, /sys, /etc | one function each | a status and notes that say what could not be read |
| **Rendering**, `render/*.rs` | none | documents, wrapping, Markdown, live values | links on their lines; no text lost |
| **Prompt**, `prompt.rs` | none | `build`, `redact_text` | names of user, host and home do not leave the machine when redacted |
| **MCP server**, `mcp.rs` | library, context | five tools on one thread | answers every call, unless a probe hangs |
| **Command line**, `main.rs` | none | dispatch | output stream and exit code fit the outcome |
| **Static site**, `examples/book.rs`; **build script** | files written | one pass | every link has a page |

How they interact: `main` loads the library, which refuses contents that break
the rules, and hands it to one of the command line, the interactive mode or
the MCP server. Each of them resolves a query, and the view runs the probes of
the page found; some probes ask `systemctl` through `run`. The interactive
mode keeps handles (a hub's id or a card's number), never pages: every link,
every step back and every reload is a lookup by handle. It therefore rests on
the library's promise that a handle opens its page: `LookupAssumption` in
`Tui` is `HandlesOpen` in `Library`.

What is hard here:

- *Interleaving*: the caller of `run`, its reader thread, the child, and
  whatever the child leaves behind; the process table under `proc.states`.
- *Stale state*: `items` and `regions` belong to the last draw, a pending
  count to the keys before, expanded questions to one page, the heights to the
  terminal before it was resized.
- *Several steps, one failing*: an error that cannot be told because stderr
  fails as well; a folder or a second call that gives nothing and seems empty; a lookup that finds nothing; a file that does
  not parse, in a loader that goes on after each problem and lets later loops
  skip what earlier ones reported.
- *Boundaries*: scrolls and counts as machine integers, panes of height 0,
  empty documents, headers among the rows of the contents, numbers that are
  positions in two different lists.
- *Liveness*: a call of a program must return.

`PROJECT.json` lists these hazards at their lines, with the properties that
cover each.

## 2. The models

### Tui: the interactive mode

The state is that of `App` (`app.rs:96-149`), with the documents reduced to
what the state machine sees of them: a page is a sequence of links, one to a
line, after the links of a "did you mean" header and some lines of live
values, whose number changes at every reload. An expanded question adds
`Answer` lines. `selected` counts from 1, with 0 for `None`; rows of the
contents count from 1, lines of a document from 0.

The event loop (`mod.rs:46-66`) is `phase`: `draw`, then `wait`, then one
event, then `draw` again, and `done` after the draw that follows a quit.
Actions:

| Action | Code |
|---|---|
| `Start` | `run`: opens the page given as argument, before the first draw |
| `Draw` | `App::draw`: `draw_toc`, `draw_content` or `draw_ask`, `draw_doc`, regions; the height is any of `Heights`, so the terminal may be resized between any two events |
| `KeyEvent`, `DigitEvent` | `App::key`: by mode, `SearchKey`, `AskKey`, `NormalKey`, and `VimMotion` for what page and prompt share |
| `Pointer` | `App::mouse_event`: click on a row, a link or a pane, right click, wheel |
| `Ignored` | the events `handle` drops: they still cause a draw |

Sums and products of scrolls and counts are those of a release build: modulo
`MaxUsize + 1` where the code uses `+` and `*`, saturating where it uses
`saturating_*`. `MaxUsize` is 15 in the runs, so that both are reached with
two digits.

Bounds: `MaxHistory` stops opening pages from a page once so many are behind
it (the code has no limit); digits, keys and buttons are the sets the
configuration names.

`Browser` is the abstract specification: one page shown, the pages left behind
in order, `Open` and `Back`. `Tui` implements it with
`shown <- page.handle` and `past <-` the handles of the history.

### SystemCommand: asking an external program

`run` (`sys.rs:144-185`) with its four actors. The caller's steps are those of
the code: refuse what is not allowed or not there, spawn, start the reader,
poll with `try_wait`, sleep while there is time, and then either take the
answer (`join` the reader) or kill and `wait`. The reader reads until the end
of the pipe, which comes when no process holds its other end. The child
writes, may leave a helper behind that inherits the pipe, and exits; SIGKILL
ends it. If the process was started with SIGCHLD ignored, a child that ends
leaves no status, and `try_wait` fails. Output is a number of chunks, and text
that is not UTF-8 comes out as nothing, as `read_to_string` leaves it.

The code allows one program, `systemctl` (`sys.rs:139`). The configurations
add `journalctl` to have an allowed program that is not installed.

Bounds: a pipe of two chunks, four chunks of output (so that the pipe is full
and drained more than once), a timeout of three ticks. The clock may tick
between any two steps, which covers a caller scheduled late.

### Library: loading the content

`Library::from_files` (`library.rs:85-294`) loop by loop: read SUMMARY.md,
parse the files in the order of their paths, number chapters and entries,
check that every page is listed once, replace mentions in the texts, check
references and probes, add hub keys and then card keys. A problem never stops
the loading, except a SUMMARY.md that is not there. `Resolve` is the exact
part of `resolve.rs:64-107` and `Handle` is `Target::handle`.

A word (id, alias or query) is a text or a chapter number, which is what
`parse_number` tells apart; `LowerCase` is `normalize`. A file is what its
parsing keeps. The numbers of a card come from the entry's place in
SUMMARY.md, while `CardByNumber` indexes the cards of the chapter, as in the
code.

The run loads about ten thousand contents: every chapter of up to three
entries over two cards, a hub, SUMMARY.md itself and a file that is not there,
a page of the chapter that is a hub, a card or none, a few tables of two
chapters, each with 22 variants of the files that break each rule in turn.

### Probes: what is read and what is answered

A probe (`probes/*.rs`) reads some files, some of which may be missing or
denied, and answers with a status, data and notes. `ProbeResults` has the two
sides. A *site* is a file, folder, link or system call a probe reads: how
reading it fails, if it does, and which of the things a probe looks for are in
it. An *answer* has the status, whether there is data, which fields of it were
really read (and not filled with a default), and what its notes speak of.
`Needs`, `Nothing`, `Noted` and `Always` are the ways in which the code puts
answers together.

Each probe is an operator from its sites to its answer, in the module of its
part of the machine. It keeps the control of the function: which site is read
first, which failure ends the probe, which source is taken of several, which
failure makes a note and which a silent default. Formats and numbers are
abstracted to the things found. A site that is *hidden* lies in a folder that
may not be entered: it cannot be read, and it does not seem to exist.

`Probes` has the registry and two actions: `Run` (`ProbeInfo::run`) and
`BecomeRoot`, since an answer may say "needs root". To root nothing is denied
(`Opened`), but root has another home, account and environment: `account`
(`shell.rs:54-70`) finds the home by the uid in /proc/self/status, so that ten
probes look at other files and another environ than before. `Own` names these
sites of a probe and the fields that rest on them, and `AsRoot` puts in their
place any of `RootsOwn`, which need have nothing to do with the user's. So an
alias in the user's git configuration is lost to `sudo atfq`, and the property
`RootKnowsMore` is about the rest, which is the host's. sudo runs a program in
the same namespaces: `/proc/self/ns`, `/proc/self/mountinfo` and
`/proc/self/smaps` are taken to be the host's. `PageHead` is what a page shows
of an answer before its notes (`live.rs:36-93`).

`MCProbes` gives every probe the machine on which all its sites are there with
all that they may hold, the one on which none is, and those that differ from
one of the two in at most two sites, in every way a site can be; what root has
of its own is all there, none of it, or an account with an empty home. Two suffice
for the decisions of the code, which join at most two failures; what depends on
more (memory limits, CPU topology) has machines of its own.

### Processes: a machine that changes while it is read

`proc.states`, `proc.top` and `proc.threads` list /proc and then read one or
two files of each process, while processes fork, wait, exit to zombies, are
collected, hand on their number to another process, and lose their parent.
What a process uses changes with every step of it (`Work`): a process that was
read may use more or less before the list is at its end. `systemd.status` asks
systemctl twice while units fail and recover and while systemd starts, goes
down or goes to maintenance (`phase`, `Proceed`); `Said` has all that
is-system-running may say, "unknown" included. Either call may not come back
(`NoAnswer`) or end without output (`Silent`), which `ctx.run` takes as an
answer whatever the exit code (`mod.rs:253`). Each step of a probe is one read;
the machine may move between any two. A process is named by the order of its
birth, so that two that have the same number one after the other are told
apart. Three variables are history: `had`, what each process that was there
since the listing has used since then; `quiet`, that no unit changed since the
first call; `second`, how the second call was answered.

`proc.states` reads the processes in the order of their numbers, the other two
in that of the names of their folders, which is some order of the numbers.
`Sorted` (in `Sorting`) is the sequence of a finite set in a given order, said by
what it is (a `CHOOSE`) and not by how it is found, so that it can be reasoned
about; the top lists are sorted (`InOrder`) and then cut (`Cut`).

What matters differs from probe to probe, so `MCProcesses` bounds the machine of
each (`Bounded`):

- `proc.states`: four numbers, of which init and the program itself hold two, and
  five births, so that numbers are used again; lists of up to two rows, so that
  their order and their cut both matter; amounts stay as they are.
- `proc.top`, `proc.threads`: three numbers and four births, two amounts, which
  change at any time, and lists cut after two rows.
- `systemd.status`: two units and all phases; processes play no part.

Only the steps of the machine run into these bounds, so that what is fair to the
probe is as in `FairSpec`.

### Program: a run from the command line to the exit

`main` (`main.rs:84-192`): refuse, dispatch, compute and write, report. stderr
(`sink`) takes what is written, fails (a full disk, a terminal that is gone), or
its reader has left, and may turn from the first to the others at any time.
`Tells` is an `eprintln!` that succeeds; one that does not panics (`Panics`),
and the message of that panic is lost for the same reason: exit code 101 and
nothing told. So does the summary of `ask` (`Summarize`), the report of a
failed write (`WriteStdout`, `WriteStderr`) and that of the interactive mode
(`Report`); the usage is written without regard to errors. The interactive mode borrows the terminal: each escape sequence may reach it in
part, the terminal may hang up at any step, drawing and handling may panic.
`Capture` is the loop's own copy of the mouse capture (`tui/mod.rs:47-65`), `Restore`
ignores errors. The MCP server (`mcp.rs`) answers requests on one thread, in
order; a probe may not come back (finding 2), which is `Stuck`.

What the commands compute is left to the other modules: here only whether
something was found matters. `MaxRequests` bounds the requests of a client.

### Algorithms: pure functions against what they should do

Each of eight functions is translated as it computes, and next to it stands a
definition of its result that is said in another way:

| Module | Code | Said by |
|---|---|---|
| `Paths` | `ProbeCtx::resolve` (`mod.rs:280-331`): a walk over names | a chroot, which steps from folder to folder and finds where a link leads before it goes on |
| `Sshd` | `server`, `read_sshd`, `expand` (`ssh.rs`): a recursion that keeps the first value | the places of all values, as chains of Includes and line numbers, in their order |
| `Redaction` | `redact_text` (`prompt.rs:137-198`): four replacements one after another | which names are left in the result |
| `Sections` | `card_sections` (`entry.rs:180-289`): one pass over headings, that counts which section may come | the shape of a body that follows the rules |
| `Closest` | `fuzzy`, `distance` (`resolve.rs`): a table of costs, an order packed into one number | single edits, and an order by rank and place |
| `Search` | `search` (`search.rs`): sums of weights, sorted and cut | what a hit that is left out must be worse in |
| `Wrapping` | `wrap` (`text.rs:166-257`): one pass over the places of the text for the pieces of its words, one that counts them onto lines | which neighbours in the text may be apart on the page, and how wide a line may be |
| `Markdown` | `Md` (`markdown.rs`): parser events against stacks of lists, indents and styles | a layout computed from the tree of the document |

`Calls` calls all but `render`: they declare no recursive operator, and are
proved. `Algorithms` adds the call of `render`. Each is made once, on an input from
`MCAlgorithms`: trees of
four nodes with absolute, relative and looping links; three sshd files that may
include each other, by one pattern or two, and of which two lie in a folder that can be listed or not; texts of up to five letters, and longer ones that begin with a home, with
users and hosts that are parts of each other or not known, and homes that are
the root, trimmed or trimmed to nothing; bodies of up to five lines and those near a whole card;
words of up to five letters; three pages of three fields; spans of up to six
characters with blanks, code and a link, in panes of one to four columns; lists
in lists with bullets and numbers around 10. `MAX_LINKS` is 3,
`TLDR_MAX_LINES` 2, so that the limits are met.

## 3. The runs

| Run | Checks | Shows |
|---|---|---|
| `nav` (173 thousand states) | `ItemsAreTheScreens`, `ExpandedAreQuestions`, `AskIsAboutThePage`, `IsABrowser`, `ContentsFollowThePage` | navigation by key, click, search and start argument, with two pages of history |
| `keys` (1.7 million) | `TypeOK`, `NoPrefixInSearch`, `TocOnAPage`, `ViewInDocument`, `QuitsOnlyWhenAsked`, `RevealShows` | every key in every mode, counts, wheel, panes of 0, 1 and 3 rows, reloads that change the length of the page |
| `overflow` | `DownGoesDown`, violated | see finding 1 |
| `call` (6464) | `WholeAnswer`, `NoChildLeft`, `FullPipeIsDrained`, `GivesUpOnRunning`, `ReturnsUnlessHeld` | one call, all interleavings, with a process left behind: it returns unless that process keeps the pipe for ever |
| `helper` | `Returns`, violated | see finding 2 |
| `load` (223 thousand) | `TypeOK`, `AcceptsValidBooks`, `HandlesOpen`, `KeysOpen`, `ReferencesOpen`, `EachPageOnce` | the loader against the rules as a whole |
| `self` | `ListedFilesAreThere`, violated | see finding 3 |
| `probes` (319 thousand) | `SaysWhy`, `RootKnowsMore` | every probe on every machine that lacks up to two things, and again as root with a home of its own |
| `processes` (444 thousand) | `CountsEachOnce`, `LeavesOutLess`, `UnitsAgree`, `Answers` | reads, or calls of systemctl, interleaved with a changing machine |
| `program` (57 thousand) | `CodeTells`, `TerminalGivenBack`, `MouseFollows`, `Serves` | every command, failed writes to stdout and stderr, hang-up, panic, a client that leaves |
| `calls` (558 thousand) | `WalksAsChroot`, `FirstValueWins`, `NamesHidden`, `SectionsByTheRules`, `ClosestComesFirst`, `BestHitsShown`, `WrapsWhole`, `StandsWhereItBelongs` | the pure functions on all small inputs |
| `unlisted` | `FirstValueOrUnreadable`, violated | see finding 4 |

The book of `MCTui` has a hub that is twice in the contents, a card with a
question and a link, a typo that shows a page with a header, and a word that
finds nothing. That is the smallest with every kind of row, link and lookup.
Two pages of history are enough to tell a stack from a single slot. `nav` has
one height and few keys, `keys` no history; that views stay in the document
with both is proved (`ViewCorrect`). The types of `SystemCommand` are proved
and not run (`CommandTypes`).

Deadlock is not checked where the system stops: when the reader quits, a call
ends, loading ends, the program exits, a function has returned. `probes` checks
it: a probe can be run again at any time.

Every property of a passing run has a mutant in `PROJECT.json`: a plausible
bug in one definition, under which the property fails.

### Fairness

`Returns` and `ReturnsUnlessHeld` assume that the threads of the program are
scheduled (`Caller`, `Reader`), that time passes (`Tick`) and that SIGKILL
kills (`Die`). Nothing is assumed of the program that runs: it may write or
not, hang, or never exit. `Answers` assumes that the probe's thread is
scheduled, and nothing of the machine, which may never stop changing (its
births are bounded, but waiting and what a process uses are not); that systemctl
comes back is what `SystemCommand` is about. `Serves` assumes that the threads of the program are
scheduled (`Main`, `Interactive`, `Server`), and nothing of the client or of the
terminal. The interactive mode promises nothing about what a
reader does next, and its specification has no fairness; neither has the
loader, which has only invariants.

## 4. What is proved

For every value of the constants that satisfies the assumptions in the
modules, by TLAPS:

**Tui.** `TypeCorrect` is `[]TypeOK`, by one lemma per handler; `TypeOK` is
inductive as stated. The rest builds on it:

- Every step has one of three shapes: it opens a page, returns to the page
  left last, or stays on the page, and then the expanded questions grow by one
  on the screen at most. One lemma per handler says so; `AskCorrect`,
  `ExpandedCorrect` and `Refinement` follow from the shapes.
- `ItemsCorrect`, `ViewCorrect`: `wait` is entered only by `Draw` and left by
  every event, so what a draw establishes of `items` and views holds until the
  next event.
- `ExpandedCorrect` needs one more fact: the questions on the screen are those
  of the page, whenever an event is handled (`ItemsAreTheScreens`).
- `TocCorrect`, `PrefixCorrect`: inductive with `TypeOK`.
- `RevealCorrect`: a motion that asks for its selection to be shown keeps it
  within the reach of the next draw, and the draw scrolls to it: by cases on
  whether the line is above, in or below the pane.
- `ContentsCorrect`, `QuitCorrect`: action properties, from the types and the
  shape of each handler.
- `Refinement`: `IsABrowser`. Every step maps to `Browser`'s `Open`, `Back` or
  a stutter. A reload maps to a stutter only because a handle looks up its own
  page (`LookupAssumption`).

**SystemCommand.** The inductive invariant has four parts: the types;
`OutputInv`, that every chunk written is in the pipe or was read, and that the
reader has ended only when the pipe is empty and no process holds it;
`CallerInv`, which child and which reader there is at each `pc`; `AnswerInv`,
that only a return gives an answer, of all that was read, after the reader
ended. `AnswerIsWhole` follows because nobody can write once no process holds
the pipe, so the answer stays whole after the call returned. `GivesUpInTime`
adds `PollInv`: while children leave a status, no poll fails.

**Program.** What is proved of a run follows from one inductive invariant that
says, for each place in `main`, what is borrowed of the terminal (`BorrowInv`),
that the loop's copy of the mouse capture is the App's when it waits
(`LoopInv`), and what is on the streams before the end (`EndInv`). `CodesTell` is
inductive with them, by a case for each way in which a write to stdout or to
stderr ends. `GivesTerminalBack` needs all three: `Restore`
undoes each part on its own, whatever was borrowed when the error came.

**Probes.** `ProbesSayWhy` is `[]SaysWhy` for every machine, whatever is in its
files and however reading them fails: each way of putting an answer together
(`Needs`, `Noted`, `Nothing`, `Always`) explains itself, and each probe is one
of them; a probe that ends with several has a case for each. `RootIsShownMore`
is `RootKnowsMore`: a probe without own sites is monotone, and on a machine of
which more can be read (`Wider`) it knows at least as much; one with own sites
knows at least as much of the host, whatever these sites become (`Sees`,
`ShowsHost`). There is one lemma per probe, `...Knows` or `...Shows`; `AnswerInv`
says that what the last answer showed the next one will show, on the machine as
it is now. What is assumed of machines is `IsMachine`: they have the
sites of their probe, and whoever may list a folder of units may read the links
in it; of what is root's own (`RootsOwnAssumption`) only that it has those sites.

**Library.** One inductive invariant, with a conjunct for each thing the loops
leave to the loops after them: where each loop stands (`ControlInv`); that a
page is the file its path was parsed from (`ParsedInv`); that `listed` counts
the places of SUMMARY.md visited so far (`ListedInv`); that the cards of a
chapter are those of its entries, and that none is there twice unless a file is
listed twice (`ChaptersInv`, `CardsInv`); that a number is the place of its
card (`NumbersInv`); that a key belongs to the page it opens (`KeysInv`); and
that what every loop has checked so far holds as long as no problem was found
(`SoundInv`). `Invariance` proves it. From it follow:

- `HandlesCorrect`: the handle of a page of an accepted library opens that page.
  The number in the handle is that of a place, while `CardByNumber` counts the
  cards of the chapter: the two agree because in a library without problems
  every entry is a card, each of them is listed once and keys are never
  numbers.
- `KeysCorrect`, `ReferencesCorrect`, `ContentsCorrect`: every key, reference
  and mention opens its page; every page is in the contents once.
- `AcceptsCorrect`: that a library without problems follows the rules is
  `SoundInv` at the end; that one that follows them has no problems is
  `CompleteInv`, inductive with `Inv`.

What is assumed of contents (`LibraryAssumption`) is what their parsing
guarantees: a file has the fields of its kind (`FieldsOfItsKind`).

**Processes.** `CountsCorrect` and `TopListsCorrect` follow from one inductive
invariant, `ProcInv`. What makes it inductive: a steady process is the one it
was when the list was made (`StaysItself`, for every step of the machine); a
number whose turn has passed is never read again (`TodoInv`); the steady
processes whose number was read are among those counted, and what was counted
or is left to count was born (`CountInv`); each list of `proc.states` is as
long as its count, up to `LIST_MAX`, in the order of the numbers (`RowsInv`);
`had` has what a steady process uses now (`UsedInv`, kept by `WorkKeeps` and
begun by `ListUses`), so that every steady process read has a row in a top list
with something it used during the reading (`ShownInv`), and only one
(`OnceInv`). The last step sorts and cuts: `TopHasTheMost` says that the amount
of a row that `Top` leaves out is no more than that of any row it shows. It rests on lemmas about
`Sorted` (`DataProofs`): every finite set has a sequence in every total order
(`SortedExists`). That is proved by taking a smallest set without one: proper
inclusion of finite sets is well-founded, which the library states without an
operator parameter, so that no induction is needed. `UnitsShownAgree` is `[]UnitsAgree`: whatever
systemd is at when it is asked and becomes after that, "running" and "degraded"
say whether a unit had failed, which stays so unless a unit changed; a list of
units is empty only if there are none (`ListOfNone`); and an answer is Ok only if
the second call came back.

**Calls.** `SearchShowsBest` is `[]BestHitsShown` for any pages, words and
limit. `MatchesAndScores` bounds what a page gets for its words (a page with all
of them matches as many as there are), `SnippetIsRight` says from which field
the line of a hit is, and `HitsSorted` that `Sorted` has every hit once, in the
order `Before`. `ClosestCorrect` is `[]ClosestComesFirst`. It needs to know what
the table of `distance` holds, for words of any length: `ZeroCells`, that a cell is
0 exactly where the beginnings are equal, and `OneCells`, that it is at most 1
exactly where they are equal or one letter is inserted, deleted, replaced or
swapped with its neighbour (`EditUpTo`). Both take the cell with the smallest sum
of indices for which it is false (`SmallestNumber`); so does `TableIsFilled`, that
the recursive function of the table exists. Assumed of the inputs: pages are in
the order of the contents with up to 1000 chapters and sections
(`QueriesAssumption`), and every page has a field (`SearchesAssumption`).

The proof of `ClosestCorrect` showed that `ClosestFirst`, as it was checked before,
was too strong: for a query of nine letters or more, two edits and three have one
rank, but not one cost. No input of the run is that long; the property now says
nothing of the order of such pages.

`NamesAreHidden` is `[]NamesHidden` for any text, home and names. `Written` is the
text that steps write, each of which says what is written at a place and where
it goes on; `WrittenIs` is that this recursive function exists, by the smallest
part of the text for which it does not. `ReplaceWordTraced` gives each letter of
what `replace_word` writes the place it comes from (`Traced`): it is copied from
there, or is a whole name that is hidden. So a name that is whole in the result
is copied letter by letter, and its neighbours are no letters of a word in the
text either (`TracedWhole`): what hides the host brings no user about, and what
hides the user neither host nor a folder of /home (`ReplaceWordHides`).
`RedactHomeDirsHides` is the same of `redact_home_dirs`, where a folder of /home
could also come about from what is written around a hidden one. Assumed
(`PromptsAssumption`, `LettersAssumption`): names of users and hosts begin and
end with a letter of a word and do not begin again after a hyphen (section 6);
what stands for a name is no part of one, that is, no user is called "user" and
no host "hostname".

`TextIsWrapped` is `[]WrapsWhole` for any spans and widths. `PieceOf` and `Wrap` are
recursive functions over the places of the text; `LoopIs` is that such a function
exists, and `Upward` that what holds before the first place and is kept by each
holds after the last, both from `SmallestNumber`. `PieceHolds` and `PieceFits` say
what a piece is: characters of one word next to each other, no wider than a line
if the word is cut. Between the end of one and the beginning of the next are only
blanks (`NoneBetween`); the two are of one word only if that word is cut where the
line is full (`BeforeIs`). The inductive invariant (`AfterPlace`, `Current`) is that up
to the last piece that has ended all of the text is on the lines in its order
(`ShownTo`), the line that is written follows the text and is in the width or one
piece, its length is the one counted, and the lines that are ended are as they
should be and end where they should (`GoodLines`, `EndBefore`): `FirstWord` and
`NextWord` are its steps. What is checked alone, that lines are right at the end,
is not inductive: whether a line may end depends on what was counted for it.

This proof showed what `wrap` relies on (`WrapsAssumption`): no first line begins
further left than the others. If one did, it could hold two pieces of a cut word with a
space between them. All calls in `render` keep to it: the first line has a
marker, a label or a mark, and the others begin under what follows it
(`live.rs:112`, `markdown.rs:152`, `mod.rs:156`, `mod.rs:171`, `mod.rs:267`), and
the others give the same for both.

`CardsFollowTheRules` is `[]SectionsByTheRules` for any body. The loop over the headings
is a recursive function over the lines (`SectionsAfter`), which `LoopIs` and
`Upward` are about as well. Its invariant (`SoFar`) is that nothing is wrong so far
if and only if the sections so far are each well made and come in their order
(`InOrder`), and then the expected section is the one behind the last, and what is
kept is the text of each: that the count alone tells the order, also where a
section is missing, is what `LineRead` has to show. From there `ByTheRules` is that a body
with the shape of `Follows` is accepted, `OnlyByTheRules` that an accepted one has it,
unless it begins with a question, and `AllKept` that the three texts are all of the
text, and apart (`QuestionTexts`: a line is in the last question before it).
Nothing is assumed but that the lines are those of `Lines` (`BodiesAssumption`) and the limit
is a number (`LimitAssumption`).

`LinksLeadAsInAChroot` is `[]WalksAsChroot` for any tree of links, any path and any
limit. Neither function can be followed by counting names: the walk grows where a
link is followed, and the chroot begins anew for each link. `WhileIs` says that a
loop that need not end has a value from every state (`WalkIs`: what the walk does
with one name), and `ChrootIs` goes link by link: where a chroot gets with at
most so many links left, the walk has the same names left from the same folder
(`Leads`, `Known`), whatever stands behind the link, and `FollowIs` is that part by
part (`EnterIs`, `NamesLeft`). That a link in the middle has to be followed also
where the last is not is in `Leads`: it is about the rest behind the way. Nothing
is assumed but that targets and paths are sequences of names (`WalksAssumption`)
and the limit is a number (`MaxLinksAssumption`).

`FirstValuesShown` is `[]FirstValueWins` for any files, whichever include each other.
The places are those of sshd, which can list every folder and reads every pattern
of an Include (`Globs`); the property is about the files of which the program sees
the same (`SeesIncludes`): each Include is of one pattern, and a folder that it
names can be listed. `SeenFiles` and `ListIs` are that `Expand` then gives what sshd
globs, and finding 4 is what comes of the other files.
The recursion of `read_sshd` is one over the levels that may still be read, and
what is proved of each level (`Reads`, `LevelsRead`) is that reading a file adds
to what is there the first value at its places, and that a file is missing
(`Added`). Within a level `AddedAll` is that of a loop, if the places of each step
are earlier than those of the next ones: it is used for the lines of a file
(`ReadLinesIs`, `EarlierLine`) and for the files of an Include (`ReadAllIs`,
`EarlierFile`). `PlacesAreOfLines` is that these are the places that chains of
Includes lead to. Nothing is assumed but that the files have names and lines, the
main file is there (`ConfigsAssumption`: `server` returns None without it) and that
None is no value (`SshdAssumption`).

Only model-checked, then: `render`, which recurses over the tree of a document, as
does the layout it is compared with; and everything that holds in the
end (`ReturnsUnlessHeld`, `Answers`, `Serves`), since TLAPS does not handle
`ENABLED`. The violated properties of section 5 have their counterexamples.

## 5. Findings

1. **A count wraps around** (`overflow`). `scroll_content` adds a saturated
   count to the scroll (`app.rs:314`): a motion down moves the page up.
2. **A call may wait for ever** (`helper`). The timeout does not cover the join
   of the reader (`sys.rs:184`): a program that exits but leaves a process that
   holds its output is never given up.
3. **A SUMMARY.md that lists itself is accepted** (`self`). `missing` finds it
   among the files and no loop parses it; the numbers of the cards after it
   open their right neighbours (`library.rs:165-168`, `424`).
   `HandlesOpen` and `ReferencesOpen` are stated for the other contents.
4. **Drop-ins that cannot be listed seem not to be there** (`unlisted`).
   `expand` takes such a folder as empty (`ssh.rs:176-178`) and leaves
   `unreadable` false: the main file's value is shown in the place of the
   drop-in's, though "a drop-in wins over the main file" (`ssh.rs:118-120`). Of
   an Include of several patterns only the first is read (`ssh.rs:147`).

More disagreements came up, which no run shows:

- The welcome page shows a link for each hub, but Tab and a click look for a
  view, and without a page there is none (`app.rs:304-309`, `334`, `622`), though
  "Tab, Shift-Tab" is "next, previous link" (`README.md:80`). `Tui` has it so:
  `step_link` selects in the view of a page.

The properties name the others as their exceptions:

- A systemctl that fails without output the second time is taken as one that
  lists no failed unit (`systemd.rs:61-71`, `mod.rs:253-261`): `systemd.status` is
  Ok, though "A probe that can't answer says why" (`README.md:128`).
  `UnitsAgree` is stated for a second call that lists.
- `ask` panics if stderr cannot be written, also where its reader has left: it
  tells a summary with `eprintln!` (`main.rs:126`) before its prompt. The exit
  code is 101 and there is no prompt, though "A closed pipe is not an error
  worth reporting" (`main.rs:184`) and the exit codes are 0 to 3
  (`README.md:66`). The same comes of any `eprintln!` that cannot write
  (`main.rs:89`, `104`, `187`, `200`). `CodeTells` allows 101 for that, and for a
  panic of the interactive mode.
- A question before `## TL;DR` is accepted, and the text under it is in no
  section: `card_sections` looks for text before the first heading of any level
  (`entry.rs:192`), and for misplaced questions only between two sections
  (`entry.rs:231`). `SectionsByTheRules` is stated for the bodies that do not
  begin with a question.
- `net.firewall` is unavailable without a reason when systemctl answers
  nothing of interest and there is no ufw (`net.rs:402`), though "A probe that
  can't answer says why" (`README.md:128`). `SaysWhy` excludes it.
- With the home `/home/a`, the folder `/home/al` of another user becomes `~l`
  (`prompt.rs:143`): no whole name is left, as `NamesHidden` says, but it is
  not the `/home/<user>` of `prompt.rs:137-138`.

## 6. What is not modelled

- The text of pages, footer messages and colours.
- Parsing: frontmatter, Markdown into events, the lines of /proc and /sys files, and the
  numbers computed from them. The probes are modelled by what is found in a
  file, `Sections` from the headings on, `Markdown` from the events of the parser.
- Live values (`render/live.rs`), but for what stands in their place
  (`PageHead` in `Probes`): words and numbers made of a probe's answer.
- Which commands are dangerous (`content/danger.rs`): an enumeration.
- Tables and the order of the sections of a page (`render/mod.rs`).
- The static site (`examples/book.rs`) and the build script: files written in
  one pass.
- Libraries: crossterm, ratatui, tokio, rmcp, clap, serde.
- Signals: SIGTERM or SIGKILL end the interactive mode without `restore`, and
  the terminal stays raw. No text of the repository promises otherwise. A
  terminal that hangs up sends SIGHUP, which ends the program too unless it is
  ignored (`nohup`): `HangUp` is about that case, where it goes on.
- What clap prints and does for `--help`, `--version` and wrong arguments, but
  for the exit code and that usage goes to stderr.

Where a model stops short of the code, on purpose:

- `WalksAsChroot` speaks of paths that a chroot opens. Of one that it does not,
  the walk over names may still make one: `missing/..` is taken back without a
  look, and after 40 links the last one stays in the path.
- `replace_word` goes on behind a match that is not whole (`prompt.rs:182-189`):
  the host `a-a` is left in `xa-a-a`. `Name` has no names that begin again after
  a hyphen.
- Defaults that hide a failure: `mem.errors` shows 0 for a counter that cannot
  be read, `cpu.topology` says "not there" of what is denied, `net.layers` is
  Ok without addresses. The models have them; such a field is not among the
  known ones, and no property asks for a note.
- `ask` exits with 0 also when nothing matches: a prompt asks about what there
  is (`main.rs:128`). `CodeTells` allows it.
- The order of fuzzy matches packs chapter and section into one number, which
  is that of the contents for up to 1000 of each (`resolve.rs:123`); the inputs
  go to that limit.
- An item that begins with code or with a list loses its marker, or a later
  text of it gets it (`markdown.rs:84`, `107`): `StandsWhereItBelongs` asks for
  markers where items begin with text, as all of the repository's do. A code
  that ends in blanks loses them at the end of a line.
- A label that is wider than its column (`live.rs:110`) puts the first line past
  the edge of the pane by as much: `WrapsWhole` allows that for a line of one
  word.

## 7. Plan

*Done*, in this order: `Tui`, `Browser` and their proofs; `SystemCommand` and
its proofs; `Library`; `Program` and its proofs; `ProbeResults`, the probes,
`Probes` and their proofs; `Processes`; `Paths`, `Sshd`, `Redaction`,
`Sections`, `Closest`, `Search`, `Wrapping`, `Markdown` and `Algorithms`; the
proofs of `Library`, of `RevealShows`, of `Processes` and of `Calls`.

To come:

1. A proof of `StandsWhereItBelongs`. `render` recurses over the tree of a
   document, and TLAPS has no induction over data; the smallest input for which
   a function is wrong, which stands in for it in the other proofs about
   `Calls`, would have to be found among trees here.
