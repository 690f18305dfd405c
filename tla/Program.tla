------------------------------ MODULE Program ------------------------------
(***************************************************************************)
(* One run of atfq: the command line (src/main.rs), the terminal that the  *)
(* interactive mode borrows (src/tui/mod.rs) and the MCP server            *)
(* (src/mcp.rs), with what their environment may do to them: writes that   *)
(* fail, a terminal that hangs up, a panic, a client that sends requests   *)
(* and leaves, a probe that does not come back.                            *)
(*                                                                         *)
(* What the commands compute is left to the other modules; here only       *)
(* whether something was found matters.                                    *)
(***************************************************************************)
EXTENDS Naturals, Sequences

CONSTANT MaxRequests    \* bound on the requests of a client

VARIABLES
  command,   \* the command line: a command, whether it finds, and --json
  embedded,  \* the contents built into the program load
  tty,       \* stdin and stdout are a terminal
  pc,        \* where the program is
  result,    \* Ok or Err, of the interactive mode and of the server
  code,      \* its exit code, 101 for a panic
  stdout, stderr,   \* what was written there
  sink,      \* stderr takes what is written, fails, or its reader has left
  term,      \* the terminal as it was left by what was sent to it
  hungup,    \* it is gone
  captured,  \* the loop's copy of whether the mouse is captured
  app,       \* App: whether it captures the mouse, and should quit
  requests, answers,   \* of the client and of the server
  client     \* the client is there

commandLine == <<command, embedded, tty>>
output == <<stdout, stderr, sink>>
screen == <<term, captured, app>>
wire == <<requests, answers, client>>
vars == <<commandLine, pc, result, code, output, screen, hungup, wire>>

SUCCESS == 0
NO_MATCH == 1
USAGE == 2
INTERNAL == 3
PANIC == 101

Commands == {"tui", "mcp", "ask", "toc", "search", "list", "probe", "lookup",
             "none", "invalid"}

\* A terminal as the shell has it.
Normal == [raw |-> FALSE, alternate |-> FALSE, mouse |-> FALSE, cursor |-> TRUE]

Tools == {"lookup", "search", "toc", "run_probe", "list_probes"}

Sinks == {"open", "failing", "left"}

Init ==
  /\ command \in [name : Commands, found : BOOLEAN, json : BOOLEAN]
  /\ embedded \in BOOLEAN
  /\ tty \in BOOLEAN
  /\ pc = "main"
  /\ result = "none"
  /\ code = 0
  /\ stdout = {} /\ stderr = {}
  /\ sink \in Sinks
  /\ term = Normal
  /\ hungup = FALSE
  /\ captured = TRUE
  /\ app = [mouse |-> TRUE, quit |-> FALSE]
  /\ requests = <<>> /\ answers = <<>>
  /\ client = TRUE

Exit(c) == pc' = "exited" /\ code' = c

-----------------------------------------------------------------------------
(* main.rs *)

\* eprintln!, which panics when it cannot write, whatever the reason, and then
\* cannot tell of the panic either.
Tells(what) == sink = "open" /\ stderr' = stderr \cup {what}
Panics == sink # "open" /\ stderr' \in {stderr, stderr \cup {"cut"}} /\ Exit(PANIC)

\* Cli::parse, Library::embedded.  The usage is written if it can be.
Refuse ==
  /\ pc = "main"
  /\ \/ /\ \/ command.name = "invalid"
           \/ command.name = "none" /\ embedded /\ ~tty
        /\ Exit(USAGE)
        /\ stderr' = IF sink = "open" THEN {"usage"} ELSE {}
     \/ /\ command.name # "invalid" /\ ~embedded
        /\ \/ Tells("error") /\ Exit(INTERNAL)
           \/ Panics
  /\ UNCHANGED <<commandLine, result, stdout, sink, screen, hungup, wire>>

\* The commands that do not return here.
Dispatch ==
  /\ pc = "main" /\ embedded
  /\ \/ command.name = "tui" /\ pc' = "hook"
     \/ command.name = "none" /\ tty /\ pc' = "hook"
     \/ command.name = "mcp" /\ pc' = "serve"
  /\ UNCHANGED <<commandLine, result, code, output, screen, hungup, wire>>

\* Where the output goes: a page that is not found is told on stderr, but for
\* --json; an unknown probe always is, and a search without hits never.
OutOf(c) ==
  LET told == IF c.json THEN "json" ELSE "text"
  IN  CASE c.name = "probe" /\ ~c.found             -> [to |-> "stderr", what |-> "not found"]
        [] c.name = "lookup" /\ ~c.found /\ ~c.json -> [to |-> "stderr", what |-> "not found"]
        [] OTHER                                    -> [to |-> "stdout", what |-> told]

CodeOfPages(c) ==
  IF c.name \in {"search", "lookup"} /\ ~c.found THEN NO_MATCH ELSE SUCCESS

\* A prompt asks about what there is, found or not.
CodeOf(c) ==
  IF c.name \in {"search", "probe", "lookup"} /\ ~c.found THEN NO_MATCH ELSE SUCCESS

\* ask tells what is in the prompt before it prints it.
Summarize ==
  /\ pc = "main" /\ embedded
  /\ command.name = "ask"
  /\ \/ Tells("summary") /\ pc' = "write" /\ UNCHANGED code
     \/ Panics
  /\ UNCHANGED <<commandLine, result, stdout, sink, screen, hungup, wire>>

\* write_all to stdout.  A reader that has left is no error.
WriteStdout(what) ==
  \/ /\ Exit(CodeOf(command))
     /\ stdout' \in {{what}, {"cut"}}
     /\ UNCHANGED stderr
  \/ /\ stdout' = {"part"}
     /\ \/ Tells("error") /\ Exit(INTERNAL)
        \/ Panics

\* write_all to stderr: an error that is not that of a reader who left is told
\* there as well, and panics unless it was one that does not last.
WriteStderr(what) ==
  /\ \/ Tells(what) /\ Exit(CodeOf(command))
     \/ /\ sink = "open" /\ stderr' = stderr \cup {"cut", "error"}
        /\ Exit(INTERNAL)
     \/ /\ sink = "left" /\ stderr' \in {stderr, stderr \cup {"cut"}}
        /\ Exit(CodeOf(command))
     \/ sink = "failing" /\ Panics
  /\ UNCHANGED stdout

\* The other commands compute their output, write it all, and exit.
WriteOut ==
  /\ \/ pc = "write"
     \/ /\ pc = "main" /\ embedded
        /\ command.name \in {"toc", "search", "list", "probe", "lookup"}
  /\ LET out == OutOf(command)
     IN  \/ out.to = "stdout" /\ WriteStdout(out.what)
         \/ out.to = "stderr" /\ WriteStderr(out.what)
  /\ UNCHANGED <<commandLine, result, sink, screen, hungup, wire>>

\* The end of tui and of mcp.  The hook of tui is still set when eprintln!
\* panics, and finds the terminal restored.
Report ==
  /\ pc = "return"
  /\ \/ result = "Ok" /\ Exit(SUCCESS) /\ UNCHANGED stderr
     \/ result = "Err" /\ Tells("error") /\ Exit(INTERNAL)
     \/ result = "Err" /\ Panics
  /\ UNCHANGED <<commandLine, result, stdout, sink, screen, hungup, wire>>

Main == Refuse \/ Dispatch \/ Summarize \/ WriteOut \/ Report

-----------------------------------------------------------------------------
(* tui/mod.rs *)

\* Escape sequences: all reach the terminal, or an error stops after some of
\* them, or the terminal is gone.
Sent(changes) == {[a \in DOMAIN term |-> IF a \in s THEN changes[a] ELSE term[a]] :
                    s \in SUBSET DOMAIN changes}
AllSent(changes) == [a \in DOMAIN term |-> IF a \in DOMAIN changes THEN changes[a] ELSE term[a]]

FailAtOnce == result' = "Err" /\ pc' = "return"
Fail == result' = "Err" /\ pc' = "restore"

\* App::new, App::open and the panic hook; until then nothing is borrowed.
SetHook ==
  /\ pc = "hook"
  /\ pc' = "raw"
  /\ UNCHANGED <<commandLine, result, code, output, screen, hungup, wire>>

\* enable_raw_mode()?: without raw mode there is nothing to restore.
EnableRaw ==
  /\ pc = "raw"
  /\ \/ /\ ~hungup
        /\ term' = [term EXCEPT !.raw = TRUE]
        /\ pc' = "enter"
        /\ UNCHANGED result
     \/ /\ result' = "Err" /\ pc' = "return"
        /\ UNCHANGED term
  /\ UNCHANGED <<commandLine, code, output, captured, app, hungup, wire>>

\* The alternate screen and the mouse, then Terminal::new.
Enter ==
  /\ pc = "enter"
  /\ LET entered == [alternate |-> TRUE, mouse |-> TRUE]
     IN  \/ /\ ~hungup
            /\ term' = AllSent(entered)
            /\ pc' = "draw"
            /\ UNCHANGED result
         \/ /\ term' \in (IF hungup THEN {term} ELSE Sent(entered))
            /\ Fail
  /\ UNCHANGED <<commandLine, code, output, captured, app, hungup, wire>>

\* terminal.draw hides the cursor.
Draw ==
  /\ pc = "draw"
  /\ \/ /\ ~hungup
        /\ term' = [term EXCEPT !.cursor = FALSE]
        /\ pc' = IF app.quit THEN "restore" ELSE "event"
        /\ result' = IF app.quit THEN "Ok" ELSE result
     \/ /\ term' \in (IF hungup THEN {term} ELSE Sent([cursor |-> FALSE]))
        /\ Fail
  /\ UNCHANGED <<commandLine, code, output, captured, app, hungup, wire>>

\* event::read and App::handle, which may toggle the mouse or quit.
Handle ==
  /\ pc = "event"
  /\ \/ /\ ~hungup
        /\ app' \in [mouse : BOOLEAN, quit : BOOLEAN]
        /\ pc' = "capture"
        /\ UNCHANGED result
     \/ /\ Fail
        /\ UNCHANGED app
  /\ UNCHANGED <<commandLine, code, output, term, captured, hungup, wire>>

CaptureOnce ==
  /\ pc = "capture"
  /\ pc' = "draw"
  /\ IF app.mouse # captured /\ ~hungup THEN term' = AllSent([mouse |-> app.mouse])
     ELSE UNCHANGED term
  /\ UNCHANGED <<commandLine, result, code, output, captured, app, hungup, wire>>

\* The loop follows the App.
Capture ==
  /\ pc = "capture"
  /\ \/ /\ app.mouse = captured
        /\ pc' = "draw"
        /\ UNCHANGED <<term, captured, result>>
     \/ /\ app.mouse # captured
        /\ captured' = app.mouse
        /\ \/ /\ ~hungup
              /\ term' = AllSent([mouse |-> app.mouse])
              /\ pc' = "draw"
              /\ UNCHANGED result
           \/ /\ Fail
              /\ UNCHANGED term
  /\ UNCHANGED <<commandLine, code, output, app, hungup, wire>>

\* restore(), which ignores errors.
Restored == IF hungup THEN term ELSE Normal

Restore ==
  /\ pc = "restore"
  /\ term' = Restored
  /\ pc' = "return"
  /\ UNCHANGED <<commandLine, result, code, output, captured, app, hungup, wire>>

\* A panic in the code that draws or handles: the hook restores before the
\* message is printed.
Panic ==
  /\ pc \in {"draw", "event"}
  /\ term' = Restored
  /\ Exit(PANIC)
  /\ stderr' = IF sink # "open" THEN {}
               ELSE IF term'.alternate /\ ~hungup THEN {"lost message"} ELSE {"message"}
  /\ UNCHANGED <<commandLine, result, stdout, sink, captured, app, hungup, wire>>

Interactive ==
  SetHook \/ EnableRaw \/ Enter \/ Draw \/ Handle \/ Capture \/ Restore

-----------------------------------------------------------------------------
(* mcp.rs *)

\* The first exchange with the client.
Serve ==
  /\ pc = "serve"
  /\ \/ client /\ pc' = "serving" /\ UNCHANGED result
     \/ result' = "Err" /\ pc' = "return"
  /\ UNCHANGED <<commandLine, code, output, screen, hungup, wire>>

AnswerIfFound ==
  /\ pc = "serving" /\ Len(answers) < Len(requests)
  /\ LET r == requests[Len(answers) + 1]
     IN  /\ r.found
         /\ answers' = Append(answers, [tool |-> r.tool, error |-> FALSE, found |-> TRUE])
  /\ UNCHANGED <<commandLine, pc, result, code, output, screen, hungup, requests, client>>

\* One thread, and tools that never yield: a request is answered before the
\* next one is looked at.  Only run_probe makes an error of what is not found.
Answer ==
  /\ pc = "serving" /\ Len(answers) < Len(requests)
  /\ LET r == requests[Len(answers) + 1]
     IN  answers' = Append(answers,
           [tool |-> r.tool,
            error |-> r.tool = "run_probe" /\ ~r.found,
            found |-> r.found])
  /\ UNCHANGED <<commandLine, pc, result, code, output, screen, hungup, requests, client>>

\* A probe whose helper keeps the pipe of systemctl does not come back.
Stuck ==
  /\ pc = "serving" /\ Len(answers) < Len(requests)
  /\ requests[Len(answers) + 1].tool \in {"lookup", "run_probe"}
  /\ pc' = "stuck"
  /\ UNCHANGED <<commandLine, result, code, output, screen, hungup, wire>>

\* service.waiting() ends with the client.
Disconnected ==
  /\ pc = "serving" /\ ~client
  /\ result' = "Ok" /\ pc' = "return"
  /\ UNCHANGED <<commandLine, code, output, screen, hungup, wire>>

Server == Serve \/ Answer \/ Disconnected

-----------------------------------------------------------------------------
(* The environment *)

Request ==
  /\ client /\ pc = "serving" /\ Len(requests) < MaxRequests
  /\ \E r \in [tool : Tools, found : BOOLEAN] : requests' = Append(requests, r)
  /\ UNCHANGED <<commandLine, pc, result, code, output, screen, hungup, answers, client>>

Leave ==
  /\ client /\ pc \in {"serve", "serving", "stuck"}
  /\ client' = FALSE
  /\ UNCHANGED <<commandLine, pc, result, code, output, screen, hungup, requests, answers>>

\* stderr is that terminal, or goes elsewhere.
HangUp ==
  /\ ~hungup /\ pc \in {"raw", "enter", "draw", "event", "capture", "restore", "return"}
  /\ hungup' = TRUE
  /\ sink' \in {sink, "failing"}
  /\ UNCHANGED <<commandLine, pc, result, code, stdout, stderr, screen, wire>>

\* A disk fills, or a reader leaves.
LoseStderr ==
  /\ pc # "exited" /\ sink = "open"
  /\ sink' \in {"failing", "left"}
  /\ UNCHANGED <<commandLine, pc, result, code, stdout, stderr, screen, hungup, wire>>

Next == Main \/ Interactive \/ Panic \/ Server \/ Stuck \/ Request \/ Leave \/ HangUp \/ LoseStderr

Spec == Init /\ [][Next]_vars

\* The program's threads are scheduled.
FairSpec == Spec /\ WF_vars(Main) /\ WF_vars(Interactive) /\ WF_vars(Server)

-----------------------------------------------------------------------------
(* Properties *)

\* What was asked for is on stdout, unless its reader left first.
Shown ==
  \/ command.name \in {"tui", "mcp", "none"} /\ stdout = {}
  \/ /\ command.name \in {"ask", "toc", "list"} \/ command.found
     /\ stdout = {IF command.json THEN "json" ELSE "text"} \/ stdout = {"cut"}
     /\ command.name = "ask" => stderr = {"summary"}

\* Nothing was found, and who is not told so on stdout is told on stderr.
NotFoundTold ==
  /\ ~command.found /\ command.name \in {"search", "probe", "lookup"}
  /\ stdout # {} \/ stderr = {"not found"} \/ sink = "left"

UsageTold == stdout = {} /\ (stderr = {"usage"} \/ sink # "open")

ErrorTold == "error" \in stderr

PanicTold ==
  sink # "open" \/ (stderr = {"message"} /\ command.name \in {"tui", "none"})

(* CodeTells: what a script may conclude from the exit code.  0: what was  *)
(* asked for is on stdout.  1: nothing was found.  2: usage, and stdout is *)
(* empty.  3: an error is told on stderr.  What is not told was lost       *)
(* because stderr does not take it, and only then, or in the interactive   *)
(* mode, does the program panic (main.rs:70, README.md:66).                *)
CodeTells ==
  pc = "exited" =>
    /\ code = SUCCESS  => Shown
    /\ code = NO_MATCH => NotFoundTold
    /\ code = USAGE    => UsageTold
    /\ code = INTERNAL => ErrorTold
    /\ code = PANIC    => PanicTold

(* TerminalGivenBack: the shell gets its terminal back as it was: whichever *)
(* step of the setup or of the loop fails, and after a panic, unless it is  *)
(* gone.                                                                    *)
TerminalGivenBack == (pc = "exited" /\ ~hungup) => term = Normal

(* MouseFollows: while the loop waits for an event, the terminal captures *)
(* the mouse if and only if the App says it does: otherwise the App would *)
(* show "mouse:off" and the clicks would still come, or the reverse.      *)
MouseFollows ==
  (pc = "event" /\ ~hungup) => (term.mouse = app.mouse /\ term.raw /\ term.alternate)

(* Serves: a client that stays gets an answer to every request, unless a *)
(* probe does not come back, which stops the service for all.            *)
Serves ==
  \A i \in 1..MaxRequests :
    (client /\ Len(requests) >= i) ~> (Len(answers) >= i \/ ~client \/ pc = "stuck")
=============================================================================
