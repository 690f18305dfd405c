--------------------------- MODULE ProgramProofs ---------------------------
(***************************************************************************)
(* The safety of a run of the program, proved for every number of requests *)
(* of the client.                                                          *)
(***************************************************************************)
EXTENDS Program, TLAPS

-----------------------------------------------------------------------------
(* The invariant *)

Places == {"main", "write", "hook", "raw", "enter", "draw", "event", "capture", "restore",
           "serve", "serving", "stuck", "return", "exited"}

Terminals == [raw : BOOLEAN, alternate : BOOLEAN, mouse : BOOLEAN, cursor : BOOLEAN]

\* Which commands come where.
InTui == {"hook", "raw", "enter", "draw", "event", "capture", "restore"}
InServer == {"serve", "serving", "stuck"}

TypeInv ==
  /\ command \in [name : Commands, found : BOOLEAN, json : BOOLEAN]
  /\ pc \in Places
  /\ sink \in Sinks
  /\ term \in Terminals
  /\ hungup \in BOOLEAN
  /\ captured \in BOOLEAN
  /\ app \in [mouse : BOOLEAN, quit : BOOLEAN]

\* Before raw mode and in the server the terminal is the shell's, after
\* restore() it is so again.
BorrowInv ==
  /\ pc \in {"main", "write", "hook", "raw"} \cup InServer => term = Normal
  /\ pc \in {"return", "exited"} => term = Normal \/ hungup

\* In the loop the terminal is in raw mode and on the alternate screen, the
\* mouse is as the loop thinks, and but for the moment before it looks, as
\* the App thinks.
LoopInv ==
  /\ pc \in {"raw", "enter"} => captured /\ app.mouse
  /\ pc \in {"main", "hook"} => captured /\ app.mouse
  /\ pc = "enter" /\ ~hungup => term.raw
  /\ pc \in {"draw", "event", "capture"} /\ ~hungup =>
       term.raw /\ term.alternate /\ term.mouse = captured
  /\ pc \in {"draw", "event"} => captured = app.mouse

\* Nothing is written before the end, and what the end is.
EndInv ==
  /\ pc # "exited" => stdout = {}
  /\ pc \notin {"write", "exited"} => stderr = {}
  /\ pc = "write" => command.name = "ask" /\ stderr = {"summary"}
  /\ pc \in InTui \cup InServer \cup {"return"} => command.name \in {"tui", "mcp", "none"}
  /\ pc \in InTui => command.name # "mcp"

Inv == TypeInv /\ BorrowInv /\ LoopInv /\ EndInv /\ CodeTells

-----------------------------------------------------------------------------
(* Escape sequences *)

\* What all sequences of a change have done.
LEMMA AllSentDoes ==
  ASSUME term \in Terminals, NEW on \in BOOLEAN
  PROVE  /\ AllSent([mouse |-> on]) \in Terminals
         /\ AllSent([mouse |-> on]).raw = term.raw
         /\ AllSent([mouse |-> on]).alternate = term.alternate
         /\ AllSent([mouse |-> on]).mouse = on
BY DEF AllSent, Terminals

LEMMA AllSentEnters ==
  ASSUME term \in Terminals
  PROVE  LET entered == AllSent([alternate |-> TRUE, mouse |-> TRUE])
         IN  /\ entered \in Terminals
             /\ entered.raw = term.raw /\ entered.alternate /\ entered.mouse
BY DEF AllSent, Terminals

\* Whatever is sent of a change, the terminal is one.
LEMMA SentIsTerminal ==
  ASSUME term \in Terminals
  PROVE  /\ Sent([alternate |-> TRUE, mouse |-> TRUE]) \subseteq Terminals
         /\ Sent([cursor |-> FALSE]) \subseteq Terminals
<1>1. ASSUME NEW t \in Sent([alternate |-> TRUE, mouse |-> TRUE])
      PROVE  t \in Terminals
  <2>. DEFINE changes == [alternate |-> TRUE, mouse |-> TRUE]
  <2>1. PICK s \in SUBSET DOMAIN changes :
               t = [a \in DOMAIN term |-> IF a \in s THEN changes[a] ELSE term[a]]
    BY <1>1 DEF Sent
  <2>2. s \subseteq {"alternate", "mouse"}
    BY <2>1
  <2>. QED  BY <2>1, <2>2 DEF Terminals
<1>2. ASSUME NEW t \in Sent([cursor |-> FALSE])
      PROVE  t \in Terminals
  <2>. DEFINE changes == [cursor |-> FALSE]
  <2>1. PICK s \in SUBSET DOMAIN changes :
               t = [a \in DOMAIN term |-> IF a \in s THEN changes[a] ELSE term[a]]
    BY <1>2 DEF Sent
  <2>2. s \subseteq {"cursor"}
    BY <2>1
  <2>. QED  BY <2>1, <2>2 DEF Terminals
<1>. QED  BY <1>1, <1>2

LEMMA RestoredIsTerminal ==
  ASSUME term \in Terminals
  PROVE  Restored \in Terminals /\ (Restored = Normal \/ hungup)
BY DEF Restored, Normal, Terminals

-----------------------------------------------------------------------------
(* The invariant holds at first and after each step. *)

LEMMA InvInit == Init => Inv
<1>. SUFFICES ASSUME Init PROVE Inv
  OBVIOUS
<1>1. TypeInv
  BY DEF Init, TypeInv, Places, Terminals, Normal
<1>2. BorrowInv /\ LoopInv /\ EndInv /\ CodeTells
  BY DEF Init, BorrowInv, LoopInv, EndInv, CodeTells, InTui, InServer
<1>. QED  BY <1>1, <1>2 DEF Inv

\* Whatever is written, and however it fails.
LEMMA WriteOutKeeps == Inv /\ WriteOut => Inv'
<1>. SUFFICES ASSUME Inv, WriteOut PROVE Inv'
  OBVIOUS
<1>. USE DEF Inv, TypeInv, EndInv, commandLine, screen, wire
<1>1. /\ command' = command /\ sink' = sink /\ pc' = "exited"
      /\ UNCHANGED <<commandLine, result, screen, hungup, wire>>
  BY DEF WriteOut, WriteStdout, WriteStderr, Tells, Panics, Exit
<1>2. TypeInv' /\ BorrowInv' /\ LoopInv' /\ EndInv'
  <2>1. BorrowInv' /\ LoopInv'
    BY <1>1 DEF WriteOut, BorrowInv, LoopInv, InTui, InServer
  <2>. QED  BY <1>1, <2>1 DEF Places, InTui, InServer
<1>3. command.name \in {"ask", "toc", "search", "list", "probe", "lookup"}
  BY DEF WriteOut
<1>4. /\ stdout = {} /\ (command.name = "ask" => stderr = {"summary"})
      /\ command.name # "ask" => stderr = {}
  BY <1>3 DEF WriteOut
<1>5. CodeOf(command) \in {SUCCESS, NO_MATCH} /\ SUCCESS # NO_MATCH
  BY DEF CodeOf, SUCCESS, NO_MATCH
<1>6. CodeOf(command) = SUCCESS =>
        /\ command.name \in {"ask", "toc", "list"} \/ command.found
        /\ OutOf(command) = [to |-> "stdout", what |-> IF command.json THEN "json" ELSE "text"]
  <2>. SUFFICES ASSUME CodeOf(command) = SUCCESS
                PROVE  /\ command.name \in {"ask", "toc", "list"} \/ command.found
                       /\ OutOf(command) = [to |-> "stdout",
                                           what |-> IF command.json THEN "json" ELSE "text"]
    OBVIOUS
  <2>1. command.found \/ command.name \notin {"search", "probe", "lookup"}
    BY DEF CodeOf, SUCCESS, NO_MATCH
  <2>. QED  BY <1>3, <2>1 DEF OutOf
<1>7. CodeOf(command) = NO_MATCH =>
        ~command.found /\ command.name \in {"search", "probe", "lookup"}
  BY DEF CodeOf, SUCCESS, NO_MATCH
<1>8. OutOf(command).to = "stderr" =>
        OutOf(command).what = "not found" /\ command.name # "ask"
  BY DEF OutOf
<1>9. CodeTells'
  <2>. USE DEF CodeTells, SUCCESS, NO_MATCH, USAGE, INTERNAL, PANIC
  <2>1. CASE code' = INTERNAL /\ "error" \in stderr'
    BY <2>1 DEF ErrorTold
  <2>2. CASE code' = PANIC /\ sink # "open"
    BY <1>1, <2>2 DEF PanicTold
  <2>3. CASE /\ OutOf(command).to = "stdout" /\ code' = CodeOf(command)
             /\ stdout' \in {{OutOf(command).what}, {"cut"}} /\ stderr' = stderr
    <3>1. CodeOf(command) = SUCCESS => Shown'
      BY <1>1, <1>4, <1>6, <2>3 DEF Shown
    <3>2. CodeOf(command) = NO_MATCH => NotFoundTold'
      BY <1>1, <1>7, <2>3 DEF NotFoundTold
    <3>. QED  BY <1>5, <2>3, <3>1, <3>2
  <2>4. CASE /\ OutOf(command).to = "stderr" /\ code' = CodeOf(command)
             /\ sink = "left" \/ stderr' = stderr \cup {OutOf(command).what}
    <3>1. CodeOf(command) # SUCCESS
      BY <1>6, <2>4
    <3>2. stderr = {}
      BY <1>4, <1>8, <2>4
    <3>3. sink = "left" \/ stderr' = {"not found"}
      BY <1>8, <2>4, <3>2
    <3>4. CodeOf(command) = NO_MATCH => NotFoundTold'
      BY <1>1, <1>7, <3>3 DEF NotFoundTold
    <3>. QED  BY <1>5, <2>4, <3>1, <3>4
  <2>. QED
    BY <1>1, <2>1, <2>2, <2>3, <2>4
    DEF WriteOut, WriteStdout, WriteStderr, Tells, Panics, Exit
<1>. QED  BY <1>2, <1>9

\* The steps of main.
LEMMA MainKeeps == Inv /\ Main => Inv'
<1>. SUFFICES ASSUME Inv, Main PROVE Inv'
  OBVIOUS
<1>. USE DEF Inv, TypeInv, EndInv, commandLine, screen, wire
<1>1. CASE Refuse
  <2>1. TypeInv' /\ BorrowInv' /\ LoopInv' /\ EndInv'
    BY <1>1 DEF Refuse, Tells, Panics, Exit, Places, BorrowInv, LoopInv, InTui, InServer
  <2>2. CodeTells'
    <3>1. CASE code' = USAGE /\ UsageTold'
      BY <3>1 DEF CodeTells, SUCCESS, NO_MATCH, USAGE, INTERNAL, PANIC
    <3>2. CASE code' = INTERNAL /\ ErrorTold'
      BY <3>2 DEF CodeTells, SUCCESS, NO_MATCH, USAGE, INTERNAL, PANIC
    <3>3. CASE code' = PANIC /\ PanicTold'
      BY <3>3 DEF CodeTells, SUCCESS, NO_MATCH, USAGE, INTERNAL, PANIC
    <3>. QED
      BY <1>1, <3>1, <3>2, <3>3
      DEF Refuse, Tells, Panics, Exit, UsageTold, ErrorTold, PanicTold
  <2>. QED  BY <2>1, <2>2
<1>2. CASE Dispatch
  <2>1. TypeInv' /\ BorrowInv' /\ LoopInv' /\ EndInv'
    BY <1>2 DEF Dispatch, output, Places, BorrowInv, LoopInv, InTui, InServer
  <2>2. CodeTells'
    BY <1>2 DEF Dispatch, CodeTells
  <2>. QED  BY <2>1, <2>2
<1>3. CASE Summarize
  <2>1. TypeInv' /\ BorrowInv' /\ LoopInv' /\ EndInv'
    BY <1>3 DEF Summarize, Tells, Panics, Exit, Places, BorrowInv, LoopInv, InTui, InServer
  <2>2. CodeTells'
    BY <1>3 DEF Summarize, Tells, Panics, Exit, CodeTells, PanicTold,
                SUCCESS, NO_MATCH, USAGE, INTERNAL, PANIC
  <2>. QED  BY <2>1, <2>2
<1>4. CASE WriteOut
  BY <1>4, WriteOutKeeps
<1>5. CASE Report
  <2>1. TypeInv' /\ BorrowInv' /\ LoopInv' /\ EndInv'
    BY <1>5 DEF Report, Tells, Panics, Exit, Places, BorrowInv, LoopInv, InTui, InServer
  <2>2. CodeTells'
    BY <1>5 DEF Report, Tells, Panics, Exit, CodeTells, Shown, ErrorTold, PanicTold,
                SUCCESS, NO_MATCH, USAGE, INTERNAL, PANIC
  <2>. QED  BY <2>1, <2>2
<1>. QED  BY <1>1, <1>2, <1>3, <1>4, <1>5 DEF Main

\* The steps of the interactive mode.  None of them exits, but for a panic.
LEMMA InteractiveKeeps == Inv /\ (Interactive \/ Panic) => Inv'
<1>. SUFFICES ASSUME Inv, Interactive \/ Panic PROVE Inv'
  OBVIOUS
<1>. USE DEF Inv, TypeInv, commandLine, output, wire
<1>1. CASE SetHook
  BY <1>1 DEF SetHook, screen, Places, BorrowInv, LoopInv, EndInv, CodeTells, InTui, InServer
<1>2. CASE EnableRaw
  <2>1. TypeInv'
    BY <1>2 DEF EnableRaw, Places, Terminals
  <2>2. BorrowInv' /\ EndInv' /\ CodeTells'
    BY <1>2 DEF EnableRaw, BorrowInv, EndInv, CodeTells, InTui, InServer
  <2>3. LoopInv'
    BY <1>2 DEF EnableRaw, LoopInv, Terminals
  <2>. QED  BY <2>1, <2>2, <2>3
<1>3. CASE Enter
  <2>1. TypeInv'
    BY <1>3, AllSentEnters, SentIsTerminal DEF Enter, Fail, Places
  <2>2. BorrowInv' /\ EndInv' /\ CodeTells'
    BY <1>3 DEF Enter, Fail, BorrowInv, EndInv, CodeTells, InTui, InServer
  <2>3. LoopInv'
    BY <1>3, AllSentEnters DEF Enter, Fail, LoopInv
  <2>. QED  BY <2>1, <2>2, <2>3
<1>4. CASE Draw
  <2>1. TypeInv'
    BY <1>4, SentIsTerminal DEF Draw, Fail, Places, Terminals
  <2>2. BorrowInv' /\ EndInv' /\ CodeTells'
    BY <1>4 DEF Draw, Fail, BorrowInv, EndInv, CodeTells, InTui, InServer
  <2>3. LoopInv'
    BY <1>4 DEF Draw, Fail, LoopInv, Terminals
  <2>. QED  BY <2>1, <2>2, <2>3
<1>5. CASE Handle
  BY <1>5 DEF Handle, Fail, Places, BorrowInv, LoopInv, EndInv, CodeTells, InTui, InServer
<1>6. CASE Capture
  <2>1. TypeInv'
    BY <1>6, AllSentDoes DEF Capture, Fail, Places
  <2>2. BorrowInv' /\ EndInv' /\ CodeTells'
    BY <1>6 DEF Capture, Fail, BorrowInv, EndInv, CodeTells, InTui, InServer
  <2>3. LoopInv'
    BY <1>6, AllSentDoes DEF Capture, Fail, LoopInv
  <2>. QED  BY <2>1, <2>2, <2>3
<1>7. CASE Restore
  BY <1>7, RestoredIsTerminal
     DEF Restore, Places, BorrowInv, LoopInv, EndInv, CodeTells, InTui, InServer
<1>8. CASE Panic
  <2>1. TypeInv' /\ BorrowInv' /\ LoopInv' /\ EndInv'
    BY <1>8, RestoredIsTerminal
       DEF Panic, Exit, Places, BorrowInv, LoopInv, EndInv, InTui, InServer
  <2>2. ~hungup => ~term'.alternate
    <3>1. term' = Restored
      BY <1>8 DEF Panic
    <3>2. Normal.alternate = FALSE
      BY DEF Normal
    <3>. QED  BY <3>1, <3>2, RestoredIsTerminal
  <2>3. sink' = sink /\ (sink = "open" => stderr' = {"message"})
    BY <1>8, <2>2 DEF Panic
  <2>4. CodeTells'
    <3>1. code' = PANIC /\ command' = command /\ command.name \in {"tui", "none"}
      BY <1>8 DEF Panic, Exit, EndInv, InTui
    <3>2. PanicTold'
      BY <2>3, <3>1 DEF PanicTold
    <3>. QED  BY <3>1, <3>2 DEF CodeTells, SUCCESS, NO_MATCH, USAGE, INTERNAL, PANIC
  <2>. QED  BY <2>1, <2>4
<1>. QED  BY <1>1, <1>2, <1>3, <1>4, <1>5, <1>6, <1>7, <1>8 DEF Interactive

\* The steps of the server, and of the environment.
LEMMA ServerKeeps == Inv /\ (Server \/ Stuck) => Inv'
BY DEF Server, Serve, Answer, Disconnected, Stuck, Inv, TypeInv, Places, BorrowInv, LoopInv,
       EndInv, CodeTells, InTui, InServer, commandLine, output, screen, wire

LEMMA EnvironmentKeeps == Inv /\ (Request \/ Leave \/ HangUp \/ LoseStderr) => Inv'
BY DEF Request, Leave, HangUp, LoseStderr, Sinks, Inv, TypeInv, BorrowInv, LoopInv, EndInv, CodeTells, InServer,
       commandLine, output, screen, wire

LEMMA InvNext == Inv /\ [Next]_vars => Inv'
<1>1. Inv /\ UNCHANGED vars => Inv'
  <2>. SUFFICES ASSUME Inv, UNCHANGED vars PROVE Inv'
    OBVIOUS
  <2>. USE DEF vars, commandLine, output, screen, wire
  <2>1. TypeInv' /\ BorrowInv' /\ LoopInv' /\ EndInv'
    BY DEF Inv, TypeInv, BorrowInv, LoopInv, EndInv
  <2>2. CodeTells'
    BY DEF Inv, CodeTells, Shown, NotFoundTold, UsageTold, ErrorTold, PanicTold
  <2>. QED  BY <2>1, <2>2 DEF Inv
<1>. QED  BY <1>1, MainKeeps, InteractiveKeeps, ServerKeeps, EnvironmentKeeps DEF Next

LEMMA InvAlways == Spec => []Inv
BY InvInit, InvNext, PTL DEF Spec

-----------------------------------------------------------------------------
(* The theorems *)

(* Whatever fails on the way, and after a panic: the shell's terminal is as *)
(* it was when the program is gone (tui/mod.rs:20-69).                      *)
THEOREM GivesTerminalBack == Spec => []TerminalGivenBack
<1>1. Inv => TerminalGivenBack
  BY DEF Inv, BorrowInv, TerminalGivenBack
<1>. QED  BY <1>1, InvAlways, PTL

(* The mouse is captured as the App says, whenever the loop waits for an *)
(* event (tui/mod.rs:57-64).                                             *)
THEOREM MouseIsFollowed == Spec => []MouseFollows
<1>1. Inv => MouseFollows
  BY DEF Inv, LoopInv, MouseFollows
<1>. QED  BY <1>1, InvAlways, PTL

(* The exit code and the streams tell what happened, for every command and *)
(* every failure (main.rs:70-212).                                         *)
THEOREM CodesTell == Spec => []CodeTells
<1>1. Inv => CodeTells
  BY DEF Inv
<1>. QED  BY <1>1, InvAlways, PTL
=============================================================================
